--------------------------- MODULE IpcReplyProofs ---------------------------
(* What was done and answered is what the page is told, whatever the service *)
(* says in its reply.                                                        *)
(*                                                                           *)
(* The argument: the types that the service's models give a field go through *)
(* the reading of the client into the types of the response contract and of  *)
(* the bridge's check, channel by channel; the call hands the data on.       *)
EXTENDS IpcBoundaryProofs

\* A reply of a model: every object has the fields of its model, each of its type and there.
Speaks(fields, model) ==
  /\ DOMAIN fields = DOMAIN model
  /\ \A f \in DOMAIN model : fields[f] \in model[f] /\ fields[f] # Absent
Replies(r, models) ==
  DOMAIN r = DOMAIN models /\ \A s \in DOMAIN models : Speaks(r[s], models[s])

\* What the handler returns has the fields a schema of the contracts lists and no other; it
\* satisfies a check of the bridge.
Serves(fields, schema) ==
  DOMAIN fields = DOMAIN schema /\ \A f \in DOMAIN schema : fields[f] \in schema[f]
Passes(fields, check) == \A f \in DOMAIN check : f \in DOMAIN fields /\ fields[f] \in check[f]

(* The readings of the clients, and the types of the contracts and of the    *)
(* bridge that take their results.                                           *)
LEMMA TextsShow ==
  /\ \A v \in Api!Trimmed : /\ v \in Text(0) /\ v \in Text(1) /\ v \in Trimmed
                            /\ Or(v, Str("t8")) \in Text(1) /\ Or(v, Str("t8")) \in Trimmed
  /\ \A v \in Api!Text(1) : v \in Text(1)
  /\ \A v \in Api!Text(3) : v \in Text(3) /\ v \in Trimmed
  /\ \A v \in Api!Url : v \in Url /\ v \in Trimmed
<1>1. Str("t8") \in Text(1) /\ Str("t8") \in Trimmed
  BY DEF Trimmed, Text, Length, Str
<1>2. /\ Trimmed \subseteq Text(1) /\ Text(1) \subseteq Text(0)
      /\ Text(3) \subseteq Text(1) /\ Str("blank") \notin Text(3)
      /\ Url \subseteq Trimmed
  <2>1. /\ Trimmed \subseteq Text(1) /\ Text(1) \subseteq Text(0) /\ Text(3) \subseteq Text(1)
    BY MoreTexts DEF Trimmed, Text, Length
  <2>2. Str("blank") \notin Text(3)
    BY DEF Text, Length, Str, Words
  <2>3. Url \subseteq Trimmed
    BY DEF Url, Trimmed, Text, Length, Str
  <2> QED
    BY <2>1, <2>2, <2>3
<1>3. Api!Url = Url
  BY SameWords DEF Api!Url, Url
<1> QED
  BY <1>1, <1>2, <1>3, SameWords DEF Or, Trimmed

LEMMA PossibleTextsShow ==
  /\ \A v \in Api!OrNull(Api!Trimmed) :
       /\ v \in OrNull(Text(1)) /\ v \in Optional(OrNull(Text(1))) /\ v \in Nullish(Trimmed)
       /\ OrElseNull(v) \in OrNull(Text(0)) /\ OrElseNull(v) \in OrNull(Text(1))
       /\ OrElseNull(v) \in OrNull(Trimmed) /\ OrElseNull(v) \in Nullish(Trimmed)
       /\ OrElseNull(v) \in Optional(OrNull(Text(0)))
       /\ OrElseNull(v) \in Optional(OrNull(Text(1)))
       /\ Coalesce(v, Null) \in OrNull(Text(1))
  /\ \A v \in Api!OrNull(Api!Url) :
       OrElseNull(v) \in OrNull(Url) /\ OrElseNull(v) \in Nullish(Trimmed)
  /\ Null \in Optional(OrNull(Text(1))) /\ Null \in Nullish(Trimmed)
<1>1. /\ \A v \in Api!OrNull(Api!Trimmed) :
            v = Null \/ (v \in Text(0) /\ v \in Text(1) /\ v \in Trimmed)
      /\ \A v \in Api!OrNull(Api!Url) : v = Null \/ (v \in Url /\ v \in Trimmed)
  BY TextsShow, SameKinds DEF OrNull
<1> QED
  BY <1>1 DEF OrNull, Optional, Own, Nullish, OrElseNull, Or, Coalesce

LEMMA TimesShow ==
  /\ \A v \in Api!Iso : /\ toIsoString(v) \in IsoTimestampSchema /\ toIsoString(v) \in Iso
                        /\ toIsoString(v) \in Nullish(Iso)
  /\ \A v \in Api!OrNull(Api!Iso) :
       /\ toIsoString(v) \in NullableIsoTimestampSchema
       /\ toIsoString(v) \in OrNull(IsoTimestampSchema) /\ toIsoString(v) \in OrNull(Iso)
       /\ toIsoString(v) \in Optional(OrNull(IsoTimestampSchema))
       /\ toIsoString(v) \in Nullish(Iso)
<1>1. Str("iso") \notin Falsy /\ Iso = {Str("iso")} /\ Api!Iso = Iso
  BY SameWords DEF Falsy, Str, Absent, Undefined, Null, False, Num, Iso
<1> QED
  BY <1>1 DEF toIsoString, IsoTimestampSchema, NullableIsoTimestampSchema, OrNull, Optional, Own,
     Nullish

LEMMA FlagsShow ==
  /\ \A v : Boolean(v) \in Bool /\ Boolean(v) \in Optional(Bool)
  /\ \A v : (IF v \in Bool THEN v ELSE Null) \in Own(OrNull(Bool))
  /\ \A v : (IF v \in Bool THEN v ELSE Null) \in Optional(OrNull(Bool))
BY DEF Boolean, Bool, Own, OrNull, Optional

LEMMA NumbersShow ==
  /\ \A v \in Api!IntFrom(0) : /\ v \in IntFrom(0) /\ v \in Integer
                               /\ IntegerOr(v, Num(0)) \in IntFrom(0)
                               /\ Or(v, Num(0)) \in IntFrom(0)
  /\ \A v \in Api!IntFrom(1) : v \in IntFrom(1) /\ v \in Integer /\ v \in OrNull(IntFrom(1))
  /\ \A v \in Api!IntIn(0, 100) : IntegerOr(v, Num(0)) \in IntIn(0, 100)
  /\ \A v \in Api!OrNull(Api!IntFrom(0)) :
       /\ IntegerOr(v, Null) \in Optional(OrNull(IntFrom(0)))
       /\ IntegerOr(v, Num(0)) \in Optional(IntFrom(0))
  /\ \A v \in Api!OrNull(Api!IntIn(0, 100)) :
       IntegerOr(v, Num(0)) \in Optional(IntIn(0, 100))
  /\ Num(0) \in IntFrom(0) /\ Num(0) \in Optional(IntFrom(0))
<1>1. /\ IntFrom(0) \subseteq Integer /\ IntFrom(1) \subseteq Integer
      /\ IntIn(0, 100) \subseteq Integer
      /\ Num(0) \in IntFrom(0) /\ Num(0) \in IntIn(0, 100)
  BY DEF IntFrom, IntIn, Integer, Numbers, Largest, Num
<1>2. Null \notin Integer
  BY DEF Null, Integer, Num
<1> QED
  BY <1>1, <1>2, SameKinds DEF IntegerOr, Or, OrNull, Optional, Own

LEMMA ObjectsShow ==
  /\ \A v, s : Rows(v, s) \in ArrayOf(s)
  /\ \A v, s : Part(v, s) \in OrNull({Object(s)})
  /\ \A v \in Api!OrNull({Api!Object("any")}) :
       OrElseNull(v) \in OrNull(AnyObject) /\ OrEmpty(v) \in AnyObject
  /\ \A v \in {Api!Object("any")} : /\ OrEmpty(v) \in AnyObject /\ OrEmpty(v) # Null
                                    /\ OrElseNull(v) \in AnyObject
  /\ \A v \in {Api!Object("any"), Api!Object("labels")} : OrEmpty(v) \in AnyObject
  /\ \A v \in {Api!Object("counts")} : OrEmpty(v) \in {Object("counts")}
  /\ \A v : (IF v \in AnyObject THEN v ELSE Object("any")) \in Optional(AnyObject)
<1>1. /\ Object("any") \in AnyObject /\ Object("labels") \in AnyObject
      /\ Object("counts") \in AnyObject
  BY DEF AnyObject
<1>2. \A s : Object(s) \notin Falsy
  BY DEF Falsy, Str, Absent, Undefined, Null, False, Num, Object
<1>3. Null \in Falsy /\ Null \notin AnyObject
  BY DEF Falsy, Null, AnyObject, Object
<1> QED
  BY <1>1, <1>2, <1>3, SameKinds
     DEF Rows, ArrayOf, OrElseNull, OrEmpty, Or, OrNull, Own, Optional, Part

LEMMA ArraysShow ==
  /\ \A s \in Shapes : \A v \in ArrayOf(s) : v \in AnyArray
  /\ Api!Texts = Texts
  /\ \A v \in Api!Texts : /\ v \in Strings /\ v \in AnyArray
                          /\ Items(v) \in Texts /\ Items(v) \in Strings
                          /\ Items(v) \in AnyArray
  /\ \A v \in Api!NonEmpty(Api!Roles) : v \in NonEmpty(Roles)
  /\ \A v \in Api!ArrayOf("any") : Items(v) \in ArrayOf("any") /\ Items(v) \in AnyArray
<1>1. /\ Texts \subseteq Strings /\ Strings \subseteq AnyArray
      /\ EmptyArray \in Texts /\ Array("any") \in AnyArray
      /\ \A s \in Shapes : Array(s) \in AnyArray
  BY DEF AnyArray, Strings, Texts, Roles
<1>2. Api!Texts = Texts
  BY SameKinds DEF Api!Texts, Texts, Api!Array, Array
<1> QED
  BY <1>1, <1>2, SameKinds DEF Items, ArrayOf

LEMMA WordsShow ==
  /\ \A ws : Api!Enum(ws) = Enum(ws)
  /\ Api!QcSeverity = Enum({"blocking", "warning"})
  /\ Api!QcFindingStatus = QcFindingStatusSchema /\ Api!QcReportStatus = Enum({"passed", "failed"})
  /\ Api!NotificationType = NotificationTypeSchema
  /\ Api!NotificationSeverity = Enum({"info", "warning", "error"})
  /\ Api!NotificationStatus = Enum({"pending", "sent", "failed"})
  /\ Api!IncidentSeverity = IncidentSeveritySchema
  /\ Api!IntegrationStatusClass = IntegrationStatusClassSchema
  /\ Api!IntegrationRecommendedAction = IntegrationRecommendedActionSchema
  /\ Api!DropboxReadinessStatus = DropboxReadinessStatusSchema
  /\ Api!StorageHandoffStatus =
       Enum({"queued", "in_progress", "paused", "completed", "failed", "canceled"})
  /\ \A v \in Api!IntakeSessionStatus : v \in Text(1)
  /\ \A v \in Api!Enum({"dropbox", "airtable", "smtp"}) :
       v \in Text(1) /\ v \in Trimmed /\ v \in Enum({"dropbox", "airtable", "smtp"})
  /\ \A v \in Api!OrNull(Api!IncidentFailureClass) :
       OrElseNull(v) \in OrNull(IncidentFailureClassSchema)
  /\ \A v \in Api!IncidentRemediationStatus :
       Or(v, Str("open")) \in IncidentRemediationStatusSchema
<1>1. /\ Api!IncidentFailureClass = IncidentFailureClassSchema
      /\ Api!IncidentRemediationStatus = IncidentRemediationStatusSchema
  BY SameWords DEF Api!IncidentFailureClass, IncidentFailureClassSchema,
     Api!IncidentRemediationStatus, IncidentRemediationStatusSchema
<1>2. Str("open") \in IncidentRemediationStatusSchema
  BY DEF IncidentRemediationStatusSchema, Enum
<1>3. \A w \in {"initiated", "manifest_ready", "transfer_completed", "dropbox", "airtable", "smtp"} :
         Str(w) \in Text(1) /\ Str(w) \in Trimmed
  BY DEF Text, Words, Trimmed, Str
<1>4. /\ \A v \in Api!IntakeSessionStatus : v \in Text(1)
      /\ \A v \in Enum({"dropbox", "airtable", "smtp"}) : v \in Text(1) /\ v \in Trimmed
  BY <1>3, SameWords DEF Api!IntakeSessionStatus, Enum
<1>5. /\ Api!QcSeverity = Enum({"blocking", "warning"})
      /\ Api!QcFindingStatus = QcFindingStatusSchema
      /\ Api!QcReportStatus = Enum({"passed", "failed"})
      /\ Api!NotificationType = NotificationTypeSchema
      /\ Api!NotificationSeverity = Enum({"info", "warning", "error"})
      /\ Api!NotificationStatus = Enum({"pending", "sent", "failed"})
      /\ Api!IncidentSeverity = IncidentSeveritySchema
      /\ Api!IntegrationStatusClass = IntegrationStatusClassSchema
      /\ Api!IntegrationRecommendedAction = IntegrationRecommendedActionSchema
      /\ Api!DropboxReadinessStatus = DropboxReadinessStatusSchema
      /\ Api!StorageHandoffStatus =
           Enum({"queued", "in_progress", "paused", "completed", "failed", "canceled"})
  BY SameWords DEF Api!QcSeverity, Api!QcFindingStatus, QcFindingStatusSchema, Api!QcReportStatus,
     Api!NotificationType, NotificationTypeSchema, Api!NotificationSeverity,
     Api!NotificationStatus, Api!IncidentSeverity, IncidentSeveritySchema,
     Api!IntegrationStatusClass, IntegrationStatusClassSchema, Api!IntegrationRecommendedAction,
     IntegrationRecommendedActionSchema, Api!DropboxReadinessStatus, DropboxReadinessStatusSchema,
     Api!StorageHandoffStatus
<1> QED
  BY <1>1, <1>2, <1>4, <1>5, SameWords, SameKinds DEF OrElseNull, Or, OrNull

(* A reply's typical values are of their types, where each type has a value  *)
(* that says something.                                                      *)
Solid(T) == \E v \in T : v \notin {Null, Absent, Undefined, EmptyArray}
Whole(model) == \A f \in DOMAIN model : Solid(model[f])

LEMMA PlainIsOfItsType ==
  ASSUME NEW T, Solid(T)
  PROVE  Plain(T \ {Absent}) \in T \ {Absent}
<1> DEFINE S == T \ {Absent}
           found == {i \in DOMAIN Preferred : Preferred[i] \in S}
           first == CHOOSE i \in found : \A j \in found : i <= j
<1>1. CASE found # {}
  <2>1. found \subseteq 1..11
    BY DEF Preferred
  <2>2. \E i \in found : \A j \in found : i <= j
    BY <1>1, <2>1
  <2>3. first \in found
    BY <2>2
  <2>4. Plain(S) = Preferred[first]
    BY <1>1 DEF Plain
  <2> QED
    BY <2>3, <2>4
<1>2. CASE found = {}
  <2>1. \E v \in S : v \notin {Null, Absent, Undefined, EmptyArray}
    BY DEF Solid
  <2>2. Plain(S) = CHOOSE v \in S : v \notin {Null, Absent, Undefined, EmptyArray}
    BY <1>2 DEF Plain
  <2> QED
    BY <2>1, <2>2
<1> QED
  BY <1>1, <1>2

LEMMA SolidTypes ==
  /\ Solid(Api!Trimmed) /\ Solid(Api!Iso) /\ Solid(Api!Url) /\ Solid(Api!Text(1))
  /\ Solid(Api!Text(0)) /\ Solid(Api!Text(3)) /\ Solid(Api!IntFrom(0)) /\ Solid(Api!IntFrom(1))
  /\ Solid(Api!IntIn(0, 100)) /\ Solid(Api!AnyNumber) /\ Solid(Api!Bool)
  /\ Solid(Api!AnyObject) /\ Solid(Api!Texts) /\ Solid(Api!NonEmpty(Api!Roles))
  /\ \A s : Solid({Api!Object(s)})
  /\ \A s : s # "empty" => Solid(Api!ArrayOf(s))
  /\ \A s, t : Solid({Api!Object(s), Api!Object(t)})
  /\ \A w, ws : w \in ws => Solid(Api!Enum(ws))
  /\ \A T : Solid(T) => Solid(Api!OrNull(T)) /\ Solid(Api!Own(T))
<1> DEFINE nothing == {Null, Absent, Undefined, EmptyArray}
<1>1. /\ \A x : Str(x) \notin nothing /\ Num(x) \notin nothing /\ Object(x) \notin nothing
      /\ \A s : s # "empty" => Array(s) \notin nothing
      /\ True \notin nothing
  BY DEF Str, Num, Object, Array, True, Null, Absent, Undefined, EmptyArray
<1>2. \A T : (\E v \in T : v \notin nothing) => Solid(T)
  BY DEF Solid
<1> HIDE DEF nothing
<1>3. /\ Str("t8") \in Trimmed /\ Str("t8") \in Text(1) /\ Str("t8") \in Text(0)
      /\ Str("t8") \in Text(3) /\ Str("iso") \in Iso /\ Str("url") \in Url
  BY DEF Trimmed, Text, Length, Iso, Url, Str
<1>4. /\ Num(1) \in IntFrom(0) /\ Num(1) \in IntFrom(1) /\ Num(1) \in IntIn(0, 100)
      /\ Num(1) \in AnyNumber
  BY DEF IntFrom, IntIn, Integer, AnyNumber, Numbers, Largest
<1>5. /\ True \in Bool /\ Object("any") \in AnyObject /\ Array("texts") \in Texts
      /\ Array("roles") \in NonEmpty(Roles) /\ \A s : Array(s) \in ArrayOf(s)
      /\ \A w, ws : w \in ws => Str(w) \in Enum(ws)
  BY <1>1 DEF Bool, AnyObject, Texts, NonEmpty, Roles, ArrayOf, Enum, EmptyArray, Array
<1>6. Api!AnyNumber = AnyNumber /\ Api!Url = Url
  BY SameWords DEF Api!AnyNumber, AnyNumber, Api!Integer, Integer, Api!Numbers, Numbers, Api!Num,
     Num, Api!Fraction, Fraction, Api!Url, Url
<1>7. \A T : Solid(T) => Solid(Api!OrNull(T)) /\ Solid(Api!Own(T))
  BY SameKinds DEF Solid, OrNull, Own
<1> QED
  BY <1>1, <1>2, <1>3, <1>4, <1>5, <1>6, <1>7, SameWords, SameKinds, ArraysShow

(* The words of the service's enumerations.                                  *)
LEMMA SolidWords ==
  /\ Solid(Api!QcSeverity) /\ Solid(Api!QcFindingStatus) /\ Solid(Api!QcReportStatus)
  /\ Solid(Api!QcReportStatus \cup Api!Enum({"not_run"}))
  /\ Solid(Api!NotificationType) /\ Solid(Api!NotificationSeverity)
  /\ Solid(Api!NotificationStatus) /\ Solid(Api!IncidentSeverity)
  /\ Solid(Api!IncidentFailureClass) /\ Solid(Api!IncidentRemediationStatus)
  /\ Solid(Api!IntegrationStatusClass) /\ Solid(Api!IntegrationRecommendedAction)
  /\ Solid(Api!DropboxReadinessStatus) /\ Solid(Api!IntakeSessionStatus)
  /\ Solid(Api!StorageHandoffStatus) /\ Solid(Api!SubmissionState)
  /\ Solid(Api!Enum({"dropbox", "airtable", "smtp"})) /\ Solid(Api!Enum({"dropbox"}))
  /\ Solid(Api!Enum({"in_app", "email"}))
<1>1. Solid(Api!QcReportStatus) => Solid(Api!QcReportStatus \cup Api!Enum({"not_run"}))
  BY DEF Solid
<1>2. \A w, ws : w \in ws => Solid(Api!Enum(ws))
  BY SolidTypes
<1> QED
  BY <1>1, <1>2 DEF Api!QcSeverity, Api!QcFindingStatus, Api!QcReportStatus, Api!NotificationType,
     Api!NotificationSeverity, Api!NotificationStatus, Api!IncidentSeverity,
     Api!IncidentFailureClass, Api!IncidentRemediationStatus, Api!IntegrationStatusClass,
     Api!IntegrationRecommendedAction, Api!DropboxReadinessStatus, Api!IntakeSessionStatus,
     Api!StorageHandoffStatus, Api!SubmissionState

LEMMA BindingsAreArrays == \A v : Rows(v, "QcPolicyRuleBinding") \in AnyArray
BY ObjectsShow, ArraysShow DEF Shapes

LEMMA UsersShow ==
  /\ Whole(Api!UserResponse)
  /\ \A r : Speaks(r, Api!UserResponse) =>
       Serves(mapUser(r), AuthUserSchema) /\ Passes(mapUser(r), TokenBundle["AuthUser"])
<1>1. Whole(Api!UserResponse)
  BY SolidTypes, SolidWords DEF Whole, Api!UserResponse
<1>2. ASSUME NEW r, Speaks(r, Api!UserResponse)
      PROVE  Serves(mapUser(r), AuthUserSchema)
  BY <1>2, TextsShow, TimesShow, ArraysShow DEF Speaks, Serves, mapUser, AuthUserSchema,
     Api!UserResponse
<1>3. ASSUME NEW r, Speaks(r, Api!UserResponse)
      PROVE  Passes(mapUser(r), TokenBundle["AuthUser"])
  BY <1>3, TextsShow, TimesShow, ArraysShow DEF Speaks, Passes, mapUser, Api!UserResponse,
     TokenBundle
<1> QED
  BY <1>1, <1>2, <1>3

LEMMA NotificationsShow ==
  /\ Whole(Api!NotificationItem)
  /\ \A r : Speaks(r, Api!NotificationItem) =>
       /\ Serves(mapNotification(r), NotificationItemSchema)
       /\ Passes(mapNotification(r), NotificationItem)
<1>1. Whole(Api!NotificationItem)
  BY SolidTypes, SolidWords DEF Whole, Api!NotificationItem
<1>2. ASSUME NEW r, Speaks(r, Api!NotificationItem)
      PROVE  Serves(mapNotification(r), NotificationItemSchema)
  BY <1>2, TextsShow, PossibleTextsShow, TimesShow, FlagsShow, NumbersShow, WordsShow DEF Speaks,
     Serves, mapNotification, NotificationItemSchema, Api!NotificationItem,
     NotificationTypeSchema, NotificationSeveritySchema, NotificationStatusSchema,
     NotificationChannelSchema
<1>3. ASSUME NEW r, Speaks(r, Api!NotificationItem)
      PROVE  Passes(mapNotification(r), NotificationItem)
  BY <1>3, TextsShow, PossibleTextsShow, TimesShow, FlagsShow, NumbersShow, WordsShow DEF Speaks,
     Passes, mapNotification, Api!NotificationItem, NotificationItem, NotificationTypeSchema,
     NotificationSeveritySchema, NotificationStatusSchema, NotificationChannelSchema
<1> QED
  BY <1>1, <1>2, <1>3

LEMMA BindingsShow ==
  /\ Whole(Api!QcPolicyRuleBinding)
  /\ \A r : Speaks(r, Api!QcPolicyRuleBinding) =>
       Serves(mapRuleBinding(r), QcPolicyRuleBindingSchema)
<1>1. Whole(Api!QcPolicyRuleBinding)
  BY SolidTypes, SolidWords DEF Whole, Api!QcPolicyRuleBinding
<1>2. ASSUME NEW r, Speaks(r, Api!QcPolicyRuleBinding)
      PROVE  Serves(mapRuleBinding(r), QcPolicyRuleBindingSchema)
  BY <1>2, TextsShow, FlagsShow, ObjectsShow DEF Speaks, Serves, mapRuleBinding,
     QcPolicyRuleBindingSchema, Api!QcPolicyRuleBinding
<1> QED
  BY <1>1, <1>2

LEMMA PoliciesShow ==
  /\ Whole(Api!QcPolicySnapshot)
  /\ \A r : Speaks(r, Api!QcPolicySnapshot) =>
       Serves(mapPolicy(r), QcPolicySnapshotSchema) /\ Passes(mapPolicy(r), PolicySnapshot)
<1>1. Whole(Api!QcPolicySnapshot)
  BY SolidTypes, SolidWords DEF Whole, Api!QcPolicySnapshot
<1>2. ASSUME NEW r, Speaks(r, Api!QcPolicySnapshot)
      PROVE  Serves(mapPolicy(r), QcPolicySnapshotSchema)
  BY <1>2, TextsShow, TimesShow, NumbersShow, ObjectsShow, BindingsAreArrays DEF Speaks, Serves,
     mapPolicy, QcPolicySnapshotSchema, Api!QcPolicySnapshot
<1>3. ASSUME NEW r, Speaks(r, Api!QcPolicySnapshot)
      PROVE  Passes(mapPolicy(r), PolicySnapshot)
  BY <1>3, TextsShow, TimesShow, NumbersShow, ObjectsShow, BindingsAreArrays DEF Speaks, Passes,
     mapPolicy, Api!QcPolicySnapshot, PolicySnapshot
<1> QED
  BY <1>1, <1>2, <1>3

LEMMA RulesShow ==
  /\ Whole(Api!QcRuleDefinition)
  /\ \A r : Speaks(r, Api!QcRuleDefinition) =>
       /\ Serves(mapRuleDefinition(r), QcRuleDefinitionSchema)
       /\ Passes(mapRuleDefinition(r), QcRuleDefinition)
<1>1. Whole(Api!QcRuleDefinition)
  BY SolidTypes, SolidWords DEF Whole, Api!QcRuleDefinition
<1>2. ASSUME NEW r, Speaks(r, Api!QcRuleDefinition)
      PROVE  Serves(mapRuleDefinition(r), QcRuleDefinitionSchema)
  BY <1>2, TextsShow, FlagsShow, WordsShow DEF Speaks, Serves, mapRuleDefinition,
     QcRuleDefinitionSchema, Api!QcRuleDefinition, QcSeveritySchema
<1>3. ASSUME NEW r, Speaks(r, Api!QcRuleDefinition)
      PROVE  Passes(mapRuleDefinition(r), QcRuleDefinition)
  BY <1>3, TextsShow, FlagsShow, WordsShow DEF Speaks, Passes, mapRuleDefinition,
     Api!QcRuleDefinition, QcRuleDefinition, QcSeveritySchema
<1> QED
  BY <1>1, <1>2, <1>3

LEMMA FindingsShow ==
  /\ Whole(Api!QcFinding)
  /\ \A r : Speaks(r, Api!QcFinding) =>
       Serves(mapEvaluationFinding(r), QcFindingSchema)
<1>1. Whole(Api!QcFinding)
  BY SolidTypes, SolidWords DEF Whole, Api!QcFinding
<1>2. ASSUME NEW r, Speaks(r, Api!QcFinding)
      PROVE  Serves(mapEvaluationFinding(r), QcFindingSchema)
  BY <1>2, TextsShow, FlagsShow, ObjectsShow, WordsShow DEF Speaks, Serves, mapEvaluationFinding,
     QcFindingSchema, Api!QcFinding, QcSeveritySchema, QcFindingStatusSchema
<1> QED
  BY <1>1, <1>2

LEMMA AnnotationsShow ==
  /\ Whole(Api!IncidentAnnotationSnapshot)
  /\ \A r : Speaks(r, Api!IncidentAnnotationSnapshot) =>
       /\ Serves(mapAnnotation(r), ObservabilityIncidentsAnnotateData_annotation)
       /\ Passes(mapAnnotation(r), [id |-> Trimmed, createdAt |-> Iso])
<1>1. Whole(Api!IncidentAnnotationSnapshot)
  BY SolidTypes, SolidWords DEF Whole, Api!IncidentAnnotationSnapshot
<1>2. ASSUME NEW r, Speaks(r, Api!IncidentAnnotationSnapshot)
      PROVE  Serves(mapAnnotation(r), ObservabilityIncidentsAnnotateData_annotation)
  BY <1>2, TextsShow, PossibleTextsShow, TimesShow, WordsShow DEF Speaks, Serves, mapAnnotation,
     ObservabilityIncidentsAnnotateData_annotation, Api!IncidentAnnotationSnapshot,
     IncidentSeveritySchema
<1>3. ASSUME NEW r, Speaks(r, Api!IncidentAnnotationSnapshot)
      PROVE  Passes(mapAnnotation(r), [id |-> Trimmed, createdAt |-> Iso])
  BY <1>3, TextsShow, PossibleTextsShow, TimesShow, WordsShow DEF Speaks, Passes, mapAnnotation,
     Api!IncidentAnnotationSnapshot, IncidentSeveritySchema
<1> QED
  BY <1>1, <1>2, <1>3

LEMMA ConfigsShow ==
  /\ Whole(Api!AdminConfigRecord)
  /\ \A r : Speaks(r, Api!AdminConfigRecord) =>
       /\ Serves(mapAdminConfig(r), AdminConfigRecordSchema)
       /\ Passes(mapAdminConfig(r), AdminConfigSnapshot)
<1>1. Whole(Api!AdminConfigRecord)
  BY SolidTypes, SolidWords DEF Whole, Api!AdminConfigRecord
<1>2. ASSUME NEW r, Speaks(r, Api!AdminConfigRecord)
      PROVE  Serves(mapAdminConfig(r), AdminConfigRecordSchema)
  BY <1>2, TextsShow, PossibleTextsShow, TimesShow, FlagsShow, NumbersShow, ObjectsShow DEF
     Speaks, Serves, mapAdminConfig, AdminConfigRecordSchema, Api!AdminConfigRecord
<1>3. ASSUME NEW r, Speaks(r, Api!AdminConfigRecord)
      PROVE  Passes(mapAdminConfig(r), AdminConfigSnapshot)
  BY <1>3, TextsShow, PossibleTextsShow, TimesShow, FlagsShow, NumbersShow, ObjectsShow DEF
     Speaks, Passes, mapAdminConfig, Api!AdminConfigRecord, AdminConfigSnapshot
<1> QED
  BY <1>1, <1>2, <1>3

LEMMA HealthShows ==
  /\ Whole(Api!IntegrationTestResult)
  /\ \A r : Speaks(r, Api!IntegrationTestResult) =>
       /\ Serves(mapIntegrationHealth(r), AdminIntegrationTestDataSchema)
       /\ Passes(mapIntegrationHealth(r), IntegrationHealth)
<1>1. Whole(Api!IntegrationTestResult)
  BY SolidTypes, SolidWords DEF Whole, Api!IntegrationTestResult
<1>2. ASSUME NEW r, Speaks(r, Api!IntegrationTestResult)
      PROVE  Serves(mapIntegrationHealth(r), AdminIntegrationTestDataSchema)
  BY <1>2, TextsShow, PossibleTextsShow, TimesShow, FlagsShow, NumbersShow, WordsShow DEF Speaks,
     Serves, mapIntegrationHealth, AdminIntegrationTestDataSchema, Api!IntegrationTestResult,
     IntegrationStatusClassSchema, IntegrationRecommendedActionSchema
<1>3. ASSUME NEW r, Speaks(r, Api!IntegrationTestResult)
      PROVE  Passes(mapIntegrationHealth(r), IntegrationHealth)
  BY <1>3, TextsShow, PossibleTextsShow, TimesShow, FlagsShow, NumbersShow, WordsShow DEF Speaks,
     Passes, mapIntegrationHealth, Api!IntegrationTestResult, IntegrationHealth,
     IntegrationStatusClassSchema, IntegrationRecommendedActionSchema
<1> QED
  BY <1>1, <1>2, <1>3

LEMMA FlagItemsShow ==
  /\ Whole(Api!ReviewFlagItem)
  /\ \A r : Speaks(r, Api!ReviewFlagItem) =>
       Serves(mapReviewFlag(r), ReviewFlagSchema)
<1>1. Whole(Api!ReviewFlagItem)
  BY SolidTypes, SolidWords DEF Whole, Api!ReviewFlagItem
<1>2. ASSUME NEW r, Speaks(r, Api!ReviewFlagItem)
      PROVE  Serves(mapReviewFlag(r), ReviewFlagSchema)
  BY <1>2, TextsShow, PossibleTextsShow, TimesShow DEF Speaks, Serves, mapReviewFlag,
     ReviewFlagSchema, Api!ReviewFlagItem
<1> QED
  BY <1>1, <1>2

LEMMA SubmissionsShow ==
  /\ Whole(Api!SubmissionListItem)
  /\ \A r : Speaks(r, Api!SubmissionListItem) =>
       /\ Serves(mapSubmission(r), SubmissionSummarySchema)
       /\ Passes(mapSubmission(r), SubmissionRecord)
<1>1. Whole(Api!SubmissionListItem)
  BY SolidTypes, SolidWords DEF Whole, Api!SubmissionListItem
<1>2. ASSUME NEW r, Speaks(r, Api!SubmissionListItem)
      PROVE  Serves(mapSubmission(r), SubmissionSummarySchema)
  BY <1>2, TextsShow, PossibleTextsShow, TimesShow, FlagsShow, NumbersShow, ArraysShow DEF Speaks,
     Serves, mapSubmission, SubmissionSummarySchema, Api!SubmissionListItem
<1>3. ASSUME NEW r, Speaks(r, Api!SubmissionListItem)
      PROVE  Passes(mapSubmission(r), SubmissionRecord)
  BY <1>3, TextsShow, PossibleTextsShow, TimesShow, FlagsShow, NumbersShow, ArraysShow DEF Speaks,
     Passes, mapSubmission, Api!SubmissionListItem, SubmissionRecord
<1> QED
  BY <1>1, <1>2, <1>3

LEMMA SessionsShow ==
  /\ Whole(Api!IntakeSessionSnapshot)
  /\ \A r : Speaks(r, Api!IntakeSessionSnapshot) =>
       Serves(mapIntakeSession(r), IntakeSessionDataSchema)
<1>1. Whole(Api!IntakeSessionSnapshot)
  BY SolidTypes, SolidWords DEF Whole, Api!IntakeSessionSnapshot
<1>2. ASSUME NEW r, Speaks(r, Api!IntakeSessionSnapshot)
      PROVE  Serves(mapIntakeSession(r), IntakeSessionDataSchema)
  BY <1>2, TextsShow, TimesShow, NumbersShow, ObjectsShow, ArraysShow, WordsShow DEF Speaks,
     Serves, mapIntakeSession, IntakeSessionDataSchema, Api!IntakeSessionSnapshot
<1> QED
  BY <1>1, <1>2

LEMMA HandoffsShow ==
  /\ Whole(Api!StorageHandoffSnapshot)
  /\ \A r : Speaks(r, Api!StorageHandoffSnapshot) =>
       /\ Serves(mapStorageHandoff(r), IntakeHandoffCreateData_handoff)
       /\ Passes(mapStorageHandoff(r), StorageHandoffSnapshot)
<1>1. Whole(Api!StorageHandoffSnapshot)
  BY SolidTypes, SolidWords DEF Whole, Api!StorageHandoffSnapshot
<1>2. ASSUME NEW r, Speaks(r, Api!StorageHandoffSnapshot)
      PROVE  Serves(mapStorageHandoff(r), IntakeHandoffCreateData_handoff)
  BY <1>2, TextsShow, PossibleTextsShow, TimesShow, FlagsShow, NumbersShow, WordsShow DEF Speaks,
     Serves, mapStorageHandoff, IntakeHandoffCreateData_handoff, Api!StorageHandoffSnapshot
<1>3. ASSUME NEW r, Speaks(r, Api!StorageHandoffSnapshot)
      PROVE  Passes(mapStorageHandoff(r), StorageHandoffSnapshot)
  BY <1>3, TextsShow, PossibleTextsShow, TimesShow, FlagsShow, NumbersShow, WordsShow DEF Speaks,
     Passes, mapStorageHandoff, Api!StorageHandoffSnapshot, StorageHandoffSnapshot
<1> QED
  BY <1>1, <1>2, <1>3

(* The data a handler returns is within its contract, object by object, and  *)
(* within what the bridge checks of it.                                      *)
Contracted(data, schema) ==
  /\ "self" \in DOMAIN data /\ Serves(data["self"], schema)
  /\ \A s \in DOMAIN data : s # "self" => Serves(data[s], Nested[s])
Checked(data, check) ==
  \A s \in DOMAIN data \cap DOMAIN check : Passes(data[s], check[s])

\* The two kinds of reply that are left out.
Usual(c, data) ==
  /\ c \in {"REVIEW_QUEUE_LIST", "REVIEW_SUBMISSION_GET"} =>
       Value(data, "ReviewQueueItem", "state") # Str("uploading")
  /\ c = "OBSERVABILITY_METRICS_GET" =>
       Value(data, "self", "snapshot") \notin Blank \cup {Str("empty")}

\* Every reply of a channel's models is mapped to data that both take.
Handed(c, r) == IF c \in Served THEN Data(c, r) ELSE r
Lands(c, models, schema, check) ==
  /\ \A s \in DOMAIN models : Whole(models[s])
  /\ \A r : Replies(r, models) /\ Usual(c, Handed(c, r)) =>
       Contracted(Handed(c, r), schema) /\ Checked(Handed(c, r), check)

LEMMA ContractedIsAccepted ==
  ASSUME NEW c \in IPC_CHANNELS, NEW data, Contracted(data, IPC_CONTRACT_REGISTRY[c].data)
  PROVE  SatisfiesStrictly(data, DataSchemas[c])
<1> DEFINE schema == IPC_CONTRACT_REGISTRY[c].data
           inner == [s \in Mentioned(schema) |-> Nested[s]]
           outer == [self |-> schema]
<1>1. DataSchemas[c] = outer ++ inner
  BY DEF DataSchemas, Closed
<1>2. DOMAIN outer = {"self"} /\ outer["self"] = schema
  OBVIOUS
<1>3. \A s \in DOMAIN inner : inner[s] = Nested[s]
  OBVIOUS
<1> HIDE DEF outer, inner
<1>4. \A s \in DOMAIN DataSchemas[c] : DataSchemas[c][s] = IF s = "self" THEN schema ELSE Nested[s]
  BY <1>1, <1>2, <1>3, MergedDomain, MergedFirst, MergedSecond
<1>5. \A s \in DOMAIN data : Serves(data[s], IF s = "self" THEN schema ELSE Nested[s])
  BY DEF Contracted
<1>6. \A s \in DOMAIN DataSchemas[c] \cap DOMAIN data : Serves(data[s], DataSchemas[c][s])
  BY <1>4, <1>5
<1> QED
  BY <1>6 DEF SatisfiesStrictly, Serves, SchemaAccepts, Value

LEMMA CheckedIsSatisfied ==
  ASSUME NEW data, NEW check, Checked(data, check)
  PROVE  Satisfies(data, check)
BY DEF Checked, Satisfies, Passes, Value

\* The reply of a service or a handler: typical, with or without a probe.
LEMMA RepliesAreOfTheirModels ==
  ASSUME NEW c \in DOMAIN Answers, \A s \in DOMAIN Answers[c] : Whole(Answers[c][s]),
         NEW p \in {NoProbe} \cup AnswerProbes(Answers[c])
  PROVE  Replies(Probed(TypicalAnswers[c], p), Answers[c])
<1> DEFINE M == Answers[c]
           t == TypicalAnswers[c]
           r == Probed(t, p)
<1>1. /\ DOMAIN t = DOMAIN M
      /\ \A s \in DOMAIN M : /\ DOMAIN t[s] = DOMAIN M[s]
                             /\ \A f \in DOMAIN M[s] : t[s][f] = Plain(M[s][f] \ {Absent})
  BY DEF TypicalAnswers
<1>2. p # NoProbe =>
        /\ p.shape \in DOMAIN M /\ p.field \in DOMAIN M[p.shape]
        /\ p.value \in M[p.shape][p.field]
        /\ p.value \in (NotAWord \ {Absent}) \cup WordsIn(M[p.shape][p.field])
  BY DEF AnswerProbes
<1>3. \A T : Absent \notin WordsIn(T)
  BY Zenon DEF WordsIn, Absent, Str
<1>4. p # NoProbe => p.value # Absent
  BY <1>2, <1>3
<1>5. \A s \in DOMAIN M : \A f \in DOMAIN M[s] : t[s][f] \in M[s][f] /\ t[s][f] # Absent
  BY <1>1, PlainIsOfItsType DEF Whole
<1> HIDE DEF M, t
<1>6. /\ DOMAIN r = DOMAIN t
      /\ \A s \in DOMAIN t : DOMAIN r[s] = DOMAIN t[s]
      /\ p = NoProbe => r = t
      /\ p # NoProbe => \A s \in DOMAIN t : \A f \in DOMAIN t[s] :
           r[s][f] = IF s = p.shape /\ f = p.field THEN p.value ELSE t[s][f]
  BY DEF Probed
<1> HIDE DEF r
<1>7. \A s \in DOMAIN M : \A f \in DOMAIN M[s] : r[s][f] \in M[s][f] /\ r[s][f] # Absent
  BY <1>1, <1>2, <1>4, <1>5, <1>6
<1> QED
  BY <1>1, <1>6, <1>7 DEF Replies, Speaks, M, t, r

\* Which part of the bridge checks which reply.
LEMMA ChecksOf ==
  \A helper \in BOOLEAN :
  /\ \A c \in DOMAIN AuthReplies : BridgeReplies[helper][c] = AuthReplies[c]
  /\ \A c \in DOMAIN QcReplies : BridgeReplies[helper][c] = QcReplies[c]
  /\ \A c \in DOMAIN NotificationReplies : BridgeReplies[helper][c] = NotificationReplies[c]
  /\ \A c \in DOMAIN CreatorReplies : BridgeReplies[helper][c] = CreatorReplies[c]
  /\ \A c \in DOMAIN IntakeReplies : BridgeReplies[helper][c] = IntakeReplies[c]
  /\ \A c \in DOMAIN ReviewReplies : BridgeReplies[helper][c] = ReviewReplies[c]
  /\ \A c \in DOMAIN AdminConfigReplies : BridgeReplies[helper][c] = AdminConfigReplies[c]
  /\ \A c \in DOMAIN AdminPolicyReplies : BridgeReplies[helper][c] = AdminPolicyReplies[c]
  /\ \A c \in DOMAIN OperationsReplies : BridgeReplies[helper][c] = OperationsReplies[c]
  /\ helper => \A c \in DOMAIN HelperReplies : BridgeReplies[helper][c] = HelperReplies[c]
  /\ ~helper => \A c \in DOMAIN InlineIntegrationReplies :
                  BridgeReplies[helper][c] = InlineIntegrationReplies[c]
  /\ UNION {DOMAIN AuthReplies, DOMAIN QcReplies, DOMAIN NotificationReplies,
            DOMAIN CreatorReplies, DOMAIN IntakeReplies, DOMAIN ReviewReplies,
            DOMAIN AdminConfigReplies, DOMAIN AdminPolicyReplies, DOMAIN OperationsReplies,
            IF helper THEN DOMAIN HelperReplies ELSE DOMAIN InlineIntegrationReplies}
       \subseteq DOMAIN BridgeReplies[helper]
<1> TAKE helper \in BOOLEAN
<1> DEFINE integration == IF helper THEN HelperReplies ELSE InlineIntegrationReplies
           early == AuthReplies ++ QcReplies ++ NotificationReplies
           middle == early ++ CreatorReplies ++ IntakeReplies ++ ReviewReplies
           later == middle ++ AdminConfigReplies ++ integration
           all == later ++ AdminPolicyReplies ++ OperationsReplies
<1>1. BridgeReplies[helper] = all
  BY DEF BridgeReplies
<1>2. /\ DOMAIN AuthReplies =
           {"AUTH_GET_SESSION", "AUTH_LOGIN", "AUTH_REGISTER", "AUTH_OTP_SEND",
            "AUTH_FORGOT_PASSWORD", "AUTH_OTP_VERIFY", "AUTH_RESET_PASSWORD"}
      /\ DOMAIN QcReplies =
           {"QC_EVALUATE_PACK", "QC_LIST_RULES", "QC_RESULTS_GET", "QC_REPORT_EXPORT"}
      /\ DOMAIN NotificationReplies = NotificationChannels
  BY DEF AuthReplies, QcReplies, NotificationReplies, NotificationChannels
<1>3. /\ DOMAIN CreatorReplies =
           {"CREATOR_PROFILE_GET", "CREATOR_PROFILE_PUT", "SUBMISSION_DRAFT",
            "SUBMISSION_METADATA", "SUBMISSION_LIST", "SUBMISSION_TIMELINE",
            "SUBMISSION_AIRTABLE_SYNC", "SUBMISSION_AIRTABLE_RESET", "SUBMISSION_TRANSITION"}
      /\ DOMAIN IntakeReplies =
           {"INTAKE_FOLDER_SELECT", "INTAKE_SESSION_START", "INTAKE_MANIFEST_PUT",
            "INTAKE_HANDOFF_CREATE", "INTAKE_HANDOFF_STATUS_GET", "INTAKE_HANDOFF_CONTROL",
            "INTAKE_LOCK"}
      /\ DOMAIN ReviewReplies =
           {"REVIEW_QUEUE_LIST", "REVIEW_SUBMISSION_GET", "REVIEW_APPROVE", "REVIEW_REJECT",
            "REVIEW_REOPEN", "REVIEW_TAG_ADD", "REVIEW_FLAG_ADD"}
  BY DEF CreatorReplies, IntakeReplies, ReviewReplies
<1>4. /\ DOMAIN AdminConfigReplies =
           {"ADMIN_CONFIGS_LIST", "ADMIN_CONFIGS_DRAFT", "ADMIN_CONFIGS_PUBLISH",
            "ADMIN_CONFIGS_ROLLBACK"}
      /\ DOMAIN integration \subseteq
           {"ADMIN_INTEGRATIONS_HEALTH_LIST", "ADMIN_INTEGRATIONS_TEST",
            "ADMIN_INTEGRATIONS_AIRTABLE_CONFIGURE", "ADMIN_INTEGRATIONS_SMTP_CONFIGURE",
            "ADMIN_INTEGRATIONS_DROPBOX_TOKENS_UPDATE", "ADMIN_INTEGRATIONS_DROPBOX_APP_CONFIGURE",
            "ADMIN_INTEGRATIONS_ROTATE", "ADMIN_DROPBOX_READINESS_GET",
            "ADMIN_DROPBOX_OAUTH_START", "ADMIN_DROPBOX_OAUTH_COMPLETE",
            "ADMIN_DROPBOX_OAUTH_DESKTOP_START", "ADMIN_DROPBOX_OAUTH_DESKTOP_STATUS"}
      /\ DOMAIN AdminPolicyReplies =
           {"ADMIN_OPS_HISTORY_LIST", "ADMIN_QC_POLICY_GET", "ADMIN_QC_POLICY_UPDATE"}
      /\ DOMAIN OperationsReplies =
           {"DESKTOP_VERIFY_SECURITY", "AUDIT_LIST_SECURITY_EVENTS",
            "OBSERVABILITY_METRICS_GET", "OBSERVABILITY_INCIDENTS_ANNOTATE",
            "DESKTOP_PRIVACY_SHIELD_TOGGLE", "DESKTOP_PRIVACY_SHIELD_STATUS"}
  BY DEF AdminConfigReplies, HelperReplies, InlineIntegrationReplies, AdminPolicyReplies,
     OperationsReplies
<1>5. /\ helper => integration = HelperReplies
      /\ ~helper => integration = InlineIntegrationReplies
  OBVIOUS
<1> HIDE DEF integration, early, middle, later, all
<1>6. \A c :
        /\ c \in DOMAIN early <=> c \in DOMAIN AuthReplies \cup DOMAIN QcReplies
                                        \cup DOMAIN NotificationReplies
        /\ c \in DOMAIN middle <=> c \in DOMAIN early \cup DOMAIN CreatorReplies
                                         \cup DOMAIN IntakeReplies \cup DOMAIN ReviewReplies
        /\ c \in DOMAIN later <=> c \in DOMAIN middle \cup DOMAIN AdminConfigReplies
                                        \cup DOMAIN integration
        /\ c \in DOMAIN all <=> c \in DOMAIN later \cup DOMAIN AdminPolicyReplies
                                      \cup DOMAIN OperationsReplies
  BY MergedDomain DEF early, middle, later, all
<1>7. /\ \A c \in DOMAIN AuthReplies : early[c] = AuthReplies[c]
      /\ \A c \in DOMAIN QcReplies : early[c] = QcReplies[c]
      /\ \A c \in DOMAIN NotificationReplies : early[c] = NotificationReplies[c]
  BY <1>2, MergedDomain, MergedFirst, MergedSecond DEF early, NotificationChannels
<1>8. /\ \A c \in DOMAIN early : middle[c] = early[c]
      /\ \A c \in DOMAIN CreatorReplies : middle[c] = CreatorReplies[c]
      /\ \A c \in DOMAIN IntakeReplies : middle[c] = IntakeReplies[c]
      /\ \A c \in DOMAIN ReviewReplies : middle[c] = ReviewReplies[c]
  BY SMTT(30), <1>2, <1>3, <1>6, MergedDomain, MergedFirst, MergedSecond DEF middle,
     NotificationChannels
<1>9. /\ \A c \in DOMAIN middle : later[c] = middle[c]
      /\ \A c \in DOMAIN AdminConfigReplies : later[c] = AdminConfigReplies[c]
      /\ \A c \in DOMAIN integration : later[c] = integration[c]
  BY <1>2, <1>3, <1>4, <1>6, MergedDomain, MergedFirst, MergedSecond
     DEF later, NotificationChannels
<1>10. /\ \A c \in DOMAIN later : all[c] = later[c]
       /\ \A c \in DOMAIN AdminPolicyReplies : all[c] = AdminPolicyReplies[c]
       /\ \A c \in DOMAIN OperationsReplies : all[c] = OperationsReplies[c]
  BY SMTT(30), <1>2, <1>3, <1>4, <1>6, MergedDomain, MergedFirst, MergedSecond
     DEF all, NotificationChannels
<1> QED
  BY <1>1, <1>5, <1>6, <1>7, <1>8, <1>9, <1>10

(* What is left of a part, an event or a context.                           *)
LEMMA PartsShow ==
  /\ \A s, t : Part(Api!Object(t), s) = Object(s)
  /\ \A v, s : Part(v, s) = Null \/ Part(v, s) = Object(s)
  /\ \A s : Api!Object(s) = Object(s)
<1>1. \A s : Object(s) \notin Falsy
  BY DEF Falsy, Str, Absent, Undefined, Null, False, Num, Object
<1> QED
  BY <1>1, SameKinds DEF Part

(* A transition of a submission.                                            *)
LEMMA TransitionsAreContracted ==
  ASSUME NEW r, Replies(r, Api!Flat([submission |-> {Api!Object("any")}, transition |->
               Api!OrNull({Api!Object("any")}), domain_event |-> Api!OrNull({Api!Object("any")}),
               idempotent |-> Api!Bool, orchestration |-> Api!OrNull({Api!Object("any")})]))
  PROVE  Contracted(transitionReply(r.self), SubmissionTransitionDataSchema)
<1> DEFINE any == Api!OrNull({Api!Object("any")})
<1>1. /\ r.self.submission = Api!Object("any")
      /\ r.self.transition \in any /\ r.self.domain_event \in any /\ r.self.orchestration \in any
  BY DEF Replies, Speaks, Api!Flat
<1>2. /\ OrEmpty(r.self.submission) \in AnyObject
  BY <1>1, ObjectsShow
<1>3. \A v \in any : OrElseNull(v) \in OrNull(AnyObject)
  BY ObjectsShow
<1> HIDE DEF any
<1>4. OrElseNull(r.self.transition) \in OrNull(AnyObject)
      /\ OrElseNull(r.self.domain_event) \in OrNull(AnyObject)
  /\ OrElseNull(r.self.orchestration) \in OrNull(AnyObject)
  BY <1>1, <1>3
<1> QED
  BY <1>2, <1>4, FlagsShow DEF Contracted, Serves, transitionReply, One,
     SubmissionTransitionDataSchema

(* The link of a submission to Airtable.                                    *)
LEMMA AirtableStatesLand ==
  ASSUME NEW r, Replies(r, Api!AirtableState)
  PROVE  /\ Contracted(mapAirtableState(r), SubmissionAirtableStateDataSchema)
         /\ Checked(mapAirtableState(r), AirtableStateRecord)
<1> DEFINE data == mapAirtableState(r)
           payload == "SubmissionAirtableMappedPayload"
<1>1. Speaks(r.self, Api!AirtableLinkStateResponse)
      /\ Speaks(r.AirtableMappedPayload, Api!AirtableMappedPayload)
  BY DEF Replies, Api!AirtableState
<1>2. DOMAIN data = {"self", payload}
  BY DEF mapAirtableState
<1>3. data["self"].mappedPayload \in Optional(OrNull({Object(payload)}))
      /\ data["self"].mappedPayload \in Nullish({Object(payload)})
  BY PartsShow DEF mapAirtableState, Optional, Own, OrNull, Nullish
<1>4. Serves(data["self"], SubmissionAirtableStateDataSchema)
  BY <1>1, <1>3, TextsShow, PossibleTextsShow, TimesShow, FlagsShow DEF Speaks, Serves,
     mapAirtableState, Api!AirtableLinkStateResponse, SubmissionAirtableStateDataSchema
<1>5. Passes(data["self"], AirtableStateRecord["self"])
  BY <1>1, <1>3, TextsShow, PossibleTextsShow, TimesShow, FlagsShow DEF Speaks, Passes,
     mapAirtableState, Api!AirtableLinkStateResponse, AirtableStateRecord
<1>6. Serves(data[payload], SubmissionAirtableMappedPayloadSchema)
      /\ Passes(data[payload], AirtableStateRecord[payload])
  BY <1>1, PossibleTextsShow, ArraysShow DEF Speaks, Serves, Passes, mapAirtableState,
     Api!AirtableMappedPayload, SubmissionAirtableMappedPayloadSchema, AirtableStateRecord
<1>7. Nested[payload] = SubmissionAirtableMappedPayloadSchema
      /\ DOMAIN AirtableStateRecord = {"self", payload}
  BY DEF Nested, AirtableStateRecord
<1> QED
  BY <1>2, <1>4, <1>5, <1>6, <1>7 DEF Contracted, Checked

(* The start of an intake session.                                          *)
LEMMA SessionStartsLand ==
  ASSUME NEW r, Replies(r, [self |-> [created |-> Api!Bool, idempotent |-> Api!Bool,
                                       session |-> {Api!Object("IntakeSessionSnapshot")},
                                       event |-> Api!OrNull({Api!Object("any")})],
                             IntakeSessionSnapshot |-> Api!IntakeSessionSnapshot])
  PROVE  /\ Contracted(startSessionReply(r), IntakeSessionStartDataSchema)
         /\ Checked(startSessionReply(r), Payload([created |-> Bool, idempotent |-> Bool,
                                                  session |-> AnyObject]))
<1> DEFINE data == startSessionReply(r)
           any == Api!OrNull({Api!Object("any")})
<1>1. Speaks(r.IntakeSessionSnapshot, Api!IntakeSessionSnapshot) /\ r.self.event \in any
  BY DEF Replies, Speaks
<1>2. Serves(data["IntakeSessionData"], IntakeSessionDataSchema)
  BY <1>1, SessionsShow DEF startSessionReply
<1>3. \A v \in any : OrElseNull(v) \in OrNull(AnyObject)
  BY ObjectsShow
<1> HIDE DEF any
<1>4. OrElseNull(r.self.event) \in OrNull(AnyObject) /\ Object("IntakeSessionData") \in AnyObject
  BY <1>1, <1>3 DEF AnyObject, Shapes
<1>5. Serves(data["self"], IntakeSessionStartDataSchema)
  BY <1>4, FlagsShow DEF Serves, startSessionReply, IntakeSessionStartDataSchema
<1>6. Nested["IntakeSessionData"] = IntakeSessionDataSchema
      /\ DOMAIN data = {"self", "IntakeSessionData"}
  BY DEF Nested, startSessionReply
<1>7. Contracted(data, IntakeSessionStartDataSchema)
  BY <1>2, <1>5, <1>6 DEF Contracted
<1>8. Checked(data, Payload([created |-> Bool, idempotent |-> Bool, session |-> AnyObject]))
  BY <1>4, FlagsShow DEF Checked, Passes, Payload, startSessionReply
<1> QED
  BY <1>7, <1>8

(* The tokens and the user of a login or a registration.                    *)
LEMMA TokenBundlesLand ==
  ASSUME NEW r, Replies(r, Api!TokenBundle)
  PROVE  /\ Contracted(mapTokenBundle(r), AuthTokenBundleSchema)
         /\ Checked(mapTokenBundle(r), TokenBundle)
<1> DEFINE data == mapTokenBundle(r)
<1>1. Speaks(r.self, Api!TokenBundleResponse) /\ Speaks(r.UserResponse, Api!UserResponse)
  BY DEF Replies, Api!TokenBundle
<1>2. DOMAIN data = {"self", "AuthUser"} /\ data["AuthUser"] = mapUser(r.UserResponse)
  BY DEF mapTokenBundle
<1>3. data["self"].user = Object("AuthUser")
  BY <1>1, PartsShow DEF Speaks, mapTokenBundle, Api!TokenBundleResponse
<1>4. Serves(data["self"], AuthTokenBundleSchema)
  BY <1>1, <1>3, TextsShow, TimesShow DEF Speaks, Serves, mapTokenBundle, Api!TokenBundleResponse,
     AuthTokenBundleSchema
<1>5. Passes(data["self"], TokenBundle["self"])
  BY <1>1, <1>3, TextsShow, TimesShow DEF Speaks, Passes, mapTokenBundle, Api!TokenBundleResponse,
     TokenBundle
<1>6. Nested["AuthUser"] = AuthUserSchema /\ DOMAIN TokenBundle = {"self", "AuthUser"}
  BY DEF Nested, TokenBundle
<1> QED
  BY <1>1, <1>2, <1>4, <1>5, <1>6, UsersShow DEF Contracted, Checked

(* What an evaluation of a pack shows the page.                             *)
LEMMA EvaluationsPass ==
  ASSUME NEW r, Replies(r, [self |-> Api!QcEvaluationResult, QcReport |-> Api!QcReport,
               QcReportSummary |-> Api!QcReportSummary, QcFinding |-> Api!QcFinding])
  PROVE  Checked(mapEvaluationResult(r), QcEvaluationReply)
<1> DEFINE data == mapEvaluationResult(r)
<1>1. /\ Speaks(r.self, Api!QcEvaluationResult) /\ Speaks(r.QcReport, Api!QcReport)
      /\ Speaks(r.QcReportSummary, Api!QcReportSummary)
  BY DEF Replies
<1>2. Passes(data["self"], QcEvaluationReply["self"])
  BY <1>1, TextsShow, FlagsShow DEF Speaks, Passes, mapEvaluationResult, Api!QcEvaluationResult,
     QcEvaluationReply
<1>3. Rows(r.QcReport.findings, "QcFinding") \in AnyArray
  BY ObjectsShow, ArraysShow DEF Shapes
<1>4. Passes(data["QcReport"], QcEvaluationReply["QcReport"])
  BY <1>1, <1>3, TextsShow, TimesShow, NumbersShow, WordsShow DEF Speaks, Passes,
     mapEvaluationResult, Api!QcReport, QcEvaluationReply
<1>5. Passes(data["QcReportSummary"], QcEvaluationReply["QcReportSummary"])
  BY <1>1, NumbersShow DEF Speaks, Passes, mapEvaluationResult, Api!QcReportSummary,
     QcEvaluationReply
<1>6. DOMAIN QcEvaluationReply = {"self", "QcReport", "QcReportSummary"}
  BY DEF QcEvaluationReply
<1> QED
  BY <1>2, <1>4, <1>5, <1>6 DEF Checked

(* The list of the health of the integrations.                              *)
LEMMA HealthListsPass ==
  ASSUME NEW r
  PROVE  Checked(healthReply(r), Payload([integrations |-> AnyArray]))
<1>1. Rows(r.self.integrations, "AdminIntegrationTestData") \in AnyArray
  BY ObjectsShow, ArraysShow DEF Shapes
<1> QED
  BY <1>1 DEF Checked, Passes, healthReply, Payload

(* The readiness of Dropbox, checked by the helper or inline.               *)
LEMMA ReadinessLands ==
  ASSUME NEW r, Replies(r, Api!Flat(Api!DropboxReadinessResponse))
  PROVE  /\ Contracted(readinessReply(r.self), AdminDropboxReadinessDataSchema)
         /\ Checked(readinessReply(r.self),
               Payload(Readiness ++ [hasAppCredentials |-> Optional(Bool),
                           authorizeUrl |-> Nullish(Trimmed)]))
         /\ Checked(readinessReply(r.self), Payload(Readiness))
<1>1. Speaks(r.self, Api!DropboxReadinessResponse)
  BY DEF Replies, Api!Flat
<1>2. /\ r.self.provider \in Enum({"dropbox"}) /\ r.self.status \in DropboxReadinessStatusSchema
      /\ r.self.message \in Text(1) /\ r.self.message \in Trimmed
      /\ Boolean(r.self.has_app_credentials) \in Optional(Bool)
      /\ OrElseNull(r.self.authorize_url) \in OrNull(Url)
      /\ OrElseNull(r.self.authorize_url) \in Nullish(Trimmed)
  <2>1. r.self.provider \in Api!Enum({"dropbox"}) /\ r.self.status \in Api!DropboxReadinessStatus
     /\ r.self.message \in Api!Trimmed /\ r.self.authorize_url \in Api!OrNull(Api!Url)
    BY <1>1 DEF Speaks, Api!DropboxReadinessResponse
  <2>2. Api!Enum({"dropbox"}) = Enum({"dropbox"})
    BY SameWords
  <2> QED
    BY <2>1, <2>2, TextsShow, PossibleTextsShow, FlagsShow, WordsShow
<1>3. OrElseNull(r.self.authorize_url) \in Optional(OrNull(Url))
  BY <1>2 DEF Optional, Own
<1>4. readinessReply(r.self) = [self |-> [provider |-> r.self.provider, status |-> r.self.status,
                                          message |-> r.self.message,
       hasAppCredentials |-> Boolean(r.self.has_app_credentials),
       authorizeUrl |-> OrElseNull(r.self.authorize_url)]]
  BY DEF readinessReply, One
<1>5. Contracted(readinessReply(r.self), AdminDropboxReadinessDataSchema)
  BY <1>2, <1>3, <1>4 DEF Contracted, Serves, AdminDropboxReadinessDataSchema
<1>6. Checked(readinessReply(r.self), Payload(Readiness))
  BY <1>2, <1>4 DEF Checked, Passes, Payload, Readiness, DropboxReadinessStatusSchema
<1>7. Checked(readinessReply(r.self), Payload(Readiness ++ [hasAppCredentials |-> Optional(Bool),
                           authorizeUrl |-> Nullish(Trimmed)]))
  BY <1>2, <1>4 DEF Checked, Passes, Payload, Readiness, DropboxReadinessStatusSchema, ++
<1> QED
  BY <1>5, <1>6, <1>7

(* The metrics, where the text is not blank.                                *)
LEMMA MetricsLand ==
  ASSUME NEW r, Replies(r, Api!Flat([text |-> Api!Text(0)])),
         Usual("OBSERVABILITY_METRICS_GET", metricsReply(r.self))
  PROVE  /\ Contracted(metricsReply(r.self), ObservabilityMetricsGetDataSchema)
         /\ Checked(metricsReply(r.self), Payload([snapshot |-> Trimmed, capturedAt |-> Iso]))
<1>1. metricsReply(r.self) = [self |-> [snapshot |-> r.self.text, capturedAt |-> Str("iso")]]
  BY DEF metricsReply, One
<1>2. r.self.text \in Text(0)
  BY SameWords DEF Replies, Speaks, Api!Flat
<1>3. r.self.text \notin Blank \cup {Str("empty")}
  BY <1>1 DEF Usual, Value
<1>4. r.self.text \in Trimmed
  BY <1>2, <1>3 DEF Trimmed, Text, Blank, Length
<1>5. Str("iso") \in IsoTimestampSchema /\ Str("iso") \in Iso
  BY DEF IsoTimestampSchema, Iso
<1> QED
  BY <1>1, <1>2, <1>4, <1>5 DEF Contracted, Serves, Checked, Passes, Payload,
     ObservabilityMetricsGetDataSchema

(* A run of the checks, as the page lists it.                               *)
LEMMA RunsShow ==
  /\ Whole(Api!QcRunResult)
  /\ \A r : Speaks(r, Api!QcRunResult) =>
       Serves(mapRun(mapPersistedRun(r)), QcResultsRunSchema)
       /\ Passes(mapRun(mapPersistedRun(r)), QcRun)
<1>1. Whole(Api!QcRunResult)
  <2>1. Solid(Api!QcReportStatus \cup Api!Enum({"not_run"}))
    BY SolidWords
  <2>2. /\ Solid(Api!OrNull(Api!Trimmed)) /\ Solid(Api!OrNull(Api!Iso))
        /\ Solid(Api!OrNull(Api!IntFrom(1))) /\ Solid(Api!ArrayOf("QcFinding"))
    BY SolidTypes
  <2> QED
    BY <2>1, <2>2 DEF Whole, Api!QcRunResult
<1>2. ASSUME NEW r, Speaks(r, Api!QcRunResult)
      PROVE  LET run == mapRun(mapPersistedRun(r))
             IN  Serves(run, QcResultsRunSchema) /\ Passes(run, QcRun)
  <2> DEFINE run == mapRun(mapPersistedRun(r))
  <2>1. /\ r.run_id \in Api!OrNull(Api!Trimmed) /\ r.submission_id \in Api!OrNull(Api!Trimmed)
        /\ r.rule_set_version \in Api!OrNull(Api!Trimmed)
        /\ r.started_at \in Api!OrNull(Api!Iso) /\ r.completed_at \in Api!OrNull(Api!Iso)
        /\ r.generated_at \in Api!OrNull(Api!Iso)
        /\ r.policy_version \in Api!OrNull(Api!IntFrom(1))
        /\ r.status \in Api!QcReportStatus \cup Api!Enum({"not_run"})
    BY <1>2 DEF Speaks, Api!QcRunResult
  <2>2. Items(Rows(r.findings, "QcReportFinding")) \in ArrayOf("QcReportFinding")
    BY DEF Items, Rows, ArrayOf, Array, EmptyArray
  <2>3. Or(r.status, Str("not_run")) \in Enum({"passed", "failed", "not_run"})
    BY <2>1, SameWords DEF Api!QcReportStatus, Or, Enum
  <2>4. \A v \in Api!OrNull(Api!Trimmed) : OrElseNull(v) \in OrNull(Text(1))
        /\ OrElseNull(v) \in OrNull(Trimmed)
    BY PossibleTextsShow
  <2>5. \A v \in Api!OrNull(Api!Iso) : OrElseNull(toIsoString(v)) \in OrNull(IsoTimestampSchema) 
        /\ OrElseNull(toIsoString(v)) \in OrNull(Iso)
    BY DEF OrElseNull, toIsoString, Or, OrNull, IsoTimestampSchema, Iso
  <2>6. OrElseNull(r.policy_version) \in OrNull(IntFrom(1))
    BY <2>1, SameKinds DEF OrElseNull, Or, OrNull
  <2>7. run = [runId |-> OrElseNull(r.run_id), submissionId |-> OrElseNull(r.submission_id),
               findings |-> Items(Rows(r.findings, "QcReportFinding")),
               status |-> Or(r.status, Str("not_run")),
               startedAt |-> OrElseNull(toIsoString(r.started_at)),
               completedAt |-> OrElseNull(toIsoString(r.completed_at)),
               generatedAt |-> OrElseNull(toIsoString(r.generated_at)),
               ruleSetVersion |-> OrElseNull(r.rule_set_version),
               policyVersion |-> OrElseNull(r.policy_version)]
    BY DEF mapRun, mapPersistedRun
  <2> HIDE DEF run
  <2>8. Serves(run, QcResultsRunSchema)
    BY <2>1, <2>2, <2>3, <2>4, <2>5, <2>6, <2>7 DEF Serves, QcResultsRunSchema
  <2>9. Passes(run, QcRun)
    BY <2>1, <2>2, <2>3, <2>4, <2>5, <2>6, <2>7 DEF Passes, QcRun, QcResultStatuses
  <2> QED
    BY <2>8, <2>9 DEF run
<1> QED
  BY <1>1, <1>2

(* A finding of a report, mapped twice: by the client and by its caller.    *)
LEMMA ReportFindingsShow ==
  \A r : Speaks(r, Api!QcFinding) =>
     LET f == mapFindingForQcReport(mapReportFinding(r))
     IN  Serves(f, QcReportFindingSchema) /\ Passes(f, QcReportFinding)
<1> SUFFICES ASSUME NEW r, Speaks(r, Api!QcFinding)
             PROVE  LET f == mapFindingForQcReport(mapReportFinding(r))
                    IN  Serves(f, QcReportFindingSchema) /\ Passes(f, QcReportFinding)
  OBVIOUS
<1> DEFINE g == mapReportFinding(r)
           f == mapFindingForQcReport(g)
           severity == IF r.severity = Str("blocking") THEN r.severity ELSE Str("warning")
<1>1. f = [findingId |-> Or(r.finding_id, Str("t8")), ruleId |-> Or(r.rule_id, Str("t8")),
           severity |-> severity,
           category |-> Str("t8"), fileRef |-> Null, message |-> Or(r.message, Str("t8")),
           remediation |-> Or(r.remediation, Str("t8")), diffTag |-> Str("unchanged")]
  <2>1. "context" \notin DOMAIN g
    BY DEF mapReportFinding
  <2> QED
    BY <2>1 DEF mapFindingForQcReport, mapReportFinding
<1>2. /\ r.finding_id \in Api!Trimmed /\ r.rule_id \in Api!Trimmed /\ r.message \in Api!Trimmed
      /\ r.remediation \in Api!Trimmed
  BY DEF Speaks, Api!QcFinding
<1>3. severity \in Enum({"blocking", "warning"})
  BY DEF Enum
<1>4. Str("t8") \in Text(1) /\ Str("t8") \in Trimmed
  BY DEF Trimmed, Text, Length, Str
<1>5. \A v \in Api!Trimmed : Or(v, Str("t8")) \in Text(1) /\ Or(v, Str("t8")) \in Trimmed
  BY TextsShow
<1>6. Null \in OrNull(Text(1)) /\ Null \in Nullish(Trimmed)
      /\ Str("unchanged") \in QcFindingDiffTagSchema
      /\ Str("unchanged") \in Optional(Enum({"new", "resolved", "unchanged"}))
  BY DEF OrNull, Nullish, Optional, Own, QcFindingDiffTagSchema, Enum
<1> HIDE DEF f, severity
<1>7. Serves(f, QcReportFindingSchema)
  BY <1>1, <1>2, <1>3, <1>4, <1>5, <1>6 DEF Serves, QcReportFindingSchema, QcSeveritySchema
<1>8. Passes(f, QcReportFinding)
  BY <1>1, <1>2, <1>3, <1>4, <1>5, <1>6 DEF Passes, QcReportFinding
<1> QED
  BY <1>7, <1>8 DEF f

(* The latest run, its history and its findings.                            *)
LEMMA ResultsLand ==
  ASSUME NEW r, Replies(r, [self |-> [latest |-> {Api!Object("QcRunResult")},
                                 history |-> Api!ArrayOf("QcRunResult")],
                       QcRunResult |-> Api!QcRunResult, QcFinding |-> Api!QcFinding])
  PROVE  /\ Contracted(ResultsReply(r), QcResultsGetDataSchema)
         /\ Checked(ResultsReply(r),
                    [self |-> QcRun ++ [history |-> Own(ArrayOf("QcResultsRun"))],
                     QcResultsRun |-> QcRun, QcReportFinding |-> QcReportFinding])
<1> DEFINE data == ResultsReply(r)
           run == mapRun(mapPersistedRun(r.QcRunResult))
           finding == mapFindingForQcReport(mapReportFinding(r.QcFinding))
           history == Rows(r.self.history, "QcResultsRun")
<1>1. Speaks(r.QcRunResult, Api!QcRunResult) /\ Speaks(r.QcFinding, Api!QcFinding)
  BY DEF Replies
<1>2. /\ Serves(run, QcResultsRunSchema) /\ Passes(run, QcRun)
      /\ Serves(finding, QcReportFindingSchema) /\ Passes(finding, QcReportFinding)
  BY <1>1, RunsShow, ReportFindingsShow
<1>3. data = [self |-> run ++ [history |-> history], QcResultsRun |-> run,
              QcReportFinding |-> finding]
  BY DEF ResultsReply
<1>4. history \in Optional(ArrayOf("QcResultsRun")) /\ history \in Own(ArrayOf("QcResultsRun"))
  BY ObjectsShow DEF Optional, Own
<1> HIDE DEF data, run, finding, history
<1>5. Serves(data["self"], QcResultsGetDataSchema)
  BY <1>2, <1>3, <1>4 DEF Serves, QcResultsGetDataSchema, QcResultsRunSchema, ++
<1>6. Passes(data["self"], QcRun ++ [history |-> Own(ArrayOf("QcResultsRun"))])
  <2>1. "history" \notin DOMAIN run
    BY <1>2 DEF Serves, QcResultsRunSchema
  <2>2. \A f \in DOMAIN QcRun : f \in DOMAIN data["self"] /\ data["self"][f] = run[f]
        /\ f # "history"
    BY <1>2, <1>3, MergedDomain, MergedFirst DEF Passes, QcRun
  <2>3. "history" \in DOMAIN data["self"] /\ data["self"]["history"] = history
    BY <1>3, <2>1, MergedDomain, MergedSecond
  <2>4. \A T : \A f \in DOMAIN (QcRun ++ [history |-> T]) :
           \/ f \in DOMAIN QcRun /\ (QcRun ++ [history |-> T])[f] = QcRun[f]
           \/ f = "history" /\ (QcRun ++ [history |-> T])[f] = T
    BY MergedDomain, MergedFirst, MergedSecond
  <2> QED
    BY <1>2, <1>4, <2>2, <2>3, <2>4 DEF Passes
<1>7. Nested["QcResultsRun"] = QcResultsRunSchema
      /\ Nested["QcReportFinding"] = QcReportFindingSchema
  BY DEF Nested
<1>8. Contracted(data, QcResultsGetDataSchema)
  BY <1>2, <1>3, <1>5, <1>7 DEF Contracted
<1>9. Checked(data,
              [self |-> QcRun ++ [history |-> Own(ArrayOf("QcResultsRun"))],
      QcResultsRun |-> QcRun,
      QcReportFinding |-> QcReportFinding])
  BY <1>2, <1>3, <1>6 DEF Checked
<1> QED
  BY <1>8, <1>9 DEF data

(* A manifest that was put.                                                 *)
LEMMA ManifestsLand ==
  ASSUME NEW r, Replies(r, [self |-> [idempotent |-> Api!Bool,
                                      session |-> {Api!Object("IntakeSessionSnapshot")},
                                      manifest |-> {Api!Object("ManifestSnapshot")},
                                      event |-> {Api!Object("any")}],
                            IntakeSessionSnapshot |-> Api!IntakeSessionSnapshot,
                            ManifestSnapshot |-> Api!ManifestSnapshot,
                            ManifestSummary |-> Api!ManifestSummary,
                            ManifestFileEntry |-> Api!ManifestFileEntry])
  PROVE  /\ Contracted(putManifestReply(r), IntakeManifestPutDataSchema)
         /\ Checked(putManifestReply(r), Payload([idempotent |-> Bool,
                                                 session |-> AnyObject, manifest |-> AnyObject]))
<1> DEFINE data == putManifestReply(r)
<1>1. /\ Speaks(r.IntakeSessionSnapshot, Api!IntakeSessionSnapshot)
      /\ Speaks(r.ManifestSnapshot, Api!ManifestSnapshot)
         /\ Speaks(r.ManifestSummary, Api!ManifestSummary)
      /\ Speaks(r.ManifestFileEntry, Api!ManifestFileEntry) /\ r.self.event = Api!Object("any")
  BY DEF Replies, Speaks
<1>2. data = [self |-> [idempotent |-> Boolean(r.self.idempotent),
                        session |-> Object("IntakeSessionData"),
                        manifest |-> Object("IntakeManifestData"),
                        event |-> OrElseNull(r.self.event)],
              IntakeSessionData |-> mapIntakeSession(r.IntakeSessionSnapshot),
              IntakeManifestData |-> mapManifest(r)["IntakeManifestData"],
              IntakeManifestData_files |-> mapManifest(r)["IntakeManifestData_files"],
              IntakeManifestData_summary |-> mapManifest(r)["IntakeManifestData_summary"]]
  BY DEF putManifestReply, mapManifest, ++
<1>3. Object("IntakeSessionData") \in AnyObject /\ Object("IntakeManifestData") \in AnyObject
  BY DEF AnyObject, Shapes
<1>4. OrElseNull(r.self.event) \in AnyObject
  BY <1>1, ObjectsShow
<1>5. Serves(mapIntakeSession(r.IntakeSessionSnapshot), IntakeSessionDataSchema)
  BY <1>1, SessionsShow
<1>6. Serves(mapManifest(r)["IntakeManifestData"], IntakeManifestDataSchema)
  BY <1>1, TimesShow, FlagsShow, NumbersShow, ObjectsShow DEF Speaks, Serves, mapManifest,
     Api!ManifestSnapshot, IntakeManifestDataSchema
<1>7. Serves(mapManifest(r)["IntakeManifestData_files"], IntakeManifestData_files)
  <2>1. /\ r.ManifestFileEntry.relative_path \in Api!Trimmed
           /\ r.ManifestFileEntry.size_bytes \in Api!IntFrom(1)
        /\ r.ManifestFileEntry.sha256 \in Api!Sha256
           /\ r.ManifestFileEntry.mime_type \in Api!Text(1)
        /\ r.ManifestFileEntry.category \in Api!Own(Api!Text(1))
           /\ r.ManifestFileEntry.category # Absent
    BY <1>1 DEF Speaks, Api!ManifestFileEntry
  <2>2. r.ManifestFileEntry.category \in Text(1)
    BY <2>1, SameKinds, SameWords DEF Own
  <2> QED
    BY <2>1, <2>2, TextsShow, NumbersShow, FlagsShow, SameWords DEF Serves, mapManifest,
       IntakeManifestData_files
<1>8. Serves(mapManifest(r)["IntakeManifestData_summary"], IntakeManifestData_summary)
  <2>1. /\ r.ManifestSummary.total_file_count \in Api!IntFrom(0)
           /\ r.ManifestSummary.total_bytes \in Api!IntFrom(0)
        /\ r.ManifestSummary.counts_by_category = Api!Object("counts")
    BY <1>1 DEF Speaks, Api!ManifestSummary
  <2>2. OrEmpty(r.ManifestSummary.counts_by_category) = Object("counts")
    BY <2>1, ObjectsShow
  <2> QED
    BY <2>1, <2>2, NumbersShow, FlagsShow DEF Serves, mapManifest, IntakeManifestData_summary
<1>9. /\ Nested["IntakeSessionData"] = IntakeSessionDataSchema
         /\ Nested["IntakeManifestData"] = IntakeManifestDataSchema
      /\ Nested["IntakeManifestData_files"] = IntakeManifestData_files
      /\ Nested["IntakeManifestData_summary"] = IntakeManifestData_summary
  BY DEF Nested
<1> HIDE DEF data
<1>10. Serves(data["self"], IntakeManifestPutDataSchema)
  BY <1>2, <1>4, FlagsShow DEF Serves, IntakeManifestPutDataSchema
<1>11. Contracted(data, IntakeManifestPutDataSchema)
  BY <1>2, <1>5, <1>6, <1>7, <1>8, <1>9, <1>10 DEF Contracted
<1>12. Checked(data,
               Payload([idempotent |-> Bool, session |-> AnyObject, manifest |-> AnyObject]))
  BY <1>2, <1>3, FlagsShow DEF Checked, Passes, Payload
<1> QED
  BY <1>11, <1>12 DEF data

(* The objects of a manifest have a value that says something for every field. *)
LEMMA ManifestsAreWhole == Whole(Api!ManifestSnapshot) /\ Whole(Api!ManifestSummary)
/\ Whole(Api!ManifestFileEntry)
<1>1. Solid({Api!Object("counts")}) /\ Solid({Api!Object("ManifestSummary")})
      /\ Solid(Api!ArrayOf("ManifestFileEntry"))
      /\ Solid(Api!Own(Api!Text(1))) /\ Solid(Api!Own(Api!Bool))
  BY SolidTypes
<1>2. Solid(Api!Sha256)
  BY SameWords DEF Solid, Sha256, Str, Null, Absent, Undefined, EmptyArray, Array
<1> QED
  BY <1>1, <1>2, SolidTypes DEF Whole, Api!ManifestSnapshot, Api!ManifestSummary,
     Api!ManifestFileEntry

(* A submission of the review queue, where it is not uploading.             *)
LEMMA QueueItemsShow ==
  /\ Whole(Api!ReviewQueueItem)
  /\ \A r : Speaks(r, Api!ReviewQueueItem) /\ r.state # Str("uploading") =>
       Serves(mapReviewQueueItem(r), ReviewQueueItemSchema)
<1>1. Whole(Api!ReviewQueueItem)
  BY SolidTypes, SolidWords DEF Whole, Api!ReviewQueueItem
<1>2. ASSUME NEW r, Speaks(r, Api!ReviewQueueItem), r.state # Str("uploading")
      PROVE  Serves(mapReviewQueueItem(r), ReviewQueueItemSchema)
  <2>1. Api!SubmissionState = Enum({"draft", "qc_failed", "uploading", "under_review", "approved",
                                    "rejected", "scheduled", "released"})
    BY SameWords DEF Api!SubmissionState
  <2>2. r.state \in ReviewSubmissionStateSchema
    BY Zenon, <1>2, <2>1 DEF Speaks, Api!ReviewQueueItem, ReviewSubmissionStateSchema, Enum
  <2> QED
    BY <1>2, <2>2, TextsShow, TimesShow, NumbersShow, ObjectsShow, ArraysShow DEF Speaks, Serves,
       mapReviewQueueItem, ReviewQueueItemSchema, Api!ReviewQueueItem
<1> QED
  BY <1>1, <1>2

(* What the queue and the detail of a submission have in common.            *)
LEMMA ReviewItemsLand ==
  ASSUME NEW c \in {"REVIEW_QUEUE_LIST", "REVIEW_SUBMISSION_GET"},
         NEW r, Speaks(r.ReviewQueueItem, Api!ReviewQueueItem),
         Speaks(r.ReviewFlagItem, Api!ReviewFlagItem), NEW data,
         data["ReviewQueueItem"] = mapReviewQueueItem(r.ReviewQueueItem),
         data["ReviewFlag"] = mapReviewFlag(r.ReviewFlagItem),
         DOMAIN data = {"self", "ReviewQueueItem", "ReviewFlag"},
         Usual(c, data), NEW schema, Serves(data["self"], schema)
  PROVE  Contracted(data, schema)
<1>1. Value(data, "ReviewQueueItem", "state") = r.ReviewQueueItem.state
  BY DEF Value, mapReviewQueueItem
<1>2. r.ReviewQueueItem.state # Str("uploading")
  BY <1>1 DEF Usual
<1>3. /\ Serves(data["ReviewQueueItem"], ReviewQueueItemSchema)
      /\ Serves(data["ReviewFlag"], ReviewFlagSchema)
  BY <1>2, QueueItemsShow, FlagItemsShow
<1>4. /\ Nested["ReviewQueueItem"] = ReviewQueueItemSchema
      /\ Nested["ReviewFlag"] = ReviewFlagSchema
  BY DEF Nested
<1> QED
  BY <1>3, <1>4 DEF Contracted

(* The replies of the queue and of the detail of a submission.              *)
LEMMA ReviewRepliesOf ==
  /\ {"REVIEW_QUEUE_LIST", "REVIEW_SUBMISSION_GET"} \subseteq Served
  /\ Api!ApiReplies["REVIEW_QUEUE_LIST"] = [self |-> [items |-> Api!ArrayOf("ReviewQueueItem")],
                                            ReviewQueueItem |-> Api!ReviewQueueItem,
                                            ReviewFlagItem |-> Api!ReviewFlagItem]
  /\ Api!ApiReplies["REVIEW_SUBMISSION_GET"] = [self |-> Api!ReviewSubmissionDetailResponse,
                                                ReviewQueueItem |-> Api!ReviewQueueItem,
                                                ReviewFlagItem |-> Api!ReviewFlagItem]
<1>1. \A x : Api!++([self |-> x], Api!ReviewItem) = [self |-> x,
                                                     ReviewQueueItem |-> Api!ReviewQueueItem,
                                                     ReviewFlagItem |-> Api!ReviewFlagItem]
  BY DEF Api!++, Api!ReviewItem
<1>2. /\ Api!ApiReplies["REVIEW_QUEUE_LIST"] =
           Api!++([self |-> [items |-> Api!ArrayOf("ReviewQueueItem")]], Api!ReviewItem)
      /\ Api!ApiReplies["REVIEW_SUBMISSION_GET"] =
           Api!++([self |-> Api!ReviewSubmissionDetailResponse], Api!ReviewItem)
  BY Zenon DEF Api!ApiReplies, Api!++
<1>3. {"REVIEW_QUEUE_LIST", "REVIEW_SUBMISSION_GET"} \subseteq Served
  <2>1. "REVIEW_QUEUE_LIST" \in Served
    BY Zenon DEF Served, Api!ApiReplies, Api!++
  <2>2. "REVIEW_SUBMISSION_GET" \in Served
    BY Zenon DEF Served, Api!ApiReplies, Api!++
  <2> QED
    BY <2>1, <2>2
<1> QED
  BY <1>1, <1>2, <1>3

(* A flag that was added to a submission.                                   *)
LEMMA FlagAddsLand ==
  ASSUME NEW r, Replies(r, [self |-> [flag |-> {Api!Object("ReviewFlagItem")}],
                        ReviewFlagItem |-> Api!ReviewFlagItem])
  PROVE  /\ Contracted(addFlagReply(r), ReviewFlagAddDataSchema)
         /\ Checked(addFlagReply(r), Payload([flag |-> AnyObject]))
<1>1. Speaks(r.ReviewFlagItem, Api!ReviewFlagItem)
  BY DEF Replies
<1>2. Serves(mapReviewFlag(r.ReviewFlagItem), ReviewFlagSchema)
  BY <1>1, FlagItemsShow
<1>3. Nested["ReviewFlag"] = ReviewFlagSchema
  BY DEF Nested
<1>4. Object("ReviewFlag") \in AnyObject
  BY DEF AnyObject, Shapes
<1>5. Serves([flag |-> Object("ReviewFlag")], ReviewFlagAddDataSchema)
  BY <1>4 DEF Serves, ReviewFlagAddDataSchema
<1> QED
  BY <1>2, <1>3, <1>4, <1>5 DEF Contracted, Checked, Passes, addFlagReply, Payload

(* The review queue.                                                        *)
LEMMA QueuesLand ==
  ASSUME NEW r,
         Replies(r,
                 [self |-> [items |-> Api!ArrayOf("ReviewQueueItem")],
                  ReviewQueueItem |-> Api!ReviewQueueItem,
                  ReviewFlagItem |-> Api!ReviewFlagItem]),
                  Usual("REVIEW_QUEUE_LIST", reviewQueueReply(r))
  PROVE  /\ Contracted(reviewQueueReply(r), ReviewQueueListDataSchema)
         /\ Checked(reviewQueueReply(r), Payload([items |-> AnyArray]))
<1> DEFINE data == reviewQueueReply(r)
<1>1. data = [self |-> [items |-> Rows(r.self.items, "ReviewQueueItem")],
              ReviewQueueItem |-> mapReviewQueueItem(r.ReviewQueueItem),
              ReviewFlag |-> mapReviewFlag(r.ReviewFlagItem)]
  BY DEF reviewQueueReply, ReviewObjects, One, ++
<1>2. Rows(r.self.items, "ReviewQueueItem") \in ArrayOf("ReviewQueueItem")
      /\ Rows(r.self.items, "ReviewQueueItem") \in AnyArray
  BY ObjectsShow, ArraysShow DEF Shapes
<1>3. Speaks(r.ReviewQueueItem, Api!ReviewQueueItem)
      /\ Speaks(r.ReviewFlagItem, Api!ReviewFlagItem)
  BY DEF Replies
<1> HIDE DEF data
<1>4. Contracted(data, ReviewQueueListDataSchema)
  <2>1. Serves(data["self"], ReviewQueueListDataSchema)
    BY <1>1, <1>2 DEF Serves, ReviewQueueListDataSchema
  <2>2. Usual("REVIEW_QUEUE_LIST", data)
    BY DEF data
  <2> QED
    BY <1>1, <1>3, <2>1, <2>2, ReviewItemsLand
<1>5. Checked(data, Payload([items |-> AnyArray]))
  BY <1>1, <1>2 DEF Checked, Passes, Payload
<1> QED
  BY <1>4, <1>5 DEF data

(* The detail of a submission.                                              *)
LEMMA DetailsLand ==
  ASSUME NEW r,
         Replies(r,
                 [self |-> Api!ReviewSubmissionDetailResponse,
                  ReviewQueueItem |-> Api!ReviewQueueItem,
                  ReviewFlagItem |-> Api!ReviewFlagItem]),
                  Usual("REVIEW_SUBMISSION_GET", mapReviewDetail(r))
  PROVE  /\ Contracted(mapReviewDetail(r), ReviewSubmissionGetDataSchema)
         /\ Checked(mapReviewDetail(r),
                    Payload([submission |-> AnyObject, metadata |-> AnyObject,
                             qcFindings |-> AnyArray,
              decisions |-> AnyArray, tags |-> AnyArray, flags |-> AnyArray]))
<1> DEFINE data == mapReviewDetail(r)
           self == [submission |-> Object("ReviewQueueItem"),
                    metadata |-> OrEmpty(r.self.metadata),
       qcFindings |-> Items(r.self.qc_findings), transitions |-> Items(r.self.transitions),
       integrationEvents |-> Items(r.self.integration_events),
       decisions |-> Items(r.self.decisions), tags |-> Items(r.self.tags),
       flags |-> Rows(r.self.flags, "ReviewFlag")]
<1>1. data = [self |-> self,
              ReviewQueueItem |-> mapReviewQueueItem(r.ReviewQueueItem),
              ReviewFlag |-> mapReviewFlag(r.ReviewFlagItem)]
  BY DEF mapReviewDetail, ReviewObjects, One, ++
<1>2. Rows(r.self.flags, "ReviewFlag") \in ArrayOf("ReviewFlag")
      /\ Rows(r.self.flags, "ReviewFlag") \in AnyArray
  BY ObjectsShow, ArraysShow DEF Shapes
<1>3. Speaks(r.ReviewQueueItem, Api!ReviewQueueItem)
      /\ Speaks(r.ReviewFlagItem, Api!ReviewFlagItem)
      /\ Speaks(r.self, Api!ReviewSubmissionDetailResponse)
  BY DEF Replies
<1>6. Serves(self, ReviewSubmissionGetDataSchema) 
  BY <1>2, <1>3, ObjectsShow, ArraysShow DEF Speaks, Serves, ReviewSubmissionGetDataSchema,
     Api!ReviewSubmissionDetailResponse
<1>7. Object("ReviewQueueItem") \in AnyObject
  BY DEF AnyObject, Shapes
<1>8. \A f \in {"qcFindings", "decisions", "tags"} : self[f] \in AnyArray
  BY <1>3, ArraysShow DEF Speaks, Api!ReviewSubmissionDetailResponse
<1>9. self["metadata"] \in AnyObject
  BY <1>6 DEF Serves, ReviewSubmissionGetDataSchema
<1> HIDE DEF data
<1>4. Contracted(data, ReviewSubmissionGetDataSchema)
  <2>1. Serves(data["self"], ReviewSubmissionGetDataSchema)
    BY <1>1, <1>6
  <2>2. Usual("REVIEW_SUBMISSION_GET", data)
    BY DEF data
  <2> QED
    BY <1>1, <1>3, <2>1, <2>2, ReviewItemsLand
<1>5. Checked(data,
              Payload([submission |-> AnyObject, metadata |-> AnyObject, qcFindings |-> AnyArray,
              decisions |-> AnyArray, tags |-> AnyArray, flags |-> AnyArray]))
  BY <1>1, <1>2, <1>7, <1>8, <1>9 DEF Checked, Passes, Payload
<1> QED
  BY <1>4, <1>5 DEF data

(* An update of the policy of the checks.                                   *)
LEMMA PolicyUpdatesLand ==
  ASSUME NEW r,
         Replies(r, [self |-> [policy |-> {Api!Object("QcPolicySnapshot")},
                               audit_hook |-> {Api!Object("AuditHookPayload")},
                               observability_hook |-> {Api!Object("ObservabilityHookPayload")}],
                     QcPolicySnapshot |-> Api!QcPolicySnapshot,
                     QcPolicyRuleBinding |-> Api!QcPolicyRuleBinding,
                     AuditHookPayload |-> Api!AuditHookPayload,
                     ObservabilityHookPayload |-> Api!ObservabilityHookPayload])
  PROVE  /\ Contracted(updateActivePolicyReply(r), AdminQcPolicyUpdateDataSchema)
         /\ Checked(updateActivePolicyReply(r), AdminPolicyReplies["ADMIN_QC_POLICY_UPDATE"])
<1> DEFINE data == updateActivePolicyReply(r)
           audited == [action |-> r.AuditHookPayload.action,
                       entityType |-> r.AuditHookPayload.entity_type,
                       entityId |-> r.AuditHookPayload.entity_id,
                       actorId |-> r.AuditHookPayload.actor_id,
                       idempotencyKey |-> r.AuditHookPayload.idempotency_key,
                       metadata |-> OrEmpty(r.AuditHookPayload.metadata)]
           observed == data["AdminQcPolicyUpdateData_observabilityHook"]
           check == AdminPolicyReplies["ADMIN_QC_POLICY_UPDATE"]
<1>1. /\ Speaks(r.QcPolicySnapshot, Api!QcPolicySnapshot)
      /\ Speaks(r.QcPolicyRuleBinding, Api!QcPolicyRuleBinding)
      /\ Speaks(r.AuditHookPayload, Api!AuditHookPayload)
      /\ Speaks(r.ObservabilityHookPayload, Api!ObservabilityHookPayload)
  BY DEF Replies
<1>2. /\ data["self"] = [policy |-> Object("QcPolicySnapshot"),
             auditHook |-> Object("AdminQcPolicyUpdateData_auditHook"),
             observabilityHook |-> Object("AdminQcPolicyUpdateData_observabilityHook")]
      /\ data["QcPolicySnapshot"] = mapPolicy(r.QcPolicySnapshot)
      /\ data["QcPolicyRuleBinding"] = mapRuleBinding(r.QcPolicyRuleBinding)
      /\ data["AdminQcPolicyUpdateData_auditHook"] = audited
      /\ DOMAIN data = {"self", "QcPolicySnapshot", "QcPolicyRuleBinding",
                        "AdminQcPolicyUpdateData_auditHook",
                        "AdminQcPolicyUpdateData_observabilityHook"}
  BY DEF updateActivePolicyReply, PolicyObjects, ++
<1>3. observed = [metricName |-> r.ObservabilityHookPayload.metric_name,
      tags |-> OrEmpty(r.ObservabilityHookPayload.tags),
      value |-> r.ObservabilityHookPayload.value,
      emittedAt |-> toIsoString(r.ObservabilityHookPayload.emitted_at)]
  BY DEF updateActivePolicyReply, PolicyObjects, ++
<1>4. /\ Serves(data["QcPolicySnapshot"], QcPolicySnapshotSchema)
      /\ Serves(data["QcPolicyRuleBinding"], QcPolicyRuleBindingSchema)
  BY <1>1, <1>2, PoliciesShow, BindingsShow
<1>5. Serves(audited, AdminQcPolicyUpdateData_auditHook)
  BY <1>1, TextsShow, ObjectsShow DEF Speaks, Serves, Api!AuditHookPayload,
     AdminQcPolicyUpdateData_auditHook
<1>6. Serves(observed, AdminQcPolicyUpdateData_observabilityHook)
  <2>1. /\ r.ObservabilityHookPayload.metric_name \in Api!Trimmed
        /\ r.ObservabilityHookPayload.tags = Api!Object("labels")
        /\ r.ObservabilityHookPayload.value \in Api!AnyNumber
        /\ r.ObservabilityHookPayload.emitted_at \in Api!Iso
    BY <1>1 DEF Speaks, Api!ObservabilityHookPayload
  <2>2. OrEmpty(r.ObservabilityHookPayload.tags) = Object("labels")
    <3>1. Object("labels") \notin Falsy /\ Api!Object("labels") = Object("labels")
      BY SameKinds DEF Falsy, Str, Absent, Undefined, Null, False, Num, Object
    <3> QED
      BY <2>1, <3>1 DEF OrEmpty, Or
  <2>3. Api!AnyNumber = AnyNumber
    BY DEF Api!AnyNumber, AnyNumber, Api!Integer, Integer, Api!Numbers, Numbers, Api!Num, Num,
       Api!Fraction, Fraction
  <2> QED
    BY <1>3, <2>1, <2>2, <2>3, TextsShow, TimesShow DEF Serves,
       AdminQcPolicyUpdateData_observabilityHook
<1>7. /\ Nested["QcPolicySnapshot"] = QcPolicySnapshotSchema
      /\ Nested["QcPolicyRuleBinding"] = QcPolicyRuleBindingSchema
      /\ Nested["AdminQcPolicyUpdateData_auditHook"] = AdminQcPolicyUpdateData_auditHook
      /\ Nested["AdminQcPolicyUpdateData_observabilityHook"] =
           AdminQcPolicyUpdateData_observabilityHook
  BY DEF Nested
<1>8. Serves(data["self"], AdminQcPolicyUpdateDataSchema)
  BY <1>2 DEF Serves, AdminQcPolicyUpdateDataSchema
<1>9. Serves(data["AdminQcPolicyUpdateData_auditHook"], AdminQcPolicyUpdateData_auditHook)
  BY <1>2, <1>5
<1>10. Serves(data["AdminQcPolicyUpdateData_observabilityHook"],
              AdminQcPolicyUpdateData_observabilityHook)
  BY <1>6
<1>11. /\ DOMAIN check = {"self", "QcPolicySnapshot", "AdminQcPolicyUpdateData_auditHook",
                         "AdminQcPolicyUpdateData_observabilityHook"}
       /\ check["self"] = [policy |-> {Object("QcPolicySnapshot")},
                           auditHook |-> {Object("AdminQcPolicyUpdateData_auditHook")},
                           observabilityHook |->
                             {Object("AdminQcPolicyUpdateData_observabilityHook")}]
       /\ check["QcPolicySnapshot"] = PolicySnapshot
       /\ check["AdminQcPolicyUpdateData_auditHook"] =
            [action |-> Trimmed, idempotencyKey |-> Trimmed]
       /\ check["AdminQcPolicyUpdateData_observabilityHook"] =
            [metricName |-> Trimmed, emittedAt |-> Iso]
  BY DEF AdminPolicyReplies
<1>12. /\ Passes(data["self"], check["self"])
       /\ Passes(data["QcPolicySnapshot"], PolicySnapshot)
       /\ Passes(audited, [action |-> Trimmed, idempotencyKey |-> Trimmed])
       /\ Passes(observed, [metricName |-> Trimmed, emittedAt |-> Iso])
  <2>1. Passes(data["self"], check["self"])
    BY <1>2, <1>11 DEF Passes
  <2>2. Passes(data["QcPolicySnapshot"], PolicySnapshot)
    BY <1>1, <1>2, PoliciesShow
  <2>3. Passes(audited, [action |-> Trimmed, idempotencyKey |-> Trimmed])
    BY <1>1, TextsShow DEF Speaks, Passes, Api!AuditHookPayload
  <2>4. Passes(observed, [metricName |-> Trimmed, emittedAt |-> Iso])
    BY <1>1, <1>3, TextsShow, TimesShow DEF Speaks, Passes, Api!ObservabilityHookPayload
  <2> QED
    BY <2>1, <2>2, <2>3, <2>4
<1>13. /\ data["AdminQcPolicyUpdateData_auditHook"] = audited
       /\ data["AdminQcPolicyUpdateData_observabilityHook"] = observed
  BY <1>2
<1> HIDE DEF data, audited, observed, check
<1>14. Contracted(data, AdminQcPolicyUpdateDataSchema)
  BY <1>2, <1>4, <1>7, <1>8, <1>9, <1>10 DEF Contracted
<1>15. Checked(data, check)
  BY <1>11, <1>12, <1>13 DEF Checked
<1> QED
  BY <1>14, <1>15 DEF data, check

(* What the handlers that ask no service return.                            *)
LEMMA LocalValuesShow ==
  /\ \A v \in Trimmed : v \in Text(1)
  /\ Str("t12") \in Text(1) /\ Str("t12") \in Trimmed
  /\ \A v \in Iso : v \in IsoTimestampSchema
  /\ \A v \in Url : v \in Trimmed
  /\ \A v \in OrNull(Trimmed) : /\ v \in OrNull(Text(1)) /\ v \in Optional(OrNull(Text(1)))
                                /\ v \in Nullish(Trimmed)
  /\ \A v \in OrNull(Iso) : v \in Optional(OrNull(IsoTimestampSchema)) /\ v \in Nullish(Iso)
  /\ \A v \in {EmptyArray, Array("texts")} : v \in Strings
  /\ Array("roles") \in NonEmpty(Roles) /\ Array("roles") \in AnyArray
  /\ \A v \in IntFrom(0) : v \in Integer
  /\ \A v \in Texts : v \in AnyArray
<1>1. /\ Trimmed \subseteq Text(1) /\ Url \subseteq Trimmed
      /\ Str("t12") \in Text(1) /\ Str("t12") \in Trimmed
  <2>1. Trimmed \subseteq Text(1)
    BY DEF Trimmed
  <2>2. Url \subseteq Trimmed
    BY DEF Url, Trimmed, Text, Length, Str
  <2>3. Str("t12") \in Text(1) /\ Str("t12") \in Trimmed
    BY DEF Trimmed, Text, Length, Str
  <2> QED
    BY <2>1, <2>2, <2>3
<1>2. Iso \subseteq IsoTimestampSchema
  BY DEF Iso, IsoTimestampSchema
<1>3. /\ {EmptyArray, Array("texts")} \subseteq Strings
      /\ Array("roles") \in NonEmpty(Roles) /\ Array("roles") \in AnyArray
      /\ Texts \subseteq AnyArray
  BY DEF AnyArray, Strings, Texts, Roles, NonEmpty, EmptyArray, Array
<1>4. IntFrom(0) \subseteq Integer
  BY DEF IntFrom, IntIn, Integer, Numbers, Largest, Num
<1> QED
  BY <1>1, <1>2, <1>3, <1>4 DEF OrNull, Optional, Own, Nullish

LEMMA LocalTypesAreSolid ==
  /\ Solid(Trimmed) /\ Solid(Iso) /\ Solid(Url) /\ Solid(Bool) /\ Solid(Texts)
  /\ Solid(IntFrom(0)) /\ Solid(IntFrom(1)) /\ Solid({True}) /\ Solid({False})
  /\ \A w : Solid({Str(w)})
  /\ \A s : Solid({Object(s)})
  /\ \A s : s # "empty" => Solid(ArrayOf(s)) /\ Solid({Array(s)})
  /\ Solid({EmptyArray, Array("texts")})
  /\ \A w, ws : w \in ws => Solid(Enum(ws))
  /\ \A T : Solid(T) => Solid(OrNull(T))
<1> DEFINE nothing == {Null, Absent, Undefined, EmptyArray}
<1>1. /\ \A x : Str(x) \notin nothing /\ Num(x) \notin nothing /\ Object(x) \notin nothing
      /\ \A s : s # "empty" => Array(s) \notin nothing
      /\ True \notin nothing /\ False \notin nothing
  BY DEF Str, Num, Object, Array, True, False, Null, Absent, Undefined, EmptyArray
<1>2. \A T : (\E v \in T : v \notin nothing) => Solid(T)
  BY DEF Solid
<1> HIDE DEF nothing
<1>3. /\ Str("t8") \in Trimmed /\ Str("iso") \in Iso /\ Str("url") \in Url
  BY DEF Trimmed, Text, Length, Iso, Url, Str
<1>4. Num(1) \in IntFrom(0) /\ Num(1) \in IntFrom(1)
  BY DEF IntFrom, IntIn, Integer, Numbers, Largest, Num
<1>5. /\ True \in Bool /\ Array("texts") \in Texts
      /\ \A s : Array(s) \in ArrayOf(s)
      /\ \A w, ws : w \in ws => Str(w) \in Enum(ws)
  BY DEF Bool, Texts, ArrayOf, Enum
<1>6. \A T : Solid(T) => Solid(OrNull(T))
  BY DEF Solid, OrNull
<1> QED
  BY Zenon, <1>1, <1>2, <1>3, <1>4, <1>5, <1>6

LEMMA LocalChannels ==
  /\ DOMAIN LocalReplies =
       {"AUTH_GET_SESSION", "DESKTOP_VERIFY_SECURITY", "AUDIT_LIST_SECURITY_EVENTS",
        "QC_REPORT_EXPORT", "INTAKE_FOLDER_SELECT", "DESKTOP_PRIVACY_SHIELD_TOGGLE",
        "DESKTOP_PRIVACY_SHIELD_STATUS", "ADMIN_DROPBOX_OAUTH_DESKTOP_START",
        "ADMIN_DROPBOX_OAUTH_DESKTOP_STATUS"}
  /\ DOMAIN LocalReplies \cap Served = {}
<1>1. DOMAIN LocalReplies =
       {"AUTH_GET_SESSION", "DESKTOP_VERIFY_SECURITY", "AUDIT_LIST_SECURITY_EVENTS",
        "QC_REPORT_EXPORT", "INTAKE_FOLDER_SELECT", "DESKTOP_PRIVACY_SHIELD_TOGGLE",
        "DESKTOP_PRIVACY_SHIELD_STATUS", "ADMIN_DROPBOX_OAUTH_DESKTOP_START",
        "ADMIN_DROPBOX_OAUTH_DESKTOP_STATUS"}
  BY DEF LocalReplies
<1>2. ASSUME NEW c \in DOMAIN LocalReplies PROVE c \notin Served
  BY ZenonT(60), <1>1, <1>2 DEF Served, Api!ApiReplies, Api!++
<1> QED
  BY <1>1, <1>2

\* The handlers that ask no service, but for the shield, whose contract takes what it does
\* not list.
Shields == {"DESKTOP_PRIVACY_SHIELD_TOGGLE", "DESKTOP_PRIVACY_SHIELD_STATUS"}
LEMMA LocalRepliesLand ==
  ASSUME NEW c \in DOMAIN LocalReplies \ Shields, NEW helper \in BOOLEAN
  PROVE  /\ c \in DOMAIN BridgeReplies[helper]
         /\ Lands(c, LocalReplies[c], IPC_CONTRACT_REGISTRY[c].data, BridgeReplies[helper][c])
<1>1. \A r : Handed(c, r) = r
  BY LocalChannels DEF Handed
<1>2. CASE c = "AUTH_GET_SESSION"
  <2> DEFINE models == [self |-> [actor |-> {Object("AuthSessionData_actor")},
                                  permissions |-> {EmptyArray, Array("texts")},
                                  sessionIssuedAt |-> Iso],
                        AuthSessionData_actor |-> [id |-> Trimmed, roles |-> {Array("roles")}]]
             check == [self |-> [actor |-> {Object("AuthSessionData_actor")}],
                       AuthSessionData_actor |-> [id |-> Trimmed, roles |-> AnyArray]]
  <2>1. /\ LocalReplies[c] = models
        /\ IPC_CONTRACT_REGISTRY[c].data = AuthSessionDataSchema
        /\ c \in DOMAIN BridgeReplies[helper] /\ BridgeReplies[helper][c] = check
    <3>1. c \in DOMAIN AuthReplies /\ AuthReplies[c] = check
      BY <1>2 DEF AuthReplies
    <3>2. LocalReplies[c] = models
      BY <1>2 DEF LocalReplies
    <3>3. IPC_CONTRACT_REGISTRY[c].data = AuthSessionDataSchema
      BY <1>2, ContractsOf DEF AuthContracts, Everyone, Contract
    <3> QED
      BY <3>1, <3>2, <3>3, ChecksOf
  <2>2. \A s \in DOMAIN models : Whole(models[s])
    <3>1. /\ Solid({Object("AuthSessionData_actor")}) /\ Solid({EmptyArray, Array("texts")})
          /\ Solid(Iso) /\ Solid(Trimmed) /\ Solid({Array("roles")})
      BY Zenon, LocalTypesAreSolid
    <3> QED
      BY <3>1 DEF Whole
  <2>3. ASSUME NEW r, Replies(r, models)
        PROVE  Contracted(r, AuthSessionDataSchema) /\ Checked(r, check)
    BY <2>3, LocalValuesShow DEF Replies, Speaks, Contracted, Checked, Serves, Passes, Nested,
       AuthSessionDataSchema, AuthSessionData_actor
  <2> QED
    BY <1>1, <2>1, <2>2, <2>3 DEF Lands
<1>3. CASE c = "DESKTOP_VERIFY_SECURITY"
  <2> DEFINE models == [self |-> [checks |-> {Object("VerifySecurityConfigData_checks")}],
                        VerifySecurityConfigData_checks |->
                          [contextIsolation |-> {True}, nodeIntegration |-> {False},
                           sandbox |-> {True}, navigationGuard |-> {True}]]
  <2>1. /\ LocalReplies[c] = models
        /\ IPC_CONTRACT_REGISTRY[c].data = VerifySecurityConfigDataSchema
        /\ c \in DOMAIN BridgeReplies[helper] /\ BridgeReplies[helper][c] = models
    <3>1. c \in DOMAIN OperationsReplies /\ OperationsReplies[c] = models
      BY <1>3 DEF OperationsReplies
    <3>2. LocalReplies[c] = models
      BY <1>3 DEF LocalReplies
    <3>3. IPC_CONTRACT_REGISTRY[c].data = VerifySecurityConfigDataSchema
      BY <1>3, ContractsOf DEF DesktopContracts, Everyone, Contract
    <3> QED
      BY <3>1, <3>2, <3>3, ChecksOf
  <2>2. \A s \in DOMAIN models : Whole(models[s])
    <3>1. /\ Solid({Object("VerifySecurityConfigData_checks")}) /\ Solid({True}) /\ Solid({False})
      BY Zenon, LocalTypesAreSolid
    <3> QED
      BY <3>1 DEF Whole
  <2>3. ASSUME NEW r, Replies(r, models)
        PROVE  Contracted(r, VerifySecurityConfigDataSchema) /\ Checked(r, models)
    BY <2>3 DEF Replies, Speaks, Contracted, Checked, Serves, Passes, Nested,
       VerifySecurityConfigDataSchema, VerifySecurityConfigData_checks
  <2> QED
    BY <1>1, <2>1, <2>2, <2>3 DEF Lands
<1>4. CASE c = "AUDIT_LIST_SECURITY_EVENTS"
  <2> DEFINE models == [self |-> [events |-> ArrayOf("AuditSecurityEvent")],
                        AuditSecurityEvent |->
                          [id |-> Trimmed, channel |-> Trimmed, actorId |-> Trimmed,
                           outcome |-> Enum({"allowed", "denied"}), reason |-> Trimmed,
                           timestamp |-> Iso]]
             check == Payload([events |-> AnyArray])
  <2>1. /\ LocalReplies[c] = models
        /\ IPC_CONTRACT_REGISTRY[c].data = AuditListSecurityEventsDataSchema
        /\ c \in DOMAIN BridgeReplies[helper] /\ BridgeReplies[helper][c] = check
    <3>1. c \in DOMAIN OperationsReplies /\ OperationsReplies[c] = check
      BY <1>4 DEF OperationsReplies
    <3>2. LocalReplies[c] = models
      BY <1>4 DEF LocalReplies
    <3>3. IPC_CONTRACT_REGISTRY[c].data = AuditListSecurityEventsDataSchema
      BY <1>4, ContractsOf DEF DesktopContracts, Reviewers, Contract
    <3> QED
      BY <3>1, <3>2, <3>3, ChecksOf
  <2>2. \A s \in DOMAIN models : Whole(models[s])
    <3>1. /\ Solid(ArrayOf("AuditSecurityEvent")) /\ Solid(Trimmed) /\ Solid(Iso)
          /\ Solid(Enum({"allowed", "denied"}))
      BY Zenon, LocalTypesAreSolid
    <3> QED
      BY <3>1 DEF Whole
  <2>3. \A v \in ArrayOf("AuditSecurityEvent") : v \in AnyArray
    BY ArraysShow DEF Shapes
  <2>4. ASSUME NEW r, Replies(r, models)
        PROVE  Contracted(r, AuditListSecurityEventsDataSchema) /\ Checked(r, check)
    BY <2>3, <2>4, LocalValuesShow DEF Replies, Speaks, Contracted, Checked, Serves, Passes,
       Nested, Payload, AuditListSecurityEventsDataSchema, AuditSecurityEventSchema
  <2> QED
    BY <1>1, <2>1, <2>2, <2>4 DEF Lands
<1>5. CASE c = "QC_REPORT_EXPORT"
  <2> DEFINE models == One([canceled |-> Bool, path |-> OrNull(Trimmed)])
             check == Payload([canceled |-> Bool, path |-> OrNull(Text(1))])
  <2>1. /\ LocalReplies[c] = models
        /\ IPC_CONTRACT_REGISTRY[c].data = QcReportExportDataSchema
        /\ c \in DOMAIN BridgeReplies[helper] /\ BridgeReplies[helper][c] = check
    <3>1. c \in DOMAIN QcReplies /\ QcReplies[c] = check
      BY <1>5 DEF QcReplies
    <3>2. LocalReplies[c] = models
      BY <1>5 DEF LocalReplies
    <3>3. IPC_CONTRACT_REGISTRY[c].data = QcReportExportDataSchema
      BY <1>5, ContractsOf DEF QcContracts, Everyone, Contract
    <3> QED
      BY <3>1, <3>2, <3>3, ChecksOf
  <2>2. \A s \in DOMAIN models : Whole(models[s])
    <3>1. Solid(Bool) /\ Solid(OrNull(Trimmed))
      BY Zenon, LocalTypesAreSolid
    <3> QED
      BY <3>1 DEF Whole, One
  <2>3. ASSUME NEW r, Replies(r, models)
        PROVE  Contracted(r, QcReportExportDataSchema) /\ Checked(r, check)
    BY <2>3, LocalValuesShow DEF Replies, Speaks, Contracted, Checked, Serves, Passes, Payload,
       One, QcReportExportDataSchema
  <2> QED
    BY <1>1, <2>1, <2>2, <2>3 DEF Lands
<1>6. CASE c = "INTAKE_FOLDER_SELECT"
  <2> DEFINE models == [self |-> [path |-> {Str("t12")}, fileCount |-> IntFrom(0),
                                  topLevelFolders |-> Texts,
                                  files |-> ArrayOf("IntakeFolderSelectData_files")],
                        IntakeFolderSelectData_files |->
                          [relativePath |-> Trimmed, sizeBytes |-> IntFrom(1),
                           mimeType |-> {Str("t12")}]]
             check == Payload([path |-> Trimmed, fileCount |-> Integer,
                               topLevelFolders |-> AnyArray, files |-> AnyArray])
  <2>1. /\ LocalReplies[c] = models
        /\ IPC_CONTRACT_REGISTRY[c].data = IntakeFolderSelectDataSchema
        /\ c \in DOMAIN BridgeReplies[helper] /\ BridgeReplies[helper][c] = check
    <3>1. c \in DOMAIN IntakeReplies /\ IntakeReplies[c] = check
      BY <1>6 DEF IntakeReplies
    <3>2. LocalReplies[c] = models
      BY <1>6 DEF LocalReplies
    <3>3. IPC_CONTRACT_REGISTRY[c].data = IntakeFolderSelectDataSchema
      BY <1>6, ContractsOf DEF IntakeContracts, Everyone, Contract
    <3> QED
      BY <3>1, <3>2, <3>3, ChecksOf
  <2>2. \A s \in DOMAIN models : Whole(models[s])
    <3>1. /\ Solid({Str("t12")}) /\ Solid(IntFrom(0)) /\ Solid(IntFrom(1)) /\ Solid(Texts)
          /\ Solid(ArrayOf("IntakeFolderSelectData_files")) /\ Solid(Trimmed)
      BY Zenon, LocalTypesAreSolid
    <3> QED
      BY <3>1 DEF Whole
  <2>3. \A v \in ArrayOf("IntakeFolderSelectData_files") : v \in AnyArray
    BY ArraysShow DEF Shapes
  <2>4. ASSUME NEW r, Replies(r, models)
        PROVE  Contracted(r, IntakeFolderSelectDataSchema) /\ Checked(r, check)
    BY <2>3, <2>4, LocalValuesShow DEF Replies, Speaks, Contracted, Checked, Serves, Passes,
       Nested, Payload, IntakeFolderSelectDataSchema, IntakeFolderSelectData_files
  <2> QED
    BY <1>1, <2>1, <2>2, <2>4 DEF Lands
<1>7. CASE c = "ADMIN_DROPBOX_OAUTH_DESKTOP_START"
  <2> DEFINE models == One([sessionId |-> {Str("t12")}, status |-> Enum({"pending"}),
                            authorizeUrl |-> Url, startedAt |-> Iso])
  <2>1. /\ LocalReplies[c] = models
        /\ IPC_CONTRACT_REGISTRY[c].data = AdminDropboxOauthDesktopStartDataSchema
        /\ c \in DOMAIN BridgeReplies[helper] /\ BridgeReplies[helper][c] = OauthStarted
    <3>1. /\ c \in DOMAIN HelperReplies /\ HelperReplies[c] = OauthStarted
          /\ c \in DOMAIN InlineIntegrationReplies
          /\ InlineIntegrationReplies[c] = OauthStarted
      BY <1>7 DEF HelperReplies, InlineIntegrationReplies
    <3>2. LocalReplies[c] = models
      BY <1>7 DEF LocalReplies
    <3>3. IPC_CONTRACT_REGISTRY[c].data = AdminDropboxOauthDesktopStartDataSchema
      BY <1>7, ContractsOf DEF AdminContracts, Admins, Contract
    <3> QED
      BY <3>1, <3>2, <3>3, ChecksOf
  <2>2. \A s \in DOMAIN models : Whole(models[s])
    <3>1. /\ Solid({Str("t12")}) /\ Solid(Enum({"pending"})) /\ Solid(Url) /\ Solid(Iso)
      BY Zenon, LocalTypesAreSolid
    <3> QED
      BY <3>1 DEF Whole, One
  <2>3. ASSUME NEW r, Replies(r, models)
        PROVE  /\ Contracted(r, AdminDropboxOauthDesktopStartDataSchema)
               /\ Checked(r, OauthStarted)
    BY <2>3, LocalValuesShow DEF Replies, Speaks, Contracted, Checked, Serves, Passes, Payload,
       One, AdminDropboxOauthDesktopStartDataSchema, OauthStarted
  <2> QED
    BY <1>1, <2>1, <2>2, <2>3 DEF Lands
<1>8. CASE c = "ADMIN_DROPBOX_OAUTH_DESKTOP_STATUS"
  <2> DEFINE models == One([sessionId |-> {Str("t12")},
                            status |-> Enum({"pending", "completed", "failed", "expired"}),
                            message |-> Trimmed, accountId |-> OrNull(Trimmed),
                            configuredAt |-> OrNull(Iso)])
             whole == Payload(OauthStatus ++ [accountId |-> Nullish(Trimmed),
                                              configuredAt |-> Nullish(Iso)])
             short == Payload(OauthStatus)
  <2>1. /\ LocalReplies[c] = models
        /\ IPC_CONTRACT_REGISTRY[c].data = AdminDropboxOauthDesktopStatusDataSchema
        /\ c \in DOMAIN BridgeReplies[helper] /\ BridgeReplies[helper][c] \in {whole, short}
    <3>1. /\ c \in DOMAIN HelperReplies /\ HelperReplies[c] = whole
          /\ c \in DOMAIN InlineIntegrationReplies /\ InlineIntegrationReplies[c] = short
      BY <1>8 DEF HelperReplies, InlineIntegrationReplies
    <3>2. LocalReplies[c] = models
      BY <1>8 DEF LocalReplies
    <3>3. IPC_CONTRACT_REGISTRY[c].data = AdminDropboxOauthDesktopStatusDataSchema
      BY <1>8, ContractsOf DEF AdminContracts, Admins, Contract
    <3> HIDE DEF models, whole, short
    <3> QED
      BY <3>1, <3>2, <3>3, ChecksOf
  <2>2. \A s \in DOMAIN models : Whole(models[s])
    <3>1. /\ Solid({Str("t12")}) /\ Solid(Enum({"pending", "completed", "failed", "expired"}))
          /\ Solid(Trimmed) /\ Solid(OrNull(Trimmed)) /\ Solid(OrNull(Iso))
      BY Zenon, LocalTypesAreSolid
    <3> QED
      BY <3>1 DEF Whole, One
  <2>3. ASSUME NEW r, Replies(r, models)
        PROVE  /\ Contracted(r, AdminDropboxOauthDesktopStatusDataSchema)
               /\ Checked(r, whole) /\ Checked(r, short)
    <3>1. Contracted(r, AdminDropboxOauthDesktopStatusDataSchema)
      BY <2>3, LocalValuesShow DEF Replies, Speaks, Contracted, Serves, One,
         AdminDropboxOauthDesktopStatusDataSchema, DropboxOauthDesktopStatusSchema
    <3>2. Checked(r, short)
      BY <2>3, LocalValuesShow DEF Replies, Speaks, Checked, Passes, Payload, One, OauthStatus
    <3>3. Checked(r, whole)
      BY <2>3, LocalValuesShow DEF Replies, Speaks, Checked, Passes, Payload, One, OauthStatus, ++
    <3> QED
      BY <3>1, <3>2, <3>3
  <2> HIDE DEF models, whole, short
  <2> QED
    BY <1>1, <2>1, <2>2, <2>3 DEF Lands
<1> QED
  BY <1>2, <1>3, <1>4, <1>5, <1>6, <1>7, <1>8, LocalChannels DEF Shields

LEMMA AuthRepliesLand ==
  ASSUME NEW c \in {"AUTH_LOGIN", "AUTH_REGISTER", "AUTH_OTP_SEND", "AUTH_FORGOT_PASSWORD",
                    "AUTH_OTP_VERIFY", "AUTH_RESET_PASSWORD"}
  PROVE  /\ c \in Served
         /\ Lands(c, Api!ApiReplies[c], IPC_CONTRACT_REGISTRY[c].data, AuthReplies[c])
<1>1. CASE c \in {"AUTH_LOGIN", "AUTH_REGISTER"}
  <2> DEFINE models == Api!TokenBundle
           check == TokenBundle
           data(r) == mapTokenBundle(r)
  <2>1. c \in Served /\ Api!ApiReplies[c] = models
    <3>1. CASE c = "AUTH_LOGIN"
      BY Zenon, <3>1 DEF Served, Api!ApiReplies, Api!++
    <3>2. CASE c = "AUTH_REGISTER"
      BY Zenon, <3>2 DEF Served, Api!ApiReplies, Api!++
    <3> QED
      BY <1>1, <3>1, <3>2
  <2>2. IPC_CONTRACT_REGISTRY[c].data = AuthTokenBundleSchema
    BY <1>1, ContractsOf DEF AuthContracts, Everyone, Contract
  <2>3. AuthReplies[c] = check
    BY <1>1 DEF AuthReplies
  <2>4. \A r : Handed(c, r) = data(r)
    BY <1>1, <2>1 DEF Handed, Data, AccountChannels, AuthChannels, AuthReply
  <2>5. \A s \in DOMAIN models : Whole(models[s])
    BY SolidTypes, SolidWords, UsersShow DEF Whole, Api!TokenBundle, Api!TokenBundleResponse
  <2>6. ASSUME NEW r, Replies(r, models)
        PROVE  Contracted(data(r), AuthTokenBundleSchema)
    BY <2>6, TokenBundlesLand
  <2>7. ASSUME NEW r, Replies(r, models)
        PROVE  Checked(data(r), check)
    BY <2>7, TokenBundlesLand
  <2> QED
    BY <2>1, <2>2, <2>3, <2>4, <2>5, <2>6, <2>7 DEF Lands
<1>2. CASE c \in {"AUTH_OTP_SEND", "AUTH_FORGOT_PASSWORD"}
  <2> DEFINE models == Api!Flat(Api!OtpSendResponse)
           check == OtpSend
           data(r) == mapOtpSend(r.self)
  <2>1. c \in Served /\ Api!ApiReplies[c] = models
    <3>1. CASE c = "AUTH_OTP_SEND"
      BY Zenon, <3>1 DEF Served, Api!ApiReplies, Api!++
    <3>2. CASE c = "AUTH_FORGOT_PASSWORD"
      BY Zenon, <3>2 DEF Served, Api!ApiReplies, Api!++
    <3> QED
      BY <1>2, <3>1, <3>2
  <2>2. IPC_CONTRACT_REGISTRY[c].data = AuthOtpSendDataSchema
    BY <1>2, ContractsOf DEF AuthContracts, Everyone, Contract
  <2>3. AuthReplies[c] = check
    BY <1>2 DEF AuthReplies
  <2>4. \A r : Handed(c, r) = data(r)
    BY <1>2, <2>1 DEF Handed, Data, AccountChannels, AuthChannels, AuthReply
  <2>5. \A s \in DOMAIN models : Whole(models[s])
    BY SolidTypes, SolidWords DEF Whole, Api!Flat, Api!OtpSendResponse
  <2>6. ASSUME NEW r, Replies(r, models)
        PROVE  Contracted(data(r), AuthOtpSendDataSchema)
    BY <2>6, PossibleTextsShow, TimesShow, NumbersShow DEF Replies, Contracted, Speaks, Serves,
       mapOtpSend, One, Api!Flat, Api!OtpSendResponse, AuthOtpSendDataSchema
  <2>7. ASSUME NEW r, Replies(r, models)
        PROVE  Checked(data(r), check)
    BY <2>7, PossibleTextsShow, TimesShow, NumbersShow DEF Replies, Checked, Speaks, Passes,
       mapOtpSend, One, Api!Flat, Api!OtpSendResponse, OtpSend, Payload
  <2> QED
    BY <2>1, <2>2, <2>3, <2>4, <2>5, <2>6, <2>7 DEF Lands
<1>3. CASE c = "AUTH_OTP_VERIFY"
  <2> DEFINE models == Api!Flat(Api!OtpVerifyResponse)
           check == Payload([otpVerificationToken |-> Trimmed, expiresAt |-> Iso])
           data(r) == mapOtpVerify(r.self)
  <2>1. c \in Served /\ Api!ApiReplies[c] = models
    BY Zenon, <1>3 DEF Served, Api!ApiReplies, Api!++
  <2>2. IPC_CONTRACT_REGISTRY[c].data = AuthOtpVerifyDataSchema
    BY <1>3, ContractsOf DEF AuthContracts, Everyone, Contract
  <2>3. AuthReplies[c] = check
    BY <1>3 DEF AuthReplies
  <2>4. \A r : Handed(c, r) = data(r)
    BY <1>3, <2>1 DEF Handed, Data, AccountChannels, AuthChannels, AuthReply
  <2>5. \A s \in DOMAIN models : Whole(models[s])
    BY SolidTypes, SolidWords DEF Whole, Api!Flat, Api!OtpVerifyResponse
  <2>6. ASSUME NEW r, Replies(r, models)
        PROVE  Contracted(data(r), AuthOtpVerifyDataSchema)
    BY <2>6, TextsShow, TimesShow DEF Replies, Contracted, Speaks, Serves, mapOtpVerify, One,
       Api!Flat, Api!OtpVerifyResponse, AuthOtpVerifyDataSchema
  <2>7. ASSUME NEW r, Replies(r, models)
        PROVE  Checked(data(r), check)
    BY <2>7, TextsShow, TimesShow DEF Replies, Checked, Speaks, Passes, mapOtpVerify, One,
       Api!Flat, Api!OtpVerifyResponse, Payload
  <2> QED
    BY <2>1, <2>2, <2>3, <2>4, <2>5, <2>6, <2>7 DEF Lands
<1>4. CASE c = "AUTH_RESET_PASSWORD"
  <2> DEFINE models == Api!Flat(Api!RevocationResponse)
           check == Payload([revokedSessionCount |-> IntFrom(0)])
           data(r) == mapRevocation(r.self)
  <2>1. c \in Served /\ Api!ApiReplies[c] = models
    BY Zenon, <1>4 DEF Served, Api!ApiReplies, Api!++
  <2>2. IPC_CONTRACT_REGISTRY[c].data = AuthRevocationDataSchema
    BY <1>4, ContractsOf DEF AuthContracts, Everyone, Contract
  <2>3. AuthReplies[c] = check
    BY <1>4 DEF AuthReplies
  <2>4. \A r : Handed(c, r) = data(r)
    BY <1>4, <2>1 DEF Handed, Data, AccountChannels, AuthChannels, AuthReply
  <2>5. \A s \in DOMAIN models : Whole(models[s])
    BY SolidTypes, SolidWords DEF Whole, Api!Flat, Api!RevocationResponse
  <2>6. ASSUME NEW r, Replies(r, models)
        PROVE  Contracted(data(r), AuthRevocationDataSchema)
    BY <2>6, NumbersShow DEF Replies, Contracted, Speaks, Serves, mapRevocation, One, Api!Flat,
       Api!RevocationResponse, AuthRevocationDataSchema
  <2>7. ASSUME NEW r, Replies(r, models)
        PROVE  Checked(data(r), check)
    BY <2>7, NumbersShow DEF Replies, Checked, Speaks, Passes, mapRevocation, One, Api!Flat,
       Api!RevocationResponse, Payload
  <2> QED
    BY <2>1, <2>2, <2>3, <2>4, <2>5, <2>6, <2>7 DEF Lands
<1> QED
  BY <1>1, <1>2, <1>3, <1>4

LEMMA ConfigRepliesLand ==
  ASSUME NEW c \in {"ADMIN_CONFIGS_LIST", "ADMIN_CONFIGS_DRAFT", "ADMIN_CONFIGS_PUBLISH",
                    "ADMIN_CONFIGS_ROLLBACK"}
  PROVE  /\ c \in Served
         /\ Lands(c, Api!ApiReplies[c], IPC_CONTRACT_REGISTRY[c].data, AdminConfigReplies[c])
<1>1. CASE c = "ADMIN_CONFIGS_LIST"
  <2> DEFINE models == [self |-> [configs |-> Api!ArrayOf("AdminConfigRecord")], AdminConfigRecord
               |-> Api!AdminConfigRecord]
           check == [self |-> [configs |-> ArrayOf("AdminConfigRecord")], AdminConfigRecord |->
               AdminConfigSnapshot]
           data(r) == configsReply(r)
  <2>1. c \in Served /\ Api!ApiReplies[c] = models
    BY ZenonT(60), <1>1 DEF Served, Api!ApiReplies, Api!++
  <2>2. IPC_CONTRACT_REGISTRY[c].data = AdminConfigsListDataSchema
    BY <1>1, ContractsOf DEF AdminContracts, Admins, Contract
  <2>3. AdminConfigReplies[c] = check
    BY <1>1 DEF AdminConfigReplies
  <2>4. \A r : Handed(c, r) = data(r)
    BY <1>1, <2>1 DEF Handed, Data, AccountChannels, AuthChannels, QcChannels,
       NotificationChannels, AdminChannels, DirectoryChannels, AdminReply
  <2>5. \A s \in DOMAIN models : Whole(models[s])
    BY SolidTypes, SolidWords, ConfigsShow DEF Whole
  <2>6. ASSUME NEW r, Replies(r, models)
        PROVE  Contracted(data(r), AdminConfigsListDataSchema)
    BY <2>6, ConfigsShow, ObjectsShow DEF Replies, Contracted, Speaks, Serves, Nested,
       configsReply, AdminConfigsListDataSchema
  <2>7. ASSUME NEW r, Replies(r, models)
        PROVE  Checked(data(r), check)
    BY <2>7, ConfigsShow, ObjectsShow DEF Replies, Checked, Speaks, Passes, configsReply
  <2> QED
    BY <2>1, <2>2, <2>3, <2>4, <2>5, <2>6, <2>7 DEF Lands
<1>2. CASE c \in {"ADMIN_CONFIGS_DRAFT", "ADMIN_CONFIGS_PUBLISH"}
  <2> DEFINE models == Api!Config
           check == ConfigReply
           data(r) == configReply(r)
  <2>1. c \in Served /\ Api!ApiReplies[c] = models
    <3>1. CASE c = "ADMIN_CONFIGS_DRAFT"
      BY Zenon, <3>1 DEF Served, Api!ApiReplies, Api!++
    <3>2. CASE c = "ADMIN_CONFIGS_PUBLISH"
      BY Zenon, <3>2 DEF Served, Api!ApiReplies, Api!++
    <3> QED
      BY <1>2, <3>1, <3>2
  <2>2. IPC_CONTRACT_REGISTRY[c].data = AdminConfigMutationDataSchema
    BY <1>2, ContractsOf DEF AdminContracts, Admins, Contract
  <2>3. AdminConfigReplies[c] = check
    BY <1>2 DEF AdminConfigReplies
  <2>4. \A r : Handed(c, r) = data(r)
    BY <1>2, <2>1 DEF Handed, Data, AccountChannels, AuthChannels, QcChannels,
       NotificationChannels, AdminChannels, DirectoryChannels, AdminReply
  <2>5. \A s \in DOMAIN models : Whole(models[s])
    BY SolidTypes, SolidWords, ConfigsShow DEF Whole, Api!Config
  <2>6. ASSUME NEW r, Replies(r, models)
        PROVE  Contracted(data(r), AdminConfigMutationDataSchema)
    BY <2>6, ConfigsShow, ObjectsShow DEF Replies, Contracted, Speaks, Serves, Nested,
       configReply, Api!Config, AdminConfigMutationDataSchema
  <2>7. ASSUME NEW r, Replies(r, models)
        PROVE  Checked(data(r), check)
    BY <2>7, ConfigsShow, ObjectsShow DEF Replies, Checked, Speaks, Passes, configReply,
       Api!Config, ConfigReply
  <2> QED
    BY <2>1, <2>2, <2>3, <2>4, <2>5, <2>6, <2>7 DEF Lands
<1>3. CASE c = "ADMIN_CONFIGS_ROLLBACK"
  <2> DEFINE models == Api!Config
           check == ConfigReply
           data(r) == configReply(r)
  <2>1. c \in Served /\ Api!ApiReplies[c] = models
    BY Zenon, <1>3 DEF Served, Api!ApiReplies, Api!++
  <2>2. IPC_CONTRACT_REGISTRY[c].data = AdminConfigRollbackDataSchema
    BY <1>3, ContractsOf DEF AdminContracts, Admins, Contract
  <2>3. AdminConfigReplies[c] = check
    BY <1>3 DEF AdminConfigReplies
  <2>4. \A r : Handed(c, r) = data(r)
    BY <1>3, <2>1 DEF Handed, Data, AccountChannels, AuthChannels, QcChannels,
       NotificationChannels, AdminChannels, DirectoryChannels, AdminReply
  <2>5. \A s \in DOMAIN models : Whole(models[s])
    BY SolidTypes, SolidWords, ConfigsShow DEF Whole, Api!Config
  <2>6. ASSUME NEW r, Replies(r, models)
        PROVE  Contracted(data(r), AdminConfigRollbackDataSchema)
    BY <2>6, ConfigsShow, ObjectsShow DEF Replies, Contracted, Speaks, Serves, Nested,
       configReply, Api!Config, AdminConfigRollbackDataSchema, AdminConfigMutationDataSchema
  <2>7. ASSUME NEW r, Replies(r, models)
        PROVE  Checked(data(r), check)
    BY <2>7, ConfigsShow, ObjectsShow DEF Replies, Checked, Speaks, Passes, configReply,
       Api!Config, ConfigReply
  <2> QED
    BY <2>1, <2>2, <2>3, <2>4, <2>5, <2>6, <2>7 DEF Lands
<1> QED
  BY <1>1, <1>2, <1>3

LEMMA CreatorRepliesLand ==
  ASSUME NEW c \in {"CREATOR_PROFILE_GET", "CREATOR_PROFILE_PUT", "SUBMISSION_DRAFT",
                    "SUBMISSION_METADATA", "SUBMISSION_LIST",
                    "SUBMISSION_AIRTABLE_SYNC", "SUBMISSION_AIRTABLE_RESET",
                    "SUBMISSION_TRANSITION"}
  PROVE  /\ c \in Served
         /\ Lands(c, Api!ApiReplies[c], IPC_CONTRACT_REGISTRY[c].data, CreatorReplies[c])
<1>1. CASE c \in {"CREATOR_PROFILE_GET", "CREATOR_PROFILE_PUT"}
  <2> DEFINE models == Api!Flat(Api!CreatorProfileResponse)
           check == CreatorProfile
           data(r) == profileReply(r.self)
  <2>1. c \in Served /\ Api!ApiReplies[c] = models
    <3>1. CASE c = "CREATOR_PROFILE_GET"
      BY Zenon, <3>1 DEF Served, Api!ApiReplies, Api!++
    <3>2. CASE c = "CREATOR_PROFILE_PUT"
      BY Zenon, <3>2 DEF Served, Api!ApiReplies, Api!++
    <3> QED
      BY <1>1, <3>1, <3>2
  <2>2. IPC_CONTRACT_REGISTRY[c].data = CreatorProfileDataSchema
    BY <1>1, ContractsOf DEF CreatorContracts, Everyone, Contract
  <2>3. CreatorReplies[c] = check
    BY <1>1 DEF CreatorReplies
  <2>4. \A r : Handed(c, r) = data(r)
    BY <1>1, <2>1 DEF Handed, Data, AccountChannels, AuthChannels, QcChannels,
       NotificationChannels, AdminChannels, DirectoryChannels, OperationsReply
  <2>5. \A s \in DOMAIN models : Whole(models[s])
    BY SolidTypes, SolidWords DEF Whole, Api!Flat, Api!CreatorProfileResponse
  <2>6. ASSUME NEW r, Replies(r, models)
        PROVE  Contracted(data(r), CreatorProfileDataSchema)
    BY <2>6, TextsShow, PossibleTextsShow, TimesShow, ObjectsShow DEF Replies, Contracted, Speaks,
       Serves, profileReply, One, Api!Flat, Api!CreatorProfileResponse, CreatorProfileDataSchema
  <2>7. ASSUME NEW r, Replies(r, models)
        PROVE  Checked(data(r), check)
    BY <2>7, TextsShow, PossibleTextsShow, TimesShow, ObjectsShow DEF Replies, Checked, Speaks,
       Passes, profileReply, One, Api!Flat, Api!CreatorProfileResponse, CreatorProfile, Payload
  <2> QED
    BY <2>1, <2>2, <2>3, <2>4, <2>5, <2>6, <2>7 DEF Lands
<1>2. CASE c \in {"SUBMISSION_DRAFT", "SUBMISSION_METADATA"}
  <2> DEFINE models == Api!Draft
           check == Draft
           data(r) == draftReply(r.self)
  <2>1. c \in Served /\ Api!ApiReplies[c] = models
    <3>1. CASE c = "SUBMISSION_DRAFT"
      BY Zenon, <3>1 DEF Served, Api!ApiReplies, Api!++
    <3>2. CASE c = "SUBMISSION_METADATA"
      BY Zenon, <3>2 DEF Served, Api!ApiReplies, Api!++
    <3> QED
      BY <1>2, <3>1, <3>2
  <2>2. IPC_CONTRACT_REGISTRY[c].data = SubmissionDraftDataSchema
    BY <1>2, ContractsOf DEF CreatorContracts, Creators, Contract
  <2>3. CreatorReplies[c] = check
    BY <1>2 DEF CreatorReplies
  <2>4. \A r : Handed(c, r) = data(r)
    BY <1>2, <2>1 DEF Handed, Data, AccountChannels, AuthChannels, QcChannels,
       NotificationChannels, AdminChannels, DirectoryChannels, OperationsReply
  <2>5. \A s \in DOMAIN models : Whole(models[s])
    BY SolidTypes, SolidWords DEF Whole, Api!Draft, Api!Flat
  <2>6. ASSUME NEW r, Replies(r, models)
        PROVE  Contracted(data(r), SubmissionDraftDataSchema)
    BY <2>6, ObjectsShow DEF Replies, Contracted, Speaks, Serves, draftReply, One, Api!Draft,
       Api!Flat, SubmissionDraftDataSchema
  <2>7. ASSUME NEW r, Replies(r, models)
        PROVE  Checked(data(r), check)
    BY <2>7, ObjectsShow DEF Replies, Checked, Speaks, Passes, draftReply, One, Api!Draft,
       Api!Flat, Draft, Payload
  <2> QED
    BY <2>1, <2>2, <2>3, <2>4, <2>5, <2>6, <2>7 DEF Lands
<1>3. CASE c = "SUBMISSION_LIST"
  <2> DEFINE models == [self |-> [rows |-> Api!ArrayOf("SubmissionListItem")], SubmissionListItem
               |-> Api!SubmissionListItem]
           check == [self |-> [submissions |-> ArrayOf("SubmissionSummary")], SubmissionSummary
               |-> SubmissionRecord]
           data(r) == submissionsReply(r)
  <2>1. c \in Served /\ Api!ApiReplies[c] = models
    BY ZenonT(60), <1>3 DEF Served, Api!ApiReplies, Api!++
  <2>2. IPC_CONTRACT_REGISTRY[c].data = SubmissionListDataSchema
    BY <1>3, ContractsOf DEF CreatorContracts, Everyone, Contract
  <2>3. CreatorReplies[c] = check
    BY <1>3 DEF CreatorReplies
  <2>4. \A r : Handed(c, r) = data(r)
    BY <1>3, <2>1 DEF Handed, Data, AccountChannels, AuthChannels, QcChannels,
       NotificationChannels, AdminChannels, DirectoryChannels, OperationsReply
  <2>5. \A s \in DOMAIN models : Whole(models[s])
    BY SolidTypes, SolidWords, SubmissionsShow DEF Whole
  <2>6. ASSUME NEW r, Replies(r, models)
        PROVE  Contracted(data(r), SubmissionListDataSchema)
    BY <2>6, SubmissionsShow, ObjectsShow DEF Replies, Contracted, Speaks, Serves, Nested,
       submissionsReply, SubmissionListDataSchema
  <2>7. ASSUME NEW r, Replies(r, models)
        PROVE  Checked(data(r), check)
    BY <2>7, SubmissionsShow, ObjectsShow DEF Replies, Checked, Speaks, Passes, submissionsReply
  <2> QED
    BY <2>1, <2>2, <2>3, <2>4, <2>5, <2>6, <2>7 DEF Lands
<1>4. CASE c \in {"SUBMISSION_AIRTABLE_SYNC", "SUBMISSION_AIRTABLE_RESET"}
  <2> DEFINE models == Api!AirtableState
           check == AirtableStateRecord
           data(r) == mapAirtableState(r)
  <2>1. c \in Served /\ Api!ApiReplies[c] = models
    <3>1. CASE c = "SUBMISSION_AIRTABLE_SYNC"
      BY Zenon, <3>1 DEF Served, Api!ApiReplies, Api!++
    <3>2. CASE c = "SUBMISSION_AIRTABLE_RESET"
      BY Zenon, <3>2 DEF Served, Api!ApiReplies, Api!++
    <3> QED
      BY <1>4, <3>1, <3>2
  <2>2. IPC_CONTRACT_REGISTRY[c].data = SubmissionAirtableStateDataSchema
    BY <1>4, ContractsOf DEF CreatorContracts, Everyone, Contract
  <2>3. CreatorReplies[c] = check
    BY <1>4 DEF CreatorReplies
  <2>4. \A r : Handed(c, r) = data(r)
    BY <1>4, <2>1 DEF Handed, Data, AccountChannels, AuthChannels, QcChannels,
       NotificationChannels, AdminChannels, DirectoryChannels, OperationsReply
  <2>5. \A s \in DOMAIN models : Whole(models[s])
    BY SolidTypes, SolidWords DEF Whole, Api!AirtableState, Api!AirtableLinkStateResponse,
       Api!AirtableMappedPayload
  <2>6. ASSUME NEW r, Replies(r, models)
        PROVE  Contracted(data(r), SubmissionAirtableStateDataSchema)
    BY <2>6, AirtableStatesLand
  <2>7. ASSUME NEW r, Replies(r, models)
        PROVE  Checked(data(r), check)
    BY <2>7, AirtableStatesLand
  <2> QED
    BY <2>1, <2>2, <2>3, <2>4, <2>5, <2>6, <2>7 DEF Lands
<1>5. CASE c = "SUBMISSION_TRANSITION"
  <2> DEFINE models == Api!Flat([submission |-> {Api!Object("any")}, transition |->
               Api!OrNull({Api!Object("any")}), domain_event |-> Api!OrNull({Api!Object("any")}),
               idempotent |-> Api!Bool, orchestration |-> Api!OrNull({Api!Object("any")})])
           check == Payload([submission |-> AnyObject, idempotent |-> Bool])
           data(r) == transitionReply(r.self)
  <2>1. c \in Served /\ Api!ApiReplies[c] = models
    BY Zenon, <1>5 DEF Served, Api!ApiReplies, Api!++
  <2>2. IPC_CONTRACT_REGISTRY[c].data = SubmissionTransitionDataSchema
    BY <1>5, ContractsOf DEF TransitionContracts, Everyone, Contract
  <2>3. CreatorReplies[c] = check
    BY <1>5 DEF CreatorReplies
  <2>4. \A r : Handed(c, r) = data(r)
    BY <1>5, <2>1 DEF Handed, Data, AccountChannels, AuthChannels, QcChannels,
       NotificationChannels, AdminChannels, DirectoryChannels, OperationsReply
  <2>5. \A s \in DOMAIN models : Whole(models[s])
    BY SolidTypes, SolidWords DEF Whole, Api!Flat
  <2>6. ASSUME NEW r, Replies(r, models)
        PROVE  Contracted(data(r), SubmissionTransitionDataSchema)
    BY <2>6, TransitionsAreContracted
  <2>7. ASSUME NEW r, Replies(r, models)
        PROVE  Checked(data(r), check)
    BY <2>7, FlagsShow, ObjectsShow DEF Replies, Checked, Speaks, Passes, transitionReply, One,
       Api!Flat, Payload
  <2> QED
    BY Zenon, <2>1, <2>2, <2>3, <2>4, <2>5, <2>6, <2>7 DEF Lands
<1> QED
  BY <1>1, <1>2, <1>3, <1>4, <1>5

LEMMA InlineRepliesLand ==
  ASSUME NEW c \in {"ADMIN_INTEGRATIONS_HEALTH_LIST", "ADMIN_INTEGRATIONS_TEST",
                    "ADMIN_DROPBOX_READINESS_GET"}
  PROVE  /\ c \in Served
         /\ Lands(c, Api!ApiReplies[c], IPC_CONTRACT_REGISTRY[c].data,
                  InlineIntegrationReplies[c])
<1>1. CASE c = "ADMIN_INTEGRATIONS_HEALTH_LIST"
  <2> DEFINE models == [self |-> [integrations |-> Api!ArrayOf("IntegrationTestResult")],
               IntegrationTestResult |-> Api!IntegrationTestResult]
           check == Payload([integrations |-> AnyArray])
           data(r) == healthReply(r)
  <2>1. c \in Served /\ Api!ApiReplies[c] = models
    BY ZenonT(60), <1>1 DEF Served, Api!ApiReplies, Api!++
  <2>2. IPC_CONTRACT_REGISTRY[c].data = AdminIntegrationHealthListDataSchema
    BY <1>1, ContractsOf DEF AdminContracts, Admins, Contract
  <2>3. InlineIntegrationReplies[c] = check
    BY <1>1 DEF InlineIntegrationReplies
  <2>4. \A r : Handed(c, r) = data(r)
    BY <1>1, <2>1 DEF Handed, Data, AccountChannels, AuthChannels, QcChannels,
       NotificationChannels, AdminChannels, DirectoryChannels, AdminReply
  <2>5. \A s \in DOMAIN models : Whole(models[s])
    BY SolidTypes, SolidWords, HealthShows DEF Whole
  <2>6. ASSUME NEW r, Replies(r, models)
        PROVE  Contracted(data(r), AdminIntegrationHealthListDataSchema)
    BY <2>6, HealthShows, ObjectsShow DEF Replies, Contracted, Speaks, Serves, Nested,
       healthReply, AdminIntegrationHealthListDataSchema
  <2>7. ASSUME NEW r, Replies(r, models)
        PROVE  Checked(data(r), check)
    BY HealthListsPass
  <2> QED
    BY <2>1, <2>2, <2>3, <2>4, <2>5, <2>6, <2>7 DEF Lands
<1>2. CASE c = "ADMIN_INTEGRATIONS_TEST"
  <2> DEFINE models == Api!Flat(Api!IntegrationTestResult)
           check == Payload(<<>>)
           data(r) == One(mapIntegrationHealth(r.self))
  <2>1. c \in Served /\ Api!ApiReplies[c] = models
    BY Zenon, <1>2 DEF Served, Api!ApiReplies, Api!++
  <2>2. IPC_CONTRACT_REGISTRY[c].data = AdminIntegrationTestDataSchema
    BY <1>2, ContractsOf DEF AdminContracts, Admins, Contract
  <2>3. InlineIntegrationReplies[c] = check
    BY <1>2 DEF InlineIntegrationReplies
  <2>4. \A r : Handed(c, r) = data(r)
    BY <1>2, <2>1 DEF Handed, Data, AccountChannels, AuthChannels, QcChannels,
       NotificationChannels, AdminChannels, DirectoryChannels, AdminReply
  <2>5. \A s \in DOMAIN models : Whole(models[s])
    BY SolidTypes, SolidWords, HealthShows DEF Whole, Api!Flat
  <2>6. ASSUME NEW r, Replies(r, models)
        PROVE  Contracted(data(r), AdminIntegrationTestDataSchema)
    BY <2>6, HealthShows DEF Replies, Contracted, Speaks, Serves, One, Api!Flat
  <2>7. ASSUME NEW r, Replies(r, models)
        PROVE  Checked(data(r), check)
    BY <2>7, HealthShows DEF Replies, Checked, Speaks, Passes, One, Api!Flat, Payload
  <2> QED
    BY <2>1, <2>2, <2>3, <2>4, <2>5, <2>6, <2>7 DEF Lands
<1>3. CASE c = "ADMIN_DROPBOX_READINESS_GET"
  <2> DEFINE models == Api!Flat(Api!DropboxReadinessResponse)
           check == Payload(Readiness)
           data(r) == readinessReply(r.self)
  <2>1. c \in Served /\ Api!ApiReplies[c] = models
    BY Zenon, <1>3 DEF Served, Api!ApiReplies, Api!++
  <2>2. IPC_CONTRACT_REGISTRY[c].data = AdminDropboxReadinessDataSchema
    BY <1>3, ContractsOf DEF AdminContracts, Admins, Contract
  <2>3. InlineIntegrationReplies[c] = check
    BY <1>3 DEF InlineIntegrationReplies
  <2>4. \A r : Handed(c, r) = data(r)
    BY <1>3, <2>1 DEF Handed, Data, AccountChannels, AuthChannels, QcChannels,
       NotificationChannels, AdminChannels, DirectoryChannels, AdminReply
  <2>5. \A s \in DOMAIN models : Whole(models[s])
    BY SolidTypes, SolidWords DEF Whole, Api!Flat, Api!DropboxReadinessResponse
  <2>6. ASSUME NEW r, Replies(r, models)
        PROVE  Contracted(data(r), AdminDropboxReadinessDataSchema)
    BY <2>6, ReadinessLands
  <2>7. ASSUME NEW r, Replies(r, models)
        PROVE  Checked(data(r), check)
    BY <2>7, ReadinessLands
  <2> QED
    BY <2>1, <2>2, <2>3, <2>4, <2>5, <2>6, <2>7 DEF Lands
<1> QED
  BY <1>1, <1>2, <1>3

LEMMA IntakeRepliesLand ==
  ASSUME NEW c \in {"INTAKE_SESSION_START", "INTAKE_MANIFEST_PUT", "INTAKE_HANDOFF_CREATE",
                    "INTAKE_HANDOFF_STATUS_GET", "INTAKE_HANDOFF_CONTROL",
                    "INTAKE_LOCK"}
  PROVE  /\ c \in Served
         /\ Lands(c, Api!ApiReplies[c], IPC_CONTRACT_REGISTRY[c].data, IntakeReplies[c])
<1>1. CASE c = "INTAKE_SESSION_START"
  <2> DEFINE models == [self |-> [created |-> Api!Bool, idempotent |-> Api!Bool, session |->
               {Api!Object("IntakeSessionSnapshot")}, event |-> Api!OrNull({Api!Object("any")})],
               IntakeSessionSnapshot |-> Api!IntakeSessionSnapshot]
           check == Payload([created |-> Bool, idempotent |-> Bool, session |-> AnyObject])
           data(r) == startSessionReply(r)
  <2>1. c \in Served /\ Api!ApiReplies[c] = models
    BY ZenonT(60), <1>1 DEF Served, Api!ApiReplies, Api!++
  <2>2. IPC_CONTRACT_REGISTRY[c].data = IntakeSessionStartDataSchema
    BY <1>1, ContractsOf DEF IntakeContracts, Creators, Contract
  <2>3. IntakeReplies[c] = check
    BY <1>1 DEF IntakeReplies
  <2>4. \A r : Handed(c, r) = data(r)
    BY <1>1, <2>1 DEF Handed, Data, AccountChannels, AuthChannels, QcChannels,
       NotificationChannels, AdminChannels, DirectoryChannels, OperationsReply
  <2>5. \A s \in DOMAIN models : Whole(models[s])
    BY SolidTypes, SolidWords, SessionsShow DEF Whole
  <2>6. ASSUME NEW r, Replies(r, models)
        PROVE  Contracted(data(r), IntakeSessionStartDataSchema)
    BY <2>6, SessionStartsLand
  <2>7. ASSUME NEW r, Replies(r, models)
        PROVE  Checked(data(r), check)
    BY <2>7, SessionStartsLand
  <2> QED
    BY Zenon, <2>1, <2>2, <2>3, <2>4, <2>5, <2>6, <2>7 DEF Lands
<1>2. CASE c = "INTAKE_MANIFEST_PUT"
  <2> DEFINE models == [self |-> [idempotent |-> Api!Bool, session |->
               {Api!Object("IntakeSessionSnapshot")}, manifest |->
               {Api!Object("ManifestSnapshot")}, event |-> {Api!Object("any")}],
               IntakeSessionSnapshot |-> Api!IntakeSessionSnapshot, ManifestSnapshot |->
               Api!ManifestSnapshot, ManifestSummary |-> Api!ManifestSummary, ManifestFileEntry
               |-> Api!ManifestFileEntry]
           check == Payload([idempotent |-> Bool, session |-> AnyObject, manifest |-> AnyObject])
           data(r) == putManifestReply(r)
  <2>1. c \in Served /\ Api!ApiReplies[c] = models
    BY ZenonT(60), <1>2 DEF Served, Api!ApiReplies, Api!++
  <2>2. IPC_CONTRACT_REGISTRY[c].data = IntakeManifestPutDataSchema
    BY <1>2, ContractsOf DEF IntakeContracts, Creators, Contract
  <2>3. IntakeReplies[c] = check
    BY <1>2 DEF IntakeReplies
  <2>4. \A r : Handed(c, r) = data(r)
    BY <1>2, <2>1 DEF Handed, Data, AccountChannels, AuthChannels, QcChannels,
       NotificationChannels, AdminChannels, DirectoryChannels, OperationsReply
  <2>5. \A s \in DOMAIN models : Whole(models[s])
    BY SolidTypes, SessionsShow, ManifestsAreWhole DEF Whole
  <2>6. ASSUME NEW r, Replies(r, models)
        PROVE  Contracted(data(r), IntakeManifestPutDataSchema)
    BY <2>6, ManifestsLand
  <2>7. ASSUME NEW r, Replies(r, models)
        PROVE  Checked(data(r), check)
    BY <2>7, ManifestsLand
  <2> QED
    BY <2>1, <2>2, <2>3, <2>4, <2>5, <2>6, <2>7 DEF Lands
<1>3. CASE c = "INTAKE_HANDOFF_CREATE"
  <2> DEFINE models == [self |-> [idempotent |-> Api!Bool, handoff |->
               {Api!Object("StorageHandoffSnapshot")}, event |-> {Api!Object("any")}],
               StorageHandoffSnapshot |-> Api!StorageHandoffSnapshot]
           check == [self |-> [idempotent |-> Bool, handoff |->
               {Object("IntakeHandoffCreateData_handoff")}], IntakeHandoffCreateData_handoff |->
               StorageHandoffSnapshot]
           data(r) == createHandoffReply(r)
  <2>1. c \in Served /\ Api!ApiReplies[c] = models
    BY ZenonT(60), <1>3 DEF Served, Api!ApiReplies, Api!++
  <2>2. IPC_CONTRACT_REGISTRY[c].data = IntakeHandoffCreateDataSchema
    BY <1>3, ContractsOf DEF IntakeContracts, Creators, Contract
  <2>3. IntakeReplies[c] = check
    BY <1>3 DEF IntakeReplies
  <2>4. \A r : Handed(c, r) = data(r)
    BY <1>3, <2>1 DEF Handed, Data, AccountChannels, AuthChannels, QcChannels,
       NotificationChannels, AdminChannels, DirectoryChannels, OperationsReply
  <2>5. \A s \in DOMAIN models : Whole(models[s])
    BY SolidTypes, SolidWords, HandoffsShow DEF Whole
  <2>6. ASSUME NEW r, Replies(r, models)
        PROVE  Contracted(data(r), IntakeHandoffCreateDataSchema)
    BY <2>6, HandoffsShow, FlagsShow, ObjectsShow DEF Replies, Contracted, Speaks, Serves, Nested,
       createHandoffReply, IntakeHandoffCreateDataSchema
  <2>7. ASSUME NEW r, Replies(r, models)
        PROVE  Checked(data(r), check)
    BY <2>7, HandoffsShow, FlagsShow, ObjectsShow DEF Replies, Checked, Speaks, Passes,
       createHandoffReply
  <2> QED
    BY <2>1, <2>2, <2>3, <2>4, <2>5, <2>6, <2>7 DEF Lands
<1>4. CASE c = "INTAKE_HANDOFF_STATUS_GET"
  <2> DEFINE models == [self |-> [handoff |-> {Api!Object("StorageHandoffSnapshot")}],
               StorageHandoffSnapshot |-> Api!StorageHandoffSnapshot]
           check == [self |-> [handoff |-> {Object("StorageHandoffStatusData_handoff")}],
               StorageHandoffStatusData_handoff |-> StorageHandoffSnapshot]
           data(r) == handoffStatusReply(r)
  <2>1. c \in Served /\ Api!ApiReplies[c] = models
    BY ZenonT(60), <1>4 DEF Served, Api!ApiReplies, Api!++
  <2>2. IPC_CONTRACT_REGISTRY[c].data = StorageHandoffStatusDataSchema
    BY <1>4, ContractsOf DEF IntakeContracts, Everyone, Contract
  <2>3. IntakeReplies[c] = check
    BY <1>4 DEF IntakeReplies
  <2>4. \A r : Handed(c, r) = data(r)
    BY <1>4, <2>1 DEF Handed, Data, AccountChannels, AuthChannels, QcChannels,
       NotificationChannels, AdminChannels, DirectoryChannels, OperationsReply
  <2>5. \A s \in DOMAIN models : Whole(models[s])
    BY SolidTypes, SolidWords, HandoffsShow DEF Whole
  <2>6. ASSUME NEW r, Replies(r, models)
        PROVE  Contracted(data(r), StorageHandoffStatusDataSchema)
    BY <2>6, HandoffsShow, ObjectsShow DEF Replies, Contracted, Speaks, Serves, Nested,
       handoffStatusReply, StorageHandoffStatusDataSchema, StorageHandoffStatusData_handoff,
       IntakeHandoffCreateData_handoff
  <2>7. ASSUME NEW r, Replies(r, models)
        PROVE  Checked(data(r), check)
    BY <2>7, HandoffsShow, ObjectsShow DEF Replies, Checked, Speaks, Passes, handoffStatusReply
  <2> QED
    BY Zenon, <2>1, <2>2, <2>3, <2>4, <2>5, <2>6, <2>7 DEF Lands
<1>5. CASE c = "INTAKE_HANDOFF_CONTROL"
  <2> DEFINE models == [self |-> [handoff |-> {Api!Object("StorageHandoffSnapshot")}],
               StorageHandoffSnapshot |-> Api!StorageHandoffSnapshot]
           check == [self |-> [handoff |-> {Object("StorageHandoffControlData_handoff")}],
               StorageHandoffControlData_handoff |-> StorageHandoffSnapshot]
           data(r) == controlHandoffReply(r)
  <2>1. c \in Served /\ Api!ApiReplies[c] = models
    BY ZenonT(60), <1>5 DEF Served, Api!ApiReplies, Api!++
  <2>2. IPC_CONTRACT_REGISTRY[c].data = StorageHandoffControlDataSchema
    BY <1>5, ContractsOf DEF IntakeContracts, Creators, Contract
  <2>3. IntakeReplies[c] = check
    BY <1>5 DEF IntakeReplies
  <2>4. \A r : Handed(c, r) = data(r)
    BY <1>5, <2>1 DEF Handed, Data, AccountChannels, AuthChannels, QcChannels,
       NotificationChannels, AdminChannels, DirectoryChannels, OperationsReply
  <2>5. \A s \in DOMAIN models : Whole(models[s])
    BY SolidTypes, SolidWords, HandoffsShow DEF Whole
  <2>6. ASSUME NEW r, Replies(r, models)
        PROVE  Contracted(data(r), StorageHandoffControlDataSchema)
    BY <2>6, HandoffsShow, ObjectsShow DEF Replies, Contracted, Speaks, Serves, Nested,
       controlHandoffReply, StorageHandoffControlDataSchema, StorageHandoffControlData_handoff,
       IntakeHandoffCreateData_handoff
  <2>7. ASSUME NEW r, Replies(r, models)
        PROVE  Checked(data(r), check)
    BY <2>7, HandoffsShow, ObjectsShow DEF Replies, Checked, Speaks, Passes, controlHandoffReply
  <2> QED
    BY <2>1, <2>2, <2>3, <2>4, <2>5, <2>6, <2>7 DEF Lands
<1>6. CASE c = "INTAKE_LOCK"
  <2> DEFINE models == Api!Flat(Api!LockSubmissionFilesResult)
           check == Payload([submissionId |-> Trimmed, intakeSessionId |-> Trimmed, lockedCount
               |-> Integer, lockedAt |-> Iso])
           data(r) == lockReply(r.self)
  <2>1. c \in Served /\ Api!ApiReplies[c] = models
    BY Zenon, <1>6 DEF Served, Api!ApiReplies, Api!++
  <2>2. IPC_CONTRACT_REGISTRY[c].data = IntakeLockDataSchema
    BY <1>6, ContractsOf DEF IntakeContracts, Creators, Contract
  <2>3. IntakeReplies[c] = check
    BY <1>6 DEF IntakeReplies
  <2>4. \A r : Handed(c, r) = data(r)
    BY <1>6, <2>1 DEF Handed, Data, AccountChannels, AuthChannels, QcChannels,
       NotificationChannels, AdminChannels, DirectoryChannels, OperationsReply
  <2>5. \A s \in DOMAIN models : Whole(models[s])
    BY SolidTypes, SolidWords DEF Whole, Api!Flat, Api!LockSubmissionFilesResult
  <2>6. ASSUME NEW r, Replies(r, models)
        PROVE  Contracted(data(r), IntakeLockDataSchema)
    BY <2>6, TextsShow, TimesShow, NumbersShow DEF Replies, Contracted, Speaks, Serves, lockReply,
       One, Api!Flat, Api!LockSubmissionFilesResult, IntakeLockDataSchema
  <2>7. ASSUME NEW r, Replies(r, models)
        PROVE  Checked(data(r), check)
    BY <2>7, TextsShow, TimesShow, NumbersShow DEF Replies, Checked, Speaks, Passes, lockReply,
       One, Api!Flat, Api!LockSubmissionFilesResult, Payload
  <2> QED
    BY <2>1, <2>2, <2>3, <2>4, <2>5, <2>6, <2>7 DEF Lands
<1> QED
  BY <1>1, <1>2, <1>3, <1>4, <1>5, <1>6

LEMMA IntegrationRepliesLand ==
  ASSUME NEW c \in {"ADMIN_INTEGRATIONS_HEALTH_LIST", "ADMIN_INTEGRATIONS_TEST",
                    "ADMIN_INTEGRATIONS_AIRTABLE_CONFIGURE",
                    "ADMIN_INTEGRATIONS_SMTP_CONFIGURE",
                    "ADMIN_INTEGRATIONS_DROPBOX_TOKENS_UPDATE",
                    "ADMIN_INTEGRATIONS_DROPBOX_APP_CONFIGURE",
                    "ADMIN_INTEGRATIONS_ROTATE",
                    "ADMIN_DROPBOX_READINESS_GET",
                    "ADMIN_DROPBOX_OAUTH_START",
                    "ADMIN_DROPBOX_OAUTH_COMPLETE"}
  PROVE  /\ c \in Served
         /\ Lands(c, Api!ApiReplies[c], IPC_CONTRACT_REGISTRY[c].data, HelperReplies[c])
<1>1. CASE c = "ADMIN_INTEGRATIONS_HEALTH_LIST"
  <2> DEFINE models == [self |-> [integrations |-> Api!ArrayOf("IntegrationTestResult")],
               IntegrationTestResult |-> Api!IntegrationTestResult]
           check == [self |-> [integrations |-> ArrayOf("AdminIntegrationTestData")],
               AdminIntegrationTestData |-> IntegrationHealth]
           data(r) == healthReply(r)
  <2>1. c \in Served /\ Api!ApiReplies[c] = models
    BY ZenonT(60), <1>1 DEF Served, Api!ApiReplies, Api!++
  <2>2. IPC_CONTRACT_REGISTRY[c].data = AdminIntegrationHealthListDataSchema
    BY <1>1, ContractsOf DEF AdminContracts, Admins, Contract
  <2>3. HelperReplies[c] = check
    BY <1>1 DEF HelperReplies
  <2>4. \A r : Handed(c, r) = data(r)
    BY <1>1, <2>1 DEF Handed, Data, AccountChannels, AuthChannels, QcChannels,
       NotificationChannels, AdminChannels, DirectoryChannels, AdminReply
  <2>5. \A s \in DOMAIN models : Whole(models[s])
    BY SolidTypes, SolidWords, HealthShows DEF Whole
  <2>6. ASSUME NEW r, Replies(r, models)
        PROVE  Contracted(data(r), AdminIntegrationHealthListDataSchema)
    BY <2>6, HealthShows, ObjectsShow DEF Replies, Contracted, Speaks, Serves, Nested,
       healthReply, AdminIntegrationHealthListDataSchema
  <2>7. ASSUME NEW r, Replies(r, models)
        PROVE  Checked(data(r), check)
    BY <2>7, HealthShows, ObjectsShow DEF Replies, Checked, Speaks, Passes, healthReply
  <2> QED
    BY <2>1, <2>2, <2>3, <2>4, <2>5, <2>6, <2>7 DEF Lands
<1>2. CASE c = "ADMIN_INTEGRATIONS_TEST"
  <2> DEFINE models == Api!Flat(Api!IntegrationTestResult)
           check == Payload(IntegrationHealth)
           data(r) == One(mapIntegrationHealth(r.self))
  <2>1. c \in Served /\ Api!ApiReplies[c] = models
    BY Zenon, <1>2 DEF Served, Api!ApiReplies, Api!++
  <2>2. IPC_CONTRACT_REGISTRY[c].data = AdminIntegrationTestDataSchema
    BY <1>2, ContractsOf DEF AdminContracts, Admins, Contract
  <2>3. HelperReplies[c] = check
    BY <1>2 DEF HelperReplies
  <2>4. \A r : Handed(c, r) = data(r)
    BY <1>2, <2>1 DEF Handed, Data, AccountChannels, AuthChannels, QcChannels,
       NotificationChannels, AdminChannels, DirectoryChannels, AdminReply
  <2>5. \A s \in DOMAIN models : Whole(models[s])
    BY SolidTypes, SolidWords, HealthShows DEF Whole, Api!Flat
  <2>6. ASSUME NEW r, Replies(r, models)
        PROVE  Contracted(data(r), AdminIntegrationTestDataSchema)
    BY <2>6, HealthShows DEF Replies, Contracted, Speaks, Serves, One, Api!Flat
  <2>7. ASSUME NEW r, Replies(r, models)
        PROVE  Checked(data(r), check)
    BY <2>7, HealthShows DEF Replies, Checked, Speaks, Passes, One, Api!Flat, Payload
  <2> QED
    BY <2>1, <2>2, <2>3, <2>4, <2>5, <2>6, <2>7 DEF Lands
<1>3. CASE c \in {"ADMIN_INTEGRATIONS_AIRTABLE_CONFIGURE", "ADMIN_INTEGRATIONS_SMTP_CONFIGURE",
          "ADMIN_INTEGRATIONS_DROPBOX_TOKENS_UPDATE", "ADMIN_INTEGRATIONS_DROPBOX_APP_CONFIGURE"}
  <2> DEFINE models == Api!Flat(Api!IntegrationConfigureResponse)
           check == Configured
           data(r) == configuredReply(r.self)
  <2>1. c \in Served /\ Api!ApiReplies[c] = models
    <3>1. CASE c = "ADMIN_INTEGRATIONS_AIRTABLE_CONFIGURE"
      BY Zenon, <3>1 DEF Served, Api!ApiReplies, Api!++
    <3>2. CASE c = "ADMIN_INTEGRATIONS_SMTP_CONFIGURE"
      BY Zenon, <3>2 DEF Served, Api!ApiReplies, Api!++
    <3>3. CASE c = "ADMIN_INTEGRATIONS_DROPBOX_TOKENS_UPDATE"
      BY Zenon, <3>3 DEF Served, Api!ApiReplies, Api!++
    <3>4. CASE c = "ADMIN_INTEGRATIONS_DROPBOX_APP_CONFIGURE"
      BY Zenon, <3>4 DEF Served, Api!ApiReplies, Api!++
    <3> QED
      BY <1>3, <3>1, <3>2, <3>3, <3>4
  <2>2. IPC_CONTRACT_REGISTRY[c].data = AdminIntegrationConfigureDataSchema
    BY <1>3, ContractsOf DEF AdminContracts, Admins, Contract
  <2>3. HelperReplies[c] = check
    BY <1>3 DEF HelperReplies
  <2>4. \A r : Handed(c, r) = data(r)
    BY <1>3, <2>1 DEF Handed, Data, AccountChannels, AuthChannels, QcChannels,
       NotificationChannels, AdminChannels, DirectoryChannels, AdminReply
  <2>5. \A s \in DOMAIN models : Whole(models[s])
    BY SolidTypes, SolidWords DEF Whole, Api!Flat, Api!IntegrationConfigureResponse
  <2>6. ASSUME NEW r, Replies(r, models)
        PROVE  Contracted(data(r), AdminIntegrationConfigureDataSchema)
    BY <2>6, TextsShow, TimesShow, WordsShow DEF Replies, Contracted, Speaks, Serves,
       configuredReply, One, Api!Flat, Api!IntegrationConfigureResponse,
       AdminIntegrationConfigureDataSchema
  <2>7. ASSUME NEW r, Replies(r, models)
        PROVE  Checked(data(r), check)
    BY <2>7, TextsShow, TimesShow, WordsShow DEF Replies, Checked, Speaks, Passes,
       configuredReply, One, Api!Flat, Api!IntegrationConfigureResponse, Configured, Payload,
       Providers
  <2> QED
    BY <2>1, <2>2, <2>3, <2>4, <2>5, <2>6, <2>7 DEF Lands
<1>4. CASE c = "ADMIN_INTEGRATIONS_ROTATE"
  <2> DEFINE models == Api!Flat(Api!IntegrationRotateResult)
           check == Payload([provider |-> Trimmed, status |-> Trimmed, rotatedAt |-> Iso, keyRef
               |-> Trimmed])
           data(r) == rotateIntegrationReply(r.self)
  <2>1. c \in Served /\ Api!ApiReplies[c] = models
    BY Zenon, <1>4 DEF Served, Api!ApiReplies, Api!++
  <2>2. IPC_CONTRACT_REGISTRY[c].data = AdminIntegrationRotateDataSchema
    BY <1>4, ContractsOf DEF AdminContracts, Admins, Contract
  <2>3. HelperReplies[c] = check
    BY <1>4 DEF HelperReplies
  <2>4. \A r : Handed(c, r) = data(r)
    BY <1>4, <2>1 DEF Handed, Data, AccountChannels, AuthChannels, QcChannels,
       NotificationChannels, AdminChannels, DirectoryChannels, AdminReply
  <2>5. \A s \in DOMAIN models : Whole(models[s])
    BY SolidTypes, SolidWords DEF Whole, Api!Flat, Api!IntegrationRotateResult
  <2>6. ASSUME NEW r, Replies(r, models)
        PROVE  Contracted(data(r), AdminIntegrationRotateDataSchema)
    BY <2>6, TextsShow, TimesShow, WordsShow DEF Replies, Contracted, Speaks, Serves,
       rotateIntegrationReply, One, Api!Flat, Api!IntegrationRotateResult,
       AdminIntegrationRotateDataSchema
  <2>7. ASSUME NEW r, Replies(r, models)
        PROVE  Checked(data(r), check)
    BY <2>7, TextsShow, TimesShow, WordsShow DEF Replies, Checked, Speaks, Passes,
       rotateIntegrationReply, One, Api!Flat, Api!IntegrationRotateResult, Payload
  <2> QED
    BY <2>1, <2>2, <2>3, <2>4, <2>5, <2>6, <2>7 DEF Lands
<1>5. CASE c = "ADMIN_DROPBOX_READINESS_GET"
  <2> DEFINE models == Api!Flat(Api!DropboxReadinessResponse)
           check == Payload(Readiness ++ [hasAppCredentials |-> Optional(Bool), authorizeUrl |->
               Nullish(Trimmed)])
           data(r) == readinessReply(r.self)
  <2>1. c \in Served /\ Api!ApiReplies[c] = models
    BY Zenon, <1>5 DEF Served, Api!ApiReplies, Api!++
  <2>2. IPC_CONTRACT_REGISTRY[c].data = AdminDropboxReadinessDataSchema
    BY <1>5, ContractsOf DEF AdminContracts, Admins, Contract
  <2>3. HelperReplies[c] = check
    BY <1>5 DEF HelperReplies
  <2>4. \A r : Handed(c, r) = data(r)
    BY <1>5, <2>1 DEF Handed, Data, AccountChannels, AuthChannels, QcChannels,
       NotificationChannels, AdminChannels, DirectoryChannels, AdminReply
  <2>5. \A s \in DOMAIN models : Whole(models[s])
    BY SolidTypes, SolidWords DEF Whole, Api!Flat, Api!DropboxReadinessResponse
  <2>6. ASSUME NEW r, Replies(r, models)
        PROVE  Contracted(data(r), AdminDropboxReadinessDataSchema)
    BY <2>6, ReadinessLands
  <2>7. ASSUME NEW r, Replies(r, models)
        PROVE  Checked(data(r), check)
    BY <2>7, ReadinessLands
  <2> QED
    BY <2>1, <2>2, <2>3, <2>4, <2>5, <2>6, <2>7 DEF Lands
<1>6. CASE c = "ADMIN_DROPBOX_OAUTH_START"
  <2> DEFINE models == Api!Flat(Api!DropboxOauthStartResponse)
           check == Payload([provider |-> Enum({"dropbox"}), authorizeUrl |-> Trimmed])
           data(r) == startOauthReply(r.self)
  <2>1. c \in Served /\ Api!ApiReplies[c] = models
    BY Zenon, <1>6 DEF Served, Api!ApiReplies, Api!++
  <2>2. IPC_CONTRACT_REGISTRY[c].data = AdminDropboxOauthStartDataSchema
    BY <1>6, ContractsOf DEF AdminContracts, Admins, Contract
  <2>3. HelperReplies[c] = check
    BY <1>6 DEF HelperReplies
  <2>4. \A r : Handed(c, r) = data(r)
    BY <1>6, <2>1 DEF Handed, Data, AccountChannels, AuthChannels, QcChannels,
       NotificationChannels, AdminChannels, DirectoryChannels, AdminReply
  <2>5. \A s \in DOMAIN models : Whole(models[s])
    BY SolidTypes, SolidWords DEF Whole, Api!Flat, Api!DropboxOauthStartResponse
  <2>6. ASSUME NEW r, Replies(r, models)
        PROVE  Contracted(data(r), AdminDropboxOauthStartDataSchema)
    BY <2>6, TextsShow, WordsShow DEF Replies, Contracted, Speaks, Serves, startOauthReply, One,
       Api!Flat, Api!DropboxOauthStartResponse, AdminDropboxOauthStartDataSchema
  <2>7. ASSUME NEW r, Replies(r, models)
        PROVE  Checked(data(r), check)
    BY <2>7, TextsShow, WordsShow DEF Replies, Checked, Speaks, Passes, startOauthReply, One,
       Api!Flat, Api!DropboxOauthStartResponse, Payload
  <2> QED
    BY <2>1, <2>2, <2>3, <2>4, <2>5, <2>6, <2>7 DEF Lands
<1>7. CASE c = "ADMIN_DROPBOX_OAUTH_COMPLETE"
  <2> DEFINE models == Api!Flat(Api!DropboxOauthCompleteResponse)
           check == Payload([provider |-> Enum({"dropbox"}), status |-> Trimmed, accountId |->
               Nullish(Trimmed), configuredAt |-> Iso])
           data(r) == completeOauthReply(r.self)
  <2>1. c \in Served /\ Api!ApiReplies[c] = models
    BY Zenon, <1>7 DEF Served, Api!ApiReplies, Api!++
  <2>2. IPC_CONTRACT_REGISTRY[c].data = AdminDropboxOauthCompleteDataSchema
    BY <1>7, ContractsOf DEF AdminContracts, Admins, Contract
  <2>3. HelperReplies[c] = check
    BY <1>7 DEF HelperReplies
  <2>4. \A r : Handed(c, r) = data(r)
    BY <1>7, <2>1 DEF Handed, Data, AccountChannels, AuthChannels, QcChannels,
       NotificationChannels, AdminChannels, DirectoryChannels, AdminReply
  <2>5. \A s \in DOMAIN models : Whole(models[s])
    BY SolidTypes, SolidWords DEF Whole, Api!Flat, Api!DropboxOauthCompleteResponse
  <2>6. ASSUME NEW r, Replies(r, models)
        PROVE  Contracted(data(r), AdminDropboxOauthCompleteDataSchema)
    BY <2>6, TextsShow, PossibleTextsShow, TimesShow, WordsShow DEF Replies, Contracted, Speaks,
       Serves, completeOauthReply, One, Api!Flat, Api!DropboxOauthCompleteResponse,
       AdminDropboxOauthCompleteDataSchema
  <2>7. ASSUME NEW r, Replies(r, models)
        PROVE  Checked(data(r), check)
    BY <2>7, TextsShow, PossibleTextsShow, TimesShow, WordsShow DEF Replies, Checked, Speaks,
       Passes, completeOauthReply, One, Api!Flat, Api!DropboxOauthCompleteResponse, Payload
  <2> QED
    BY <2>1, <2>2, <2>3, <2>4, <2>5, <2>6, <2>7 DEF Lands
<1> QED
  BY <1>1, <1>2, <1>3, <1>4, <1>5, <1>6, <1>7

LEMMA NotificationRepliesLand ==
  ASSUME NEW c \in {"NOTIFICATIONS_LIST", "NOTIFICATIONS_MARK_READ",
                    "NOTIFICATIONS_MARK_ALL_READ", "NOTIFICATIONS_RETRY"}
  PROVE  /\ c \in Served
         /\ Lands(c, Api!ApiReplies[c], IPC_CONTRACT_REGISTRY[c].data, NotificationReplies[c])
<1>1. CASE c = "NOTIFICATIONS_LIST"
  <2> DEFINE models == [self |-> [notifications |-> Api!ArrayOf("NotificationItem")],
               NotificationItem |-> Api!NotificationItem]
           check == [self |-> [notifications |-> ArrayOf("NotificationItem")], NotificationItem
               |-> NotificationItem]
           data(r) == [self |-> [notifications |-> Rows(r.self.notifications,
               "NotificationItem")], NotificationItem |-> mapNotification(r.NotificationItem)]
  <2>1. c \in Served /\ Api!ApiReplies[c] = models
    BY ZenonT(60), <1>1 DEF Served, Api!ApiReplies, Api!++
  <2>2. IPC_CONTRACT_REGISTRY[c].data = NotificationsListDataSchema
    BY <1>1, ContractsOf DEF NotificationContracts, Everyone, Contract
  <2>3. NotificationReplies[c] = check
    BY <1>1 DEF NotificationReplies
  <2>4. \A r : Handed(c, r) = data(r)
    BY <1>1, <2>1 DEF Handed, Data, AccountChannels, NotificationChannels, AuthReply
  <2>5. \A s \in DOMAIN models : Whole(models[s])
    BY SolidTypes, SolidWords, NotificationsShow DEF Whole
  <2>6. ASSUME NEW r, Replies(r, models)
        PROVE  Contracted(data(r), NotificationsListDataSchema)
    BY <2>6, NotificationsShow, ObjectsShow DEF Replies, Contracted, Speaks, Serves, Nested,
       NotificationsListDataSchema
  <2>7. ASSUME NEW r, Replies(r, models)
        PROVE  Checked(data(r), check)
    BY <2>7, NotificationsShow, ObjectsShow DEF Replies, Checked, Speaks, Passes
  <2> QED
    BY Zenon, <2>1, <2>2, <2>3, <2>4, <2>5, <2>6, <2>7 DEF Lands
<1>2. CASE c \in {"NOTIFICATIONS_MARK_READ", "NOTIFICATIONS_MARK_ALL_READ"}
  <2> DEFINE models == Api!UpdatedCount
           check == UpdatedCount
           data(r) == One([updatedCount |-> r.self.updated_count])
  <2>1. c \in Served /\ Api!ApiReplies[c] = models
    <3>1. CASE c = "NOTIFICATIONS_MARK_READ"
      BY Zenon, <3>1 DEF Served, Api!ApiReplies, Api!++
    <3>2. CASE c = "NOTIFICATIONS_MARK_ALL_READ"
      BY Zenon, <3>2 DEF Served, Api!ApiReplies, Api!++
    <3> QED
      BY <1>2, <3>1, <3>2
  <2>2. IPC_CONTRACT_REGISTRY[c].data = NotificationsUpdatedCountDataSchema
    BY <1>2, ContractsOf DEF NotificationContracts, Everyone, Contract
  <2>3. NotificationReplies[c] = check
    BY <1>2 DEF NotificationReplies
  <2>4. \A r : Handed(c, r) = data(r)
    BY <1>2, <2>1 DEF Handed, Data, AccountChannels, NotificationChannels, AuthReply
  <2>5. \A s \in DOMAIN models : Whole(models[s])
    BY SolidTypes, SolidWords DEF Whole, Api!UpdatedCount, Api!Flat
  <2>6. ASSUME NEW r, Replies(r, models)
        PROVE  Contracted(data(r), NotificationsUpdatedCountDataSchema)
    BY <2>6, NumbersShow DEF Replies, Contracted, Speaks, Serves, One, Api!UpdatedCount, Api!Flat,
       NotificationsUpdatedCountDataSchema
  <2>7. ASSUME NEW r, Replies(r, models)
        PROVE  Checked(data(r), check)
    BY <2>7, NumbersShow DEF Replies, Checked, Speaks, Passes, One, Api!UpdatedCount, Api!Flat,
       UpdatedCount, Payload
  <2> QED
    BY <2>1, <2>2, <2>3, <2>4, <2>5, <2>6, <2>7 DEF Lands
<1>3. CASE c = "NOTIFICATIONS_RETRY"
  <2> DEFINE models == [self |-> [notification |-> {Api!Object("NotificationItem")}],
               NotificationItem |-> Api!NotificationItem]
           check == [self |-> [notification |-> {Object("NotificationItem")}], NotificationItem
               |-> NotificationItem]
           data(r) == [self |-> [notification |-> Object("NotificationItem")], NotificationItem
               |-> mapNotification(r.NotificationItem)]
  <2>1. c \in Served /\ Api!ApiReplies[c] = models
    BY ZenonT(60), <1>3 DEF Served, Api!ApiReplies, Api!++
  <2>2. IPC_CONTRACT_REGISTRY[c].data = NotificationsRetryDataSchema
    BY <1>3, ContractsOf DEF NotificationContracts, Reviewers, Contract
  <2>3. NotificationReplies[c] = check
    BY <1>3 DEF NotificationReplies
  <2>4. \A r : Handed(c, r) = data(r)
    BY <1>3, <2>1 DEF Handed, Data, AccountChannels, NotificationChannels, AuthReply
  <2>5. \A s \in DOMAIN models : Whole(models[s])
    BY SolidTypes, SolidWords, NotificationsShow DEF Whole
  <2>6. ASSUME NEW r, Replies(r, models)
        PROVE  Contracted(data(r), NotificationsRetryDataSchema)
    BY <2>6, NotificationsShow, ObjectsShow DEF Replies, Contracted, Speaks, Serves, Nested,
       NotificationsRetryDataSchema
  <2>7. ASSUME NEW r, Replies(r, models)
        PROVE  Checked(data(r), check)
    BY <2>7, NotificationsShow, ObjectsShow DEF Replies, Checked, Speaks, Passes
  <2> QED
    BY Zenon, <2>1, <2>2, <2>3, <2>4, <2>5, <2>6, <2>7 DEF Lands
<1> QED
  BY <1>1, <1>2, <1>3

LEMMA OperationsRepliesLand ==
  ASSUME NEW c \in {"OBSERVABILITY_METRICS_GET", "OBSERVABILITY_INCIDENTS_ANNOTATE"}
  PROVE  /\ c \in Served
         /\ Lands(c, Api!ApiReplies[c], IPC_CONTRACT_REGISTRY[c].data, OperationsReplies[c])
<1>1. CASE c = "OBSERVABILITY_METRICS_GET"
  <2> DEFINE models == Api!Flat([text |-> Api!Text(0)])
           check == Payload([snapshot |-> Trimmed, capturedAt |-> Iso])
           data(r) == metricsReply(r.self)
  <2>1. c \in Served /\ Api!ApiReplies[c] = models
    BY Zenon, <1>1 DEF Served, Api!ApiReplies, Api!++
  <2>2. IPC_CONTRACT_REGISTRY[c].data = ObservabilityMetricsGetDataSchema
    BY <1>1, ContractsOf DEF OperationsContracts, Reviewers, Contract
  <2>3. OperationsReplies[c] = check
    BY <1>1 DEF OperationsReplies
  <2>4. \A r : Handed(c, r) = data(r)
    BY <1>1, <2>1 DEF Handed, Data, AccountChannels, AuthChannels, QcChannels,
       NotificationChannels, AdminChannels, DirectoryChannels, OperationsReply
  <2>5. \A s \in DOMAIN models : Whole(models[s])
    BY SolidTypes, SolidWords DEF Whole, Api!Flat
  <2>6. ASSUME NEW r, Replies(r, models), Usual(c, data(r))
        PROVE  Contracted(data(r), ObservabilityMetricsGetDataSchema)
    BY <1>1, <2>6, MetricsLand
  <2>7. ASSUME NEW r, Replies(r, models), Usual(c, data(r))
        PROVE  Checked(data(r), check)
    BY <1>1, <2>7, MetricsLand
  <2> QED
    BY <2>1, <2>2, <2>3, <2>4, <2>5, <2>6, <2>7 DEF Lands
<1>2. CASE c = "OBSERVABILITY_INCIDENTS_ANNOTATE"
  <2> DEFINE models == [self |-> [idempotent |-> Api!Bool, annotation |->
               {Api!Object("IncidentAnnotationSnapshot")}], IncidentAnnotationSnapshot |->
               Api!IncidentAnnotationSnapshot]
           check == [self |-> [idempotent |-> Bool, annotation |->
               {Object("ObservabilityIncidentsAnnotateData_annotation")}],
               ObservabilityIncidentsAnnotateData_annotation |-> [id |-> Trimmed, createdAt |->
               Iso]]
           data(r) == annotateIncidentReply(r)
  <2>1. c \in Served /\ Api!ApiReplies[c] = models
    BY ZenonT(60), <1>2 DEF Served, Api!ApiReplies, Api!++
  <2>2. IPC_CONTRACT_REGISTRY[c].data = ObservabilityIncidentsAnnotateDataSchema
    BY <1>2, ContractsOf DEF OperationsContracts, Reviewers, Contract
  <2>3. OperationsReplies[c] = check
    BY <1>2 DEF OperationsReplies
  <2>4. \A r : Handed(c, r) = data(r)
    BY <1>2, <2>1 DEF Handed, Data, AccountChannels, AuthChannels, QcChannels,
       NotificationChannels, AdminChannels, DirectoryChannels, OperationsReply
  <2>5. \A s \in DOMAIN models : Whole(models[s])
    BY SolidTypes, SolidWords, AnnotationsShow DEF Whole
  <2>6. ASSUME NEW r, Replies(r, models)
        PROVE  Contracted(data(r), ObservabilityIncidentsAnnotateDataSchema)
    BY <2>6, AnnotationsShow, FlagsShow, ObjectsShow DEF Replies, Contracted, Speaks, Serves,
       Nested, annotateIncidentReply, ObservabilityIncidentsAnnotateDataSchema
  <2>7. ASSUME NEW r, Replies(r, models)
        PROVE  Checked(data(r), check)
    BY <2>7, AnnotationsShow, FlagsShow, ObjectsShow DEF Replies, Checked, Speaks, Passes,
       annotateIncidentReply
  <2> QED
    BY <2>1, <2>2, <2>3, <2>4, <2>5, <2>6, <2>7 DEF Lands
<1> QED
  BY <1>1, <1>2

LEMMA PolicyRepliesLand ==
  ASSUME NEW c \in {"ADMIN_OPS_HISTORY_LIST", "ADMIN_QC_POLICY_GET", "ADMIN_QC_POLICY_UPDATE"}
  PROVE  /\ c \in Served
         /\ Lands(c, Api!ApiReplies[c], IPC_CONTRACT_REGISTRY[c].data, AdminPolicyReplies[c])
<1>1. CASE c = "ADMIN_OPS_HISTORY_LIST"
  <2> DEFINE models == [self |-> [entries |-> Api!ArrayOf("AdminOpsHistoryEntry")],
               AdminOpsHistoryEntry |-> Api!AdminOpsHistoryEntry]
           check == [self |-> [entries |-> ArrayOf("AdminOpsHistoryListData_entries")],
               AdminOpsHistoryListData_entries |-> [id |-> Trimmed, action |-> Trimmed, actorId
               |-> Nullish(Trimmed), reason |-> Nullish(Trimmed), entity |-> Trimmed, timestamp
               |-> Iso]]
           data(r) == opsHistoryReply(r)
  <2>1. c \in Served /\ Api!ApiReplies[c] = models
    BY ZenonT(60), <1>1 DEF Served, Api!ApiReplies, Api!++
  <2>2. IPC_CONTRACT_REGISTRY[c].data = AdminOpsHistoryListDataSchema
    BY <1>1, ContractsOf DEF AdminContracts, Admins, Contract
  <2>3. AdminPolicyReplies[c] = check
    BY <1>1 DEF AdminPolicyReplies
  <2>4. \A r : Handed(c, r) = data(r)
    BY <1>1, <2>1 DEF Handed, Data, AccountChannels, QcChannels, AuthReply, AuthChannels,
       NotificationChannels, AdminChannels, DirectoryChannels, AdminReply
  <2>5. \A s \in DOMAIN models : Whole(models[s])
    BY SolidTypes, SolidWords DEF Whole, Api!AdminOpsHistoryEntry
  <2>6. ASSUME NEW r, Replies(r, models)
        PROVE  Contracted(data(r), AdminOpsHistoryListDataSchema)
    BY <2>6, TextsShow, PossibleTextsShow, TimesShow, ObjectsShow DEF Replies, Contracted, Speaks,
       Serves, Nested, opsHistoryReply, Api!AdminOpsHistoryEntry, AdminOpsHistoryListDataSchema,
       AdminOpsHistoryListData_entries
  <2>7. ASSUME NEW r, Replies(r, models)
        PROVE  Checked(data(r), check)
    BY <2>7, TextsShow, PossibleTextsShow, TimesShow, ObjectsShow DEF Replies, Checked, Speaks,
       Passes, opsHistoryReply, Api!AdminOpsHistoryEntry
  <2> QED
    BY <2>1, <2>2, <2>3, <2>4, <2>5, <2>6, <2>7 DEF Lands
<1>2. CASE c = "ADMIN_QC_POLICY_GET"
  <2> DEFINE models == [self |-> [policy |-> {Api!Object("QcPolicySnapshot")}], QcPolicySnapshot
               |-> Api!QcPolicySnapshot, QcPolicyRuleBinding |-> Api!QcPolicyRuleBinding]
           check == [self |-> [policy |-> {Object("QcPolicySnapshot")}], QcPolicySnapshot |->
               PolicySnapshot]
           data(r) == PolicyObjects(r) ++ One([policy |-> Object("QcPolicySnapshot")])
  <2>1. c \in Served /\ Api!ApiReplies[c] = models
    BY ZenonT(60), <1>2 DEF Served, Api!ApiReplies, Api!++
  <2>2. IPC_CONTRACT_REGISTRY[c].data = AdminQcPolicyGetDataSchema
    BY <1>2, ContractsOf DEF AdminContracts, Admins, Contract
  <2>3. AdminPolicyReplies[c] = check
    BY <1>2 DEF AdminPolicyReplies
  <2>4. \A r : Handed(c, r) = data(r)
    BY <1>2, <2>1 DEF Handed, Data, AccountChannels, QcChannels, AuthReply, AuthChannels,
       NotificationChannels, AdminChannels, DirectoryChannels, AdminReply
  <2>5. \A s \in DOMAIN models : Whole(models[s])
    BY SolidTypes, SolidWords, BindingsShow, PoliciesShow DEF Whole
  <2>6. ASSUME NEW r, Replies(r, models)
        PROVE  Contracted(data(r), AdminQcPolicyGetDataSchema)
    BY <2>6, BindingsShow, PoliciesShow, ObjectsShow DEF Replies, Contracted, Speaks, Serves,
       Nested, PolicyObjects, One, AdminQcPolicyGetDataSchema, ++
  <2>7. ASSUME NEW r, Replies(r, models)
        PROVE  Checked(data(r), check)
    BY <2>7, BindingsShow, PoliciesShow, ObjectsShow DEF Replies, Checked, Speaks, Passes,
       PolicyObjects, One, ++
  <2> QED
    BY <2>1, <2>2, <2>3, <2>4, <2>5, <2>6, <2>7 DEF Lands
<1>3. CASE c = "ADMIN_QC_POLICY_UPDATE"
  <2> DEFINE models == [self |-> [policy |-> {Api!Object("QcPolicySnapshot")}, audit_hook |->
               {Api!Object("AuditHookPayload")}, observability_hook |->
               {Api!Object("ObservabilityHookPayload")}], QcPolicySnapshot |->
               Api!QcPolicySnapshot, QcPolicyRuleBinding |-> Api!QcPolicyRuleBinding,
               AuditHookPayload |-> Api!AuditHookPayload, ObservabilityHookPayload |->
               Api!ObservabilityHookPayload]
           check == [self |-> [policy |-> {Object("QcPolicySnapshot")}, auditHook |->
               {Object("AdminQcPolicyUpdateData_auditHook")}, observabilityHook |->
               {Object("AdminQcPolicyUpdateData_observabilityHook")}], QcPolicySnapshot |->
               PolicySnapshot, AdminQcPolicyUpdateData_auditHook |-> [action |-> Trimmed,
               idempotencyKey |-> Trimmed], AdminQcPolicyUpdateData_observabilityHook |->
               [metricName |-> Trimmed, emittedAt |-> Iso]]
           data(r) == updateActivePolicyReply(r)
  <2>1. c \in Served /\ Api!ApiReplies[c] = models
    BY ZenonT(60), <1>3 DEF Served, Api!ApiReplies, Api!++
  <2>2. IPC_CONTRACT_REGISTRY[c].data = AdminQcPolicyUpdateDataSchema
    BY <1>3, ContractsOf DEF AdminContracts, Admins, Contract
  <2>3. AdminPolicyReplies[c] = check
    BY <1>3 DEF AdminPolicyReplies
  <2>4. \A r : Handed(c, r) = data(r)
    BY <1>3, <2>1 DEF Handed, Data, AccountChannels, QcChannels, AuthReply, AuthChannels,
       NotificationChannels, AdminChannels, DirectoryChannels, AdminReply
  <2>5. \A s \in DOMAIN models : Whole(models[s])
    BY SolidTypes, SolidWords, BindingsShow, PoliciesShow DEF Whole, Api!AuditHookPayload,
       Api!ObservabilityHookPayload
  <2>6. ASSUME NEW r, Replies(r, models)
        PROVE  Contracted(data(r), AdminQcPolicyUpdateDataSchema)
    BY <2>6, PolicyUpdatesLand
  <2>7. ASSUME NEW r, Replies(r, models)
        PROVE  Checked(data(r), check)
    BY <1>3, <2>3, <2>7, PolicyUpdatesLand
  <2> QED
    BY <2>1, <2>2, <2>3, <2>4, <2>5, <2>6, <2>7 DEF Lands
<1> QED
  BY <1>1, <1>2, <1>3

LEMMA QcRepliesLand ==
  ASSUME NEW c \in {"QC_EVALUATE_PACK", "QC_LIST_RULES", "QC_RESULTS_GET"}
  PROVE  /\ c \in Served
         /\ Lands(c, Api!ApiReplies[c], IPC_CONTRACT_REGISTRY[c].data, QcReplies[c])
<1>1. CASE c = "QC_EVALUATE_PACK"
  <2> DEFINE models == [self |-> Api!QcEvaluationResult, QcReport |-> Api!QcReport,
               QcReportSummary |-> Api!QcReportSummary, QcFinding |-> Api!QcFinding]
           check == QcEvaluationReply
           data(r) == mapEvaluationResult(r)
  <2>1. c \in Served /\ Api!ApiReplies[c] = models
    BY ZenonT(60), <1>1 DEF Served, Api!ApiReplies, Api!++
  <2>2. IPC_CONTRACT_REGISTRY[c].data = QcEvaluationDataSchema
    BY <1>1, ContractsOf DEF QcContracts, Everyone, Contract
  <2>3. QcReplies[c] = check
    BY <1>1 DEF QcReplies
  <2>4. \A r : Handed(c, r) = data(r)
    BY <1>1, <2>1 DEF Handed, Data, AccountChannels, QcChannels, AuthReply
  <2>5. \A s \in DOMAIN models : Whole(models[s])
    BY SolidTypes, SolidWords, FindingsShow DEF Whole, Api!QcEvaluationResult, Api!QcReport,
       Api!QcReportSummary
  <2>6. ASSUME NEW r, Replies(r, models)
        PROVE  Contracted(data(r), QcEvaluationDataSchema)
    BY SMTT(30), <2>6, FindingsShow, TextsShow, TimesShow, FlagsShow, NumbersShow, ObjectsShow,
       WordsShow DEF Replies, Contracted, Speaks, Serves, Nested, mapEvaluationResult,
       Api!QcEvaluationResult, Api!QcReport, Api!QcReportSummary, QcEvaluationDataSchema,
       QcReportSchema, QcReportStatusSchema, QcReportSummarySchema
  <2>7. ASSUME NEW r, Replies(r, models)
        PROVE  Checked(data(r), check)
    BY <2>7, EvaluationsPass
  <2> QED
    BY <2>1, <2>2, <2>3, <2>4, <2>5, <2>6, <2>7 DEF Lands
<1>2. CASE c = "QC_LIST_RULES"
  <2> DEFINE models == [self |-> [rules |-> Api!ArrayOf("QcRuleDefinition"), policy |->
               {Api!Object("QcPolicySnapshot")}], QcRuleDefinition |-> Api!QcRuleDefinition,
               QcPolicySnapshot |-> Api!QcPolicySnapshot, QcPolicyRuleBinding |->
               Api!QcPolicyRuleBinding]
           check == [self |-> [rules |-> ArrayOf("QcRuleDefinition"), policy |->
               {Object("QcPolicySnapshot")}], QcRuleDefinition |-> QcRuleDefinition,
               QcPolicySnapshot |-> PolicySnapshot]
           data(r) == PolicyObjects(r) ++ [self |-> [rules |-> Rows(r.self.rules,
               "QcRuleDefinition"), policy |-> Object("QcPolicySnapshot")], QcRuleDefinition |->
               mapRuleDefinition(r.QcRuleDefinition)]
  <2>1. c \in Served /\ Api!ApiReplies[c] = models
    BY ZenonT(60), <1>2 DEF Served, Api!ApiReplies, Api!++
  <2>2. IPC_CONTRACT_REGISTRY[c].data = QcListRulesDataSchema
    BY <1>2, ContractsOf DEF QcContracts, Everyone, Contract
  <2>3. QcReplies[c] = check
    BY <1>2 DEF QcReplies
  <2>4. \A r : Handed(c, r) = data(r)
    BY <1>2, <2>1 DEF Handed, Data, AccountChannels, QcChannels, AuthReply
  <2>5. \A s \in DOMAIN models : Whole(models[s])
    BY SolidTypes, SolidWords, BindingsShow, PoliciesShow, RulesShow DEF Whole
  <2>6. ASSUME NEW r, Replies(r, models)
        PROVE  Contracted(data(r), QcListRulesDataSchema)
    BY <2>6, BindingsShow, PoliciesShow, RulesShow, ObjectsShow DEF Replies, Contracted, Speaks,
       Serves, Nested, PolicyObjects, QcListRulesDataSchema, ++
  <2>7. ASSUME NEW r, Replies(r, models)
        PROVE  Checked(data(r), check)
    BY <2>7, BindingsShow, PoliciesShow, RulesShow, ObjectsShow DEF Replies, Checked, Speaks,
       Passes, PolicyObjects, ++
  <2> QED
    BY Zenon, <2>1, <2>2, <2>3, <2>4, <2>5, <2>6, <2>7 DEF Lands
<1>3. CASE c = "QC_RESULTS_GET"
  <2> DEFINE models == [self |-> [latest |-> {Api!Object("QcRunResult")}, history |->
               Api!ArrayOf("QcRunResult")], QcRunResult |-> Api!QcRunResult, QcFinding |->
               Api!QcFinding]
           check == [self |-> QcRun ++ [history |-> Own(ArrayOf("QcResultsRun"))], QcResultsRun
               |-> QcRun, QcReportFinding |-> QcReportFinding]
           data(r) == ResultsReply(r)
  <2>1. c \in Served /\ Api!ApiReplies[c] = models
    BY ZenonT(60), <1>3 DEF Served, Api!ApiReplies, Api!++
  <2>2. IPC_CONTRACT_REGISTRY[c].data = QcResultsGetDataSchema
    BY <1>3, ContractsOf DEF QcContracts, Everyone, Contract
  <2>3. QcReplies[c] = check
    BY <1>3 DEF QcReplies
  <2>4. \A r : Handed(c, r) = data(r)
    BY <1>3, <2>1 DEF Handed, Data, AccountChannels, QcChannels, AuthReply
  <2>5. \A s \in DOMAIN models : Whole(models[s])
    BY RunsShow, FindingsShow, SolidTypes DEF Whole
  <2>6. ASSUME NEW r, Replies(r, models)
        PROVE  Contracted(data(r), QcResultsGetDataSchema)
    BY <2>6, ResultsLand
  <2>7. ASSUME NEW r, Replies(r, models)
        PROVE  Checked(data(r), check)
    BY <2>7, ResultsLand
  <2> QED
    BY <2>1, <2>2, <2>3, <2>4, <2>5, <2>6, <2>7 DEF Lands
<1> QED
  BY <1>1, <1>2, <1>3

LEMMA ReviewRepliesLand ==
  ASSUME NEW c \in {"REVIEW_QUEUE_LIST", "REVIEW_SUBMISSION_GET", "REVIEW_APPROVE",
                    "REVIEW_REJECT", "REVIEW_REOPEN", "REVIEW_TAG_ADD",
                    "REVIEW_FLAG_ADD"}
  PROVE  /\ c \in Served
         /\ Lands(c, Api!ApiReplies[c], IPC_CONTRACT_REGISTRY[c].data, ReviewReplies[c])
<1>1. CASE c = "REVIEW_QUEUE_LIST"
  <2> DEFINE models == [self |-> [items |-> Api!ArrayOf("ReviewQueueItem")], ReviewQueueItem |->
               Api!ReviewQueueItem, ReviewFlagItem |-> Api!ReviewFlagItem]
           check == Payload([items |-> AnyArray])
           data(r) == reviewQueueReply(r)
  <2>1. c \in Served /\ Api!ApiReplies[c] = models
    BY <1>1, ReviewRepliesOf
  <2>2. IPC_CONTRACT_REGISTRY[c].data = ReviewQueueListDataSchema
    BY <1>1, ContractsOf DEF ReviewContracts, Reviewers, Contract
  <2>3. ReviewReplies[c] = check
    BY <1>1 DEF ReviewReplies
  <2>4. \A r : Handed(c, r) = data(r)
    BY <1>1, <2>1 DEF Handed, Data, AccountChannels, AuthChannels, QcChannels,
       NotificationChannels, AdminChannels, DirectoryChannels, AdminReply
  <2>5. \A s \in DOMAIN models : Whole(models[s])
    BY SolidTypes, QueueItemsShow, FlagItemsShow DEF Whole
  <2>6. ASSUME NEW r, Replies(r, models), Usual(c, data(r))
        PROVE  Contracted(data(r), ReviewQueueListDataSchema)
    BY <1>1, <2>6, QueuesLand
  <2>7. ASSUME NEW r, Replies(r, models), Usual(c, data(r))
        PROVE  Checked(data(r), check)
    BY <1>1, <2>7, QueuesLand
  <2> QED
    BY <2>1, <2>2, <2>3, <2>4, <2>5, <2>6, <2>7 DEF Lands
<1>2. CASE c = "REVIEW_SUBMISSION_GET"
  <2> DEFINE models == [self |-> Api!ReviewSubmissionDetailResponse, ReviewQueueItem |->
               Api!ReviewQueueItem, ReviewFlagItem |-> Api!ReviewFlagItem]
           check == Payload([submission |-> AnyObject, metadata |-> AnyObject, qcFindings |->
               AnyArray, decisions |-> AnyArray, tags |-> AnyArray, flags |-> AnyArray])
           data(r) == mapReviewDetail(r)
  <2>1. c \in Served /\ Api!ApiReplies[c] = models
    BY <1>2, ReviewRepliesOf
  <2>2. IPC_CONTRACT_REGISTRY[c].data = ReviewSubmissionGetDataSchema
    BY <1>2, ContractsOf DEF ReviewContracts, Reviewers, Contract
  <2>3. ReviewReplies[c] = check
    BY <1>2 DEF ReviewReplies
  <2>4. \A r : Handed(c, r) = data(r)
    BY <1>2, <2>1 DEF Handed, Data, AccountChannels, AuthChannels, QcChannels,
       NotificationChannels, AdminChannels, DirectoryChannels, AdminReply
  <2>5. \A s \in DOMAIN models : Whole(models[s])
    BY SolidTypes, QueueItemsShow, FlagItemsShow DEF Whole, Api!ReviewSubmissionDetailResponse
  <2>6. ASSUME NEW r, Replies(r, models), Usual(c, data(r))
        PROVE  Contracted(data(r), ReviewSubmissionGetDataSchema)
    BY <1>2, <2>6, DetailsLand
  <2>7. ASSUME NEW r, Replies(r, models), Usual(c, data(r))
        PROVE  Checked(data(r), check)
    BY <1>2, <2>7, DetailsLand
  <2> QED
    BY <2>1, <2>2, <2>3, <2>4, <2>5, <2>6, <2>7 DEF Lands
<1>3. CASE c \in {"REVIEW_APPROVE", "REVIEW_REJECT", "REVIEW_REOPEN"}
  <2> DEFINE models == Api!Decision
           check == DecisionReply
           data(r) == decisionReply(r.self)
  <2>1. c \in Served /\ Api!ApiReplies[c] = models
    <3>1. CASE c = "REVIEW_APPROVE"
      BY Zenon, <3>1 DEF Served, Api!ApiReplies, Api!++
    <3>2. CASE c = "REVIEW_REJECT"
      BY Zenon, <3>2 DEF Served, Api!ApiReplies, Api!++
    <3>3. CASE c = "REVIEW_REOPEN"
      BY Zenon, <3>3 DEF Served, Api!ApiReplies, Api!++
    <3> QED
      BY <1>3, <3>1, <3>2, <3>3
  <2>2. IPC_CONTRACT_REGISTRY[c].data = ReviewDecisionDataSchema
    BY <1>3, ContractsOf DEF ReviewContracts, Reviewers, Contract
  <2>3. ReviewReplies[c] = check
    BY <1>3 DEF ReviewReplies
  <2>4. \A r : Handed(c, r) = data(r)
    BY <1>3, <2>1 DEF Handed, Data, AccountChannels, AuthChannels, QcChannels,
       NotificationChannels, AdminChannels, DirectoryChannels, AdminReply
  <2>5. \A s \in DOMAIN models : Whole(models[s])
    BY SolidTypes, SolidWords DEF Whole, Api!Decision, Api!Flat
  <2>6. ASSUME NEW r, Replies(r, models)
        PROVE  Contracted(data(r), ReviewDecisionDataSchema)
    BY <2>6, ObjectsShow DEF Replies, Contracted, Speaks, Serves, decisionReply, One,
       Api!Decision, Api!Flat, ReviewDecisionDataSchema
  <2>7. ASSUME NEW r, Replies(r, models)
        PROVE  Checked(data(r), check)
    BY <2>7, ObjectsShow DEF Replies, Checked, Speaks, Passes, decisionReply, One, Api!Decision,
       Api!Flat, DecisionReply, Payload
  <2> QED
    BY <2>1, <2>2, <2>3, <2>4, <2>5, <2>6, <2>7 DEF Lands
<1>4. CASE c = "REVIEW_TAG_ADD"
  <2> DEFINE models == Api!Flat([tag |-> {Api!Object("any")}])
           check == Payload([tag |-> AnyObject])
           data(r) == addTagReply(r.self)
  <2>1. c \in Served /\ Api!ApiReplies[c] = models
    BY Zenon, <1>4 DEF Served, Api!ApiReplies, Api!++
  <2>2. IPC_CONTRACT_REGISTRY[c].data = ReviewTagAddDataSchema
    BY <1>4, ContractsOf DEF ReviewContracts, Reviewers, Contract
  <2>3. ReviewReplies[c] = check
    BY <1>4 DEF ReviewReplies
  <2>4. \A r : Handed(c, r) = data(r)
    BY <1>4, <2>1 DEF Handed, Data, AccountChannels, AuthChannels, QcChannels,
       NotificationChannels, AdminChannels, DirectoryChannels, AdminReply
  <2>5. \A s \in DOMAIN models : Whole(models[s])
    BY SolidTypes, SolidWords DEF Whole, Api!Flat
  <2>6. ASSUME NEW r, Replies(r, models)
        PROVE  Contracted(data(r), ReviewTagAddDataSchema)
    BY <2>6, ObjectsShow DEF Replies, Contracted, Speaks, Serves, addTagReply, One, Api!Flat,
       ReviewTagAddDataSchema
  <2>7. ASSUME NEW r, Replies(r, models)
        PROVE  Checked(data(r), check)
    BY <2>7, ObjectsShow DEF Replies, Checked, Speaks, Passes, addTagReply, One, Api!Flat, Payload
  <2> QED
    BY <2>1, <2>2, <2>3, <2>4, <2>5, <2>6, <2>7 DEF Lands
<1>5. CASE c = "REVIEW_FLAG_ADD"
  <2> DEFINE models == [self |-> [flag |-> {Api!Object("ReviewFlagItem")}], ReviewFlagItem |->
               Api!ReviewFlagItem]
           check == Payload([flag |-> AnyObject])
           data(r) == addFlagReply(r)
  <2>1. c \in Served /\ Api!ApiReplies[c] = models
    BY ZenonT(60), <1>5 DEF Served, Api!ApiReplies, Api!++
  <2>2. IPC_CONTRACT_REGISTRY[c].data = ReviewFlagAddDataSchema
    BY <1>5, ContractsOf DEF ReviewContracts, Reviewers, Contract
  <2>3. ReviewReplies[c] = check
    BY <1>5 DEF ReviewReplies
  <2>4. \A r : Handed(c, r) = data(r)
    BY <1>5, <2>1 DEF Handed, Data, AccountChannels, AuthChannels, QcChannels,
       NotificationChannels, AdminChannels, DirectoryChannels, AdminReply
  <2>5. \A s \in DOMAIN models : Whole(models[s])
    BY SolidTypes, SolidWords, FlagItemsShow DEF Whole
  <2>6. ASSUME NEW r, Replies(r, models)
        PROVE  Contracted(data(r), ReviewFlagAddDataSchema)
    BY <2>6, FlagAddsLand
  <2>7. ASSUME NEW r, Replies(r, models)
        PROVE  Checked(data(r), check)
    BY <2>7, FlagAddsLand
  <2> QED
    BY <2>1, <2>2, <2>3, <2>4, <2>5, <2>6, <2>7 DEF Lands
<1> QED
  BY <1>1, <1>2, <1>3, <1>4, <1>5

(* The shield: one object, and a contract that takes what it does not list. *)
LEMMA ShieldRepliesLand ==
  ASSUME NEW c \in Shields, NEW helper \in BOOLEAN
  PROVE  /\ c \in IPC_CHANNELS /\ c \in DOMAIN BridgeReplies[helper]
         /\ \A s \in DOMAIN LocalReplies[c] : Whole(LocalReplies[c][s])
         /\ \A r : Replies(r, LocalReplies[c]) =>
              /\ SatisfiesStrictly(r, DataSchemas[c])
              /\ Satisfies(r, BridgeReplies[helper][c])
<1> DEFINE schema == IPC_CONTRACT_REGISTRY[c].data
           models == LocalReplies[c]
<1>1. /\ c \in DOMAIN ShieldContracts
      /\ ShieldContracts[c].data \in {[success |-> Bool, enabled |-> Bool, unlisted |-> AnyValue],
                                      [enabled |-> Bool, unlisted |-> AnyValue]}
      /\ c = "DESKTOP_PRIVACY_SHIELD_TOGGLE" =>
           ShieldContracts[c].data = [success |-> Bool, enabled |-> Bool, unlisted |-> AnyValue]
      /\ c = "DESKTOP_PRIVACY_SHIELD_STATUS" =>
           ShieldContracts[c].data = [enabled |-> Bool, unlisted |-> AnyValue]
  BY DEF Shields, ShieldContracts, Creators, Contract
<1>2. c \in IPC_CHANNELS /\ schema = ShieldContracts[c].data
  <2>1. c \in IPC_CHANNELS
    BY <1>1, MergedDomain DEF IPC_CHANNELS, IPC_CONTRACT_REGISTRY
  <2> QED
    BY <1>1, <2>1, ContractsOf
<1>3. /\ c \in DOMAIN OperationsReplies
      /\ OperationsReplies[c] = Payload([enabled |-> Bool])
  BY DEF Shields, OperationsReplies
<1>4. /\ c \in DOMAIN BridgeReplies[helper]
      /\ BridgeReplies[helper][c] = Payload([enabled |-> Bool])
  BY <1>3, ChecksOf
<1>5. /\ c = "DESKTOP_PRIVACY_SHIELD_TOGGLE" =>
           models = One([success |-> {False}, enabled |-> Bool])
      /\ c = "DESKTOP_PRIVACY_SHIELD_STATUS" => models = One([enabled |-> Bool])
  BY DEF LocalReplies
<1>6. "self" \in DOMAIN DataSchemas[c] /\ DataSchemas[c]["self"] = schema
  <2> DEFINE inner == [s \in Mentioned(schema) |-> Nested[s]]
             outer == [self |-> schema]
  <2>1. DataSchemas[c] = outer ++ inner
    BY <1>2 DEF DataSchemas, Closed
  <2>2. "self" \in DOMAIN outer /\ outer["self"] = schema
    OBVIOUS
  <2> HIDE DEF outer, inner
  <2> QED
    BY <2>1, <2>2, MergedDomain, MergedFirst
<1> HIDE DEF models, schema
<1>7. \A s \in DOMAIN models : Whole(models[s])
  <2>1. Solid({False}) /\ Solid(Bool)
    BY Zenon, LocalTypesAreSolid
  <2> QED
    BY <1>5, <2>1 DEF Shields, Whole, One
<1>8. ASSUME NEW r, Replies(r, models)
      PROVE  SatisfiesStrictly(r, DataSchemas[c])
  <2>1. /\ DOMAIN r = {"self"} /\ r["self"].enabled \in Bool
        /\ c = "DESKTOP_PRIVACY_SHIELD_TOGGLE" =>
             DOMAIN r["self"] = {"success", "enabled"} /\ r["self"].success \in Bool
        /\ c = "DESKTOP_PRIVACY_SHIELD_STATUS" => DOMAIN r["self"] = {"enabled"}
    BY <1>5, <1>8 DEF Shields, Replies, Speaks, One, Bool
  <2>2. Absent \in AnyValue
    BY DEF AnyValue
  <2>3. /\ c = "DESKTOP_PRIVACY_SHIELD_TOGGLE" =>
             schema = [success |-> Bool, enabled |-> Bool, unlisted |-> AnyValue]
        /\ c = "DESKTOP_PRIVACY_SHIELD_STATUS" =>
             schema = [enabled |-> Bool, unlisted |-> AnyValue]
    BY <1>1, <1>2
  <2>4. \A f \in DOMAIN r["self"] \cup DOMAIN schema :
          SchemaAccepts(schema, f, Value(r, "self", f))
    <3>1. CASE c = "DESKTOP_PRIVACY_SHIELD_TOGGLE"
      BY <2>1, <2>2, <2>3, <3>1 DEF SchemaAccepts, Value
    <3>2. CASE c = "DESKTOP_PRIVACY_SHIELD_STATUS"
      BY <2>1, <2>2, <2>3, <3>2 DEF SchemaAccepts, Value
    <3> QED
      BY <3>1, <3>2 DEF Shields
  <2> QED
    BY <1>6, <2>1, <2>4 DEF SatisfiesStrictly
<1>9. ASSUME NEW r, Replies(r, models)
      PROVE  Satisfies(r, Payload([enabled |-> Bool]))
  <2>1. r["self"].enabled \in Bool /\ DOMAIN r = {"self"} /\ "enabled" \in DOMAIN r["self"]
    BY <1>5, <1>9 DEF Shields, Replies, Speaks, One
  <2> QED
    BY <2>1 DEF Satisfies, Payload, Value
<1> QED
  BY <1>2, <1>4, <1>7, <1>8, <1>9 DEF models

\* A channel's replies land, whoever gives them.
Landed(helper, c) ==
  /\ c \in DOMAIN BridgeReplies[helper]
  /\ Lands(c, Answers[c], IPC_CONTRACT_REGISTRY[c].data, BridgeReplies[helper][c])

LEMMA AnswersOf ==
  /\ \A c \in Served : c \in DOMAIN Answers /\ Answers[c] = Api!ApiReplies[c]
  /\ \A c \in DOMAIN LocalReplies : c \in DOMAIN Answers /\ Answers[c] = LocalReplies[c]
BY LocalChannels, MergedDomain, MergedFirst, MergedSecond DEF Answers, Served

LEMMA AccountRepliesLand ==
  ASSUME NEW helper \in BOOLEAN,
         NEW c \in {"AUTH_LOGIN", "AUTH_REGISTER", "AUTH_OTP_SEND", "AUTH_FORGOT_PASSWORD",
                    "AUTH_OTP_VERIFY", "AUTH_RESET_PASSWORD", "QC_EVALUATE_PACK",
                    "QC_LIST_RULES", "QC_RESULTS_GET", "NOTIFICATIONS_LIST",
                    "NOTIFICATIONS_MARK_READ", "NOTIFICATIONS_MARK_ALL_READ",
                    "NOTIFICATIONS_RETRY"}
  PROVE  c \in Served /\ Landed(helper, c)
<1>1. CASE c \in {"AUTH_LOGIN", "AUTH_REGISTER", "AUTH_OTP_SEND", "AUTH_FORGOT_PASSWORD",
                  "AUTH_OTP_VERIFY", "AUTH_RESET_PASSWORD"}
  <2>1. c \in DOMAIN AuthReplies
    BY <1>1 DEF AuthReplies
  <2> QED
    BY <1>1, <2>1, AuthRepliesLand, AnswersOf, ChecksOf DEF Landed
<1>2. CASE c \in {"QC_EVALUATE_PACK", "QC_LIST_RULES", "QC_RESULTS_GET"}
  <2>1. c \in DOMAIN QcReplies
    BY <1>2 DEF QcReplies
  <2> QED
    BY <1>2, <2>1, QcRepliesLand, AnswersOf, ChecksOf DEF Landed
<1>3. CASE c \in {"NOTIFICATIONS_LIST", "NOTIFICATIONS_MARK_READ", "NOTIFICATIONS_MARK_ALL_READ",
                  "NOTIFICATIONS_RETRY"}
  <2>1. c \in DOMAIN NotificationReplies
    BY <1>3 DEF NotificationReplies
  <2> QED
    BY <1>3, <2>1, NotificationRepliesLand, AnswersOf, ChecksOf DEF Landed
<1> QED
  BY <1>1, <1>2, <1>3

LEMMA WorkRepliesLand ==
  ASSUME NEW helper \in BOOLEAN,
         NEW c \in {"CREATOR_PROFILE_GET", "CREATOR_PROFILE_PUT", "SUBMISSION_DRAFT",
                    "SUBMISSION_METADATA", "SUBMISSION_LIST", "SUBMISSION_AIRTABLE_SYNC",
                    "SUBMISSION_AIRTABLE_RESET", "SUBMISSION_TRANSITION",
                    "INTAKE_SESSION_START", "INTAKE_MANIFEST_PUT", "INTAKE_HANDOFF_CREATE",
                    "INTAKE_HANDOFF_STATUS_GET", "INTAKE_HANDOFF_CONTROL", "INTAKE_LOCK",
                    "REVIEW_QUEUE_LIST", "REVIEW_SUBMISSION_GET", "REVIEW_APPROVE",
                    "REVIEW_REJECT", "REVIEW_REOPEN", "REVIEW_TAG_ADD", "REVIEW_FLAG_ADD"}
  PROVE  c \in Served /\ Landed(helper, c)
<1>1. CASE c \in {"CREATOR_PROFILE_GET", "CREATOR_PROFILE_PUT", "SUBMISSION_DRAFT",
                  "SUBMISSION_METADATA", "SUBMISSION_LIST", "SUBMISSION_AIRTABLE_SYNC",
                  "SUBMISSION_AIRTABLE_RESET", "SUBMISSION_TRANSITION"}
  <2>1. c \in DOMAIN CreatorReplies
    BY <1>1 DEF CreatorReplies
  <2> QED
    BY <1>1, <2>1, CreatorRepliesLand, AnswersOf, ChecksOf DEF Landed
<1>2. CASE c \in {"INTAKE_SESSION_START", "INTAKE_MANIFEST_PUT", "INTAKE_HANDOFF_CREATE",
                  "INTAKE_HANDOFF_STATUS_GET", "INTAKE_HANDOFF_CONTROL", "INTAKE_LOCK"}
  <2>1. c \in DOMAIN IntakeReplies
    BY <1>2 DEF IntakeReplies
  <2> QED
    BY <1>2, <2>1, IntakeRepliesLand, AnswersOf, ChecksOf DEF Landed
<1>3. CASE c \in {"REVIEW_QUEUE_LIST", "REVIEW_SUBMISSION_GET", "REVIEW_APPROVE",
                  "REVIEW_REJECT", "REVIEW_REOPEN", "REVIEW_TAG_ADD", "REVIEW_FLAG_ADD"}
  <2>1. c \in DOMAIN ReviewReplies
    BY <1>3 DEF ReviewReplies
  <2> QED
    BY <1>3, <2>1, ReviewRepliesLand, AnswersOf, ChecksOf DEF Landed
<1> QED
  BY <1>1, <1>2, <1>3

LEMMA OfficeRepliesLand ==
  ASSUME NEW helper \in BOOLEAN,
         NEW c \in {"ADMIN_CONFIGS_LIST", "ADMIN_CONFIGS_DRAFT", "ADMIN_CONFIGS_PUBLISH",
                    "ADMIN_CONFIGS_ROLLBACK", "ADMIN_OPS_HISTORY_LIST", "ADMIN_QC_POLICY_GET",
                    "ADMIN_QC_POLICY_UPDATE", "OBSERVABILITY_METRICS_GET",
                    "OBSERVABILITY_INCIDENTS_ANNOTATE"}
  PROVE  c \in Served /\ Landed(helper, c)
<1>1. CASE c \in {"ADMIN_CONFIGS_LIST", "ADMIN_CONFIGS_DRAFT", "ADMIN_CONFIGS_PUBLISH",
                  "ADMIN_CONFIGS_ROLLBACK"}
  <2>1. c \in DOMAIN AdminConfigReplies
    BY <1>1 DEF AdminConfigReplies
  <2> QED
    BY <1>1, <2>1, ConfigRepliesLand, AnswersOf, ChecksOf DEF Landed
<1>2. CASE c \in {"ADMIN_OPS_HISTORY_LIST", "ADMIN_QC_POLICY_GET", "ADMIN_QC_POLICY_UPDATE"}
  <2>1. c \in DOMAIN AdminPolicyReplies
    BY <1>2 DEF AdminPolicyReplies
  <2> QED
    BY <1>2, <2>1, PolicyRepliesLand, AnswersOf, ChecksOf DEF Landed
<1>3. CASE c \in {"OBSERVABILITY_METRICS_GET", "OBSERVABILITY_INCIDENTS_ANNOTATE"}
  <2>1. c \in DOMAIN OperationsReplies
    BY <1>3 DEF OperationsReplies
  <2> QED
    BY <1>3, <2>1, OperationsRepliesLand, AnswersOf, ChecksOf DEF Landed
<1> QED
  BY <1>1, <1>2, <1>3

LEMMA HelpersRepliesLand ==
  ASSUME NEW helper \in BOOLEAN,
         NEW c \in {"ADMIN_INTEGRATIONS_HEALTH_LIST", "ADMIN_INTEGRATIONS_TEST",
                    "ADMIN_DROPBOX_READINESS_GET"}
                   \cup IF helper
                        THEN {"ADMIN_INTEGRATIONS_AIRTABLE_CONFIGURE",
                              "ADMIN_INTEGRATIONS_SMTP_CONFIGURE",
                              "ADMIN_INTEGRATIONS_DROPBOX_TOKENS_UPDATE",
                              "ADMIN_INTEGRATIONS_DROPBOX_APP_CONFIGURE",
                              "ADMIN_INTEGRATIONS_ROTATE", "ADMIN_DROPBOX_OAUTH_START",
                              "ADMIN_DROPBOX_OAUTH_COMPLETE"}
                        ELSE {}
  PROVE  c \in Served /\ Landed(helper, c)
<1>1. CASE helper
  <2>1. c \in DOMAIN HelperReplies
    BY <1>1 DEF HelperReplies
  <2>2. /\ c \in Served
        /\ Lands(c, Api!ApiReplies[c], IPC_CONTRACT_REGISTRY[c].data, HelperReplies[c])
    BY <1>1, IntegrationRepliesLand
  <2>3. c \in DOMAIN BridgeReplies[helper] /\ BridgeReplies[helper][c] = HelperReplies[c]
    BY <1>1, <2>1, ChecksOf
  <2> QED
    BY <2>2, <2>3, AnswersOf DEF Landed
<1>2. CASE ~helper
  <2>1. c \in DOMAIN InlineIntegrationReplies
    BY <1>2 DEF InlineIntegrationReplies
  <2> QED
    BY <1>2, <2>1, InlineRepliesLand, AnswersOf, ChecksOf DEF Landed
<1> QED
  BY <1>1, <1>2

\* The bridge's requests and the replies they get: every channel that can be asked for is
\* answered, but for the exceptions.
LEMMA EveryReplyLands ==
  ASSUME NEW helper \in BOOLEAN, NEW c \in DOMAIN BridgeRequests[helper],
         c \notin Unanswerable \cup {"SUBMISSION_TIMELINE"} \cup Shields
  PROVE  c \in DOMAIN Answers /\ Landed(helper, c)
<1> DEFINE first == AuthRequests ++ QcRequests ++ NotificationRequests ++ ReviewRequests
           second == AdminConfigRequests ++ IntegrationRequests(helper) ++ AdminPolicyRequests
           third == OperationsRequests ++ IncidentRequests ++ CreatorRequests
           fourth == SubmissionRequests ++ IntakeRequests ++ SecurityRequests
<1>1. c \in DOMAIN first \cup DOMAIN second \cup DOMAIN third \cup DOMAIN fourth
  <2>1. BridgeRequests[helper] = first ++ second ++ third ++ fourth
    BY DEF BridgeRequests
  <2> HIDE DEF first, second, third, fourth
  <2> QED
    BY <2>1, MergedDomain
<1>2. CASE c \in DOMAIN first
  <2>1. c \in UNION {DOMAIN AuthRequests, DOMAIN QcRequests, DOMAIN NotificationRequests,
                     DOMAIN ReviewRequests}
    BY <1>2, MergedDomain
  <2>2. \/ c \in {"AUTH_LOGIN", "AUTH_REGISTER", "AUTH_OTP_SEND", "AUTH_FORGOT_PASSWORD",
                  "AUTH_OTP_VERIFY", "AUTH_RESET_PASSWORD", "QC_EVALUATE_PACK",
                  "QC_LIST_RULES", "QC_RESULTS_GET", "NOTIFICATIONS_LIST",
                  "NOTIFICATIONS_MARK_READ", "NOTIFICATIONS_MARK_ALL_READ",
                  "NOTIFICATIONS_RETRY"}
        \/ c \in {"REVIEW_QUEUE_LIST", "REVIEW_SUBMISSION_GET", "REVIEW_APPROVE",
                  "REVIEW_REJECT", "REVIEW_REOPEN", "REVIEW_TAG_ADD", "REVIEW_FLAG_ADD"}
        \/ c \in {"AUTH_GET_SESSION", "QC_REPORT_EXPORT"}
    BY <2>1 DEF AuthRequests, QcRequests, NotificationRequests, ReviewRequests
  <2>3. CASE c \in {"AUTH_GET_SESSION", "QC_REPORT_EXPORT"}
    BY <2>3, LocalRepliesLand, LocalChannels, AnswersOf DEF Landed, Shields
  <2> QED
    BY <2>2, <2>3, AccountRepliesLand, WorkRepliesLand, AnswersOf
<1>3. CASE c \in DOMAIN second
  <2>1. c \in UNION {DOMAIN AdminConfigRequests, DOMAIN IntegrationRequests(helper),
                     DOMAIN AdminPolicyRequests}
    BY <1>3, MergedDomain
  <2>2. DOMAIN IntegrationRequests(helper) =
          {"ADMIN_INTEGRATIONS_HEALTH_LIST", "ADMIN_INTEGRATIONS_TEST",
           "ADMIN_DROPBOX_READINESS_GET", "ADMIN_DROPBOX_OAUTH_DESKTOP_START",
           "ADMIN_DROPBOX_OAUTH_DESKTOP_STATUS"}
          \cup IF helper
               THEN {"ADMIN_INTEGRATIONS_AIRTABLE_CONFIGURE",
                     "ADMIN_INTEGRATIONS_SMTP_CONFIGURE",
                     "ADMIN_INTEGRATIONS_DROPBOX_TOKENS_UPDATE",
                     "ADMIN_INTEGRATIONS_DROPBOX_APP_CONFIGURE",
                     "ADMIN_INTEGRATIONS_ROTATE", "ADMIN_DROPBOX_OAUTH_START",
                     "ADMIN_DROPBOX_OAUTH_COMPLETE"}
               ELSE {}
    <3>1. CASE helper
      <4>1. IntegrationRequests(helper) = HelperRequests ++ HelperOauthRequests
        BY <3>1 DEF IntegrationRequests
      <4>2. DOMAIN IntegrationRequests(helper) =
              DOMAIN HelperRequests \cup DOMAIN HelperOauthRequests
        BY <4>1, MergedDomain
      <4>3. /\ DOMAIN HelperRequests =
                 {"ADMIN_INTEGRATIONS_HEALTH_LIST", "ADMIN_INTEGRATIONS_TEST",
                  "ADMIN_INTEGRATIONS_ROTATE", "ADMIN_INTEGRATIONS_AIRTABLE_CONFIGURE",
                  "ADMIN_INTEGRATIONS_SMTP_CONFIGURE",
                  "ADMIN_INTEGRATIONS_DROPBOX_TOKENS_UPDATE",
                  "ADMIN_INTEGRATIONS_DROPBOX_APP_CONFIGURE", "ADMIN_DROPBOX_READINESS_GET",
                  "ADMIN_DROPBOX_OAUTH_START"}
            /\ DOMAIN HelperOauthRequests =
                 {"ADMIN_DROPBOX_OAUTH_COMPLETE", "ADMIN_DROPBOX_OAUTH_DESKTOP_START",
                  "ADMIN_DROPBOX_OAUTH_DESKTOP_STATUS"}
        BY DEF HelperRequests, HelperOauthRequests
      <4> QED
        BY <3>1, <4>2, <4>3
    <3>2. CASE ~helper
      BY <3>2 DEF IntegrationRequests, InlineIntegrationRequests
    <3> QED
      BY <3>1, <3>2
  <2>3. CASE c \in DOMAIN AdminConfigRequests \cup DOMAIN AdminPolicyRequests
    <3>1. c \in {"ADMIN_CONFIGS_LIST", "ADMIN_CONFIGS_DRAFT", "ADMIN_CONFIGS_PUBLISH",
                 "ADMIN_CONFIGS_ROLLBACK", "ADMIN_OPS_HISTORY_LIST", "ADMIN_QC_POLICY_GET",
                 "ADMIN_QC_POLICY_UPDATE"}
      BY <2>3 DEF AdminConfigRequests, AdminPolicyRequests
    <3> QED
      BY <3>1, OfficeRepliesLand, AnswersOf
  <2>4. CASE c \in {"ADMIN_DROPBOX_OAUTH_DESKTOP_START", "ADMIN_DROPBOX_OAUTH_DESKTOP_STATUS"}
    BY <2>4, LocalRepliesLand, LocalChannels, AnswersOf DEF Landed, Shields
  <2>5. CASE /\ c \in DOMAIN IntegrationRequests(helper)
             /\ c \notin {"ADMIN_DROPBOX_OAUTH_DESKTOP_START",
                          "ADMIN_DROPBOX_OAUTH_DESKTOP_STATUS"}
    BY <2>2, <2>5, HelpersRepliesLand, AnswersOf
  <2> QED
    BY <2>1, <2>3, <2>4, <2>5
<1>4. CASE c \in DOMAIN third
  <2>1. c \in UNION {DOMAIN OperationsRequests, DOMAIN IncidentRequests, DOMAIN CreatorRequests}
    BY <1>4, MergedDomain
  <2>2. \/ c \in {"OBSERVABILITY_METRICS_GET", "OBSERVABILITY_INCIDENTS_ANNOTATE"}
        \/ c \in {"CREATOR_PROFILE_GET", "CREATOR_PROFILE_PUT", "SUBMISSION_DRAFT"}
        \/ c \in Unanswerable \cup Shields
    BY <2>1 DEF OperationsRequests, IncidentRequests, CreatorRequests, Unanswerable, Shields
  <2> QED
    BY <2>2, OfficeRepliesLand, WorkRepliesLand, AnswersOf
<1>5. CASE c \in DOMAIN fourth
  <2>1. c \in UNION {DOMAIN SubmissionRequests, DOMAIN IntakeRequests, DOMAIN SecurityRequests}
    BY <1>5, MergedDomain
  <2>2. \/ c \in {"SUBMISSION_METADATA", "SUBMISSION_LIST", "SUBMISSION_AIRTABLE_SYNC",
                  "SUBMISSION_AIRTABLE_RESET", "SUBMISSION_TRANSITION", "INTAKE_SESSION_START",
                  "INTAKE_MANIFEST_PUT", "INTAKE_HANDOFF_CREATE", "INTAKE_HANDOFF_STATUS_GET",
                  "INTAKE_HANDOFF_CONTROL", "INTAKE_LOCK"}
        \/ c \in {"INTAKE_FOLDER_SELECT", "DESKTOP_VERIFY_SECURITY",
                  "AUDIT_LIST_SECURITY_EVENTS"}
    BY <2>1 DEF SubmissionRequests, IntakeRequests, SecurityRequests
  <2>3. CASE c \in {"INTAKE_FOLDER_SELECT", "DESKTOP_VERIFY_SECURITY",
                    "AUDIT_LIST_SECURITY_EVENTS"}
    BY <2>3, LocalRepliesLand, LocalChannels, AnswersOf DEF Landed, Shields
  <2> QED
    BY <2>2, <2>3, WorkRepliesLand, AnswersOf
<1> QED
  BY <1>1, <1>2, <1>3, <1>4, <1>5

\* Both checks take what the handler returns.
LEMMA ReturnedIsTaken ==
  ASSUME NEW k, k.helper \in BOOLEAN, k.channel \in DOMAIN BridgeRequests[k.helper],
         k.channel \notin Unanswerable \cup {"SUBMISSION_TIMELINE"},
         NEW p \in {NoProbe} \cup AnswerProbes(Answers[k.channel]),
         Usual(k.channel, Returned(k, p))
  PROVE  MainAcceptsData(k, Returned(k, p)) /\ BridgeAcceptsData(k, Returned(k, p))
<1> DEFINE c == k.channel
           r == Probed(TypicalAnswers[c], p)
<1>1. Returned(k, p) = Handed(c, r)
  BY DEF Returned, Handed
<1>2. CASE c \in Shields
  <2>1. c \in DOMAIN LocalReplies
    BY <1>2, LocalChannels DEF Shields
  <2>2. c \in DOMAIN Answers /\ Answers[c] = LocalReplies[c]
    BY <2>1, AnswersOf
  <2>3. Replies(r, Answers[c])
    BY <1>2, <2>2, ShieldRepliesLand, RepliesAreOfTheirModels
  <2>4. Handed(c, r) = r
    BY <2>1, LocalChannels DEF Handed
  <2> QED
    BY <1>1, <1>2, <2>2, <2>3, <2>4, ShieldRepliesLand DEF MainAcceptsData, BridgeAcceptsData
<1>3. CASE c \notin Shields
  <2>1. c \in DOMAIN Answers /\ Landed(k.helper, c)
    BY <1>3, EveryReplyLands
  <2>2. Replies(r, Answers[c])
    BY <2>1, RepliesAreOfTheirModels DEF Landed, Lands
  <2>3. c \in IPC_CHANNELS
    BY <1>3, ChecksAgree DEF AllAgree, Registered, Shielded, Shields
  <2>4. /\ Contracted(Handed(c, r), IPC_CONTRACT_REGISTRY[c].data)
        /\ Checked(Handed(c, r), BridgeReplies[k.helper][c])
    BY <1>1, <2>1, <2>2 DEF Landed, Lands
  <2>5. SatisfiesStrictly(Handed(c, r), DataSchemas[c])
    BY <2>3, <2>4, ContractedIsAccepted
  <2>6. Satisfies(Handed(c, r), BridgeReplies[k.helper][c])
    BY <2>4, CheckedIsSatisfied
  <2>7. c \in DOMAIN BridgeReplies[k.helper]
    BY <2>1 DEF Landed
  <2> QED
    BY <1>1, <2>5, <2>6, <2>7 DEF MainAcceptsData, BridgeAcceptsData
<1> QED
  BY <1>2, <1>3

(* The channel the bridge let through, the data the handler returned, and    *)
(* what the two checks of it did.                                            *)
Heard ==
  /\ stage \notin {"idle", "refused"} => call.channel \in DOMAIN BridgeRequests[call.helper]
  /\ stage \in {"answered"} \cup Late /\ answer.kind = "ok" =>
       \E p \in {NoProbe} \cup AnswerProbes(Answers[call.channel]) :
         answer.data = Returned(call, p)
  /\ stage \in Late /\ answer.kind = "ok" /\ MainAcceptsData(call, answer.data) => reply.ok
  /\ stage = "delivered" /\ reply.ok /\ BridgeAcceptsData(call, answer.data) => page = "data"

LEMMA HeardStarts == Init => Heard
BY DEF Init, Heard, Late

LEMMA HeardSteps ==
  ASSUME CallInv, Heard, [Next]_vars
  PROVE  Heard'
<1>1. CASE Ask
  <2>1. stage' \in {"sent", "refused"} /\ (stage' = "sent" => BridgeAccepts(call'))
    BY <1>1 DEF Ask
  <2> QED
    BY <2>1 DEF Heard, BridgeAccepts, Late
<1>2. CASE RejectSender \/ RejectRequest \/ RejectActor
  <2>1. stage = "sent" /\ stage' = "replied" /\ UNCHANGED <<call, answer>>
    BY <1>2 DEF RejectSender, RejectRequest, RejectActor, Deny
  <2> NoAnswer.kind = "none"
    BY DEF NoAnswer
  <2>2. answer'.kind = "none"
    BY <2>1 DEF CallInv, Unanswered
  <2> QED
    BY <2>1, <2>2 DEF Heard
<1>3. CASE Admit
  BY <1>3 DEF Admit, Heard, Late
<1>4. CASE stage = "admitted" /\ Ending
  <2>1. /\ stage' \in {"done", "answered"} /\ call' = call
        /\ stage' = "answered" => answer'.kind = "error"
    BY <1>4 DEF Ending, Does
  <2> QED
    BY <1>4, <2>1 DEF Heard, Late
<1>5. CASE SelectionCanceled
  <2>1. /\ stage = "admitted" /\ stage' = "answered" /\ call' = call
        /\ answer'.kind = "canceled"
    BY <1>5 DEF SelectionCanceled, Answered, NoAnswer
  <2> QED
    BY <2>1 DEF Heard, Late
<1>6. CASE MapReply
  <2>1. stage = "done" /\ answer = [NoAnswer EXCEPT !.done = TRUE]
    BY <1>6 DEF CallInv, Carried, MapReply
  <2>2. PICK p \in {NoProbe} \cup AnswerProbes(Answers[call.channel]) :
          Answered([answer EXCEPT !.kind = "ok", !.probe = p, !.data = Returned(call, p)])
    BY Zenon, <1>6 DEF MapReply
  <2> "data" \in DOMAIN NoAnswer
    BY DEF NoAnswer
  <2>3. stage' = "answered" /\ call' = call /\ answer'.data = Returned(call, p)
    BY <2>1, <2>2 DEF Answered
  <2>4. answer'.data = Returned(call', p)
    BY <2>3
  <2> QED
    BY <2>1, <2>3, <2>4 DEF Heard, Late
<1>7. CASE Respond
  <2>1. stage = "answered" /\ stage' = "replied" /\ UNCHANGED <<call, answer>>
    BY <1>7 DEF Respond, Deny
  <2> Success.ok
    BY DEF Success
  <2>2. answer.kind = "ok" /\ MainAcceptsData(call, answer.data) => reply'.ok
    BY <1>7 DEF Respond
  <2>3. MainAcceptsData(call', answer'.data) <=> MainAcceptsData(call, answer.data)
    BY <2>1
  <2> QED
    BY <2>1, <2>2, <2>3 DEF Heard, Returned, Late
<1>8. CASE Deliver
  <2>1. stage = "replied" /\ stage' = "delivered" /\ UNCHANGED <<call, answer, reply>>
    BY <1>8 DEF Deliver
  <2>2. reply.ok /\ BridgeAcceptsData(call, answer.data) => page' = "data"
    BY <1>8 DEF Deliver
  <2>3. /\ MainAcceptsData(call', answer'.data) <=> MainAcceptsData(call, answer.data)
        /\ BridgeAcceptsData(call', answer'.data) <=> BridgeAcceptsData(call, answer.data)
    BY <2>1
  <2> QED
    BY <2>1, <2>2, <2>3 DEF Heard, Returned, Late
<1>9. CASE Return
  BY <1>9 DEF Return, Heard, Late
<1>10. CASE UNCHANGED vars
  <2>1. UNCHANGED <<stage, call, answer, reply, page>>
    BY <1>10 DEF vars
  <2>2. /\ MainAcceptsData(call', answer'.data) <=> MainAcceptsData(call, answer.data)
        /\ BridgeAcceptsData(call', answer'.data) <=> BridgeAcceptsData(call, answer.data)
    BY <2>1
  <2> QED
    BY <2>1, <2>2 DEF Heard, Returned
<1> QED
  BY <1>1, <1>2, <1>3, <1>4, <1>5, <1>6, <1>7, <1>8, <1>9, <1>10, HandlerEnds DEF Next

(* For every channel, every value of every field of its reply: what was done *)
(* and answered passes the client's mapping, the response contract and the   *)
(* bridge's check, and is what the page is told.  The only replies left out  *)
(* are those the property names.                                             *)
THEOREM DoneReachesPageHolds == Spec => []DoneReachesPage
<1>1. ASSUME AskedAs, Heard
      PROVE  DoneReachesPage
  <2> SUFFICES ASSUME stage = "delivered", answer.kind = "ok",
                      call.channel \notin Unanswerable \cup {"SUBMISSION_TIMELINE"},
                      Usual(call.channel, answer.data)
               PROVE  page = "data"
    BY DEF DoneReachesPage, Usual
  <2>1. call.helper \in BOOLEAN /\ call.channel \in DOMAIN BridgeRequests[call.helper]
    BY <1>1 DEF AskedAs, Heard
  <2>2. PICK p \in {NoProbe} \cup AnswerProbes(Answers[call.channel]) :
          answer.data = Returned(call, p)
    BY <1>1 DEF Heard, Late
  <2>3. Usual(call.channel, Returned(call, p))
    BY <2>2
  <2>4. MainAcceptsData(call, answer.data) /\ BridgeAcceptsData(call, answer.data)
    BY <2>1, <2>2, <2>3, ReturnedIsTaken
  <2> QED
    BY <1>1, <2>4 DEF Heard, Late
<1>2. AskedAs /\ Thrown /\ [Next]_vars => AskedAs' /\ Thrown'
  BY RefusalSteps
<1>3. CallInv /\ Heard /\ [Next]_vars => Heard'
  BY HeardSteps
<1>4. Spec => []CallInv
  BY CallHolds
<1> QED
  BY RefusalStarts, HeardStarts, <1>1, <1>2, <1>3, <1>4, PTL DEF Spec
=============================================================================
