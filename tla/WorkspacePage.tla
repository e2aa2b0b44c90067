--------------------------- MODULE WorkspacePage ---------------------------
(* The creator's page of the renderer: drafts, their Airtable details, the   *)
(* pack folder and its QC verdict, the submission of a pack, and the upload  *)
(* it watches.  Everything is one event loop: a handler runs up to its next  *)
(* request, other handlers run while that is out, and it goes on with what   *)
(* it remembers of before.  A request takes effect in the service and is     *)
(* answered in one step, except the list, the upload's status and its        *)
(* controls, whose answers may come late.                                    *)
(*                                                                           *)
(* A row of the service stands for a submission with its session and         *)
(* handoff; "queued" and "in_progress" are one status, "active".  A folder   *)
(* is one with the required top-level folders in it.                         *)
EXTENDS Naturals, FiniteSets

CONSTANTS
  Drafts,        \* identifiers of submissions, creator-draft-<time>
  Folders,
  Stays,         \* a creator stays with a draft and its folder while there
                 \* is a request of theirs or an upload under way
  MaxEarlier, MaxClicks, MaxAutosaves, MaxFaults       \* bounds of the model

ASSUME PageAssumption ==
  /\ IsFiniteSet(Drafts) /\ Stays \in BOOLEAN
  /\ "no draft" \notin Drafts /\ "no folder" \notin Folders
  /\ MaxEarlier \in Nat /\ MaxClicks \in Nat /\ MaxAutosaves \in Nat /\ MaxFaults \in Nat

VARIABLES
  rows,          \* the service's row of each submission
  page,          \* the page's state, its requests, and the local storage
  seen           \* history: what was checked, and the counts of the bounds
pageVars == <<rows, page, seen>>

NoDraft == "no draft"
NoFolder == "no folder"
Handlers == {"save", "auto", "airtable", "reset", "qc", "submit", "again",
             "control", "poll", "boot"}
Submits == {"submit", "again"}
Statuses == {"active", "paused", "completed", "failed", "canceled"}

Idle == [pc |-> "idle", sub |-> NoDraft, folder |-> NoFolder, got |-> "none", at |-> 0]
NoUpload == [sub |-> NoDraft, status |-> "none", at |-> 0, id |-> FALSE]
NoContext == [kept |-> FALSE, folder |-> NoFolder, qc |-> FALSE]
NoRow == [state |-> "absent", version |-> 0, done |-> FALSE, linked |-> FALSE,
          up |-> "none", at |-> 0, session |-> "none",
          path |-> NoFolder, files |-> NoFolder, job |-> FALSE, report |-> "none"]

(* What the list says of a submission.                                       *)
Listing(row) ==
  [NoRow EXCEPT !.state = row.state, !.version = row.version, !.done = row.done,
     !.linked = row.linked, !.up = row.up, !.at = row.at]

FreshPage(kept) ==
  [list |-> [s \in Drafts |-> NoRow], sel |-> NoDraft, mode |-> "list",
   draft |-> NoDraft, full |-> FALSE, done |-> FALSE, linked |-> FALSE,
   folder |-> NoFolder, qc |-> [s \in Drafts |-> FALSE],
   busy |-> FALSE, qcRun |-> FALSE, up |-> NoUpload, timer |-> FALSE, ctl |-> FALSE,
   op |-> [o \in Handlers |-> Idle],
   load |-> [at |-> "idle", by |-> "boot", rows |-> [s \in Drafts |-> NoRow]],
   stored |-> kept]

----------------------------------------------------------------------------
(* What the handlers do to the page between two requests.                    *)

At(u, o, pc) == [u EXCEPT !.op[o].pc = pc]
Ends(u, o) == [u EXCEPT !.op[o] = Idle]
Is(o, pc) == page.op[o].pc = pc
Sub(o) == page.op[o].sub
Listed(u, s) == s \in Drafts /\ u.list[s].state # "absent"

clearActiveUploadState(u) == [u EXCEPT !.up = NoUpload, !.ctl = FALSE, !.stored.up = NoUpload]

(* Mutant: the verdict is not written.                                       *)
PersistFolderOnly(u, s) ==
  IF s = NoDraft THEN u
  ELSE [u EXCEPT !.stored.ctx[s] = [kept |-> TRUE, folder |-> u.folder, qc |-> @.qc]]

(* Whatever submission s is, the folder is the one that is selected now.     *)
persistDraftContext(u, s) ==
  IF s = NoDraft THEN u
  ELSE [u EXCEPT !.stored.ctx[s] = [kept |-> TRUE, folder |-> u.folder, qc |-> u.qc[s]]]

applyUploadState(u, x, persist) ==
  persistDraftContext([u EXCEPT !.up = x, !.stored.up = IF persist THEN x ELSE @], x.sub)

Surfaced == {"active", "paused", "failed"}

(* A submission that is uploading still is shown so, whatever its handoff.   *)
snapshotUploadStateFromSubmission(u, s) ==
  LET row == u.list[s]
      status == IF row.state = "uploading" /\ row.up \notin Surfaced THEN "active" ELSE row.up
  IN  IF status \in Surfaced
      THEN [sub |-> s, status |-> status, at |-> row.at, id |-> row.up # "none"]
      ELSE NoUpload

(* Of what was stored and what the list says, the newer.                     *)
getStoredOrSubmissionUploadState(u, s) ==
  LET stored == u.stored.up
      listed == IF Listed(u, s) THEN snapshotUploadStateFromSubmission(u, s) ELSE NoUpload
      older == listed # NoUpload /\ (listed.status # "active" \/ listed.at >= stored.at)
  IN  IF stored.status \in Surfaced /\ stored.sub = s /\ ~older THEN stored ELSE listed

StartPoll(u) ==
  IF u.op["poll"].pc = "idle" /\ u.up.id
  THEN [u EXCEPT !.op["poll"] = [Idle EXCEPT !.pc = "asked", !.sub = u.up.sub]] ELSE u
startUploadStatusPolling(u) == [StartPoll(u) EXCEPT !.timer = TRUE]

(* After the list: the outcome of an upload...                               *)
ShowOutcome(u) ==
  LET s == u.op["poll"].sub
      completed == u.op["poll"].got = "completed"
      v == [Ends(u, "poll") EXCEPT !.sel = s]
  IN  IF completed /\ u.list[s].state = "under_review"
      THEN [clearActiveUploadState(v) EXCEPT !.mode = "detail"]
      ELSE [v EXCEPT !.mode = "draft", !.busy = completed, !.ctl = FALSE]

(* ... or the next step of another handler.                                  *)
Continue(u, o) ==
  CASE o = "poll" -> ShowOutcome(u)
    [] o = "control" -> [Ends(u, o) EXCEPT !.ctl = FALSE]
    [] o = "airtable" -> At(u, o, "syncing")
    [] o \in Submits /\ u.op[o].pc = "saved" ->
         [At(u, o, "starting") EXCEPT !.op[o].folder = u.folder]
    [] o \in Submits /\ u.op[o].pc = "showing" -> At(StartPoll(u), o, "polling")
    [] OTHER -> Ends(u, o)

(* A list that is being loaded is not loaded again: the handler goes on.     *)
loadSubmissions(u, o, pc) ==
  IF u.load.at # "idle" THEN Continue(At(u, o, pc), o)
  ELSE [At(u, o, pc) EXCEPT !.load = [@ EXCEPT !.at = "asked", !.by = o]]

ActiveUploadSubmission(u) ==
  CASE Listed(u, u.up.sub) -> u.up.sub
    [] ~Listed(u, u.up.sub) /\ Listed(u, u.stored.up.sub) -> u.stored.up.sub
    [] OTHER -> u.sel

ShowUploading(u) ==
  LET s == ActiveUploadSubmission(u)
      x == getStoredOrSubmissionUploadState(u, s)
      v == [applyUploadState(u, x, x.id) EXCEPT !.sel = s, !.mode = "draft",
              !.busy = x.status = "active"]
  IN  IF Listed(u, s) /\ u.list[s].state = "uploading" /\ x # NoUpload
      THEN IF x.id /\ x.status = "active" THEN startUploadStatusPolling(v) ELSE v
      ELSE u

(* syncDraftStateFromForm, and what saveMetadata does before its requests.   *)
saveMetadata(u, o) ==
  IF ~u.full THEN Continue(At(u, o, "saved"), o)
  ELSE IF u.draft = NoDraft THEN At(u, o, "creating")
  ELSE [At(u, o, "updating") EXCEPT !.op[o].sub = u.draft, !.op[o].got = IF u.done THEN "done" ELSE "none"]

(* What handleCompleteAirtableStep does once there is a submission.          *)
MarkAirtable(u, s) ==
  saveMetadata([u EXCEPT !.sel = s, !.draft = s, !.done = TRUE, !.op["airtable"].sub = s], "airtable")

AskQc(u, s) ==
  [At(u, "qc", "evaluating") EXCEPT !.sel = s, !.op["qc"].sub = s, !.op["qc"].folder = u.folder]

buildContext(u) ==
  /\ u.full /\ u.done /\ u.linked /\ u.folder # NoFolder
  /\ u.draft # NoDraft /\ u.qc[u.draft] /\ ~u.busy

SubmitFails(u, o) ==
  [clearActiveUploadState(Ends(u, o)) EXCEPT !.timer = FALSE, !.busy = FALSE]

(* A request that fails: saveMetadata tells its caller nothing of it.        *)
Fails(u, o) ==
  CASE u.op[o].pc = "updating" -> Continue(At(u, o, "saved"), o)
    [] u.op[o].pc # "updating" /\ o \in Submits -> SubmitFails(u, o)
    [] u.op[o].pc # "updating" /\ o = "qc" -> [Ends(u, o) EXCEPT !.qcRun = FALSE]
    [] u.op[o].pc # "updating" /\ o = "control" -> [Ends(u, o) EXCEPT !.ctl = FALSE]
    [] OTHER -> Ends(u, o)

(* What an earlier session can have left: a draft, its pack checked or not,  *)
(* or one being delivered.                                                   *)
Ready == [NoRow EXCEPT !.state = "draft", !.done = TRUE, !.linked = TRUE]
Uploading(f) ==
  [Ready EXCEPT !.state = "uploading", !.version = 1, !.session = "manifest_ready",
     !.path = f, !.files = f, !.up = "active", !.at = 1, !.job = TRUE]

PageInit ==
  \E context \in [Drafts -> {NoContext} \union [kept : {TRUE}, folder : Folders, qc : {TRUE}]] :
  /\ rows \in [Drafts -> {NoRow, Ready} \union {Uploading(f) : f \in Folders}]
  /\ \A s \in Drafts : rows[s].state # "draft" => context[s] = NoContext
  /\ Cardinality({s \in Drafts : rows[s].state # "absent"}) <= MaxEarlier
  /\ page = loadSubmissions(FreshPage([up |-> NoUpload, ctx |-> context]), "boot", "showing")
  /\ seen = [passed |-> {x \in Drafts \X Folders : x[2] \in {rows[x[1]].files, context[x[1]].folder}},
             disturbed |-> FALSE, clicks |-> 0, autosaves |-> 0, faults |-> 0]

----------------------------------------------------------------------------
(* What the creator clicks.                                                  *)

Click == seen.clicks < MaxClicks /\ seen' = [seen EXCEPT !.clicks = @ + 1]
Editing == page.mode = "draft"
InFlight == \E o \in Handlers : ~Is(o, "idle")
Settled ==
  /\ ~InFlight /\ ~page.busy /\ page.up.status # "active" /\ ~page.timer
  /\ \A s \in Drafts : rows[s].state # "uploading" /\ rows[s].report = "none"
Leaves == Stays => Settled

beginNewDraft ==
  /\ Click /\ Leaves /\ UNCHANGED rows
  /\ page' = [page EXCEPT !.mode = "draft", !.sel = NoDraft, !.draft = NoDraft, !.full = FALSE,
                !.done = FALSE, !.linked = FALSE, !.folder = NoFolder, !.qcRun = FALSE]

openSubmission(s) ==
  LET row == page.list[s]
      x == getStoredOrSubmissionUploadState(page, s)
      context == page.stored.ctx[s]
      uploading == row.state = "uploading"
      switched == IF page.sel = s THEN page ELSE [page EXCEPT !.folder = NoFolder, !.qcRun = FALSE]
      opened == [switched EXCEPT !.sel = s, !.draft = s, !.full = TRUE,
                   !.mode = IF row.state = "under_review" THEN "detail" ELSE "draft",
                   !.done = row.done, !.linked = row.linked,
                   !.folder = IF context.folder # NoFolder THEN context.folder ELSE @,
                   !.qc[s] = IF context.kept THEN context.qc ELSE @]
      shown == CASE x.sub = s -> applyUploadState(opened, x, x.id)
                 [] x.sub # s /\ page.up.status = "active" -> opened
                 [] OTHER -> clearActiveUploadState(opened)
      resumed == [shown EXCEPT !.busy = uploading]
  IN  /\ Click /\ Leaves /\ Listed(page, s) /\ UNCHANGED rows
      /\ page' = IF uploading /\ x.id /\ x.status \in {"active", "paused"}
                 THEN startUploadStatusPolling(resumed) ELSE resumed

BackToList ==
  /\ Click /\ Leaves /\ page.mode # "list" /\ UNCHANGED rows
  /\ page' = [page EXCEPT !.mode = "list", !.sel = NoDraft]

FillForm ==
  /\ Editing /\ ~page.full /\ page' = [page EXCEPT !.full = TRUE] /\ UNCHANGED <<rows, seen>>

(* Mutant: the verdict of the folder before is kept.                         *)
SelectFolderOnly(f) ==
  /\ Click /\ Leaves /\ Editing /\ UNCHANGED rows
  /\ page' = persistDraftContext([page EXCEPT !.folder = f], page.draft)

handleSelectPackFolder(f) ==
  /\ Click /\ Leaves /\ Editing /\ UNCHANGED rows
  /\ page' = persistDraftContext(
       [page EXCEPT !.folder = f, !.qc = [s \in Drafts |-> @[s] /\ (s # page.draft \/ f = page.folder)]],
       page.draft)

ClickSave ==
  /\ Click /\ Editing /\ Is("save", "idle") /\ page.full /\ UNCHANGED rows
  /\ page' = saveMetadata(page, "save")

(* Every 30 seconds, whatever the page does.                                 *)
AutoSave ==
  /\ Editing /\ Is("auto", "idle") /\ page.full /\ UNCHANGED rows
  /\ seen.autosaves < MaxAutosaves /\ seen' = [seen EXCEPT !.autosaves = @ + 1]
  /\ page' = saveMetadata(page, "auto")

handleCompleteAirtableStep ==
  /\ Click /\ Editing /\ Is("airtable", "idle") /\ page.full /\ UNCHANGED rows
  /\ page' = IF page.draft = NoDraft THEN At(page, "airtable", "drafting")
             ELSE MarkAirtable(page, page.draft)

ResetPage(u) == [u EXCEPT !.done = FALSE, !.linked = FALSE]

handleResetAirtableStep ==
  /\ Click /\ Editing /\ Is("reset", "idle") /\ UNCHANGED rows
  /\ page' = IF page.draft = NoDraft THEN saveMetadata(ResetPage(page), "reset")
             ELSE [At(page, "reset", "resetting") EXCEPT !.op["reset"].sub = page.draft]

runQcCheck ==
  /\ Click /\ Editing /\ ~page.qcRun /\ Is("qc", "idle") /\ page.full /\ UNCHANGED rows
  /\ LET u == [page EXCEPT !.qcRun = TRUE]
     IN  page' = IF page.draft = NoDraft THEN At(u, "qc", "drafting") ELSE AskQc(u, page.draft)

(* The upload shown, if it is over, is forgotten; else it is in the way.     *)
handleSubmitForReview(o) ==
  /\ Editing /\ buildContext(page) /\ Is(o, "idle") /\ UNCHANGED rows
  /\ o = "again" => ~Is("submit", "idle")
  /\ page.up.status \notin Surfaced
  /\ seen.clicks < MaxClicks
  /\ seen' = [seen EXCEPT !.clicks = @ + 1, !.disturbed = @ \/ ~Settled]
  /\ LET u == IF page.up # NoUpload THEN clearActiveUploadState(page) ELSE page
     IN  page' = saveMetadata([u EXCEPT !.busy = TRUE], o)

Offered(action) ==
  CASE action = "pause" -> {"active"}
    [] action = "resume" -> {"paused", "failed"}
    [] action = "cancel" -> {"active", "paused"}

handleUploadControlAction(action) ==
  /\ Editing /\ Is("control", "idle") /\ ~page.ctl /\ UNCHANGED rows
  /\ page.up.sub = page.draft /\ page.up.id /\ page.up.status \in Offered(action)
  /\ seen.clicks < MaxClicks
  /\ seen' = [seen EXCEPT !.clicks = @ + 1, !.disturbed = TRUE]
  /\ page' = [At(page, "control", "asked") EXCEPT !.ctl = TRUE, !.op["control"].sub = page.up.sub,
                !.op["control"].got = action]

----------------------------------------------------------------------------
(* The requests and their answers.                                           *)

Fresh == {s \in Drafts : rows[s].state = "absent"}

Create(s, done) == rows' = [rows EXCEPT ![s] = [NoRow EXCEPT !.state = "draft", !.done = done]]

(* createDraftIfNeeded: the new id goes to whatever draft is open by then.   *)
createDraftIfNeeded(o) ==
  \E s \in Fresh :
    /\ Is(o, "creating") /\ UNCHANGED seen
    /\ Create(s, page.done)
    /\ page' = [At(page, o, "updating") EXCEPT !.draft = s, !.op[o].sub = s,
                  !.op[o].got = IF page.done THEN "done" ELSE "none"]

CreateForAirtable ==
  \E s \in Fresh :
    /\ Is("airtable", "drafting") /\ UNCHANGED seen
    /\ Create(s, page.done)
    /\ page' = MarkAirtable(page, s)

CreateForQc ==
  \E s \in Fresh :
    /\ Is("qc", "drafting") /\ UNCHANGED seen
    /\ Create(s, page.done)
    /\ page' = AskQc([page EXCEPT !.draft = s], s)

(* The service takes the fields whatever the submission's state is.          *)
updateMetadata(o) ==
  /\ Is(o, "updating") /\ UNCHANGED seen
  /\ rows' = [rows EXCEPT ![Sub(o)].done = (page.op[o].got = "done")]
  /\ page' = loadSubmissions([page EXCEPT !.sel = Sub(o)], o, "saved")

syncAirtable ==
  \E linked \in BOOLEAN :
    /\ Is("airtable", "syncing") /\ UNCHANGED seen
    /\ rows' = [rows EXCEPT ![Sub("airtable")].done = linked, ![Sub("airtable")].linked = linked]
    /\ page' = [Ends(page, "airtable") EXCEPT !.done = linked, !.linked = linked]

resetAirtable ==
  /\ Is("reset", "resetting") /\ UNCHANGED seen
  /\ rows' = [rows EXCEPT ![Sub("reset")].done = FALSE, ![Sub("reset")].linked = FALSE]
  /\ page' = saveMetadata(ResetPage(page), "reset")

(* A pack that is not there does not pass; the verdict is the submission's,  *)
(* the folder kept with it is the one selected when it comes.                *)
evaluatePack ==
  \E passed \in BOOLEAN :
    LET s == Sub("qc")
        f == page.op["qc"].folder
    IN  /\ Is("qc", "evaluating") /\ UNCHANGED rows
        /\ passed => f # NoFolder
        /\ page' = [persistDraftContext([Ends(page, "qc") EXCEPT !.qc[s] = passed], s)
                      EXCEPT !.qcRun = FALSE]
        /\ seen' = [seen EXCEPT !.passed = IF passed THEN @ \union {<<s, f>>} ELSE @]

(* A session there is already is answered, unless its handoff came to        *)
(* nothing: then it starts again, with the folder of this request.           *)
Started(o) ==
  [rows EXCEPT ![Sub(o)] =
    CASE @.session = "none" -> [@ EXCEPT !.session = "initiated", !.path = page.op[o].folder]
      [] @.up \in {"canceled", "failed"} ->
           [@ EXCEPT !.session = "initiated", !.path = page.op[o].folder, !.up = "none"]
      [] OTHER -> @]

startSession(o) ==
  /\ Is(o, "starting") /\ UNCHANGED seen
  /\ IF page.op[o].folder = NoFolder
     THEN page' = SubmitFails(page, o) /\ UNCHANGED rows
     ELSE /\ rows' = Started(o)
          /\ LET session == rows'[Sub(o)].session
             IN  page' = [page EXCEPT !.op[o].got = session,
                   !.op[o].pc = CASE session = "initiated" -> "listing"
                                  [] session = "manifest_ready" -> "handing"
                                  [] session = "transfer_completed" -> "locking"]

(* A manifest that is locked stays.                                          *)
putManifest(o) ==
  /\ Is(o, "listing") /\ UNCHANGED seen
  /\ IF rows[Sub(o)].session # "initiated"
     THEN page' = SubmitFails(page, o) /\ UNCHANGED rows
     ELSE /\ rows' = [rows EXCEPT ![Sub(o)].session = "manifest_ready",
                                  ![Sub(o)].files = page.op[o].folder]
          /\ page' = At(page, o, "handing")

Handed(o) ==
  LET row == rows[Sub(o)]
  IN  IF row.up \in {"none", "failed"}
      THEN [rows EXCEPT ![Sub(o)] = [row EXCEPT !.up = "active", !.at = row.at + 1, !.job = TRUE]]
      ELSE rows

createHandoff(o) ==
  LET row == Handed(o)[Sub(o)]
      x == [sub |-> Sub(o), status |-> row.up, at |-> row.at, id |-> TRUE]
  IN  /\ Is(o, "handing") /\ UNCHANGED seen
      /\ rows' = Handed(o)
      /\ page' = At(startUploadStatusPolling(applyUploadState(page, x, TRUE)), o, "locking")

lockSubmissionFiles(o) ==
  Is(o, "locking") /\ page' = At(page, o, "moving") /\ UNCHANGED <<rows, seen>>

MayMove(o) ==
  /\ rows[Sub(o)].state = "draft"
  /\ Listed(page, Sub(o)) => rows[Sub(o)].version = page.list[Sub(o)].version

Moved(s, to) == [rows EXCEPT ![s].state = to, ![s].version = @ + 1]

requestUploading(o) ==
  /\ Is(o, "moving")
  /\ IF MayMove(o)
     THEN /\ rows' = Moved(Sub(o), "uploading")
          /\ page' = loadSubmissions([page EXCEPT !.mode = "draft"], o, "showing")
          /\ UNCHANGED seen
     ELSE /\ page' = SubmitFails(page, o)
          /\ seen' = [seen EXCEPT !.disturbed = TRUE]
          /\ UNCHANGED rows

(* Mutant: what stops the polling when a submit fails stops it in any case.  *)
SubmitStopsPolling(o) ==
  /\ Is(o, "polling") /\ Is("poll", "idle") /\ UNCHANGED <<rows, seen>>
  /\ page' = [Ends(page, o) EXCEPT !.timer = FALSE,
                !.busy = @ /\ page.op[o].got # "transfer_completed"]

(* A submit that started no upload here is over.                             *)
SubmitEnds(o) ==
  /\ Is(o, "polling") /\ Is("poll", "idle") /\ UNCHANGED <<rows, seen>>
  /\ page' = [Ends(page, o) EXCEPT !.busy = @ /\ page.op[o].got # "transfer_completed"]

Fault == seen.faults < MaxFaults /\ seen' = [seen EXCEPT !.faults = @ + 1, !.disturbed = TRUE]

Sent == {"drafting", "creating", "updating", "syncing", "resetting", "evaluating", "starting",
         "listing", "handing", "locking", "moving", "asked", "answered"}

RequestFails(o) ==
  /\ page.op[o].pc \in Sent /\ Fault
  /\ page' = Fails(page, o) /\ UNCHANGED rows

(* The service did what it was asked, but the answer does not arrive.        *)
AnswerIsLost(o) ==
  /\ Fault
  /\ \/ Is(o, "starting") /\ rows' = Started(o)
     \/ Is(o, "handing") /\ rows' = Handed(o)
     \/ Is(o, "moving") /\ MayMove(o) /\ rows' = Moved(Sub(o), "uploading")
  /\ page' = Fails(page, o)

(* The list is read, it arrives, and after it the submissions' timelines.    *)
ListIsRead ==
  /\ page.load.at = "asked" /\ UNCHANGED <<rows, seen>>
  /\ page' = [page EXCEPT !.load.at = "answered", !.load.rows = [s \in Drafts |-> Listing(rows[s])]]

ListArrives ==
  /\ page.load.at = "answered" /\ UNCHANGED <<rows, seen>>
  /\ page' = ShowUploading([page EXCEPT !.list = page.load.rows, !.load.at = "timelines"])

LoadEnds(u) == [u EXCEPT !.load = FreshPage(page.stored).load]

TimelinesArrive ==
  /\ page.load.at = "timelines" /\ UNCHANGED <<rows, seen>>
  /\ page' = Continue(LoadEnds([page EXCEPT !.mode = IF page.sel = NoDraft /\ @ # "draft" THEN "list" ELSE @]),
                      page.load.by)

LoadFails ==
  /\ page.load.at \in {"asked", "answered"} /\ Fault
  /\ page' = Continue(LoadEnds(page), page.load.by) /\ UNCHANGED rows

----------------------------------------------------------------------------
(* The upload's status, polled every 2.5 seconds: one poll at a time here.   *)

PollTick ==
  /\ page.timer /\ StartPoll(page) # page
  /\ page' = StartPoll(page) /\ UNCHANGED <<rows, seen>>

PollIsRead ==
  /\ Is("poll", "asked") /\ UNCHANGED <<rows, seen>>
  /\ LET row == rows[Sub("poll")]
     IN  page' = IF row.up = "none" THEN Ends(page, "poll")
                 ELSE [At(page, "poll", "answered") EXCEPT !.op["poll"].got = row.up,
                                                           !.op["poll"].at = row.at]

pollUploadStatusOnce ==
  LET p == page.op["poll"]
      x == [sub |-> p.sub, status |-> p.got, at |-> p.at, id |-> TRUE]
      shown == applyUploadState(page, x, TRUE)
      over == [shown EXCEPT !.timer = FALSE, !.busy = FALSE]
  IN  /\ Is("poll", "answered") /\ UNCHANGED <<rows, seen>>
      /\ page' = CASE p.got = "active" -> Ends(shown, "poll")
                   [] p.got = "paused" -> Ends(over, "poll")
                   [] OTHER -> loadSubmissions(over, "poll", "showing")

ControlTakesEffect ==
  LET s == Sub("control")
      action == page.op["control"].got
  IN  /\ Is("control", "asked") /\ UNCHANGED seen
      /\ IF rows[s].up \in Offered(action)
         THEN \E to \in Statuses, job \in BOOLEAN :
                /\ to = CASE action = "pause" -> "paused"
                          [] action = "resume" -> "active"
                          [] action = "cancel" -> "canceled"
                /\ job = (IF rows[s].up = "failed" THEN job ELSE rows[s].job)
                /\ rows' = [rows EXCEPT ![s].up = to, ![s].at = @ + 1, ![s].job = job]
                /\ page' = [At(page, "control", "answered") EXCEPT
                              !.op["control"].got = to, !.op["control"].at = rows'[s].at]
         ELSE page' = Fails(page, "control") /\ UNCHANGED rows

ControlIsAnswered ==
  LET c == page.op["control"]
      x == [sub |-> c.sub, status |-> c.got, at |-> c.at, id |-> TRUE]
      shown == applyUploadState(page, x, TRUE)
      over == [shown EXCEPT !.timer = FALSE, !.busy = FALSE]
      then == CASE c.got = "paused" -> over
                [] c.got = "canceled" -> clearActiveUploadState(over)
                [] c.got = "active" -> startUploadStatusPolling([shown EXCEPT !.busy = TRUE])
  IN  /\ Is("control", "answered") /\ UNCHANGED <<rows, seen>>
      /\ page' = loadSubmissions(then, "control", "showing")

----------------------------------------------------------------------------
(* The delivery in the service, and a restart of the page.                   *)

DeliveryEnds(s) ==
  \E ok \in BOOLEAN :
    /\ rows[s].job /\ rows[s].up = "active" /\ UNCHANGED <<page, seen>>
    /\ rows' = [rows EXCEPT ![s] = [rows[s] EXCEPT !.job = FALSE, !.at = rows[s].at + 1,
         !.up = IF ok THEN "completed" ELSE "failed",
         !.session = IF ok THEN "transfer_completed" ELSE "manifest_ready",
         !.report = IF ok THEN "success" ELSE "failure"]]

DeliveryIsCanceled(s) ==
  /\ rows[s].job /\ rows[s].up = "canceled" /\ UNCHANGED <<page, seen>>
  /\ rows' = [rows EXCEPT ![s].job = FALSE, ![s].report = "failure"]

MoveAfterDelivery(s) ==
  /\ rows[s].report # "none" /\ UNCHANGED <<page, seen>>
  /\ LET to == IF rows[s].report = "success" THEN "under_review" ELSE "draft"
         from == IF rows[s].report = "success" THEN {"uploading", "draft"} ELSE {"uploading"}
         row == [rows[s] EXCEPT !.report = "none"]
     IN  rows' = [rows EXCEPT ![s] = IF row.state \in from
                                     THEN [row EXCEPT !.state = to, !.version = @ + 1] ELSE row]

Restart ==
  /\ Fault /\ UNCHANGED rows
  /\ page' = loadSubmissions(FreshPage(page.stored), "boot", "showing")

Answers ==
  \/ \E o \in Handlers : createDraftIfNeeded(o) \/ updateMetadata(o)
  \/ \E o \in Submits : startSession(o) \/ putManifest(o) \/ createHandoff(o)
                          \/ lockSubmissionFiles(o) \/ requestUploading(o) \/ SubmitEnds(o)
  \/ CreateForAirtable \/ CreateForQc \/ syncAirtable \/ resetAirtable \/ evaluatePack
  \/ ControlTakesEffect \/ ControlIsAnswered \/ PollIsRead \/ pollUploadStatusOnce
  \/ ListIsRead \/ ListArrives \/ TimelinesArrive

Delivery == \E s \in Drafts : DeliveryEnds(s) \/ DeliveryIsCanceled(s) \/ MoveAfterDelivery(s)

Clicks ==
  \/ beginNewDraft \/ BackToList \/ FillForm \/ ClickSave \/ runQcCheck
  \/ handleCompleteAirtableStep \/ handleResetAirtableStep
  \/ \E s \in Drafts : openSubmission(s)
  \/ \E f \in Folders : handleSelectPackFolder(f)
  \/ \E o \in Submits : handleSubmitForReview(o)
  \/ \E action \in {"pause", "resume", "cancel"} : handleUploadControlAction(action)

Disturbances == LoadFails \/ Restart \/ \E o \in Handlers : RequestFails(o) \/ AnswerIsLost(o)

PageNext == Answers \/ Delivery \/ Clicks \/ AutoSave \/ PollTick \/ Disturbances

PageSpec == PageInit /\ [][PageNext]_pageVars

----------------------------------------------------------------------------
(* workspace-page.js:1304, 1827: what is handed over for delivery was found  *)
(* good by a QC run of that submission on that very folder, and it is read   *)
(* from where its manifest was taken.                                        *)
SubmittedFolderPassedQc ==
  \A s \in Drafts : rows[s].up # "none" =>
    <<s, rows[s].files>> \in seen.passed /\ <<s, rows[s].path>> \in seen.passed

(* workspace-page.js:759, 1712, 2298: a verdict that is kept for the next    *)
(* session is about the folder that is kept with it, and a verdict the page  *)
(* goes by is kept: it survives a restart.                                   *)
VerdictIsKeptWithItsFolder ==
  \A s \in Drafts :
    /\ page.stored.ctx[s].qc => <<s, page.stored.ctx[s].folder>> \in seen.passed
    /\ page.qc[s] => page.stored.ctx[s].qc

(* workspace-page.js:1447, 1961, 2328: of the upload the page shows, while   *)
(* it goes on in the service, the status is polled, unless a request failed, *)
(* the page was started again, the upload was controlled, or a submit began  *)
(* while something else was under way.                                       *)
UploadIsWatched ==
  page.up.id /\ rows[page.up.sub].up = "active" /\ ~seen.disturbed => page.timer
=============================================================================
