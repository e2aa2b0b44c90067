------------------------ MODULE WorkspacePageProofs ------------------------
(* The page's safety, for every number of drafts, folders, clicks, automatic *)
(* saves and failures, of a creator who stays with a draft while anything    *)
(* of it is in flight (Stays).                                               *)
(*                                                                           *)
(* The argument: no folder is chosen and no draft is opened while a handler  *)
(* is out, so what a handler remembers of the draft and the folder is what   *)
(* the page shows, and a verdict on the page is about the folder shown.      *)
(* And while nothing disturbs a session, one submit is out at a time and     *)
(* begins when no upload goes on: no late answer about an earlier upload     *)
(* stops the polling of the one that is shown.                               *)
EXTENDS WorkspacePage, TLAPS

(* Types.                                                                    *)

MaybeDraft == Drafts \union {NoDraft}
MaybeFolder == Folders \union {NoFolder}
Outcomes == {"none"} \union Statuses
Sessions == {"none", "initiated", "manifest_ready", "transfer_completed"}
Places ==
  {"idle", "creating", "drafting", "updating", "saved", "syncing", "resetting", "evaluating",
   "starting", "listing", "handing", "locking", "moving", "showing", "polling", "asked", "answered"}
Gots == Outcomes \union Sessions \union {"done", "pause", "resume", "cancel"}

Row ==
  [state : {"absent", "draft", "uploading", "under_review"}, version : Nat,
   done : BOOLEAN, linked : BOOLEAN, up : Outcomes, at : Nat, session : Sessions,
   path : MaybeFolder, files : MaybeFolder, job : BOOLEAN,
   report : {"none", "success", "failure"}]
UpRow == [sub : MaybeDraft, status : Outcomes, at : Nat, id : BOOLEAN]
OpRow == [pc : Places, sub : MaybeDraft, folder : MaybeFolder, got : Gots, at : Nat]
CtxRow == [kept : BOOLEAN, folder : MaybeFolder, qc : BOOLEAN]
LoadRow ==
  [at : {"idle", "asked", "answered", "timelines"}, by : Handlers, rows : [Drafts -> Row]]
StoredRow == [up : UpRow, ctx : [Drafts -> CtxRow]]
PageRow ==
  [list : [Drafts -> Row], sel : MaybeDraft, mode : {"list", "draft", "detail"},
   draft : MaybeDraft, full : BOOLEAN, done : BOOLEAN, linked : BOOLEAN,
   folder : MaybeFolder, qc : [Drafts -> BOOLEAN], busy : BOOLEAN, qcRun : BOOLEAN,
   up : UpRow, timer : BOOLEAN, ctl : BOOLEAN, op : [Handlers -> OpRow],
   load : LoadRow, stored : StoredRow]
Seen ==
  [passed : SUBSET (Drafts \X Folders), disturbed : BOOLEAN, clicks : Nat,
   autosaves : Nat, faults : Nat]

PageTypes == rows \in [Drafts -> Row] /\ page \in PageRow /\ seen \in Seen

----------------------------------------------------------------------------
(* The invariant, of a page u, the service's rows r and what has passed, P.  *)

(* The verdict the page has on s is about the folder that is selected.       *)
Attested(u, P, s) == s \in Drafts /\ u.qc[s] => <<s, u.folder>> \in P

(* What a handler remembers of before its request.                           *)
OpHolds(u, r, P, o) ==
  LET op == u.op[o]
  IN  /\ o \in Submits \union {"control", "poll"} /\ op.pc # "idle" =>
           op.sub \in Drafts /\ Attested(u, P, op.sub)
      /\ o \in Submits /\ op.pc # "idle" =>
           <<op.sub, u.folder>> \in P /\ op.pc \notin {"creating", "drafting", "evaluating"}
      /\ o \in Submits /\ op.pc \notin {"idle", "updating", "saved"} => op.folder = u.folder
      /\ op.pc \in {"starting", "listing", "handing", "locking", "moving"} => o \in Submits
      /\ op.pc = "listing" => r[op.sub].path # NoFolder
      /\ op.pc = "handing" => r[op.sub].path # NoFolder /\ r[op.sub].files # NoFolder
      /\ o = "qc" /\ op.pc = "evaluating" =>
           op.sub \in Drafts /\ r[op.sub].state # "absent" /\ op.folder = u.folder
      /\ o = "control" /\ op.pc = "asked" => op.got \in {"pause", "resume", "cancel"}
      /\ o = "control" /\ op.pc = "answered" => op.got \in {"active", "paused", "canceled"}
      /\ o = "poll" /\ op.pc = "answered" => op.got \in Statuses

Submitting(u) == \E o \in Submits : u.op[o].pc # "idle"

VerdictKept(u, r, P, s) ==
  /\ u.stored.ctx[s].qc => <<s, u.stored.ctx[s].folder>> \in P /\ r[s].state # "absent"
  /\ u.qc[s] => u.stored.ctx[s].qc
DraftHolds(u, r, P) ==
  /\ u.draft \in Drafts => r[u.draft].state # "absent"
  /\ Attested(u, P, u.draft)
ListsHold(u, r, P) ==
  \A s \in Drafts :
    /\ r[s].state = "uploading" => Attested(u, P, s)
    /\ u.list[s].state # "absent" => r[s].state # "absent"
    /\ u.load.at = "answered" =>
         /\ u.load.rows[s].state # "absent" => r[s].state # "absent"
         /\ u.load.rows[s].state = "uploading" => Attested(u, P, s)
LoadHolds(u) == u.load.at # "idle" => u.op[u.load.by].pc \in {"saved", "showing"}
UpHolds(u, P) ==
  /\ u.up.id => u.up.sub \in Drafts
  /\ u.timer \/ Submitting(u) => Attested(u, P, u.up.sub)

HandlersHold(u, r, P) ==
  /\ DraftHolds(u, r, P) /\ ListsHold(u, r, P) /\ LoadHolds(u) /\ UpHolds(u, P)
  /\ \A o \in Handlers : OpHolds(u, r, P, o)

PageHolds(u, r, P) ==
  (\A s \in Drafts : VerdictKept(u, r, P, s)) /\ HandlersHold(u, r, P)

RowHolds(row, P, s) ==
  /\ (\E f \in Folders : <<s, f>> \in P) => row.state # "absent"
  /\ row.files # NoFolder => <<s, row.files>> \in P
  /\ row.path # NoFolder => <<s, row.path>> \in P
  /\ row.up # "none" => row.files # NoFolder /\ row.path # NoFolder
  /\ row.session # "none" => row.path # NoFolder
  /\ row.session \in {"manifest_ready", "transfer_completed"} => row.files # NoFolder
RowsHold(r, P) == \A s \in Drafts : RowHolds(r[s], P, s)

PageInv ==
  /\ PageTypes
  /\ RowsHold(rows, seen.passed)
  /\ PageHolds(page, rows, seen.passed)

----------------------------------------------------------------------------
(* What each helper does to the page's fields.                               *)

(* The list, the draft, its folder, the verdicts and what is kept of them    *)
(* stay.                                                                     *)
SameDraft(u, v) ==
  /\ v.list = u.list /\ v.draft = u.draft /\ v.folder = u.folder /\ v.qc = u.qc
  /\ v.stored.ctx = u.stored.ctx
SameUpload(u, v) == v.up = u.up /\ v.timer = u.timer
OnlyOp(u, v, o) == \A p \in Handlers \ {o} : v.op[p] = u.op[p]

LEMMA NoneOfThem == NoDraft \notin Drafts /\ NoFolder \notin Folders
BY PageAssumption DEF NoDraft, NoFolder

LEMMA AtMoves ==
  ASSUME NEW u \in PageRow, NEW o \in Handlers, NEW to \in Places
  PROVE  LET v == At(u, o, to)
         IN  /\ v \in PageRow
             /\ SameDraft(u, v) /\ SameUpload(u, v) /\ OnlyOp(u, v, o) /\ v.load = u.load
             /\ v.op[o].pc = to /\ v.op[o].sub = u.op[o].sub /\ v.op[o].folder = u.op[o].folder
             /\ v.full = u.full /\ v.list = u.list /\ v.done = u.done
BY DEF At, PageRow, OpRow, SameDraft, SameUpload, OnlyOp

LEMMA IdleIsOp == Idle \in OpRow /\ Idle.pc = "idle"
BY DEF Idle, OpRow, MaybeDraft, MaybeFolder, Gots, Outcomes, Places

LEMMA EndsMoves ==
  ASSUME NEW u \in PageRow, NEW o \in Handlers
  PROVE  LET v == Ends(u, o)
         IN  /\ v \in PageRow
             /\ SameDraft(u, v) /\ SameUpload(u, v) /\ OnlyOp(u, v, o) /\ v.load = u.load
             /\ v.op[o].pc = "idle"
             /\ v.list = u.list
BY IdleIsOp DEF Ends, PageRow, SameDraft, SameUpload, OnlyOp

LEMMA NoUploadIsUp == NoUpload \in UpRow /\ NoUpload.sub = NoDraft /\ ~NoUpload.id
BY DEF NoUpload, UpRow, MaybeDraft, Outcomes

LEMMA ClearMoves ==
  ASSUME NEW u \in PageRow
  PROVE  LET v == clearActiveUploadState(u)
         IN  /\ v \in PageRow
             /\ SameDraft(u, v) /\ v.op = u.op /\ v.load = u.load
             /\ v.up = NoUpload /\ v.timer = u.timer /\ v.list = u.list
BY NoUploadIsUp DEF clearActiveUploadState, PageRow, StoredRow, SameDraft

LEMMA PersistMoves ==
  ASSUME NEW u \in PageRow, NEW s \in MaybeDraft
  PROVE  LET v == persistDraftContext(u, s)
         IN  /\ v \in PageRow
             /\ v.draft = u.draft /\ v.folder = u.folder /\ v.qc = u.qc
             /\ \A t \in Drafts \ {s} : v.stored.ctx[t] = u.stored.ctx[t]
             /\ s \in Drafts => /\ v.stored.ctx[s].folder = u.folder
                                /\ v.stored.ctx[s].qc = u.qc[s]
             /\ SameUpload(u, v) /\ v.op = u.op /\ v.load = u.load /\ v.list = u.list
<1> DEFINE kept == [kept |-> TRUE, folder |-> u.folder, qc |-> u.qc[s]]
<1>1. CASE s = NoDraft
  BY <1>1, NoneOfThem DEF persistDraftContext, SameUpload
<1>2. CASE s \in Drafts
  <2>1. kept \in CtxRow /\ kept.folder = u.folder /\ kept.qc = u.qc[s]
    BY <1>2 DEF PageRow, CtxRow
  <2>2. persistDraftContext(u, s) = [u EXCEPT !.stored.ctx[s] = kept]
    BY <1>2, NoneOfThem DEF persistDraftContext
  <2> HIDE DEF kept
  <2> QED
    BY <1>2, <2>1, <2>2, NoneOfThem DEF PageRow, StoredRow, SameUpload
<1> QED
  BY <1>1, <1>2 DEF MaybeDraft

LEMMA ApplyMoves ==
  ASSUME NEW u \in PageRow, NEW x \in UpRow, NEW persist \in BOOLEAN
  PROVE  LET v == applyUploadState(u, x, persist)
         IN  /\ v \in PageRow
             /\ v.draft = u.draft /\ v.folder = u.folder /\ v.qc = u.qc
             /\ \A t \in Drafts \ {x.sub} : v.stored.ctx[t] = u.stored.ctx[t]
             /\ x.sub \in Drafts => /\ v.stored.ctx[x.sub].folder = u.folder
                                    /\ v.stored.ctx[x.sub].qc = u.qc[x.sub]
             /\ v.up = x /\ v.timer = u.timer /\ v.op = u.op /\ v.load = u.load /\ v.list = u.list
<1> DEFINE w == [u EXCEPT !.up = x, !.stored.up = IF persist THEN x ELSE @]
<1>1. /\ w \in PageRow /\ SameDraft(u, w) /\ w.up = x /\ w.timer = u.timer
      /\ w.op = u.op /\ w.load = u.load /\ w.list = u.list
  BY DEF PageRow, StoredRow, SameDraft
<1>2. x.sub \in MaybeDraft
  BY DEF UpRow
<1>3. applyUploadState(u, x, persist) = persistDraftContext(w, x.sub)
  BY DEF applyUploadState
<1> HIDE DEF w
<1> QED
  BY <1>1, <1>2, <1>3, PersistMoves DEF SameDraft, SameUpload

(* An upload that is found for a submission is that submission's.            *)
LEMMA StoredIsItsOwn ==
  ASSUME NEW u \in PageRow, NEW s \in Drafts
  PROVE  LET x == getStoredOrSubmissionUploadState(u, s)
         IN  x \in UpRow /\ (x # NoUpload => x.sub = s) /\ (x.id => x # NoUpload)
<1> DEFINE row == u.list[s]
           status == IF row.state = "uploading" /\ row.up \notin Surfaced THEN "active" ELSE row.up
           y == [sub |-> s, status |-> status, at |-> row.at, id |-> row.up # "none"]
           z == snapshotUploadStateFromSubmission(u, s)
           x == getStoredOrSubmissionUploadState(u, s)
<1>1. NoUpload \in UpRow /\ ~NoUpload.id
  BY NoUploadIsUp
<1>2. z \in UpRow /\ (z # NoUpload => z.sub = s)
  <2>1. row \in Row
    BY DEF PageRow
  <2>2. status \in Outcomes
    BY <2>1 DEF Row, Outcomes, Statuses
  <2>3. y \in UpRow /\ y.sub = s
    BY <2>1, <2>2 DEF UpRow, Row, MaybeDraft
  <2>4. z = y \/ z = NoUpload
    BY DEF snapshotUploadStateFromSubmission
  <2> HIDE DEF y, z
  <2> QED
    BY <2>3, <2>4, <1>1
<1>3. u.stored.up \in UpRow
  BY DEF PageRow, StoredRow
<1>4. \/ x = z
      \/ x = NoUpload
      \/ x = u.stored.up /\ u.stored.up.sub = s
  BY DEF getStoredOrSubmissionUploadState, Listed
<1> HIDE DEF z
<1> QED
  BY <1>1, <1>2, <1>3, <1>4

LEMMA StartPollMoves ==
  ASSUME NEW u \in PageRow
  PROVE  LET v == StartPoll(u)
         IN  /\ v \in PageRow
             /\ SameDraft(u, v) /\ SameUpload(u, v) /\ OnlyOp(u, v, "poll") /\ v.load = u.load
             /\ v.list = u.list
             /\ \/ v.op = u.op
                \/ /\ u.op["poll"].pc = "idle" /\ u.up.id
                   /\ v.op["poll"].pc = "asked" /\ v.op["poll"].sub = u.up.sub
<1> DEFINE asked == [Idle EXCEPT !.pc = "asked", !.sub = u.up.sub]
<1>1. u.up.sub \in MaybeDraft
  BY DEF PageRow, UpRow
<1>2. asked \in OpRow /\ asked.pc = "asked" /\ asked.sub = u.up.sub
  BY <1>1 DEF Idle, OpRow, MaybeFolder, Gots, Outcomes, Places
<1>3. StartPoll(u) = IF u.op["poll"].pc = "idle" /\ u.up.id THEN [u EXCEPT !.op["poll"] = asked] ELSE u
  BY DEF StartPoll
<1>4. "poll" \in Handlers
  BY DEF Handlers
<1> HIDE DEF asked
<1> QED
  BY <1>2, <1>3, <1>4 DEF PageRow, SameDraft, SameUpload, OnlyOp

LEMMA StartPollingMoves ==
  ASSUME NEW u \in PageRow
  PROVE  LET v == startUploadStatusPolling(u)
         IN  /\ v \in PageRow
             /\ SameDraft(u, v) /\ v.up = u.up /\ OnlyOp(u, v, "poll") /\ v.load = u.load
             /\ v.list = u.list
             /\ \/ v.op = u.op
                \/ /\ u.op["poll"].pc = "idle" /\ u.up.id
                   /\ v.op["poll"].pc = "asked" /\ v.op["poll"].sub = u.up.sub
<1> DEFINE w == StartPoll(u)
<1>1. startUploadStatusPolling(u) = [w EXCEPT !.timer = TRUE]
  BY DEF startUploadStatusPolling
<1>2. /\ w \in PageRow
      /\ SameDraft(u, w) /\ SameUpload(u, w) /\ OnlyOp(u, w, "poll") /\ w.load = u.load
      /\ w.list = u.list
      /\ \/ w.op = u.op
         \/ /\ u.op["poll"].pc = "idle" /\ u.up.id
            /\ w.op["poll"].pc = "asked" /\ w.op["poll"].sub = u.up.sub
  BY StartPollMoves
<1> HIDE DEF w
<1> DEFINE v == [w EXCEPT !.timer = TRUE]
<1>3. /\ v \in PageRow
      /\ SameDraft(w, v) /\ v.up = w.up /\ v.op = w.op /\ v.load = w.load /\ v.list = w.list
  BY <1>2 DEF PageRow, SameDraft
<1>4. startUploadStatusPolling(u) = v
  BY <1>1
<1> HIDE DEF v
<1> QED
  BY <1>2, <1>3, <1>4 DEF SameDraft, SameUpload, OnlyOp

----------------------------------------------------------------------------
(* What keeps the invariant of the page.                                     *)

(* A step that moves one handler, and may move to another draft, load the    *)
(* list or show an upload.                                                   *)
LEMMA HoldsByDraft ==
  ASSUME NEW u \in PageRow, NEW v \in PageRow, NEW r \in [Drafts -> Row], NEW P,
         NEW o \in Handlers, PageHolds(u, r, P),
         v.list = u.list, v.folder = u.folder, v.qc = u.qc, v.stored.ctx = u.stored.ctx,
         OnlyOp(u, v, o),
         DraftHolds(v, r, P), LoadHolds(v), UpHolds(v, P), OpHolds(v, r, P, o),
         v.load = u.load \/ v.load.at # "answered"
  PROVE  PageHolds(v, r, P)
<1>1. \A s \in Drafts : VerdictKept(v, r, P, s)
  BY DEF PageHolds, VerdictKept
<1>2. ListsHold(v, r, P)
  BY DEF PageHolds, HandlersHold, ListsHold, Attested
<1>3. ASSUME NEW p \in Handlers \ {o} PROVE OpHolds(v, r, P, p)
  <2>1. OpHolds(u, r, P, p) /\ v.op[p] = u.op[p]
    BY <1>3 DEF PageHolds, HandlersHold, OnlyOp
  <2> QED
    BY <2>1 DEF OpHolds, Attested
<1> QED
  BY <1>1, <1>2, <1>3 DEF PageHolds, HandlersHold

LEMMA HoldsByHandler ==
  ASSUME NEW u \in PageRow, NEW v \in PageRow, NEW r \in [Drafts -> Row], NEW P,
         NEW o \in Handlers, PageHolds(u, r, P),
         SameDraft(u, v), OnlyOp(u, v, o), LoadHolds(v), UpHolds(v, P), OpHolds(v, r, P, o),
         v.load = u.load \/ v.load.at # "answered"
  PROVE  PageHolds(v, r, P)
<1>1. DraftHolds(v, r, P)
  BY DEF PageHolds, HandlersHold, DraftHolds, Attested, SameDraft
<1> QED
  BY <1>1, HoldsByDraft DEF SameDraft

(* A step that moves no handler, and no more of the page than its looks.     *)
LEMMA HoldsByLooks ==
  ASSUME NEW u \in PageRow, NEW v \in PageRow, NEW r \in [Drafts -> Row], NEW P,
         PageHolds(u, r, P), SameDraft(u, v), SameUpload(u, v), v.op = u.op, v.load = u.load
  PROVE  PageHolds(v, r, P)
<1>1. "boot" \in Handlers
  BY DEF Handlers
<1>2. LoadHolds(v) /\ UpHolds(v, P)
  BY DEF PageHolds, HandlersHold, LoadHolds, UpHolds, Submitting, Attested, SameDraft, SameUpload
<1>3. OpHolds(v, r, P, "boot")
  <2>1. OpHolds(u, r, P, "boot")
    BY <1>1 DEF PageHolds, HandlersHold
  <2> QED
    BY <2>1 DEF OpHolds, Attested, SameDraft
<1> QED
  BY <1>1, <1>2, <1>3, HoldsByHandler DEF OnlyOp

(* A handler that is over, or goes on with what it remembers.                *)
LEMMA UpStays ==
  ASSUME NEW u \in PageRow, NEW v \in PageRow, NEW P, NEW o \in Handlers,
         UpHolds(u, P), SameDraft(u, v), SameUpload(u, v), OnlyOp(u, v, o),
         o \in Submits /\ v.op[o].pc # "idle" => u.op[o].pc # "idle" \/ Attested(u, P, u.up.sub)
  PROVE  UpHolds(v, P)
<1>1. Submits \subseteq Handlers
  BY DEF Submits, Handlers
<1>2. Submitting(v) => Submitting(u) \/ Attested(u, P, u.up.sub)
  BY <1>1 DEF Submitting, OnlyOp
<1> QED
  BY <1>2 DEF UpHolds, Attested, SameDraft, SameUpload

LEMMA EndsHolds ==
  ASSUME NEW u \in PageRow, NEW r \in [Drafts -> Row], NEW P, NEW o \in Handlers,
         PageHolds(u, r, P), u.load.at # "idle" => u.load.by # o
  PROVE  Ends(u, o) \in PageRow /\ PageHolds(Ends(u, o), r, P)
<1> DEFINE v == Ends(u, o)
<1>1. /\ v \in PageRow
      /\ SameDraft(u, v) /\ SameUpload(u, v) /\ OnlyOp(u, v, o) /\ v.load = u.load
      /\ v.op[o].pc = "idle"
  BY EndsMoves
<1> HIDE DEF v
<1>2. UpHolds(v, P)
  BY <1>1, UpStays DEF PageHolds, HandlersHold
<1>3. OpHolds(v, r, P, o)
  BY <1>1 DEF OpHolds
<1>4. LoadHolds(v)
  BY <1>1 DEF PageHolds, HandlersHold, LoadHolds, OnlyOp, PageRow, LoadRow
<1>5. PageHolds(v, r, P)
  BY <1>1, <1>2, <1>3, <1>4, HoldsByHandler
<1> QED
  BY <1>1, <1>5 DEF v

(* A handler that goes to another place.                                     *)
LEMMA AtHolds ==
  ASSUME NEW u \in PageRow, NEW r \in [Drafts -> Row], NEW P, NEW o \in Handlers,
         NEW to \in Places, PageHolds(u, r, P),
         u.load.at # "idle" => u.load.by # o,
         o \in Submits => u.op[o].pc # "idle" \/ Attested(u, P, u.up.sub),
         OpHolds(At(u, o, to), r, P, o)
  PROVE  At(u, o, to) \in PageRow /\ PageHolds(At(u, o, to), r, P)
<1> DEFINE v == At(u, o, to)
<1>1. /\ v \in PageRow
      /\ SameDraft(u, v) /\ SameUpload(u, v) /\ OnlyOp(u, v, o) /\ v.load = u.load
  BY AtMoves
<1>2. OpHolds(v, r, P, o)
  OBVIOUS
<1> HIDE DEF v
<1>3. UpHolds(v, P)
  BY <1>1, UpStays DEF PageHolds, HandlersHold
<1>4. LoadHolds(v)
  BY <1>1 DEF PageHolds, HandlersHold, LoadHolds, OnlyOp, PageRow, LoadRow
<1>5. PageHolds(v, r, P)
  BY <1>1, <1>2, <1>3, <1>4, HoldsByHandler
<1> QED
  BY <1>1, <1>5 DEF v

LEMMA ClearHolds ==
  ASSUME NEW u \in PageRow, NEW r \in [Drafts -> Row], NEW P, PageHolds(u, r, P)
  PROVE  PageHolds(clearActiveUploadState(u), r, P)
<1> DEFINE v == clearActiveUploadState(u)
<1>1. v \in PageRow /\ SameDraft(u, v) /\ v.op = u.op /\ v.load = u.load /\ v.up = NoUpload
  BY ClearMoves
<1> HIDE DEF v
<1>2. "boot" \in Handlers /\ NoDraft \notin Drafts
  BY NoneOfThem DEF Handlers
<1>3. LoadHolds(v)
  BY <1>1 DEF PageHolds, HandlersHold, LoadHolds
<1>4. UpHolds(v, P)
  BY <1>1, <1>2, NoUploadIsUp DEF UpHolds, Attested
<1>5. OpHolds(v, r, P, "boot")
  <2>1. OpHolds(u, r, P, "boot")
    BY <1>2 DEF PageHolds, HandlersHold
  <2> QED
    BY <1>1, <2>1 DEF OpHolds, Attested, SameDraft
<1>6. PageHolds(v, r, P)
  BY <1>1, <1>2, <1>3, <1>4, <1>5, HoldsByHandler DEF OnlyOp
<1> QED
  BY <1>6 DEF v

(* The verdict on a draft is written with the folder that is selected.       *)
LEMMA PersistHolds ==
  ASSUME NEW u \in PageRow, NEW r \in [Drafts -> Row], NEW P, NEW s \in Drafts,
         HandlersHold(u, r, P),
         \A t \in Drafts \ {s} : VerdictKept(u, r, P, t),
         u.qc[s] => <<s, u.folder>> \in P /\ r[s].state # "absent"
  PROVE  PageHolds(persistDraftContext(u, s), r, P)
<1> DEFINE v == persistDraftContext(u, s)
<1>1. /\ v.draft = u.draft /\ v.folder = u.folder /\ v.qc = u.qc
      /\ \A t \in Drafts \ {s} : v.stored.ctx[t] = u.stored.ctx[t]
      /\ v.stored.ctx[s].folder = u.folder /\ v.stored.ctx[s].qc = u.qc[s]
      /\ SameUpload(u, v) /\ v.op = u.op /\ v.load = u.load /\ v.list = u.list
  BY PersistMoves DEF MaybeDraft
<1> HIDE DEF v
<1>2. \A t \in Drafts : VerdictKept(v, r, P, t)
  BY <1>1 DEF VerdictKept
<1>3. DraftHolds(v, r, P) /\ ListsHold(v, r, P) /\ LoadHolds(v) /\ UpHolds(v, P)
  BY <1>1 DEF HandlersHold, DraftHolds, ListsHold, LoadHolds, UpHolds, Submitting, Attested, SameUpload
<1>4. ASSUME NEW o \in Handlers PROVE OpHolds(v, r, P, o)
  <2>1. OpHolds(u, r, P, o)
    BY DEF HandlersHold
  <2> QED
    BY <1>1, <2>1 DEF OpHolds, Attested
<1>5. PageHolds(v, r, P)
  BY <1>2, <1>3, <1>4 DEF PageHolds, HandlersHold
<1> QED
  BY <1>5 DEF v

LEMMA ApplyHolds ==
  ASSUME NEW u \in PageRow, NEW r \in [Drafts -> Row], NEW P, PageHolds(u, r, P),
         NEW x \in UpRow, NEW persist \in BOOLEAN,
         x.sub \in Drafts, Attested(u, P, x.sub)
  PROVE  PageHolds(applyUploadState(u, x, persist), r, P)
<1> DEFINE w == [u EXCEPT !.up = x, !.stored.up = IF persist THEN x ELSE @]
<1>1. /\ w \in PageRow /\ SameDraft(u, w) /\ w.up = x /\ w.op = u.op /\ w.load = u.load
  BY DEF PageRow, StoredRow, SameDraft
<1>2. applyUploadState(u, x, persist) = persistDraftContext(w, x.sub)
  BY DEF applyUploadState
<1> HIDE DEF w
<1>3. LoadHolds(w) /\ UpHolds(w, P)
  BY <1>1 DEF PageHolds, HandlersHold, LoadHolds, UpHolds, Attested, SameDraft
<1>4. "boot" \in Handlers
  BY DEF Handlers
<1>5. OpHolds(w, r, P, "boot")
  <2>1. OpHolds(u, r, P, "boot")
    BY <1>4 DEF PageHolds, HandlersHold
  <2> QED
    BY <1>1, <2>1 DEF OpHolds, Attested, SameDraft
<1>6. PageHolds(w, r, P)
  BY <1>1, <1>3, <1>4, <1>5, HoldsByHandler DEF OnlyOp
<1>7. w.qc[x.sub] => <<x.sub, w.folder>> \in P /\ r[x.sub].state # "absent"
  BY <1>1, <1>6 DEF PageHolds, VerdictKept, Attested, SameDraft
<1> QED
  BY <1>1, <1>2, <1>6, <1>7, PersistHolds DEF PageHolds

LEMMA StartPollHolds ==
  ASSUME NEW u \in PageRow, NEW r \in [Drafts -> Row], NEW P, PageHolds(u, r, P),
         Attested(u, P, u.up.sub)
  PROVE  PageHolds(StartPoll(u), r, P)
<1> DEFINE v == StartPoll(u)
<1>1. /\ v \in PageRow
      /\ SameDraft(u, v) /\ SameUpload(u, v) /\ OnlyOp(u, v, "poll") /\ v.load = u.load
      /\ \/ v.op = u.op
         \/ /\ u.op["poll"].pc = "idle" /\ u.up.id
            /\ v.op["poll"].pc = "asked" /\ v.op["poll"].sub = u.up.sub
  BY StartPollMoves
<1> SUFFICES PageHolds(v, r, P)
  OBVIOUS
<1> HIDE DEF v
<1>2. CASE v.op = u.op
  BY <1>1, <1>2, HoldsByLooks
<1>3. CASE /\ u.op["poll"].pc = "idle" /\ u.up.id
           /\ v.op["poll"].pc = "asked" /\ v.op["poll"].sub = u.up.sub
  <2>1. "poll" \in Handlers /\ "poll" \notin Submits
    BY DEF Handlers, Submits
  <2>2. LoadHolds(v)
    BY <1>1, <1>3 DEF PageHolds, HandlersHold, LoadHolds, OnlyOp, PageRow, LoadRow
  <2>3. UpHolds(v, P)
    BY <1>1, <2>1, UpStays DEF PageHolds, HandlersHold
  <2>4. OpHolds(v, r, P, "poll")
    BY <1>1, <1>3, <2>1 DEF PageHolds, HandlersHold, OpHolds, UpHolds, Attested, SameDraft
  <2> QED
    BY <1>1, <2>1, <2>2, <2>3, <2>4, HoldsByHandler
<1> QED
  BY <1>1, <1>2, <1>3

LEMMA StartPollingHolds ==
  ASSUME NEW u \in PageRow, NEW r \in [Drafts -> Row], NEW P, PageHolds(u, r, P),
         Attested(u, P, u.up.sub)
  PROVE  PageHolds(startUploadStatusPolling(u), r, P)
<1> DEFINE w == StartPoll(u)
           v == [w EXCEPT !.timer = TRUE]
<1>1. w \in PageRow /\ PageHolds(w, r, P) /\ SameDraft(u, w) /\ SameUpload(u, w)
  BY StartPollMoves, StartPollHolds
<1>2. startUploadStatusPolling(u) = v
  BY DEF startUploadStatusPolling
<1> HIDE DEF w
<1>3. /\ v \in PageRow
      /\ SameDraft(w, v) /\ v.up = w.up /\ v.op = w.op /\ v.load = w.load
  BY <1>1 DEF PageRow, SameDraft
<1> HIDE DEF v
<1>4. LoadHolds(v) /\ UpHolds(v, P)
  BY <1>1, <1>3 DEF PageHolds, HandlersHold, LoadHolds, UpHolds, Attested, SameDraft, SameUpload
<1>5. "boot" \in Handlers
  BY DEF Handlers
<1>6. OpHolds(v, r, P, "boot")
  <2>1. OpHolds(w, r, P, "boot")
    BY <1>1, <1>5 DEF PageHolds, HandlersHold
  <2> QED
    BY <1>3, <2>1 DEF OpHolds, Attested, SameDraft
<1> QED
  BY <1>1, <1>2, <1>3, <1>4, <1>5, <1>6, HoldsByHandler DEF OnlyOp

----------------------------------------------------------------------------
(* The helpers keep it.                                                      *)

(* The list is not being loaded for this handler.                            *)
Free(u, o) == u.load.at # "idle" => u.load.by # o

LEMMA ShowOutcomeHolds ==
  ASSUME NEW u \in PageRow, NEW r \in [Drafts -> Row], NEW P, PageHolds(u, r, P),
         Free(u, "poll"), u.op["poll"].pc # "idle"
  PROVE  ShowOutcome(u) \in PageRow /\ PageHolds(ShowOutcome(u), r, P)
<1> DEFINE s == u.op["poll"].sub
           completed == u.op["poll"].got = "completed"
           w == Ends(u, "poll")
           v == [w EXCEPT !.sel = s]
           c == clearActiveUploadState(v)
           x == [c EXCEPT !.mode = "detail"]
           y == [v EXCEPT !.mode = "draft", !.busy = completed, !.ctl = FALSE]
<1>1. "poll" \in Handlers
  BY DEF Handlers
<1>2. s \in Drafts
  BY <1>1 DEF PageHolds, HandlersHold, OpHolds
<1>3. w \in PageRow /\ PageHolds(w, r, P)
  BY <1>1, EndsHolds DEF Free
<1>4. ShowOutcome(u) = IF completed /\ u.list[s].state = "under_review" THEN x ELSE y
  BY DEF ShowOutcome
<1> HIDE DEF s, w
<1>5. v \in PageRow /\ SameDraft(w, v) /\ SameUpload(w, v) /\ v.op = w.op /\ v.load = w.load
  BY <1>2, <1>3 DEF PageRow, MaybeDraft, SameDraft, SameUpload
<1> HIDE DEF v
<1>6. PageHolds(v, r, P)
  BY <1>3, <1>5, HoldsByLooks
<1>7. c \in PageRow /\ PageHolds(c, r, P)
  BY <1>5, <1>6, ClearMoves, ClearHolds
<1> HIDE DEF c
<1>8. x \in PageRow /\ SameDraft(c, x) /\ SameUpload(c, x) /\ x.op = c.op /\ x.load = c.load
  BY <1>7 DEF PageRow, SameDraft, SameUpload
<1>9. y \in PageRow /\ SameDraft(v, y) /\ SameUpload(v, y) /\ y.op = v.op /\ y.load = v.load
  BY <1>5 DEF PageRow, SameDraft, SameUpload
<1> HIDE DEF x, y
<1>10. PageHolds(x, r, P) /\ PageHolds(y, r, P)
  BY <1>5, <1>6, <1>7, <1>8, <1>9, HoldsByLooks
<1> QED
  BY <1>4, <1>8, <1>9, <1>10

LEMMA ContinueHolds ==
  ASSUME NEW u \in PageRow, NEW r \in [Drafts -> Row], NEW P, NEW o \in Handlers,
         PageHolds(u, r, P), Free(u, o), o = "poll" => u.op["poll"].pc # "idle"
  PROVE  Continue(u, o) \in PageRow /\ PageHolds(Continue(u, o), r, P)
<1>0. /\ "poll" \notin Submits /\ "control" \notin Submits /\ "airtable" \notin Submits
      /\ {"syncing", "starting", "polling"} \subseteq Places
  BY DEF Submits, Places
<1>1. CASE o = "poll"
  <2>1. Continue(u, o) = ShowOutcome(u)
    BY <1>0, <1>1 DEF Continue
  <2> QED
    BY <1>1, <2>1, ShowOutcomeHolds
<1>2. CASE o = "control"
  <2> DEFINE w == Ends(u, o)
             v == [w EXCEPT !.ctl = FALSE]
  <2>1. w \in PageRow /\ PageHolds(w, r, P)
    BY EndsHolds DEF Free
  <2>2. Continue(u, o) = v
    BY <1>2, <1>0 DEF Continue
  <2> HIDE DEF w
  <2>3. v \in PageRow /\ SameDraft(w, v) /\ SameUpload(w, v) /\ v.op = w.op /\ v.load = w.load
    BY <2>1 DEF PageRow, SameDraft, SameUpload
  <2> HIDE DEF v
  <2> QED
    BY <2>1, <2>2, <2>3, HoldsByLooks
<1>3. CASE o = "airtable"
  <2>1. Continue(u, o) = At(u, o, "syncing")
    BY <1>3, <1>0 DEF Continue
  <2>2. OpHolds(At(u, o, "syncing"), r, P, o)
    BY <1>0, <1>3, AtMoves DEF OpHolds
  <2> QED
    BY <1>0, <1>3, <2>1, <2>2, AtHolds DEF Free
<1>4. CASE o \in Submits /\ u.op[o].pc = "saved"
  <2> DEFINE w == At(u, o, "starting")
             v == [w EXCEPT !.op[o].folder = u.folder]
  <2>1. Continue(u, o) = v
    BY <1>4, <1>0 DEF Continue
  <2>2. /\ w \in PageRow
        /\ SameDraft(u, w) /\ SameUpload(u, w) /\ OnlyOp(u, w, o) /\ w.load = u.load
        /\ w.op[o].pc = "starting" /\ w.op[o].sub = u.op[o].sub
    BY <1>0, AtMoves
  <2> DEFINE row == [w.op[o] EXCEPT !.folder = u.folder]
  <2> HIDE DEF w
  <2>3. row \in OpRow /\ row.pc = w.op[o].pc /\ row.sub = w.op[o].sub /\ row.folder = u.folder
    BY <2>2 DEF PageRow, OpRow
  <2>4. v = [w EXCEPT !.op[o] = row]
    BY <2>2 DEF PageRow
  <2> HIDE DEF row
  <2>5. /\ v \in PageRow
        /\ SameDraft(u, v) /\ SameUpload(u, v) /\ OnlyOp(u, v, o) /\ v.load = u.load
        /\ v.op[o].pc = "starting" /\ v.op[o].sub = u.op[o].sub /\ v.op[o].folder = u.folder
    BY <2>2, <2>3, <2>4 DEF PageRow, SameDraft, SameUpload, OnlyOp
  <2> HIDE DEF v
  <2>6. OpHolds(v, r, P, o)
    BY <1>4, <2>5 DEF PageHolds, HandlersHold, OpHolds, Attested, SameDraft, Submits
  <2>7. UpHolds(v, P)
    BY <1>4, <2>5, UpStays DEF PageHolds, HandlersHold
  <2>8. LoadHolds(v)
    BY <2>5 DEF PageHolds, HandlersHold, LoadHolds, OnlyOp, PageRow, LoadRow, Free
  <2> QED
    BY <2>1, <2>5, <2>6, <2>7, <2>8, HoldsByHandler
<1>5. CASE o \in Submits /\ u.op[o].pc = "showing"
  <2> DEFINE w == StartPoll(u)
  <2>1. Continue(u, o) = At(w, o, "polling")
    BY <1>5, <1>0 DEF Continue
  <2>2. /\ w \in PageRow
        /\ SameDraft(u, w) /\ SameUpload(u, w) /\ OnlyOp(u, w, "poll") /\ w.load = u.load
    BY StartPollMoves
  <2>3. Attested(u, P, u.up.sub)
    BY <1>5 DEF PageHolds, HandlersHold, UpHolds, Submitting
  <2>4. PageHolds(w, r, P)
    BY <2>3, StartPollHolds
  <2> HIDE DEF w
  <2>5. w.op[o] = u.op[o]
    BY <1>0, <1>5, <2>2 DEF OnlyOp
  <2>6. OpHolds(At(w, o, "polling"), r, P, o)
    <3> DEFINE v == At(w, o, "polling")
    <3>1. OpHolds(w, r, P, o)
      BY <2>4 DEF PageHolds, HandlersHold
    <3>2. /\ SameDraft(w, v) /\ v.op[o].pc = "polling"
          /\ v.op[o].sub = w.op[o].sub /\ v.op[o].folder = w.op[o].folder
      BY <1>0, <2>2, AtMoves
    <3> HIDE DEF v
    <3>3. w.op[o].pc = "showing" /\ o # "qc"
      BY <1>5, <2>5 DEF Submits
    <3>4. OpHolds(v, r, P, o)
      BY <3>1, <3>2, <3>3 DEF OpHolds, Attested, SameDraft
    <3> QED
      BY <3>4 DEF v
  <2> QED
    BY <1>0, <1>5, <2>1, <2>2, <2>4, <2>5, <2>6, AtHolds DEF Free
<1>6. CASE /\ o \notin {"poll", "control", "airtable"}
           /\ ~(o \in Submits /\ u.op[o].pc \in {"saved", "showing"})
  <2>1. Continue(u, o) = Ends(u, o)
    BY <1>6 DEF Continue
  <2> QED
    BY <2>1, EndsHolds DEF Free
<1> QED
  BY <1>1, <1>2, <1>3, <1>4, <1>5, <1>6

LEMMA LoadHoldsOf ==
  ASSUME NEW u \in PageRow, NEW r \in [Drafts -> Row], NEW P, NEW o \in Handlers,
         NEW to \in {"saved", "showing"}, PageHolds(At(u, o, to), r, P), Free(u, o)
  PROVE  loadSubmissions(u, o, to) \in PageRow /\ PageHolds(loadSubmissions(u, o, to), r, P)
<1> DEFINE w == At(u, o, to)
           v == [w EXCEPT !.load = [@ EXCEPT !.at = "asked", !.by = o]]
<1>1. to \in Places
  BY DEF Places
<1>2. w \in PageRow /\ w.load = u.load /\ w.op[o].pc = to
  BY <1>1, AtMoves
<1>3. w \in PageRow /\ PageHolds(w, r, P) /\ w.load = u.load /\ w.op[o].pc = to
  BY <1>2
<1>4. loadSubmissions(u, o, to) = IF u.load.at # "idle" THEN Continue(w, o) ELSE v
  BY DEF loadSubmissions
<1> HIDE DEF w
<1>5. Continue(w, o) \in PageRow /\ PageHolds(Continue(w, o), r, P)
  BY <1>3, ContinueHolds DEF Free
<1>6. /\ v \in PageRow /\ SameDraft(w, v) /\ SameUpload(w, v) /\ v.op = w.op
      /\ v.load.at = "asked" /\ v.load.by = o
  BY <1>3 DEF PageRow, LoadRow, SameDraft, SameUpload
<1> HIDE DEF v
<1>7. LoadHolds(v)
  BY <1>3, <1>6 DEF LoadHolds
<1>8. UpHolds(v, P)
  BY <1>3, <1>6 DEF PageHolds, HandlersHold, UpHolds, Submitting, Attested, SameDraft, SameUpload
<1>9. OpHolds(v, r, P, o)
  <2>1. OpHolds(w, r, P, o)
    BY <1>3 DEF PageHolds, HandlersHold
  <2> QED
    BY <1>6, <2>1 DEF OpHolds, Attested, SameDraft
<1>10. PageHolds(v, r, P)
  BY <1>3, <1>6, <1>7, <1>8, <1>9, HoldsByHandler DEF OnlyOp
<1> QED
  BY <1>4, <1>5, <1>6, <1>10

(* The uploads a list shows are of drafts whose verdict is attested.         *)
LEMMA ShowUploadingHolds ==
  ASSUME NEW u \in PageRow, NEW r \in [Drafts -> Row], NEW P, PageHolds(u, r, P),
         \A s \in Drafts : u.list[s].state = "uploading" => Attested(u, P, s)
  PROVE  ShowUploading(u) \in PageRow /\ PageHolds(ShowUploading(u), r, P)
<1> DEFINE s == ActiveUploadSubmission(u)
           x == getStoredOrSubmissionUploadState(u, s)
           a == applyUploadState(u, x, x.id)
           v == [a EXCEPT !.sel = s, !.mode = "draft", !.busy = x.status = "active"]
           shown == Listed(u, s) /\ u.list[s].state = "uploading" /\ x # NoUpload
<1>1. ShowUploading(u) =
        IF shown THEN IF x.id /\ x.status = "active" THEN startUploadStatusPolling(v) ELSE v ELSE u
  BY DEF ShowUploading
<1>2. CASE ~shown
  BY <1>1, <1>2
<1>3. CASE shown
  <2>1. s \in Drafts /\ Attested(u, P, s)
    BY <1>3 DEF Listed
  <2>2. x \in UpRow /\ x.sub = s
    BY <1>3, <2>1, StoredIsItsOwn
  <2>3. x.id \in BOOLEAN
    BY <2>2 DEF UpRow
  <2> HIDE DEF s, x
  <2>4. /\ a \in PageRow /\ a.up = x /\ a.folder = u.folder /\ a.qc = u.qc
    BY <2>2, <2>3, ApplyMoves
  <2>5. PageHolds(a, r, P)
    BY <2>1, <2>2, <2>3, ApplyHolds
  <2> HIDE DEF a
  <2>6. v \in PageRow /\ SameDraft(a, v) /\ SameUpload(a, v) /\ v.op = a.op /\ v.load = a.load
    BY <2>1, <2>4 DEF PageRow, MaybeDraft, SameDraft, SameUpload
  <2> HIDE DEF v
  <2>7. PageHolds(v, r, P)
    BY <2>4, <2>5, <2>6, HoldsByLooks
  <2>8. Attested(v, P, v.up.sub)
    BY <2>1, <2>2, <2>4, <2>6 DEF Attested, SameDraft, SameUpload
  <2>9. startUploadStatusPolling(v) \in PageRow /\ PageHolds(startUploadStatusPolling(v), r, P)
    BY <2>6, <2>7, <2>8, StartPollingMoves, StartPollingHolds
  <2> QED
    BY <1>1, <1>3, <2>6, <2>7, <2>9
<1> QED
  BY <1>2, <1>3

(* A submit is saved once its folder is found good.                          *)
LEMMA SaveHolds ==
  ASSUME NEW u \in PageRow, NEW r \in [Drafts -> Row], NEW P,
         NEW o \in Handlers \ {"poll", "control"}, PageHolds(u, r, P), Free(u, o),
         o \in Submits =>
           /\ u.full /\ u.draft \in Drafts /\ <<u.draft, u.folder>> \in P
           /\ Attested(u, P, u.up.sub)
  PROVE  saveMetadata(u, o) \in PageRow /\ PageHolds(saveMetadata(u, o), r, P)
<1>0. {"saved", "creating", "updating"} \subseteq Places
  BY DEF Places
<1>1. CASE ~u.full
  <2> DEFINE w == At(u, o, "saved")
  <2>1. saveMetadata(u, o) = Continue(w, o)
    BY <1>1 DEF saveMetadata
  <2>2. w \in PageRow /\ w.load = u.load /\ w.op[o].pc = "saved"
    BY <1>0, AtMoves
  <2>3. OpHolds(w, r, P, o)
    BY <1>1, <2>2 DEF OpHolds
  <2>4. PageHolds(w, r, P)
    BY <1>0, <1>1, <2>3, AtHolds DEF Free
  <2> HIDE DEF w
  <2> QED
    BY <2>1, <2>2, <2>4, ContinueHolds DEF Free
<1>2. CASE u.full /\ u.draft = NoDraft
  <2>1. saveMetadata(u, o) = At(u, o, "creating")
    BY <1>2 DEF saveMetadata
  <2>2. o \notin Submits
    BY <1>2, NoneOfThem
  <2>3. OpHolds(At(u, o, "creating"), r, P, o)
    BY <1>0, <2>2, AtMoves DEF OpHolds
  <2> QED
    BY <1>0, <2>1, <2>2, <2>3, AtHolds DEF Free
<1>3. CASE u.full /\ u.draft # NoDraft
  <2> DEFINE w == At(u, o, "updating")
             got == IF u.done THEN "done" ELSE "none"
             row == [w.op[o] EXCEPT !.sub = u.draft, !.got = got]
             v == [w EXCEPT !.op[o] = row]
  <2>1. saveMetadata(u, o) = [w EXCEPT !.op[o].sub = u.draft, !.op[o].got = got]
    BY <1>3 DEF saveMetadata
  <2>2. /\ w \in PageRow
        /\ SameDraft(u, w) /\ SameUpload(u, w) /\ OnlyOp(u, w, o) /\ w.load = u.load
        /\ w.op[o].pc = "updating"
    BY <1>0, AtMoves
  <2>3. got \in Gots /\ u.draft \in MaybeDraft
    BY DEF Gots, PageRow, Outcomes
  <2> HIDE DEF w, got
  <2>4. saveMetadata(u, o) = v
    BY <2>1, <2>2 DEF PageRow, OpRow
  <2>5. row \in OpRow /\ row.pc = "updating" /\ row.sub = u.draft
    <3>1. w.op[o] \in OpRow
      BY <2>2 DEF PageRow
    <3> QED
      BY <2>2, <2>3, <3>1 DEF OpRow
  <2> HIDE DEF row
  <2>6. /\ v \in PageRow
        /\ SameDraft(u, v) /\ SameUpload(u, v) /\ OnlyOp(u, v, o) /\ v.load = u.load
        /\ v.op[o].pc = "updating" /\ v.op[o].sub = u.draft
    BY <2>2, <2>5 DEF PageRow, SameDraft, SameUpload, OnlyOp
  <2> HIDE DEF v
  <2>7. OpHolds(v, r, P, o)
    BY <2>6 DEF OpHolds, Attested, SameDraft, Submits
  <2>8. UpHolds(v, P)
    BY <2>6, UpStays DEF PageHolds, HandlersHold
  <2>9. LoadHolds(v)
    BY <2>6 DEF PageHolds, HandlersHold, LoadHolds, OnlyOp, PageRow, LoadRow, Free
  <2> QED
    BY <2>4, <2>6, <2>7, <2>8, <2>9, HoldsByHandler
<1> QED
  BY <1>1, <1>2, <1>3

(* To a draft that exists, whose verdict is attested.                        *)
LEMMA MarkAirtableHolds ==
  ASSUME NEW u \in PageRow, NEW r \in [Drafts -> Row], NEW P, PageHolds(u, r, P),
         Free(u, "airtable"), NEW s \in Drafts, r[s].state # "absent", Attested(u, P, s)
  PROVE  MarkAirtable(u, s) \in PageRow /\ PageHolds(MarkAirtable(u, s), r, P)
<1> DEFINE row == [u.op["airtable"] EXCEPT !.sub = s]
           w == [u EXCEPT !.sel = s, !.draft = s, !.done = TRUE, !.op["airtable"].sub = s]
           v == [u EXCEPT !.sel = s, !.draft = s, !.done = TRUE, !.op["airtable"] = row]
<1>1. "airtable" \in Handlers \ {"poll", "control"} /\ "airtable" \notin Submits
  BY DEF Handlers, Submits
<1>2. w = v
  BY <1>1 DEF PageRow
<1>3. row \in OpRow /\ row.pc = u.op["airtable"].pc
  BY <1>1 DEF PageRow, OpRow, MaybeDraft
<1>4. MarkAirtable(u, s) = saveMetadata(v, "airtable")
  BY <1>2 DEF MarkAirtable
<1> HIDE DEF row, w
<1>5. /\ v \in PageRow /\ v.list = u.list /\ v.folder = u.folder /\ v.qc = u.qc /\ v.stored.ctx = u.stored.ctx
      /\ v.draft = s /\ OnlyOp(u, v, "airtable") /\ v.load = u.load /\ SameUpload(u, v)
      /\ v.op["airtable"].pc = u.op["airtable"].pc
  BY <1>1, <1>3 DEF PageRow, MaybeDraft, OnlyOp, SameUpload
<1> HIDE DEF v
<1>6. OpHolds(v, r, P, "airtable")
  BY <1>1, <1>5 DEF PageHolds, HandlersHold, OpHolds
<1>7. UpHolds(v, P)
  BY <1>1, <1>5 DEF PageHolds, HandlersHold, UpHolds, Submitting, OnlyOp, Attested, SameUpload, Submits, Handlers
<1>8. LoadHolds(v)
  BY <1>5 DEF PageHolds, HandlersHold, LoadHolds, OnlyOp, PageRow, LoadRow
<1>9. DraftHolds(v, r, P)
  BY <1>5 DEF DraftHolds, Attested
<1>10. PageHolds(v, r, P)
  BY <1>1, <1>5, <1>6, <1>7, <1>8, <1>9, HoldsByDraft
<1> QED
  BY <1>1, <1>4, <1>5, <1>10, SaveHolds DEF Free

LEMMA AskQcHolds ==
  ASSUME NEW u \in PageRow, NEW r \in [Drafts -> Row], NEW P, PageHolds(u, r, P),
         Free(u, "qc"), NEW s \in Drafts, r[s].state # "absent"
  PROVE  AskQc(u, s) \in PageRow /\ PageHolds(AskQc(u, s), r, P)
<1> DEFINE w == At(u, "qc", "evaluating")
           row == [w.op["qc"] EXCEPT !.sub = s, !.folder = u.folder]
           v == [w EXCEPT !.sel = s, !.op["qc"] = row]
<1>1. "qc" \in Handlers /\ "qc" \notin Submits \union {"control", "poll"} /\ "evaluating" \in Places
  BY DEF Handlers, Submits, Places
<1>2. /\ w \in PageRow
      /\ SameDraft(u, w) /\ SameUpload(u, w) /\ OnlyOp(u, w, "qc") /\ w.load = u.load
      /\ w.op["qc"].pc = "evaluating"
  BY <1>1, AtMoves
<1>3. AskQc(u, s) = [w EXCEPT !.sel = s, !.op["qc"].sub = s, !.op["qc"].folder = u.folder]
  BY DEF AskQc
<1> HIDE DEF w
<1>4. AskQc(u, s) = v
  BY <1>1, <1>2, <1>3 DEF PageRow, OpRow
<1>5. row \in OpRow /\ row.pc = "evaluating" /\ row.sub = s /\ row.folder = u.folder
  <2>1. w.op["qc"] \in OpRow /\ u.folder \in MaybeFolder /\ s \in MaybeDraft
    BY <1>1, <1>2 DEF PageRow, MaybeDraft
  <2> QED
    BY <1>2, <2>1 DEF OpRow
<1> HIDE DEF row
<1>6. /\ v \in PageRow
      /\ SameDraft(u, v) /\ SameUpload(u, v) /\ OnlyOp(u, v, "qc") /\ v.load = u.load
      /\ v.op["qc"].pc = "evaluating" /\ v.op["qc"].sub = s /\ v.op["qc"].folder = u.folder
  BY <1>1, <1>2, <1>5 DEF PageRow, MaybeDraft, SameDraft, SameUpload, OnlyOp
<1> HIDE DEF v
<1>7. OpHolds(v, r, P, "qc")
  BY <1>1, <1>6 DEF OpHolds, SameDraft
<1>8. UpHolds(v, P)
  BY <1>1, <1>6, UpStays DEF PageHolds, HandlersHold
<1>9. LoadHolds(v)
  BY <1>6 DEF PageHolds, HandlersHold, LoadHolds, OnlyOp, PageRow, LoadRow, Free
<1> QED
  BY <1>1, <1>4, <1>6, <1>7, <1>8, <1>9, HoldsByHandler

LEMMA SubmitFailsHolds ==
  ASSUME NEW u \in PageRow, NEW r \in [Drafts -> Row], NEW P, NEW o \in Handlers,
         PageHolds(u, r, P), Free(u, o)
  PROVE  SubmitFails(u, o) \in PageRow /\ PageHolds(SubmitFails(u, o), r, P)
<1> DEFINE w == Ends(u, o)
           c == clearActiveUploadState(w)
           v == [c EXCEPT !.timer = FALSE, !.busy = FALSE]
<1>1. w \in PageRow /\ PageHolds(w, r, P)
  BY EndsHolds DEF Free
<1>2. SubmitFails(u, o) = v
  BY DEF SubmitFails
<1> HIDE DEF w
<1>3. c \in PageRow /\ PageHolds(c, r, P)
  BY <1>1, ClearMoves, ClearHolds
<1> HIDE DEF c
<1>4. v \in PageRow /\ SameDraft(c, v) /\ v.up = c.up /\ v.timer = FALSE /\ v.op = c.op /\ v.load = c.load
  BY <1>3 DEF PageRow, SameDraft
<1> HIDE DEF v
<1>5. LoadHolds(v)
  BY <1>3, <1>4 DEF PageHolds, HandlersHold, LoadHolds
<1>6. UpHolds(v, P)
  BY <1>3, <1>4 DEF PageHolds, HandlersHold, UpHolds, Submitting, Attested, SameDraft
<1>7. OpHolds(v, r, P, o)
  <2>1. OpHolds(c, r, P, o)
    BY <1>3 DEF PageHolds, HandlersHold
  <2> QED
    BY <1>4, <2>1 DEF OpHolds, Attested, SameDraft
<1> QED
  BY <1>2, <1>3, <1>4, <1>5, <1>6, <1>7, HoldsByHandler DEF OnlyOp

LEMMA SavedHolds ==
  ASSUME NEW u \in PageRow, NEW r \in [Drafts -> Row], NEW P, NEW o \in Handlers,
         PageHolds(u, r, P), Free(u, o), u.op[o].pc = "updating"
  PROVE  PageHolds(At(u, o, "saved"), r, P)
<1> DEFINE w == At(u, o, "saved")
<1>1. "saved" \in Places
  BY DEF Places
<1>2. SameDraft(u, w) /\ w.op[o].pc = "saved" /\ w.op[o].sub = u.op[o].sub
  BY <1>1, AtMoves
<1>3. OpHolds(u, r, P, o)
  BY DEF PageHolds, HandlersHold
<1> HIDE DEF w
<1>4. OpHolds(w, r, P, o)
  BY <1>2, <1>3 DEF OpHolds, Attested, SameDraft
<1> QED
  BY <1>1, <1>4, AtHolds DEF Free, w

LEMMA FailsHolds ==
  ASSUME NEW u \in PageRow, NEW r \in [Drafts -> Row], NEW P, NEW o \in Handlers,
         PageHolds(u, r, P), Free(u, o), u.op[o].pc # "idle"
  PROVE  Fails(u, o) \in PageRow /\ PageHolds(Fails(u, o), r, P)
<1>1. CASE u.op[o].pc = "updating"
  <2> DEFINE w == At(u, o, "saved")
  <2>1. Fails(u, o) = Continue(w, o)
    BY <1>1 DEF Fails
  <2>2. "saved" \in Places
    BY DEF Places
  <2>3. /\ w \in PageRow /\ SameDraft(u, w) /\ w.load = u.load
        /\ w.op[o].pc = "saved" /\ w.op[o].sub = u.op[o].sub
    BY <2>2, AtMoves
  <2> HIDE DEF w
  <2>4. PageHolds(w, r, P)
    BY <1>1, SavedHolds DEF w
  <2> QED
    BY <2>1, <2>3, <2>4, ContinueHolds DEF Free
<1>2. CASE u.op[o].pc # "updating" /\ o \in Submits
  <2>1. Fails(u, o) = SubmitFails(u, o)
    BY <1>2 DEF Fails, Submits
  <2> QED
    BY <2>1, SubmitFailsHolds
<1>3. CASE u.op[o].pc # "updating" /\ o \notin Submits
  <2> DEFINE w == Ends(u, o)
             x == [w EXCEPT !.qcRun = FALSE]
             y == [w EXCEPT !.ctl = FALSE]
  <2>1. Fails(u, o) \in {w, x, y}
    BY <1>3 DEF Fails
  <2>2. w \in PageRow /\ PageHolds(w, r, P)
    BY EndsHolds DEF Free
  <2> HIDE DEF w
  <2>3. x \in PageRow /\ SameDraft(w, x) /\ SameUpload(w, x) /\ x.op = w.op /\ x.load = w.load
    BY <2>2 DEF PageRow, SameDraft, SameUpload
  <2>4. y \in PageRow /\ SameDraft(w, y) /\ SameUpload(w, y) /\ y.op = w.op /\ y.load = w.load
    BY <2>2 DEF PageRow, SameDraft, SameUpload
  <2> HIDE DEF x, y
  <2>5. PageHolds(x, r, P) /\ PageHolds(y, r, P)
    BY <2>2, <2>3, <2>4, HoldsByLooks
  <2> QED
    BY <2>1, <2>2, <2>3, <2>4, <2>5
<1> QED
  BY <1>1, <1>2, <1>3

(* The list has come or failed.                                              *)
LEMMA LoadEndsHolds ==
  ASSUME NEW u \in PageRow, NEW r \in [Drafts -> Row], NEW P, PageHolds(u, r, P)
  PROVE  /\ LoadEnds(u) \in PageRow /\ PageHolds(LoadEnds(u), r, P)
         /\ LoadEnds(u).load.at = "idle" /\ LoadEnds(u).op = u.op
<1> DEFINE load == [at |-> "idle", by |-> "boot", rows |-> [s \in Drafts |-> NoRow]]
           v == [u EXCEPT !.load = load]
<1>1. "boot" \in Handlers /\ NoRow \in Row
  BY DEF Handlers, NoRow, Row, Outcomes, Sessions, MaybeFolder
<1>2. load \in LoadRow /\ load.at = "idle"
  BY <1>1 DEF LoadRow
<1>3. LoadEnds(u) = v
  BY DEF LoadEnds, FreshPage
<1> HIDE DEF load
<1>4. /\ v \in PageRow /\ SameDraft(u, v) /\ SameUpload(u, v) /\ v.op = u.op
      /\ v.load.at = "idle"
  BY <1>2 DEF PageRow, SameDraft, SameUpload
<1> HIDE DEF v
<1>5. LoadHolds(v) /\ UpHolds(v, P)
  BY <1>4 DEF PageHolds, HandlersHold, LoadHolds, UpHolds, Submitting, Attested, SameDraft, SameUpload
<1>6. OpHolds(v, r, P, "boot")
  <2>1. OpHolds(u, r, P, "boot")
    BY <1>1 DEF PageHolds, HandlersHold
  <2> QED
    BY <1>4, <2>1 DEF OpHolds, Attested, SameDraft
<1>7. PageHolds(v, r, P)
  BY <1>1, <1>4, <1>5, <1>6, HoldsByHandler DEF OnlyOp
<1> QED
  BY <1>3, <1>4, <1>7

(* The service's rows move on: what there was is there still.                *)
LEMMA HoldsByRows ==
  ASSUME NEW u \in PageRow, NEW r \in [Drafts -> Row], NEW q \in [Drafts -> Row], NEW P,
         PageHolds(u, r, P),
         \A s \in Drafts :
           /\ r[s].state # "absent" => q[s].state # "absent"
           /\ q[s].state = "uploading" => r[s].state = "uploading" \/ Attested(u, P, s)
           /\ r[s].path # NoFolder => q[s].path # NoFolder
           /\ r[s].files # NoFolder => q[s].files # NoFolder
  PROVE  PageHolds(u, q, P)
<1>1. \A s \in Drafts : VerdictKept(u, q, P, s)
  BY DEF PageHolds, VerdictKept
<1>2. DraftHolds(u, q, P)
  BY DEF PageHolds, HandlersHold, DraftHolds
<1>3. ListsHold(u, q, P)
  BY DEF PageHolds, HandlersHold, ListsHold
<1>4. ASSUME NEW o \in Handlers PROVE OpHolds(u, q, P, o)
  <2>1. OpHolds(u, r, P, o)
    BY DEF PageHolds, HandlersHold
  <2> QED
    BY <2>1 DEF OpHolds
<1> QED
  BY <1>1, <1>2, <1>3, <1>4 DEF PageHolds, HandlersHold

(* One more folder has passed.                                               *)
LEMMA HoldsByPassed ==
  ASSUME NEW u \in PageRow, NEW r \in [Drafts -> Row], NEW P, NEW Q, P \subseteq Q,
         PageHolds(u, r, P), RowsHold(r, P),
         \A s \in Drafts, f \in Folders : <<s, f>> \in Q \ P => r[s].state # "absent"
  PROVE  PageHolds(u, r, Q) /\ RowsHold(r, Q)
<1>1. \A s : Attested(u, P, s) => Attested(u, Q, s)
  BY DEF Attested
<1>2. \A s \in Drafts : VerdictKept(u, r, Q, s)
  BY DEF PageHolds, VerdictKept
<1>3. DraftHolds(u, r, Q) /\ ListsHold(u, r, Q) /\ UpHolds(u, Q)
  BY <1>1 DEF PageHolds, HandlersHold, DraftHolds, ListsHold, UpHolds
<1>4. ASSUME NEW o \in Handlers PROVE OpHolds(u, r, Q, o)
  <2>1. OpHolds(u, r, P, o)
    BY DEF PageHolds, HandlersHold
  <2> QED
    BY <1>1, <2>1 DEF OpHolds
<1> QED
  BY <1>2, <1>3, <1>4 DEF PageHolds, HandlersHold, RowsHold, RowHolds

(* A row of the service changes.                                             *)
LEMMA RowChanges ==
  ASSUME NEW u \in PageRow, NEW r \in [Drafts -> Row], NEW P, NEW s \in Drafts, NEW row \in Row,
         PageHolds(u, r, P), RowsHold(r, P), RowHolds(row, P, s),
         r[s].state # "absent" => row.state # "absent",
         row.state = "uploading" => r[s].state = "uploading" \/ Attested(u, P, s),
         r[s].path # NoFolder => row.path # NoFolder,
         r[s].files # NoFolder => row.files # NoFolder
  PROVE  LET q == [r EXCEPT ![s] = row]
         IN  q \in [Drafts -> Row] /\ q[s] = row /\ RowsHold(q, P) /\ PageHolds(u, q, P)
<1> DEFINE q == [r EXCEPT ![s] = row]
<1>1. q \in [Drafts -> Row] /\ q[s] = row /\ \A t \in Drafts \ {s} : q[t] = r[t]
  OBVIOUS
<1> HIDE DEF q
<1>2. RowsHold(q, P)
  BY <1>1 DEF RowsHold
<1>3. PageHolds(u, q, P)
  BY <1>1, HoldsByRows
<1> QED
  BY <1>1, <1>2, <1>3 DEF q

----------------------------------------------------------------------------
(* The creator's clicks.                                                     *)

(* A step of the page alone.                                                 *)
LEMMA PageMoves ==
  ASSUME PageInv, UNCHANGED rows, seen' \in Seen, seen'.passed = seen.passed,
         page' \in PageRow, PageHolds(page', rows, seen.passed)
  PROVE  PageInv'
BY DEF PageInv, PageTypes

LEMMA CountsMove ==
  ASSUME PageInv,
         \/ Click \/ Fault \/ UNCHANGED seen
         \/ seen' = [seen EXCEPT !.autosaves = @ + 1]
         \/ seen' = [seen EXCEPT !.disturbed = TRUE]
         \/ seen' = [seen EXCEPT !.clicks = @ + 1, !.disturbed = TRUE]
  PROVE  seen' \in Seen /\ seen'.passed = seen.passed
<1>1. seen \in Seen
  BY DEF PageInv, PageTypes
<1>2. CASE Click
  BY <1>1, <1>2 DEF Seen, Click
<1>3. CASE Fault
  <2>1. seen' = [[seen EXCEPT !.faults = @ + 1] EXCEPT !.disturbed = TRUE]
    BY <1>1, <1>3 DEF Seen, Fault
  <2>2. /\ [seen EXCEPT !.faults = @ + 1] \in Seen
        /\ [seen EXCEPT !.faults = @ + 1].passed = seen.passed
    BY <1>1 DEF Seen
  <2> QED
    BY <2>1, <2>2 DEF Seen
<1>4. CASE UNCHANGED seen
  BY <1>1, <1>4
<1>5. CASE seen' = [seen EXCEPT !.autosaves = @ + 1]
  BY <1>1, <1>5 DEF Seen
<1>6. CASE seen' = [seen EXCEPT !.disturbed = TRUE]
  BY <1>1, <1>6 DEF Seen
<1>7. CASE seen' = [seen EXCEPT !.clicks = @ + 1, !.disturbed = TRUE]
  <2>1. seen' = [[seen EXCEPT !.clicks = @ + 1] EXCEPT !.disturbed = TRUE]
    BY <1>1, <1>7 DEF Seen
  <2>2. /\ [seen EXCEPT !.clicks = @ + 1] \in Seen
        /\ [seen EXCEPT !.clicks = @ + 1].passed = seen.passed
    BY <1>1 DEF Seen
  <2> QED
    BY <2>1, <2>2 DEF Seen
<1> QED
  BY <1>2, <1>3, <1>4, <1>5, <1>6, <1>7

LEMMA SubmitCounts ==
  ASSUME PageInv, NEW d \in BOOLEAN, seen' = [seen EXCEPT !.clicks = @ + 1, !.disturbed = d]
  PROVE  seen' \in Seen /\ seen'.passed = seen.passed
<1>1. seen \in Seen
  BY DEF PageInv, PageTypes
<1>2. seen' = [[seen EXCEPT !.clicks = @ + 1] EXCEPT !.disturbed = d]
  BY <1>1 DEF Seen
<1>3. /\ [seen EXCEPT !.clicks = @ + 1] \in Seen
      /\ [seen EXCEPT !.clicks = @ + 1].passed = seen.passed
  BY <1>1 DEF Seen
<1> QED
  BY <1>2, <1>3 DEF Seen

(* A handler that is idle does not load the list.                            *)
LEMMA NotLoading ==
  ASSUME PageInv, NEW o \in Handlers, page.op[o].pc \notin {"saved", "showing"}
  PROVE  Free(page, o)
BY DEF PageInv, PageTypes, PageHolds, HandlersHold, LoadHolds, Free

(* Nothing is under way when the creator leaves a draft or its folder.       *)
LEMMA Alone ==
  ASSUME PageInv, Stays, Leaves
  PROVE  /\ \A o \in Handlers : page.op[o].pc = "idle"
         /\ page.load.at = "idle" /\ ~page.timer
         /\ \A s \in Drafts : rows[s].state # "uploading"
<1>1. /\ \A o \in Handlers : page.op[o].pc = "idle"
      /\ ~page.timer /\ \A s \in Drafts : rows[s].state # "uploading"
  BY DEF Leaves, Settled, InFlight, Is
<1> QED
  BY <1>1 DEF PageInv, PageTypes, PageHolds, HandlersHold, LoadHolds, PageRow, LoadRow

(* And then the folder may change as it likes.                               *)
LEMMA LeavesHolds ==
  ASSUME NEW u \in PageRow, NEW v \in PageRow, NEW r \in [Drafts -> Row], NEW P,
         \A o \in Handlers : u.op[o].pc = "idle",
         u.load.at = "idle", ~u.timer, \A s \in Drafts : r[s].state # "uploading",
         PageHolds(u, r, P), v.op = u.op, v.load = u.load, v.list = u.list,
         SameUpload(u, v), DraftHolds(v, r, P)
  PROVE  HandlersHold(v, r, P)
<1>1. ListsHold(v, r, P) /\ LoadHolds(v)
  BY DEF PageHolds, HandlersHold, ListsHold, LoadHolds
<1>2. Submits \subseteq Handlers
  BY DEF Submits, Handlers
<1>3. UpHolds(v, P)
  BY <1>2 DEF PageHolds, HandlersHold, UpHolds, Submitting, SameUpload
<1>4. \A o \in Handlers : OpHolds(v, r, P, o)
  BY DEF OpHolds
<1> QED
  BY <1>1, <1>3, <1>4 DEF HandlersHold

LEMMA beginNewDraftKeeps ==
  ASSUME PageInv, Stays, beginNewDraft PROVE PageInv'
<1> DEFINE v == [page EXCEPT !.mode = "draft", !.sel = NoDraft, !.draft = NoDraft, !.full = FALSE,
                   !.done = FALSE, !.linked = FALSE, !.folder = NoFolder, !.qcRun = FALSE]
<1>1. page' = v /\ UNCHANGED rows /\ Leaves /\ Click
  BY DEF beginNewDraft
<1>2. page \in PageRow /\ rows \in [Drafts -> Row] /\ PageHolds(page, rows, seen.passed)
  BY DEF PageInv, PageTypes
<1>3. /\ v \in PageRow /\ v.op = page.op /\ v.load = page.load /\ v.list = page.list
      /\ SameUpload(page, v) /\ v.draft = NoDraft /\ v.qc = page.qc /\ v.stored = page.stored
  BY <1>2 DEF PageRow, MaybeDraft, MaybeFolder, SameUpload
<1> HIDE DEF v
<1>4. HandlersHold(v, rows, seen.passed)
  BY <1>1, <1>2, <1>3, Alone, LeavesHolds, NoneOfThem DEF DraftHolds, Attested
<1>5. PageHolds(v, rows, seen.passed)
  BY <1>2, <1>3, <1>4 DEF PageHolds, VerdictKept
<1> QED
  BY <1>1, <1>3, <1>5, CountsMove, PageMoves

LEMMA LooksKeep ==
  ASSUME PageInv, BackToList \/ FillForm PROVE PageInv'
<1> DEFINE v == [page EXCEPT !.mode = "list", !.sel = NoDraft]
           w == [page EXCEPT !.full = TRUE]
<1>1. page' \in {v, w} /\ UNCHANGED rows /\ (Click \/ UNCHANGED seen)
  BY DEF BackToList, FillForm
<1>2. page \in PageRow /\ rows \in [Drafts -> Row] /\ PageHolds(page, rows, seen.passed)
  BY DEF PageInv, PageTypes
<1>3. /\ page' \in PageRow /\ SameDraft(page, page') /\ SameUpload(page, page')
      /\ page'.op = page.op /\ page'.load = page.load
  BY <1>1, <1>2 DEF PageRow, MaybeDraft, SameDraft, SameUpload
<1> HIDE DEF v, w
<1>4. PageHolds(page', rows, seen.passed)
  BY <1>2, <1>3, HoldsByLooks
<1> QED
  BY <1>1, <1>3, <1>4, CountsMove, PageMoves

LEMMA SelectFolderKeeps ==
  ASSUME PageInv, Stays, NEW f \in Folders, handleSelectPackFolder(f) PROVE PageInv'
<1> DEFINE P == seen.passed
           qc == [s \in Drafts |-> page.qc[s] /\ (s # page.draft \/ f = page.folder)]
           w == [page EXCEPT !.folder = f, !.qc = qc]
           v == persistDraftContext(w, page.draft)
<1>1. page' = v /\ UNCHANGED rows /\ Leaves /\ Click
  BY DEF handleSelectPackFolder
<1>2. page \in PageRow /\ rows \in [Drafts -> Row] /\ PageHolds(page, rows, P)
  BY DEF PageInv, PageTypes
<1>3. /\ qc \in [Drafts -> BOOLEAN]
      /\ \A s \in Drafts : qc[s] => page.qc[s]
      /\ page.draft \in Drafts /\ qc[page.draft] => f = page.folder
  BY <1>2 DEF PageRow
<1> HIDE DEF qc
<1>4. /\ w \in PageRow /\ w.op = page.op /\ w.load = page.load /\ w.list = page.list
      /\ SameUpload(page, w) /\ w.draft = page.draft /\ w.stored = page.stored
      /\ w.folder = f /\ w.qc = qc
  BY <1>2, <1>3 DEF PageRow, MaybeFolder, SameUpload
<1> HIDE DEF w
<1>5. DraftHolds(w, rows, P)
  BY <1>2, <1>3, <1>4 DEF PageHolds, HandlersHold, DraftHolds, Attested
<1>6. HandlersHold(w, rows, P)
  BY <1>1, <1>2, <1>4, <1>5, Alone, LeavesHolds
<1>7. \A s \in Drafts : VerdictKept(w, rows, P, s)
  BY <1>2, <1>3, <1>4 DEF PageHolds, VerdictKept
<1>8. page.draft \in MaybeDraft
  BY <1>2 DEF PageRow
<1>9. v \in PageRow
  BY <1>4, <1>8, PersistMoves
<1>10. CASE page.draft = NoDraft
  <2>1. v = w
    BY <1>10 DEF persistDraftContext
  <2>2. PageHolds(v, rows, P)
    BY <1>6, <1>7, <2>1 DEF PageHolds
  <2> QED
    BY <1>1, <1>9, <2>2, CountsMove, PageMoves
<1>11. CASE page.draft \in Drafts
  <2>1. w.qc[page.draft] => <<page.draft, w.folder>> \in P /\ rows[page.draft].state # "absent"
    BY <1>4, <1>5, <1>11 DEF DraftHolds, Attested
  <2>2. PageHolds(v, rows, P)
    BY <1>2, <1>4, <1>6, <1>7, <1>11, <2>1, PersistHolds
  <2> QED
    BY <1>1, <1>9, <2>2, CountsMove, PageMoves
<1> QED
  BY <1>8, <1>10, <1>11 DEF MaybeDraft

(* What openSubmission has done before it shows the upload.                  *)
OpenedPage(u, s) ==
  LET switched == IF u.sel = s THEN u ELSE [u EXCEPT !.folder = NoFolder, !.qcRun = FALSE]
      context == u.stored.ctx[s]
      row == u.list[s]
  IN  [switched EXCEPT !.sel = s, !.draft = s, !.full = TRUE,
         !.mode = IF row.state = "under_review" THEN "detail" ELSE "draft",
         !.done = row.done, !.linked = row.linked,
         !.folder = IF context.folder # NoFolder THEN context.folder ELSE @,
         !.qc[s] = IF context.kept THEN context.qc ELSE @]

LEMMA OpenedMoves ==
  ASSUME NEW u \in PageRow, NEW s \in Drafts
  PROVE  LET v == OpenedPage(u, s)
         IN  /\ v \in PageRow /\ v.op = u.op /\ v.load = u.load /\ v.list = u.list
             /\ SameUpload(u, v) /\ v.stored = u.stored /\ v.draft = s
             /\ u.stored.ctx[s].folder # NoFolder => v.folder = u.stored.ctx[s].folder
             /\ \A t \in Drafts \ {s} : v.qc[t] = u.qc[t]
             /\ v.qc[s] => u.qc[s] \/ u.stored.ctx[s].qc
<1> DEFINE switched == IF u.sel = s THEN u ELSE [u EXCEPT !.folder = NoFolder, !.qcRun = FALSE]
           context == u.stored.ctx[s]
           row == u.list[s]
           mode == IF row.state = "under_review" THEN "detail" ELSE "draft"
           folder == IF context.folder # NoFolder THEN context.folder ELSE switched.folder
           qc == IF context.kept THEN context.qc ELSE switched.qc[s]
           w == [switched EXCEPT !.sel = s, !.draft = s, !.full = TRUE, !.mode = mode,
                   !.done = row.done, !.linked = row.linked, !.folder = folder]
           v == [w EXCEPT !.qc[s] = qc]
<1>1. /\ switched \in PageRow /\ switched.op = u.op /\ switched.load = u.load
      /\ switched.list = u.list /\ switched.qc = u.qc /\ SameUpload(u, switched)
      /\ switched.stored = u.stored
  BY DEF PageRow, MaybeFolder, SameUpload
<1>2. context \in CtxRow /\ row \in Row
  BY DEF PageRow, StoredRow
<1> HIDE DEF switched
<1>3. OpenedPage(u, s) =
        [switched EXCEPT !.sel = s, !.draft = s, !.full = TRUE, !.mode = mode,
           !.done = row.done, !.linked = row.linked, !.folder = folder, !.qc[s] = qc]
  BY <1>1 DEF OpenedPage, PageRow, switched
<1>4. OpenedPage(u, s) = v
  BY <1>1, <1>3 DEF PageRow
<1>5. mode \in {"list", "draft", "detail"} /\ row.done \in BOOLEAN /\ row.linked \in BOOLEAN
  BY <1>2 DEF Row
<1>6. folder \in MaybeFolder /\ (context.folder # NoFolder => folder = context.folder)
  BY <1>1, <1>2 DEF PageRow, CtxRow
<1>7. qc \in BOOLEAN /\ (qc => u.qc[s] \/ context.qc)
  BY <1>1, <1>2 DEF PageRow, CtxRow
<1> HIDE DEF context, row, mode, folder, qc
<1>8. /\ w \in PageRow /\ w.op = u.op /\ w.load = u.load /\ w.list = u.list
      /\ SameUpload(u, w) /\ w.stored = u.stored /\ w.draft = s /\ w.folder = folder
      /\ w.qc = u.qc
  BY <1>1, <1>5, <1>6 DEF PageRow, MaybeDraft, SameUpload
<1> HIDE DEF w
<1>9. /\ v \in PageRow /\ v.op = u.op /\ v.load = u.load /\ v.list = u.list
      /\ SameUpload(u, v) /\ v.stored = u.stored /\ v.draft = s /\ v.folder = folder
      /\ (\A t \in Drafts \ {s} : v.qc[t] = u.qc[t]) /\ v.qc[s] = qc
  BY <1>7, <1>8 DEF PageRow, SameUpload
<1> HIDE DEF v
<1> QED
  BY <1>4, <1>6, <1>7, <1>9 DEF context

LEMMA openSubmissionKeeps ==
  ASSUME PageInv, Stays, NEW s \in Drafts, openSubmission(s) PROVE PageInv'
<1> DEFINE P == seen.passed
           x == getStoredOrSubmissionUploadState(page, s)
           row == page.list[s]
           uploading == row.state = "uploading"
           opened == OpenedPage(page, s)
           shown == CASE x.sub = s -> applyUploadState(opened, x, x.id)
                      [] x.sub # s /\ page.up.status = "active" -> opened
                      [] OTHER -> clearActiveUploadState(opened)
           resumed == [shown EXCEPT !.busy = uploading]
           polled == uploading /\ x.id /\ x.status \in {"active", "paused"}
<1>1. /\ UNCHANGED rows /\ Leaves /\ Click /\ Listed(page, s)
      /\ page' = IF polled THEN startUploadStatusPolling(resumed) ELSE resumed
  BY DEF openSubmission, OpenedPage
<1>2. page \in PageRow /\ rows \in [Drafts -> Row] /\ PageHolds(page, rows, P)
  BY DEF PageInv, PageTypes
<1>3. x \in UpRow /\ (x.id => x.sub = s) /\ x.id \in BOOLEAN
  BY <1>2, StoredIsItsOwn DEF UpRow
<1> HIDE DEF x
<1>4. /\ opened \in PageRow /\ opened.op = page.op /\ opened.load = page.load
      /\ opened.list = page.list /\ SameUpload(page, opened) /\ opened.stored = page.stored
      /\ opened.draft = s
      /\ page.stored.ctx[s].folder # NoFolder => opened.folder = page.stored.ctx[s].folder
      /\ \A t \in Drafts \ {s} : opened.qc[t] = page.qc[t]
      /\ opened.qc[s] => page.qc[s] \/ page.stored.ctx[s].qc
  BY <1>2, OpenedMoves
<1> HIDE DEF opened
<1>5. \A t \in Drafts : VerdictKept(opened, rows, P, t)
  BY <1>2, <1>4 DEF PageHolds, VerdictKept
<1>6. P \subseteq Drafts \X Folders
  BY DEF PageInv, PageTypes, Seen
<1>7. Attested(opened, P, s)
  <2>1. opened.qc[s] =>
          /\ <<s, page.stored.ctx[s].folder>> \in P
          /\ page.stored.ctx[s].folder # NoFolder
    BY <1>2, <1>4, <1>6, NoneOfThem DEF PageHolds, VerdictKept
  <2> QED
    BY <1>4, <2>1 DEF Attested
<1>8. DraftHolds(opened, rows, P)
  BY <1>1, <1>2, <1>4, <1>7 DEF DraftHolds, PageHolds, HandlersHold, ListsHold, Listed
<1>9. PageHolds(opened, rows, P)
  BY <1>1, <1>2, <1>4, <1>5, <1>8, Alone, LeavesHolds DEF PageHolds
<1>10. shown \in PageRow /\ PageHolds(shown, rows, P) /\ (x.sub = s => shown.up = x)
       /\ shown.folder = opened.folder /\ shown.qc = opened.qc
  <2>1. CASE x.sub = s
    BY <1>2, <1>3, <1>4, <1>7, <1>9, <2>1, ApplyMoves, ApplyHolds
  <2>2. CASE x.sub # s /\ page.up.status = "active"
    BY <1>4, <1>9, <2>2
  <2>3. CASE x.sub # s /\ page.up.status # "active"
    BY <1>2, <1>4, <1>9, <2>3, ClearMoves, ClearHolds DEF SameDraft
  <2> QED
    BY <2>1, <2>2, <2>3
<1> HIDE DEF shown
<1>11. /\ resumed \in PageRow /\ SameDraft(shown, resumed) /\ SameUpload(shown, resumed)
       /\ resumed.op = shown.op /\ resumed.load = shown.load
  BY <1>10 DEF PageRow, SameDraft, SameUpload
<1> HIDE DEF resumed
<1>12. PageHolds(resumed, rows, P)
  BY <1>2, <1>10, <1>11, HoldsByLooks
<1>13. x.id => Attested(resumed, P, resumed.up.sub)
  BY <1>3, <1>7, <1>10, <1>11 DEF Attested, SameDraft, SameUpload
<1>14. page' \in PageRow /\ PageHolds(page', rows, P)
  BY <1>1, <1>2, <1>11, <1>12, <1>13, StartPollingMoves, StartPollingHolds
<1> QED
  BY <1>1, <1>14, CountsMove, PageMoves

LEMMA SavesKeep ==
  ASSUME PageInv, ClickSave \/ AutoSave PROVE PageInv'
<1>1. PICK o \in {"save", "auto"} :
        /\ page.op[o].pc = "idle" /\ page' = saveMetadata(page, o) /\ UNCHANGED rows
        /\ Click \/ seen' = [seen EXCEPT !.autosaves = @ + 1]
  BY DEF ClickSave, AutoSave, Is
<1>2. page \in PageRow /\ rows \in [Drafts -> Row] /\ PageHolds(page, rows, seen.passed)
  BY DEF PageInv, PageTypes
<1>3. o \in Handlers \ {"poll", "control"} /\ o \notin Submits
  BY DEF Handlers, Submits
<1>4. Free(page, o)
  BY <1>1, <1>3, NotLoading
<1>5. page' \in PageRow /\ PageHolds(page', rows, seen.passed)
  BY <1>1, <1>2, <1>3, <1>4, SaveHolds
<1> QED
  BY <1>1, <1>5, CountsMove, PageMoves

LEMMA AirtableStepKeeps ==
  ASSUME PageInv, handleCompleteAirtableStep PROVE PageInv'
<1>1. /\ page.op["airtable"].pc = "idle" /\ UNCHANGED rows /\ Click
      /\ page' = IF page.draft = NoDraft THEN At(page, "airtable", "drafting")
                 ELSE MarkAirtable(page, page.draft)
  BY DEF handleCompleteAirtableStep, Is
<1>2. page \in PageRow /\ rows \in [Drafts -> Row] /\ PageHolds(page, rows, seen.passed)
  BY DEF PageInv, PageTypes
<1>3. /\ "airtable" \in Handlers /\ "drafting" \in Places
      /\ "airtable" \notin Submits \union {"control", "poll"}
  BY DEF Handlers, Places, Submits
<1>4. Free(page, "airtable")
  BY <1>1, <1>3, NotLoading
<1>5. OpHolds(At(page, "airtable", "drafting"), rows, seen.passed, "airtable")
  BY <1>2, <1>3, AtMoves DEF OpHolds
<1>6. /\ At(page, "airtable", "drafting") \in PageRow
      /\ PageHolds(At(page, "airtable", "drafting"), rows, seen.passed)
  BY <1>2, <1>3, <1>4, <1>5, AtHolds DEF Free
<1>7. ASSUME page.draft # NoDraft
      PROVE  /\ MarkAirtable(page, page.draft) \in PageRow
             /\ PageHolds(MarkAirtable(page, page.draft), rows, seen.passed)
  <2>1. page.draft \in Drafts
    BY <1>2, <1>7 DEF PageRow, MaybeDraft
  <2>2. rows[page.draft].state # "absent" /\ Attested(page, seen.passed, page.draft)
    BY <1>2, <2>1 DEF PageHolds, HandlersHold, DraftHolds
  <2> QED
    BY <1>2, <1>4, <2>1, <2>2, MarkAirtableHolds
<1>8. page' \in PageRow /\ PageHolds(page', rows, seen.passed)
  BY <1>1, <1>6, <1>7
<1> QED
  BY <1>1, <1>8, CountsMove, PageMoves

LEMMA ResetPageHolds ==
  ASSUME NEW u \in PageRow, NEW r \in [Drafts -> Row], NEW P, PageHolds(u, r, P)
  PROVE  /\ ResetPage(u) \in PageRow /\ PageHolds(ResetPage(u), r, P)
         /\ ResetPage(u).load = u.load
<1> DEFINE v == ResetPage(u)
<1>1. v \in PageRow /\ SameDraft(u, v) /\ SameUpload(u, v) /\ v.op = u.op /\ v.load = u.load
  BY DEF ResetPage, PageRow, SameDraft, SameUpload
<1> HIDE DEF v
<1>2. PageHolds(v, r, P)
  BY <1>1, HoldsByLooks
<1> QED
  BY <1>1, <1>2 DEF v

LEMMA ResetStepKeeps ==
  ASSUME PageInv, handleResetAirtableStep PROVE PageInv'
<1> DEFINE w == At(page, "reset", "resetting")
           row == [w.op["reset"] EXCEPT !.sub = page.draft]
           v == [w EXCEPT !.op["reset"] = row]
<1>1. page.op["reset"].pc = "idle" /\ UNCHANGED rows /\ Click
  BY DEF handleResetAirtableStep, Is
<1>2. page \in PageRow /\ rows \in [Drafts -> Row] /\ PageHolds(page, rows, seen.passed)
  BY DEF PageInv, PageTypes
<1>3. /\ "reset" \in Handlers /\ "resetting" \in Places
      /\ "reset" \notin Submits \union {"control", "poll"}
  BY DEF Handlers, Places, Submits
<1>4. Free(page, "reset")
  BY <1>1, <1>3, NotLoading
<1>5. CASE page' = saveMetadata(ResetPage(page), "reset")
  <2>1. page' \in PageRow /\ PageHolds(page', rows, seen.passed)
    BY <1>2, <1>3, <1>4, <1>5, ResetPageHolds, SaveHolds DEF Free
  <2> QED
    BY <1>1, <2>1, CountsMove, PageMoves
<1>6. CASE page' = [w EXCEPT !.op["reset"].sub = page.draft]
  <2>1. OpHolds(w, rows, seen.passed, "reset")
    BY <1>2, <1>3, AtMoves DEF OpHolds
  <2>2. w \in PageRow /\ PageHolds(w, rows, seen.passed) /\ w.op["reset"].pc = "resetting"
        /\ w.load = page.load
    BY <1>2, <1>3, <1>4, <2>1, AtHolds, AtMoves DEF Free
  <2> HIDE DEF w
  <2>3. page' = v
    BY <1>3, <1>6, <2>2 DEF PageRow
  <2>4. row \in OpRow /\ row.pc = "resetting"
    <3>1. w.op["reset"] \in OpRow /\ page.draft \in MaybeDraft
      BY <1>2, <1>3, <2>2 DEF PageRow
    <3> QED
      BY <2>2, <3>1 DEF OpRow
  <2> HIDE DEF row
  <2>5. /\ v \in PageRow /\ SameDraft(w, v) /\ SameUpload(w, v) /\ OnlyOp(w, v, "reset")
        /\ v.load = w.load /\ v.op["reset"].pc = "resetting"
    BY <1>3, <2>2, <2>4 DEF PageRow, SameDraft, SameUpload, OnlyOp
  <2> HIDE DEF v
  <2>6. OpHolds(v, rows, seen.passed, "reset")
    BY <1>3, <2>5 DEF OpHolds
  <2>7. UpHolds(v, seen.passed)
    BY <1>3, <2>2, <2>5, UpStays DEF PageHolds, HandlersHold
  <2>8. LoadHolds(v)
    BY <1>4, <2>2, <2>5 DEF PageHolds, HandlersHold, LoadHolds, OnlyOp, PageRow, LoadRow, Free
  <2>9. PageHolds(v, rows, seen.passed)
    BY <1>2, <1>3, <2>2, <2>5, <2>6, <2>7, <2>8, HoldsByHandler
  <2> QED
    BY <1>1, <2>3, <2>5, <2>9, CountsMove, PageMoves
<1> QED
  BY <1>5, <1>6 DEF handleResetAirtableStep

LEMMA runQcCheckKeeps ==
  ASSUME PageInv, runQcCheck PROVE PageInv'
<1> DEFINE u == [page EXCEPT !.qcRun = TRUE]
<1>1. /\ page.op["qc"].pc = "idle" /\ UNCHANGED rows /\ Click
      /\ page' = IF page.draft = NoDraft THEN At(u, "qc", "drafting") ELSE AskQc(u, page.draft)
  BY DEF runQcCheck, Is
<1>2. page \in PageRow /\ rows \in [Drafts -> Row] /\ PageHolds(page, rows, seen.passed)
  BY DEF PageInv, PageTypes
<1>3. /\ "qc" \in Handlers /\ "drafting" \in Places
      /\ "qc" \notin Submits \union {"control", "poll"}
  BY DEF Handlers, Places, Submits
<1>4. /\ u \in PageRow /\ SameDraft(page, u) /\ SameUpload(page, u) /\ u.op = page.op
      /\ u.load = page.load
  BY <1>2 DEF PageRow, SameDraft, SameUpload
<1>5. Free(u, "qc")
  BY <1>1, <1>3, <1>4, NotLoading DEF Free
<1> HIDE DEF u
<1>6. PageHolds(u, rows, seen.passed)
  BY <1>2, <1>4, HoldsByLooks
<1>7. OpHolds(At(u, "qc", "drafting"), rows, seen.passed, "qc")
  BY <1>3, <1>4, AtMoves DEF OpHolds
<1>8. /\ At(u, "qc", "drafting") \in PageRow
      /\ PageHolds(At(u, "qc", "drafting"), rows, seen.passed)
  BY <1>2, <1>3, <1>4, <1>5, <1>6, <1>7, AtHolds DEF Free
<1>9. ASSUME page.draft # NoDraft
      PROVE  AskQc(u, page.draft) \in PageRow /\ PageHolds(AskQc(u, page.draft), rows, seen.passed)
  <2>1. page.draft \in Drafts
    BY <1>2, <1>9 DEF PageRow, MaybeDraft
  <2>2. rows[page.draft].state # "absent"
    BY <1>2, <2>1 DEF PageHolds, HandlersHold, DraftHolds
  <2> QED
    BY <1>2, <1>4, <1>5, <1>6, <2>1, <2>2, AskQcHolds
<1>10. page' \in PageRow /\ PageHolds(page', rows, seen.passed)
  BY <1>1, <1>8, <1>9
<1> QED
  BY <1>1, <1>10, CountsMove, PageMoves

(* The gates are checked against the folder that is handed over.             *)
LEMMA handleSubmitKeeps ==
  ASSUME PageInv, NEW o \in Submits, handleSubmitForReview(o) PROVE PageInv'
<1> DEFINE u == IF page.up # NoUpload THEN clearActiveUploadState(page) ELSE page
           v == [u EXCEPT !.busy = TRUE]
           P == seen.passed
           d == seen.disturbed \/ ~Settled
<1>1. /\ page' = saveMetadata(v, o) /\ UNCHANGED rows
      /\ seen' = [seen EXCEPT !.clicks = @ + 1, !.disturbed = d]
      /\ page.op[o].pc = "idle" /\ buildContext(page)
  BY DEF handleSubmitForReview, Is
<1>0. d \in BOOLEAN
  OBVIOUS
<1> HIDE DEF d
<1>2. page \in PageRow /\ rows \in [Drafts -> Row] /\ PageHolds(page, rows, P)
  BY DEF PageInv, PageTypes
<1>3. o \in Handlers \ {"poll", "control"}
  BY DEF Handlers, Submits
<1>4. /\ u \in PageRow /\ PageHolds(u, rows, P) /\ SameDraft(page, u) /\ u.op = page.op
      /\ u.load = page.load /\ u.up = NoUpload
  BY <1>2, ClearMoves, ClearHolds DEF SameDraft
<1>5. u.full = page.full
  BY <1>2 DEF clearActiveUploadState, PageRow
<1> HIDE DEF u
<1>6. /\ v \in PageRow /\ SameDraft(u, v) /\ SameUpload(u, v) /\ v.op = u.op
      /\ v.load = u.load /\ v.full = u.full
  BY <1>4 DEF PageRow, SameDraft, SameUpload
<1> HIDE DEF v
<1>7. PageHolds(v, rows, P)
  BY <1>2, <1>4, <1>6, HoldsByLooks
<1>8. Free(v, o)
  BY <1>1, <1>3, <1>4, <1>6, NotLoading DEF Free
<1>9. v.full /\ v.draft \in Drafts /\ v.qc[v.draft]
  BY <1>1, <1>2, <1>4, <1>5, <1>6 DEF buildContext, SameDraft, PageRow, MaybeDraft
<1>10. <<v.draft, v.folder>> \in P
  BY <1>7, <1>9 DEF PageHolds, HandlersHold, DraftHolds, Attested
<1>11. Attested(v, P, v.up.sub)
  BY <1>4, <1>6, NoneOfThem, NoUploadIsUp DEF Attested, SameUpload
<1>12. page' \in PageRow /\ PageHolds(page', rows, P)
  BY <1>1, <1>2, <1>3, <1>6, <1>7, <1>8, <1>9, <1>10, <1>11, SaveHolds
<1> QED
  BY <1>0, <1>1, <1>12, SubmitCounts, PageMoves

LEMMA ControlActionKeeps ==
  ASSUME PageInv, NEW action \in {"pause", "resume", "cancel"}, handleUploadControlAction(action)
  PROVE  PageInv'
<1> DEFINE w == At(page, "control", "asked")
           row == [w.op["control"] EXCEPT !.sub = page.up.sub, !.got = action]
           v == [w EXCEPT !.ctl = TRUE, !.op["control"] = row]
           P == seen.passed
<1>1. /\ page.op["control"].pc = "idle" /\ page.up.sub = page.draft /\ page.up.id
      /\ UNCHANGED rows /\ seen' = [seen EXCEPT !.clicks = @ + 1, !.disturbed = TRUE]
      /\ page' = [w EXCEPT !.ctl = TRUE, !.op["control"].sub = page.up.sub, !.op["control"].got = action]
  BY DEF handleUploadControlAction, Is
<1>2. page \in PageRow /\ rows \in [Drafts -> Row] /\ PageHolds(page, rows, P)
  BY DEF PageInv, PageTypes
<1>3. /\ "control" \in Handlers /\ "asked" \in Places
      /\ "control" \notin Submits
  BY DEF Handlers, Places, Submits
<1>4. Free(page, "control")
  BY <1>1, <1>3, NotLoading
<1>5. page.draft \in Drafts /\ Attested(page, P, page.draft)
  BY <1>1, <1>2 DEF PageHolds, HandlersHold, UpHolds, DraftHolds
<1>6. /\ w \in PageRow
      /\ SameDraft(page, w) /\ SameUpload(page, w) /\ OnlyOp(page, w, "control")
      /\ w.load = page.load /\ w.op["control"].pc = "asked"
  BY <1>2, <1>3, AtMoves
<1> HIDE DEF w
<1>7. page' = v
  BY <1>1, <1>3, <1>6 DEF PageRow, OpRow
<1>8. row \in OpRow /\ row.pc = "asked" /\ row.sub = page.draft /\ row.got = action
  <2>1. w.op["control"] \in OpRow /\ page.draft \in MaybeDraft /\ action \in Gots
    BY <1>2, <1>3, <1>5, <1>6 DEF PageRow, Gots
  <2> QED
    BY <1>1, <1>6, <2>1 DEF OpRow
<1> HIDE DEF row
<1>9. /\ v \in PageRow
      /\ SameDraft(page, v) /\ SameUpload(page, v) /\ OnlyOp(page, v, "control")
      /\ v.load = page.load /\ v.op["control"].pc = "asked" /\ v.op["control"].sub = page.draft
      /\ v.op["control"].got = action
  BY <1>3, <1>6, <1>8 DEF PageRow, SameDraft, SameUpload, OnlyOp
<1> HIDE DEF v
<1>10. OpHolds(v, rows, P, "control")
  BY <1>3, <1>5, <1>9 DEF OpHolds, Attested, SameDraft
<1>11. UpHolds(v, P)
  BY <1>2, <1>3, <1>9, UpStays DEF PageHolds, HandlersHold
<1>12. LoadHolds(v)
  BY <1>2, <1>4, <1>9 DEF PageHolds, HandlersHold, LoadHolds, OnlyOp, PageRow, LoadRow, Free
<1>13. PageHolds(v, rows, P)
  BY <1>2, <1>3, <1>9, <1>10, <1>11, <1>12, HoldsByHandler
<1> QED
  BY <1>1, <1>7, <1>9, <1>13, CountsMove, PageMoves

----------------------------------------------------------------------------
(* The requests and their answers.                                           *)

(* A step of the service and of the page.                                    *)
LEMMA BothMove ==
  ASSUME PageInv, rows' \in [Drafts -> Row], RowsHold(rows', seen.passed),
         seen' \in Seen, seen'.passed = seen.passed,
         page' \in PageRow, PageHolds(page', rows', seen.passed)
  PROVE  PageInv'
BY DEF PageInv, PageTypes

(* One row of the service's moves.                                           *)
LEMMA RowMoves ==
  ASSUME PageInv, NEW s \in Drafts, NEW row \in Row, rows' = [rows EXCEPT ![s] = row],
         RowHolds(row, seen.passed, s),
         rows[s].state # "absent" => row.state # "absent",
         row.state = "uploading" =>
           rows[s].state = "uploading" \/ Attested(page, seen.passed, s),
         rows[s].path # NoFolder => row.path # NoFolder,
         rows[s].files # NoFolder => row.files # NoFolder
  PROVE  /\ rows' \in [Drafts -> Row] /\ rows'[s] = row /\ RowsHold(rows', seen.passed)
         /\ PageHolds(page, rows', seen.passed)
<1> DEFINE P == seen.passed
           q == [rows EXCEPT ![s] = row]
<1>1. /\ page \in PageRow /\ rows \in [Drafts -> Row]
      /\ PageHolds(page, rows, P) /\ RowsHold(rows, P)
  BY DEF PageInv, PageTypes
<1> HIDE DEF P
<1>2. /\ RowHolds(row, P, s)
      /\ row.state = "uploading" => rows[s].state = "uploading" \/ Attested(page, P, s)
  BY DEF P
<1>3. q \in [Drafts -> Row] /\ q[s] = row /\ RowsHold(q, P) /\ PageHolds(page, q, P)
  BY <1>1, <1>2, RowChanges
<1> QED
  BY <1>3 DEF P

LEMMA CreateHolds ==
  ASSUME PageInv, NEW s \in Fresh, Create(s, page.done)
  PROVE  /\ s \in Drafts /\ rows' \in [Drafts -> Row] /\ RowsHold(rows', seen.passed)
         /\ PageHolds(page, rows', seen.passed) /\ rows'[s].state # "absent"
         /\ Attested(page, seen.passed, s)
<1> DEFINE row == [NoRow EXCEPT !.state = "draft", !.done = page.done]
<1>1. page \in PageRow /\ rows \in [Drafts -> Row] /\ PageHolds(page, rows, seen.passed)
      /\ RowsHold(rows, seen.passed)
  BY DEF PageInv, PageTypes
<1>2. s \in Drafts /\ rows[s].state = "absent"
  BY DEF Fresh
<1>3. page.done \in BOOLEAN
  BY <1>1 DEF PageRow
<1>4. row \in Row /\ row.state = "draft" /\ RowHolds(row, seen.passed, s)
  BY <1>3 DEF NoRow, Row, Outcomes, Sessions, MaybeFolder, RowHolds
<1>5. rows' = [rows EXCEPT ![s] = row]
  BY DEF Create
<1> HIDE DEF row
<1>6. ~page.qc[s]
  BY <1>1, <1>2 DEF PageHolds, VerdictKept
<1>7. rows[s] \in Row /\ RowHolds(rows[s], seen.passed, s)
  BY <1>1, <1>2 DEF RowsHold
<1>8. rows[s].path = NoFolder /\ rows[s].files = NoFolder
  BY <1>2, <1>7 DEF RowHolds, Row, MaybeFolder
<1> QED
  BY <1>1, <1>2, <1>4, <1>5, <1>6, <1>8, RowChanges DEF Attested

LEMMA createDraftKeeps ==
  ASSUME PageInv, NEW o \in Handlers, createDraftIfNeeded(o) PROVE PageInv'
<1> DEFINE P == seen.passed
           got == IF page.done THEN "done" ELSE "none"
<1>1. PICK s \in Fresh :
        /\ page.op[o].pc = "creating" /\ UNCHANGED seen /\ Create(s, page.done)
        /\ page' = [At(page, o, "updating") EXCEPT !.draft = s, !.op[o].sub = s, !.op[o].got = got]
  BY DEF createDraftIfNeeded, Is
<1> DEFINE w == At(page, o, "updating")
           row == [w.op[o] EXCEPT !.sub = s, !.got = got]
           v == [w EXCEPT !.draft = s, !.op[o] = row]
<1>2. page \in PageRow /\ PageHolds(page, rows, P)
  BY DEF PageInv, PageTypes
<1>3. /\ s \in Drafts /\ rows' \in [Drafts -> Row] /\ RowsHold(rows', P)
      /\ PageHolds(page, rows', P) /\ rows'[s].state # "absent" /\ Attested(page, P, s)
  BY <1>1, CreateHolds
<1>4. Free(page, o) /\ o \notin Submits
  <2>1. OpHolds(page, rows, P, o)
    BY <1>2 DEF PageHolds, HandlersHold
  <2> QED
    BY <1>1, <2>1, NotLoading DEF OpHolds
<1>5. "updating" \in Places /\ got \in Gots
  BY DEF Places, Gots, Outcomes
<1>6. /\ w \in PageRow /\ SameDraft(page, w) /\ SameUpload(page, w) /\ OnlyOp(page, w, o)
      /\ w.load = page.load /\ w.op[o].pc = "updating"
  BY <1>2, <1>5, AtMoves
<1> HIDE DEF w, got
<1>7. page' = v
  <2>1. w.op \in [Handlers -> OpRow]
    BY <1>6 DEF PageRow
  <2>2. [w EXCEPT !.draft = s, !.op[o].sub = s, !.op[o].got = got] = v
    BY <1>6, <2>1 DEF PageRow, OpRow
  <2> QED
    BY <1>1, <2>2 DEF w, got
<1>8. row \in OpRow /\ row.pc = "updating" /\ row.sub = s
  <2>1. w.op[o] \in OpRow /\ s \in MaybeDraft
    BY <1>3, <1>6 DEF PageRow, MaybeDraft
  <2> QED
    BY <1>5, <1>6, <2>1 DEF OpRow
<1> HIDE DEF row
<1>9. /\ v \in PageRow /\ v.list = page.list /\ v.folder = page.folder /\ v.qc = page.qc
      /\ v.stored.ctx = page.stored.ctx /\ v.draft = s /\ OnlyOp(page, v, o)
      /\ SameUpload(page, v) /\ v.load = page.load
      /\ v.op[o].pc = "updating" /\ v.op[o].sub = s
  BY <1>3, <1>6, <1>8 DEF PageRow, MaybeDraft, SameDraft, SameUpload, OnlyOp
<1> HIDE DEF v
<1>10. OpHolds(v, rows', P, o)
  BY <1>3, <1>4, <1>9 DEF OpHolds, Attested
<1>11. UpHolds(v, P)
  BY <1>3, <1>4, <1>9 DEF PageHolds, HandlersHold, UpHolds, Submitting, OnlyOp, Attested, SameUpload, Submits, Handlers
<1>12. LoadHolds(v)
  BY <1>3, <1>4, <1>9 DEF PageHolds, HandlersHold, LoadHolds, OnlyOp, PageRow, LoadRow, Free
<1>13. DraftHolds(v, rows', P)
  BY <1>3, <1>9 DEF DraftHolds, Attested
<1>14. PageHolds(v, rows', P)
  BY <1>2, <1>3, <1>9, <1>10, <1>11, <1>12, <1>13, HoldsByDraft
<1> QED
  BY <1>1, <1>3, <1>7, <1>9, <1>14, CountsMove, BothMove

LEMMA CreateForAirtableKeeps ==
  ASSUME PageInv, CreateForAirtable PROVE PageInv'
<1>1. PICK s \in Fresh :
        /\ page.op["airtable"].pc = "drafting" /\ UNCHANGED seen /\ Create(s, page.done)
        /\ page' = MarkAirtable(page, s)
  BY DEF CreateForAirtable, Is
<1>2. page \in PageRow /\ "airtable" \in Handlers
  BY DEF PageInv, PageTypes, Handlers
<1>3. /\ s \in Drafts /\ rows' \in [Drafts -> Row] /\ RowsHold(rows', seen.passed)
      /\ PageHolds(page, rows', seen.passed) /\ rows'[s].state # "absent"
      /\ Attested(page, seen.passed, s)
  BY <1>1, CreateHolds
<1>4. Free(page, "airtable")
  BY <1>1, <1>2, NotLoading
<1>5. page' \in PageRow /\ PageHolds(page', rows', seen.passed)
  BY <1>1, <1>2, <1>3, <1>4, MarkAirtableHolds
<1> QED
  BY <1>1, <1>3, <1>5, CountsMove, BothMove

LEMMA CreateForQcKeeps ==
  ASSUME PageInv, CreateForQc PROVE PageInv'
<1>1. PICK s \in Fresh :
        /\ page.op["qc"].pc = "drafting" /\ UNCHANGED seen /\ Create(s, page.done)
        /\ page' = AskQc([page EXCEPT !.draft = s], s)
  BY DEF CreateForQc, Is
<1> DEFINE v == [page EXCEPT !.draft = s]
           P == seen.passed
<1>2. page \in PageRow /\ "qc" \in Handlers
  BY DEF PageInv, PageTypes, Handlers
<1>3. /\ s \in Drafts /\ rows' \in [Drafts -> Row] /\ RowsHold(rows', P)
      /\ PageHolds(page, rows', P) /\ rows'[s].state # "absent" /\ Attested(page, P, s)
  BY <1>1, CreateHolds
<1>4. /\ v \in PageRow /\ v.list = page.list /\ v.folder = page.folder /\ v.qc = page.qc
      /\ v.stored.ctx = page.stored.ctx /\ v.draft = s /\ v.op = page.op
      /\ SameUpload(page, v) /\ v.load = page.load
  BY <1>2, <1>3 DEF PageRow, MaybeDraft, SameUpload
<1>5. Free(v, "qc")
  BY <1>1, <1>2, <1>4, NotLoading DEF Free
<1> HIDE DEF v
<1>6. OpHolds(v, rows', P, "qc")
  <2>1. OpHolds(page, rows', P, "qc")
    BY <1>2, <1>3 DEF PageHolds, HandlersHold
  <2> QED
    BY <1>4, <2>1 DEF OpHolds, Attested
<1>7. UpHolds(v, P) /\ LoadHolds(v)
  BY <1>3, <1>4 DEF PageHolds, HandlersHold, UpHolds, LoadHolds, Submitting, Attested, SameUpload
<1>8. DraftHolds(v, rows', P)
  BY <1>3, <1>4 DEF DraftHolds, Attested
<1>9. PageHolds(v, rows', P)
  BY <1>2, <1>3, <1>4, <1>6, <1>7, <1>8, HoldsByDraft DEF OnlyOp
<1>10. AskQc(v, s) \in PageRow /\ PageHolds(AskQc(v, s), rows', P)
  BY <1>3, <1>4, <1>5, <1>9, AskQcHolds
<1> QED
  BY <1>1, <1>3, <1>10, CountsMove, BothMove DEF v

(* The fields of a submission's form are stored.                             *)
LEMMA FieldsHold ==
  ASSUME PageInv, NEW s \in MaybeDraft, NEW done \in BOOLEAN, NEW linked \in BOOLEAN
  PROVE  LET q == IF s \in Drafts THEN [rows EXCEPT ![s].done = done, ![s].linked = linked]
                  ELSE rows
         IN  /\ q \in [Drafts -> Row] /\ RowsHold(q, seen.passed)
             /\ PageHolds(page, q, seen.passed)
<1>1. /\ page \in PageRow /\ rows \in [Drafts -> Row] /\ PageHolds(page, rows, seen.passed)
      /\ RowsHold(rows, seen.passed)
  BY DEF PageInv, PageTypes
<1>2. CASE s \in Drafts
  <2> DEFINE row == [rows[s] EXCEPT !.done = done, !.linked = linked]
  <2>1. /\ row \in Row /\ row.state = rows[s].state /\ row.path = rows[s].path
        /\ row.files = rows[s].files /\ row.up = rows[s].up /\ row.session = rows[s].session
    BY <1>1, <1>2 DEF Row
  <2>2. [rows EXCEPT ![s].done = done, ![s].linked = linked] = [rows EXCEPT ![s] = row]
    BY <1>1, <1>2 DEF Row
  <2> HIDE DEF row
  <2>3. RowHolds(row, seen.passed, s)
    BY <1>1, <1>2, <2>1 DEF RowsHold, RowHolds
  <2> DEFINE q == [rows EXCEPT ![s] = row]
  <2>4. /\ rows[s].state # "absent" => row.state # "absent"
        /\ row.state = "uploading" => rows[s].state = "uploading"
        /\ rows[s].path # NoFolder => row.path # NoFolder
        /\ rows[s].files # NoFolder => row.files # NoFolder
    BY <2>1
  <2>5. row \in Row
    BY <2>1
  <2>6. q \in [Drafts -> Row] /\ RowsHold(q, seen.passed) /\ PageHolds(page, q, seen.passed)
    BY <1>1, <1>2, <2>5, <2>3, <2>4, RowChanges
  <2> HIDE DEF q
  <2> QED
    BY <1>2, <2>2, <2>6 DEF q
<1> QED
  BY <1>1, <1>2

LEMMA updateMetadataKeeps ==
  ASSUME PageInv, NEW o \in Handlers, updateMetadata(o) PROVE PageInv'
<1> DEFINE P == seen.passed
           s == page.op[o].sub
           done == page.op[o].got = "done"
           w == [page EXCEPT !.sel = s]
<1>1. /\ page.op[o].pc = "updating" /\ UNCHANGED seen
      /\ rows' = [rows EXCEPT ![s].done = done]
      /\ page' = loadSubmissions(w, o, "saved")
  BY DEF updateMetadata, Is, Sub
<1>2. page \in PageRow /\ rows \in [Drafts -> Row]
  BY DEF PageInv, PageTypes
<1>3. s \in MaybeDraft
  BY <1>2 DEF PageRow, OpRow
<1>4. /\ rows' \in [Drafts -> Row] /\ RowsHold(rows', P) /\ PageHolds(page, rows', P)
  <2>1. CASE s \in Drafts
    <3>1. rows[s].linked \in BOOLEAN
      BY <1>2, <2>1 DEF Row
    <3>2. rows' = [rows EXCEPT ![s].done = done, ![s].linked = rows[s].linked]
      BY <1>1, <1>2, <2>1 DEF Row
    <3> HIDE DEF s, done
    <3> QED
      BY <1>3, <2>1, <3>1, <3>2, FieldsHold DEF done
  <2>2. CASE s \notin Drafts
    <3>1. rows' = rows
      BY <1>1, <1>2, <2>2
    <3> QED
      BY <3>1 DEF PageInv, PageTypes
  <2> QED
    BY <2>1, <2>2
<1> HIDE DEF s, done
<1>5. /\ w \in PageRow /\ SameDraft(page, w) /\ SameUpload(page, w) /\ w.op = page.op
      /\ w.load = page.load
  BY <1>2, <1>3 DEF PageRow, SameDraft, SameUpload
<1> HIDE DEF w
<1>6. PageHolds(w, rows', P)
  BY <1>2, <1>4, <1>5, HoldsByLooks
<1>7. Free(w, o)
  BY <1>1, <1>5, NotLoading DEF Free
<1>8. PageHolds(At(w, o, "saved"), rows', P)
  BY <1>1, <1>4, <1>5, <1>6, <1>7, SavedHolds
<1>9. page' \in PageRow /\ PageHolds(page', rows', P)
  BY <1>1, <1>4, <1>5, <1>7, <1>8, LoadHoldsOf
<1> QED
  BY <1>1, <1>4, <1>9, CountsMove, BothMove

LEMMA syncAirtableKeeps ==
  ASSUME PageInv, syncAirtable PROVE PageInv'
<1> DEFINE P == seen.passed
           s == page.op["airtable"].sub
           w == Ends(page, "airtable")
<1>1. PICK linked \in BOOLEAN :
        /\ page.op["airtable"].pc = "syncing" /\ UNCHANGED seen
        /\ rows' = [rows EXCEPT ![s].done = linked, ![s].linked = linked]
        /\ page' = [w EXCEPT !.done = linked, !.linked = linked]
  BY DEF syncAirtable, Is, Sub
<1>2. page \in PageRow /\ rows \in [Drafts -> Row] /\ "airtable" \in Handlers
  BY DEF PageInv, PageTypes, Handlers
<1>3. s \in MaybeDraft
  BY <1>2 DEF PageRow, OpRow
<1> HIDE DEF s
<1>4. /\ rows' \in [Drafts -> Row] /\ RowsHold(rows', P) /\ PageHolds(page, rows', P)
  <2>1. CASE s \in Drafts
    BY <1>1, <1>3, <2>1, FieldsHold
  <2>2. CASE s \notin Drafts
    <3>1. rows' = rows
      BY <1>1, <1>2, <2>2
    <3> QED
      BY <3>1 DEF PageInv, PageTypes
  <2> QED
    BY <2>1, <2>2
<1>5. Free(page, "airtable")
  BY <1>1, <1>2, NotLoading
<1>6. w \in PageRow /\ PageHolds(w, rows', P)
  BY <1>2, <1>4, <1>5, EndsHolds DEF Free
<1> HIDE DEF w
<1>7. /\ page' \in PageRow /\ SameDraft(w, page') /\ SameUpload(w, page') /\ page'.op = w.op
      /\ page'.load = w.load
  BY <1>1, <1>6 DEF PageRow, SameDraft, SameUpload
<1>8. PageHolds(page', rows', P)
  BY <1>4, <1>6, <1>7, HoldsByLooks
<1> QED
  BY <1>1, <1>4, <1>7, <1>8, CountsMove, BothMove

LEMMA resetAirtableKeeps ==
  ASSUME PageInv, resetAirtable PROVE PageInv'
<1> DEFINE P == seen.passed
           s == page.op["reset"].sub
<1>1. /\ page.op["reset"].pc = "resetting" /\ UNCHANGED seen
      /\ rows' = [rows EXCEPT ![s].done = FALSE, ![s].linked = FALSE]
      /\ page' = saveMetadata(ResetPage(page), "reset")
  BY DEF resetAirtable, Is, Sub
<1>2. /\ page \in PageRow /\ rows \in [Drafts -> Row]
      /\ "reset" \in Handlers \ {"poll", "control"} /\ "reset" \notin Submits
  BY DEF PageInv, PageTypes, Handlers, Submits
<1>3. s \in MaybeDraft
  BY <1>2 DEF PageRow, OpRow
<1> HIDE DEF s
<1>4. /\ rows' \in [Drafts -> Row] /\ RowsHold(rows', P) /\ PageHolds(page, rows', P)
  <2>1. CASE s \in Drafts
    BY <1>1, <1>3, <2>1, FieldsHold
  <2>2. CASE s \notin Drafts
    <3>1. rows' = rows
      BY <1>1, <1>2, <2>2
    <3> QED
      BY <3>1 DEF PageInv, PageTypes
  <2> QED
    BY <2>1, <2>2
<1>5. Free(page, "reset")
  BY <1>1, <1>2, NotLoading
<1>6. /\ ResetPage(page) \in PageRow /\ PageHolds(ResetPage(page), rows', P)
      /\ Free(ResetPage(page), "reset")
  BY <1>2, <1>4, <1>5, ResetPageHolds DEF Free
<1>7. page' \in PageRow /\ PageHolds(page', rows', P)
  BY <1>1, <1>2, <1>4, <1>6, SaveHolds
<1> QED
  BY <1>1, <1>4, <1>7, CountsMove, BothMove

(* The verdict comes for the folder that is still selected.                  *)
LEMMA evaluatePackKeeps ==
  ASSUME PageInv, evaluatePack PROVE PageInv'
<1> DEFINE P == seen.passed
           s == page.op["qc"].sub
           f == page.op["qc"].folder
           e == Ends(page, "qc")
           Q(passed) == IF passed THEN P \union {<<s, f>>} ELSE P
           w(passed) == [e EXCEPT !.qc[s] = passed]
           v(passed) == persistDraftContext(w(passed), s)
<1>1. PICK passed \in BOOLEAN :
        /\ page.op["qc"].pc = "evaluating" /\ UNCHANGED rows /\ (passed => f # NoFolder)
        /\ page' = [v(passed) EXCEPT !.qcRun = FALSE]
        /\ seen' = [seen EXCEPT !.passed = Q(passed)]
  BY DEF evaluatePack, Is, Sub
<1>2. /\ page \in PageRow /\ rows \in [Drafts -> Row] /\ "qc" \in Handlers
      /\ PageHolds(page, rows, P) /\ RowsHold(rows, P) /\ seen \in Seen
  BY DEF PageInv, PageTypes, Handlers
<1>3. s \in Drafts /\ rows[s].state # "absent" /\ f = page.folder
  BY <1>1, <1>2 DEF PageHolds, HandlersHold, OpHolds
<1>4. Free(page, "qc")
  BY <1>1, <1>2, NotLoading
<1>5. e \in PageRow /\ PageHolds(e, rows, P) /\ SameDraft(page, e) /\ SameUpload(page, e)
  BY <1>2, <1>4, EndsHolds, EndsMoves DEF Free
<1>6. f \in MaybeFolder
  BY <1>2 DEF PageRow, OpRow
<1> DEFINE R == Q(passed)
           x == w(passed)
           y == v(passed)
           z == [y EXCEPT !.qcRun = FALSE]
<1>7. /\ P \subseteq R /\ R \subseteq Drafts \X Folders /\ (passed => <<s, f>> \in R)
      /\ \A t \in Drafts, g \in Folders : <<t, g>> \in R \ P => rows[t].state # "absent"
  BY <1>1, <1>2, <1>3, <1>6 DEF Seen, MaybeFolder
<1>8. seen' = [seen EXCEPT !.passed = R] /\ page' = z
  BY <1>1
<1> HIDE DEF Q, s, f, e
<1>9. seen' \in Seen /\ seen'.passed = R
  BY <1>2, <1>7, <1>8 DEF Seen
<1> HIDE DEF R
<1>10. PageHolds(e, rows, R) /\ RowsHold(rows, R)
  BY <1>2, <1>5, <1>7, HoldsByPassed
<1>11. /\ x \in PageRow /\ x.list = e.list /\ x.draft = e.draft /\ x.folder = e.folder
       /\ x.stored = e.stored /\ SameUpload(e, x) /\ x.op = e.op /\ x.load = e.load
       /\ x.qc[s] = passed /\ \A t \in Drafts \ {s} : x.qc[t] = e.qc[t]
  BY <1>3, <1>5 DEF PageRow, SameUpload
<1> HIDE DEF w
<1>12. x.folder = f
  BY <1>3, <1>5, <1>11 DEF SameDraft
<1>13. \A t : Attested(e, R, t) => Attested(x, R, t)
  BY <1>7, <1>11, <1>12 DEF Attested
<1>14. HandlersHold(x, rows, R)
  <2>1. DraftHolds(x, rows, R) /\ ListsHold(x, rows, R) /\ LoadHolds(x) /\ UpHolds(x, R)
    BY <1>10, <1>11, <1>13 DEF PageHolds, HandlersHold, DraftHolds, ListsHold, LoadHolds, UpHolds,
         Submitting, SameUpload
  <2>2. ASSUME NEW o \in Handlers PROVE OpHolds(x, rows, R, o)
    <3>1. OpHolds(e, rows, R, o)
      BY <1>10 DEF PageHolds, HandlersHold
    <3> QED
      BY <1>11, <1>13, <3>1 DEF OpHolds
  <2> QED
    BY <2>1, <2>2 DEF HandlersHold
<1>15. \A t \in Drafts \ {s} : VerdictKept(x, rows, R, t)
  BY <1>10, <1>11 DEF PageHolds, VerdictKept
<1>16. y \in PageRow /\ PageHolds(y, rows, R)
  <2>1. y = persistDraftContext(x, s)
    BY DEF w
  <2>2. x.qc[s] => <<s, x.folder>> \in R /\ rows[s].state # "absent"
    BY <1>3, <1>7, <1>11, <1>12
  <2>3. s \in MaybeDraft
    BY <1>3 DEF MaybeDraft
  <2> HIDE DEF x, y
  <2> QED
    BY <1>2, <1>3, <1>11, <1>14, <1>15, <2>1, <2>2, <2>3, PersistMoves, PersistHolds
<1> HIDE DEF y
<1>17. z \in PageRow /\ SameDraft(y, z) /\ SameUpload(y, z) /\ z.op = y.op /\ z.load = y.load
  BY <1>16 DEF PageRow, SameDraft, SameUpload
<1> HIDE DEF z
<1>18. PageHolds(z, rows, R)
  BY <1>2, <1>16, <1>17, HoldsByLooks
<1> QED
  BY <1>1, <1>2, <1>8, <1>9, <1>10, <1>17, <1>18 DEF PageInv, PageTypes

(* What a submit under way knows.                                            *)
LEMMA SubmitKnows ==
  ASSUME PageInv, NEW o \in Submits, page.op[o].pc # "idle"
  PROVE  LET s == page.op[o].sub
         IN  /\ s \in Drafts /\ Attested(page, seen.passed, s)
             /\ <<s, page.folder>> \in seen.passed /\ page.folder \in Folders
             /\ page.op[o].pc \notin {"updating", "saved"} => page.op[o].folder = page.folder
             /\ rows[s] \in Row /\ RowHolds(rows[s], seen.passed, s)
<1>1. o \in Handlers
  BY DEF Handlers, Submits
<1>2. OpHolds(page, rows, seen.passed, o)
  BY <1>1 DEF PageInv, PageHolds, HandlersHold
<1>3. seen.passed \subseteq Drafts \X Folders
  BY DEF PageInv, PageTypes, Seen
<1>4. /\ page.op[o].sub \in Drafts /\ Attested(page, seen.passed, page.op[o].sub)
      /\ <<page.op[o].sub, page.folder>> \in seen.passed
      /\ page.op[o].pc \notin {"updating", "saved"} => page.op[o].folder = page.folder
  BY <1>2 DEF OpHolds
<1> QED
  BY <1>3, <1>4 DEF PageInv, PageTypes, RowsHold

(* A handler remembers something else.                                       *)
LEMMA OpChanges ==
  ASSUME NEW u \in PageRow, NEW r \in [Drafts -> Row], NEW P, NEW o \in Handlers,
         NEW row \in OpRow, PageHolds(u, r, P), Free(u, o),
         o \in Submits => u.op[o].pc # "idle",
         \A v : SameDraft(u, v) /\ v.op[o] = row => OpHolds(v, r, P, o)
  PROVE  LET v == [u EXCEPT !.op[o] = row]
         IN  v \in PageRow /\ PageHolds(v, r, P)
<1> DEFINE v == [u EXCEPT !.op[o] = row]
<1>1. /\ v \in PageRow /\ SameDraft(u, v) /\ SameUpload(u, v) /\ OnlyOp(u, v, o)
      /\ v.load = u.load /\ v.op[o] = row
  BY DEF PageRow, SameDraft, SameUpload, OnlyOp
<1> HIDE DEF v
<1>2. OpHolds(v, r, P, o)
  BY <1>1
<1>3. UpHolds(v, P)
  BY <1>1, UpStays DEF PageHolds, HandlersHold
<1>4. LoadHolds(v)
  BY <1>1 DEF PageHolds, HandlersHold, LoadHolds, OnlyOp, PageRow, LoadRow, Free
<1>5. PageHolds(v, r, P)
  BY <1>1, <1>2, <1>3, <1>4, HoldsByHandler
<1> QED
  BY <1>1, <1>5 DEF v

LEMMA StartedHolds ==
  ASSUME PageInv, NEW o \in Submits, page.op[o].pc = "starting", rows' = Started(o)
  PROVE  LET s == page.op[o].sub
         IN  /\ rows' \in [Drafts -> Row] /\ RowsHold(rows', seen.passed)
             /\ PageHolds(page, rows', seen.passed)
             /\ rows'[s].session \in {"initiated", "manifest_ready", "transfer_completed"}
             /\ rows'[s].path # NoFolder
             /\ rows'[s].session = "manifest_ready" => rows'[s].files # NoFolder
<1> DEFINE P == seen.passed
           op == page.op[o]
           s == op.sub
           f == op.folder
<1>1. /\ page \in PageRow /\ rows \in [Drafts -> Row]
      /\ PageHolds(page, rows, P) /\ RowsHold(rows, P)
  BY DEF PageInv, PageTypes
<1>2. /\ s \in Drafts /\ <<s, f>> \in P /\ f \in Folders
      /\ rows[s] \in Row /\ RowHolds(rows[s], P, s)
  BY SubmitKnows
<1> DEFINE anew == [rows[s] EXCEPT !.session = "initiated", !.path = f]
           again == [rows[s] EXCEPT !.session = "initiated", !.path = f, !.up = "none"]
           row == CASE rows[s].session = "none" -> anew
                    [] rows[s].session # "none" /\ rows[s].up \in {"canceled", "failed"} -> again
                    [] OTHER -> rows[s]
<1>3. rows' = [rows EXCEPT ![s] = row]
  <2>1. CASE rows[s].session = "none"
    BY <1>1, <1>2, <2>1 DEF Started, Sub, RowHolds
  <2>2. CASE rows[s].session # "none"
    BY <1>1, <1>2, <2>2 DEF Started, Sub
  <2> QED
    BY <2>1, <2>2
<1>4. /\ row \in Row /\ row.state = rows[s].state /\ row.files = rows[s].files
      /\ row.session \in {"initiated", "manifest_ready", "transfer_completed"}
      /\ row.path # NoFolder
  BY <1>2, NoneOfThem DEF Row, Sessions, MaybeFolder, Outcomes, RowHolds
<1>5. RowHolds(row, P, s)
  BY <1>2, NoneOfThem DEF RowHolds, Row
<1> HIDE DEF row
<1>6. /\ rows[s].state # "absent" => row.state # "absent"
      /\ row.state = "uploading" => rows[s].state = "uploading"
      /\ rows[s].files # NoFolder => row.files # NoFolder
      /\ row.path # NoFolder /\ row \in Row
  BY <1>4
<1>7. row.session = "manifest_ready" => row.files # NoFolder
  BY <1>5 DEF RowHolds
<1>8. s \in Drafts /\ RowHolds(row, seen.passed, s)
  BY <1>2, <1>5
<1> HIDE DEF s, P
<1>9. /\ rows' \in [Drafts -> Row] /\ rows'[s] = row /\ RowsHold(rows', seen.passed)
      /\ PageHolds(page, rows', seen.passed)
  BY <1>3, <1>6, <1>8, RowMoves
<1> QED
  BY <1>4, <1>7, <1>9 DEF s

LEMMA startSessionKeeps ==
  ASSUME PageInv, NEW o \in Submits, startSession(o) PROVE PageInv'
<1> DEFINE P == seen.passed
           op == page.op[o]
           s == op.sub
           f == op.folder
           session == rows'[s].session
           to == CASE session = "initiated" -> "listing"
                   [] session = "manifest_ready" -> "handing"
                   [] session = "transfer_completed" -> "locking"
           new == [op EXCEPT !.got = session, !.pc = to]
           v == [page EXCEPT !.op[o] = new]
<1>1. op.pc = "starting" /\ UNCHANGED seen
  BY DEF startSession, Is
<1>2. page \in PageRow /\ rows \in [Drafts -> Row] /\ o \in Handlers
  BY DEF PageInv, PageTypes, Handlers, Submits
<1>3. Free(page, o)
  BY <1>1, <1>2, NotLoading
<1>4. /\ s \in Drafts /\ Attested(page, P, s) /\ <<s, f>> \in P /\ f = page.folder
      /\ f \in Folders
  BY <1>1, SubmitKnows
<1>5. /\ rows' = Started(o)
      /\ page' = [page EXCEPT !.op[o].got = session, !.op[o].pc = to]
  BY <1>4, NoneOfThem DEF startSession, Sub
<1>6. /\ rows' \in [Drafts -> Row] /\ RowsHold(rows', P)
      /\ PageHolds(page, rows', P)
      /\ session \in {"initiated", "manifest_ready", "transfer_completed"}
      /\ rows'[s].path # NoFolder
      /\ session = "manifest_ready" => rows'[s].files # NoFolder
  BY <1>1, <1>5, StartedHolds
<1>7. \/ to = "listing" /\ session = "initiated"
      \/ to = "handing" /\ session = "manifest_ready"
      \/ to = "locking"
  BY <1>6
<1> HIDE DEF to, session
<1>8. page' = v
  BY <1>2, <1>5 DEF PageRow, OpRow
<1>9. new \in OpRow /\ new.pc = to /\ new.sub = s /\ new.folder = f
  <2>1. op \in OpRow
    BY <1>2 DEF PageRow
  <2> QED
    BY <2>1, <1>6, <1>7 DEF OpRow, Places, Gots, Sessions
<1> HIDE DEF new
<1>10. ASSUME NEW u, SameDraft(page, u), u.op[o] = new PROVE OpHolds(u, rows', P, o)
  <2>1. o # "qc"
    BY DEF Submits
  <2> QED
    BY <1>4, <1>6, <1>7, <1>9, <1>10, <2>1 DEF OpHolds, SameDraft, Attested
<1>11. v \in PageRow /\ PageHolds(v, rows', P)
  BY <1>1, <1>2, <1>3, <1>6, <1>9, <1>10, OpChanges
<1> QED
  BY <1>1, <1>6, <1>8, <1>11, CountsMove, BothMove

(* A submit that goes to its next request.                                   *)
LEMMA SubmitGoesOn ==
  ASSUME NEW u \in PageRow, NEW r \in [Drafts -> Row], NEW P, NEW o \in Submits,
         NEW to \in {"handing", "locking", "moving", "showing"}, PageHolds(u, r, P), Free(u, o),
         u.op[o].pc \in {"listing", "handing", "locking", "moving"},
         to = "handing" => r[u.op[o].sub].path # NoFolder /\ r[u.op[o].sub].files # NoFolder
  PROVE  At(u, o, to) \in PageRow /\ PageHolds(At(u, o, to), r, P)
<1> DEFINE v == At(u, o, to)
<1>1. to \in Places /\ o \in Handlers /\ o # "qc"
  BY DEF Places, Handlers, Submits
<1>2. /\ SameDraft(u, v) /\ v.op[o].pc = to /\ v.op[o].sub = u.op[o].sub
      /\ v.op[o].folder = u.op[o].folder
  BY <1>1, AtMoves
<1>3. OpHolds(u, r, P, o)
  BY <1>1 DEF PageHolds, HandlersHold
<1> HIDE DEF v
<1>4. OpHolds(v, r, P, o)
  BY <1>1, <1>2, <1>3 DEF OpHolds, SameDraft, Attested
<1> QED
  BY <1>1, <1>4, AtHolds DEF v, Free

LEMMA putManifestKeeps ==
  ASSUME PageInv, NEW o \in Submits, putManifest(o) PROVE PageInv'
<1> DEFINE P == seen.passed
           op == page.op[o]
           s == op.sub
           f == op.folder
<1>1. op.pc = "listing" /\ UNCHANGED seen
  BY DEF putManifest, Is
<1>2. /\ page \in PageRow /\ rows \in [Drafts -> Row] /\ o \in Handlers
      /\ PageHolds(page, rows, P) /\ RowsHold(rows, P)
  BY DEF PageInv, PageTypes, Handlers, Submits
<1>3. Free(page, o)
  BY <1>1, <1>2, NotLoading
<1>4. CASE rows[s].session # "initiated"
  <2>1. page' = SubmitFails(page, o) /\ UNCHANGED rows
    BY <1>4 DEF putManifest, Sub
  <2>2. page' \in PageRow /\ PageHolds(page', rows, P)
    BY <1>2, <1>3, <2>1, SubmitFailsHolds
  <2> QED
    BY <1>1, <2>1, <2>2, CountsMove, PageMoves
<1>5. CASE rows[s].session = "initiated"
  <2> DEFINE row == [rows[s] EXCEPT !.session = "manifest_ready", !.files = f]
  <2>1. /\ s \in Drafts /\ <<s, f>> \in P /\ f \in Folders
        /\ rows[s] \in Row /\ RowHolds(rows[s], P, s)
    BY <1>1, SubmitKnows
  <2>2. /\ rows' = [rows EXCEPT ![s].session = "manifest_ready", ![s].files = f]
        /\ page' = At(page, o, "handing")
    BY <1>5 DEF putManifest, Sub
  <2>3. rows' = [rows EXCEPT ![s] = row]
    BY <1>2, <2>1, <2>2 DEF Row
  <2>4. /\ row \in Row /\ row.state = rows[s].state /\ row.path = rows[s].path
        /\ row.files = f /\ row.up = rows[s].up /\ row.session = "manifest_ready"
    BY <2>1 DEF Row, Sessions, MaybeFolder
  <2> HIDE DEF row
  <2>5. RowHolds(row, P, s) /\ row.path # NoFolder /\ row.files # NoFolder
    BY <1>5, <2>1, <2>4, NoneOfThem DEF RowHolds
  <2>6. /\ rows[s].state # "absent" => row.state # "absent"
        /\ row.state = "uploading" => rows[s].state = "uploading"
        /\ row \in Row
    BY <2>4
  <2> HIDE DEF s, P
  <2>7. /\ rows' \in [Drafts -> Row] /\ rows'[s] = row /\ RowsHold(rows', P)
        /\ PageHolds(page, rows', P)
    BY <1>2, <2>1, <2>3, <2>5, <2>6, RowChanges
  <2>8. page' \in PageRow /\ PageHolds(page', rows', P)
    BY <1>1, <1>2, <1>3, <2>2, <2>5, <2>7, SubmitGoesOn DEF s
  <2> QED
    BY <1>1, <2>7, <2>8, CountsMove, BothMove DEF P
<1> QED
  BY <1>4, <1>5

LEMMA HandedHolds ==
  ASSUME PageInv, NEW o \in Submits, page.op[o].pc = "handing", rows' = Handed(o)
  PROVE  /\ rows' \in [Drafts -> Row] /\ RowsHold(rows', seen.passed)
         /\ PageHolds(page, rows', seen.passed)
<1> DEFINE P == seen.passed
           s == page.op[o].sub
<1>1. /\ page \in PageRow /\ rows \in [Drafts -> Row] /\ o \in Handlers
      /\ PageHolds(page, rows, P) /\ RowsHold(rows, P)
  BY DEF PageInv, PageTypes, Handlers, Submits
<1>2. s \in Drafts /\ rows[s] \in Row /\ RowHolds(rows[s], P, s)
  BY SubmitKnows
<1>3. rows[s].path # NoFolder /\ rows[s].files # NoFolder
  BY <1>1 DEF PageHolds, HandlersHold, OpHolds
<1>4. CASE rows[s].up \notin {"none", "failed"}
  <2>1. rows' = rows
    BY <1>1, <1>2, <1>4 DEF Handed, Sub
  <2> QED
    BY <1>1, <2>1
<1>5. CASE rows[s].up \in {"none", "failed"}
  <2> DEFINE row == [rows[s] EXCEPT !.up = "active", !.at = rows[s].at + 1, !.job = TRUE]
  <2>1. rows' = [rows EXCEPT ![s] = row]
    BY <1>5 DEF Handed, Sub
  <2>2. /\ row \in Row /\ row.state = rows[s].state /\ row.path = rows[s].path
        /\ row.files = rows[s].files /\ row.session = rows[s].session
    <3>1. rows[s].at + 1 \in Nat /\ "active" \in Outcomes
      BY <1>2 DEF Row, Outcomes, Statuses
    <3> QED
      BY <1>2, <3>1 DEF Row
  <2> HIDE DEF row
  <2>3. RowHolds(row, P, s)
    BY <1>2, <1>3, <2>2 DEF RowHolds
  <2>4. /\ rows[s].state # "absent" => row.state # "absent"
        /\ row.state = "uploading" => rows[s].state = "uploading"
        /\ row.path # NoFolder /\ row.files # NoFolder /\ row \in Row
    BY <1>3, <2>2
  <2>5. s \in Drafts /\ RowHolds(row, seen.passed, s)
    BY <1>2, <2>3
  <2> HIDE DEF s, P
  <2> QED
    BY <2>1, <2>4, <2>5, RowMoves
<1> QED
  BY <1>4, <1>5

LEMMA createHandoffKeeps ==
  ASSUME PageInv, NEW o \in Submits, createHandoff(o) PROVE PageInv'
<1> DEFINE P == seen.passed
           s == page.op[o].sub
           row == rows'[s]
           x == [sub |-> s, status |-> row.up, at |-> row.at, id |-> TRUE]
           a == applyUploadState(page, x, TRUE)
           w == startUploadStatusPolling(a)
<1>1. /\ page.op[o].pc = "handing" /\ UNCHANGED seen /\ rows' = Handed(o)
      /\ page' = At(w, o, "locking")
  BY DEF createHandoff, Is, Sub
<1>2. page \in PageRow /\ rows \in [Drafts -> Row] /\ o \in Handlers /\ o # "poll"
  BY DEF PageInv, PageTypes, Handlers, Submits
<1>3. s \in Drafts /\ Attested(page, P, s)
  BY <1>1, SubmitKnows
<1>4. /\ rows' \in [Drafts -> Row] /\ RowsHold(rows', P) /\ PageHolds(page, rows', P)
  BY <1>1, HandedHolds
<1>5. Free(page, o)
  BY <1>1, <1>2, NotLoading
<1>6. x \in UpRow /\ x.sub = s
  <2>1. row \in Row
    BY <1>3, <1>4
  <2> QED
    BY <1>3, <2>1 DEF UpRow, Row, MaybeDraft
<1> HIDE DEF x
<1>7. /\ a \in PageRow /\ PageHolds(a, rows', P) /\ a.op = page.op /\ a.load = page.load
      /\ a.up = x /\ a.folder = page.folder /\ a.qc = page.qc
  BY <1>2, <1>3, <1>4, <1>6, ApplyMoves, ApplyHolds
<1> HIDE DEF a
<1>8. Attested(a, P, a.up.sub)
  BY <1>3, <1>6, <1>7 DEF Attested
<1>9. /\ w \in PageRow /\ PageHolds(w, rows', P) /\ OnlyOp(a, w, "poll") /\ w.load = a.load
  BY <1>4, <1>7, <1>8, StartPollingMoves, StartPollingHolds
<1> HIDE DEF w
<1>10. w.op[o] = page.op[o]
  BY <1>2, <1>7, <1>9 DEF OnlyOp
<1>11. page' \in PageRow /\ PageHolds(page', rows', P)
  BY <1>1, <1>4, <1>5, <1>7, <1>9, <1>10, SubmitGoesOn DEF Free
<1> QED
  BY <1>1, <1>4, <1>11, CountsMove, BothMove

LEMMA lockFilesKeeps ==
  ASSUME PageInv, NEW o \in Submits, lockSubmissionFiles(o) PROVE PageInv'
<1>1. page.op[o].pc = "locking" /\ page' = At(page, o, "moving") /\ UNCHANGED <<rows, seen>>
  BY DEF lockSubmissionFiles, Is
<1>2. /\ page \in PageRow /\ rows \in [Drafts -> Row] /\ o \in Handlers
      /\ PageHolds(page, rows, seen.passed)
  BY DEF PageInv, PageTypes, Handlers, Submits
<1>3. Free(page, o)
  BY <1>1, <1>2, NotLoading
<1>4. page' \in PageRow /\ PageHolds(page', rows, seen.passed)
  BY <1>1, <1>2, <1>3, SubmitGoesOn
<1> QED
  BY <1>1, <1>4, CountsMove, PageMoves

LEMMA MovedHolds ==
  ASSUME PageInv, NEW o \in Submits, page.op[o].pc = "moving", MayMove(o),
         rows' = Moved(Sub(o), "uploading")
  PROVE  /\ rows' \in [Drafts -> Row] /\ RowsHold(rows', seen.passed)
         /\ PageHolds(page, rows', seen.passed)
<1> DEFINE s == page.op[o].sub
           row == [rows[s] EXCEPT !.state = "uploading", !.version = rows[s].version + 1]
<1>1. /\ s \in Drafts /\ Attested(page, seen.passed, s)
      /\ rows[s] \in Row /\ RowHolds(rows[s], seen.passed, s)
  BY SubmitKnows
<1>2. rows \in [Drafts -> Row]
  BY DEF PageInv, PageTypes
<1>3. rows' = [rows EXCEPT ![s] = row]
  BY <1>1, <1>2 DEF Moved, Sub, Row
<1>4. /\ row \in Row /\ row.state = "uploading" /\ row.path = rows[s].path
      /\ row.files = rows[s].files /\ row.session = rows[s].session /\ row.up = rows[s].up
  <2>1. rows[s].version + 1 \in Nat
    BY <1>1 DEF Row
  <2> QED
    BY <1>1, <2>1 DEF Row
<1> HIDE DEF row
<1>5. RowHolds(row, seen.passed, s)
  BY <1>1, <1>4 DEF RowHolds
<1>6. /\ row.state # "absent" /\ row \in Row
      /\ rows[s].path # NoFolder => row.path # NoFolder
      /\ rows[s].files # NoFolder => row.files # NoFolder
  BY <1>4
<1> HIDE DEF s
<1> QED
  BY <1>1, <1>3, <1>5, <1>6, RowMoves

LEMMA requestUploadingKeeps ==
  ASSUME PageInv, NEW o \in Submits, requestUploading(o) PROVE PageInv'
<1> DEFINE P == seen.passed
           v == [page EXCEPT !.mode = "draft"]
<1>1. page.op[o].pc = "moving"
  BY DEF requestUploading, Is
<1>2. /\ page \in PageRow /\ rows \in [Drafts -> Row] /\ o \in Handlers
      /\ PageHolds(page, rows, P)
  BY DEF PageInv, PageTypes, Handlers, Submits
<1>3. Free(page, o)
  BY <1>1, <1>2, NotLoading
<1>4. CASE MayMove(o)
  <2>1. /\ rows' = Moved(Sub(o), "uploading") /\ UNCHANGED seen
        /\ page' = loadSubmissions(v, o, "showing")
    BY <1>4 DEF requestUploading
  <2>2. /\ rows' \in [Drafts -> Row] /\ RowsHold(rows', P) /\ PageHolds(page, rows', P)
    BY <1>1, <1>4, <2>1, MovedHolds
  <2>3. /\ v \in PageRow /\ SameDraft(page, v) /\ SameUpload(page, v) /\ v.op = page.op
        /\ v.load = page.load
    BY <1>2 DEF PageRow, SameDraft, SameUpload
  <2> HIDE DEF v
  <2>4. PageHolds(v, rows', P)
    BY <1>2, <2>2, <2>3, HoldsByLooks
  <2>5. Free(v, o) /\ v.op[o].pc = "moving"
    BY <1>1, <1>3, <2>3 DEF Free
  <2>6. PageHolds(At(v, o, "showing"), rows', P)
    BY <2>2, <2>3, <2>4, <2>5, SubmitGoesOn
  <2>7. page' \in PageRow /\ PageHolds(page', rows', P)
    BY <1>2, <2>1, <2>2, <2>3, <2>5, <2>6, LoadHoldsOf
  <2> QED
    BY <2>1, <2>2, <2>7, CountsMove, BothMove
<1>5. CASE ~MayMove(o)
  <2>1. /\ page' = SubmitFails(page, o) /\ seen' = [seen EXCEPT !.disturbed = TRUE]
        /\ UNCHANGED rows
    BY <1>5 DEF requestUploading
  <2>2. page' \in PageRow /\ PageHolds(page', rows, P)
    BY <1>2, <1>3, <2>1, SubmitFailsHolds
  <2> QED
    BY <2>1, <2>2, CountsMove, PageMoves
<1> QED
  BY <1>4, <1>5

LEMMA SubmitEndsKeeps ==
  ASSUME PageInv, NEW o \in Submits, SubmitEnds(o) PROVE PageInv'
<1> DEFINE P == seen.passed
           v == Ends(page, o)
           w == [v EXCEPT !.busy = page.busy /\ page.op[o].got # "transfer_completed"]
<1>1. page.op[o].pc = "polling" /\ UNCHANGED <<rows, seen>>
  BY DEF SubmitEnds, Is
<1>2. /\ page \in PageRow /\ rows \in [Drafts -> Row] /\ o \in Handlers
      /\ PageHolds(page, rows, P)
  BY DEF PageInv, PageTypes, Handlers, Submits
<1>3. Free(page, o)
  BY <1>1, <1>2, NotLoading
<1>4. v \in PageRow /\ PageHolds(v, rows, P)
  BY <1>2, <1>3, EndsHolds DEF Free
<1>5. page' = w
  BY <1>2 DEF SubmitEnds, Ends, PageRow
<1> HIDE DEF v
<1>6. /\ w \in PageRow /\ SameDraft(v, w) /\ SameUpload(v, w) /\ w.op = v.op
      /\ w.load = v.load
  <2>1. (page.busy /\ page.op[o].got # "transfer_completed") \in BOOLEAN
    BY <1>2 DEF PageRow
  <2> QED
    BY <1>4, <2>1 DEF PageRow, SameDraft, SameUpload
<1> HIDE DEF w
<1>7. page' \in PageRow /\ PageHolds(page', rows, P)
  BY <1>2, <1>4, <1>5, <1>6, HoldsByLooks
<1> QED
  BY <1>1, <1>7, CountsMove, PageMoves

----------------------------------------------------------------------------
(* The list.                                                                 *)

LEMMA ListIsReadKeeps ==
  ASSUME PageInv, ListIsRead PROVE PageInv'
<1> DEFINE P == seen.passed
           answer == [s \in Drafts |-> Listing(rows[s])]
           load == [page.load EXCEPT !.at = "answered", !.rows = answer]
           v == [page EXCEPT !.load = load]
<1>1. /\ page.load.at = "asked" /\ UNCHANGED <<rows, seen>>
      /\ page' = [page EXCEPT !.load.at = "answered", !.load.rows = answer]
  BY DEF ListIsRead
<1>2. /\ page \in PageRow /\ rows \in [Drafts -> Row] /\ PageHolds(page, rows, P)
  BY DEF PageInv, PageTypes
<1>3. page' = v
  BY <1>1, <1>2 DEF PageRow, LoadRow
<1>4. answer \in [Drafts -> Row] /\ \A s \in Drafts : answer[s].state = rows[s].state
  <2>1. ASSUME NEW s \in Drafts PROVE Listing(rows[s]) \in Row /\ Listing(rows[s]).state = rows[s].state
    <3>1. rows[s] \in Row
      BY <1>2
    <3> QED
      BY <3>1 DEF Listing, NoRow, Row, MaybeFolder, Sessions
  <2> QED
    BY <2>1
<1> HIDE DEF answer
<1>5. /\ load \in LoadRow /\ load.at = "answered" /\ load.by = page.load.by
      /\ load.rows = answer
  <2>1. page.load \in LoadRow
    BY <1>2 DEF PageRow
  <2> QED
    BY <1>4, <2>1 DEF LoadRow
<1> HIDE DEF load
<1>6. /\ v \in PageRow /\ SameDraft(page, v) /\ SameUpload(page, v) /\ v.op = page.op
      /\ v.load = load
  BY <1>2, <1>5 DEF PageRow, SameDraft, SameUpload
<1> HIDE DEF v
<1>7. /\ \A s \in Drafts : VerdictKept(v, rows, P, s)
      /\ DraftHolds(v, rows, P)
  BY <1>2, <1>6 DEF PageHolds, HandlersHold, VerdictKept, DraftHolds, Attested, SameDraft
<1>8. ListsHold(v, rows, P)
  BY <1>2, <1>4, <1>5, <1>6 DEF PageHolds, HandlersHold, ListsHold, Attested, SameDraft
<1>9. LoadHolds(v)
  BY <1>1, <1>2, <1>5, <1>6 DEF PageHolds, HandlersHold, LoadHolds
<1>10. UpHolds(v, P)
  BY <1>2, <1>6 DEF PageHolds, HandlersHold, UpHolds, Submitting, Attested, SameDraft, SameUpload
<1>11. ASSUME NEW o \in Handlers PROVE OpHolds(v, rows, P, o)
  <2>1. OpHolds(page, rows, P, o)
    BY <1>2 DEF PageHolds, HandlersHold
  <2> QED
    BY <1>6, <2>1 DEF OpHolds, Attested, SameDraft
<1>12. PageHolds(page', rows, P)
  BY <1>3, <1>7, <1>8, <1>9, <1>10, <1>11 DEF PageHolds, HandlersHold
<1> QED
  BY <1>1, <1>3, <1>6, <1>12, CountsMove, PageMoves

LEMMA ListArrivesKeeps ==
  ASSUME PageInv, ListArrives PROVE PageInv'
<1> DEFINE P == seen.passed
           load == [page.load EXCEPT !.at = "timelines"]
           v == [page EXCEPT !.list = page.load.rows, !.load = load]
<1>1. /\ page.load.at = "answered" /\ UNCHANGED <<rows, seen>>
      /\ page' = ShowUploading([page EXCEPT !.list = page.load.rows, !.load.at = "timelines"])
  BY DEF ListArrives
<1>2. /\ page \in PageRow /\ rows \in [Drafts -> Row] /\ PageHolds(page, rows, P)
  BY DEF PageInv, PageTypes
<1>3. [page EXCEPT !.list = page.load.rows, !.load.at = "timelines"] = v
  BY <1>2 DEF PageRow, LoadRow
<1>4. page.load \in LoadRow
  BY <1>2 DEF PageRow
<1>5. load \in LoadRow /\ load.at = "timelines" /\ load.by = page.load.by
  BY <1>4 DEF LoadRow
<1>6. page.load.rows \in [Drafts -> Row]
  BY <1>4 DEF LoadRow
<1> HIDE DEF load
<1>7. /\ v \in PageRow /\ v.list = page.load.rows /\ v.op = page.op /\ v.load = load
      /\ v.draft = page.draft /\ v.folder = page.folder /\ v.qc = page.qc
      /\ v.stored = page.stored /\ SameUpload(page, v)
  BY <1>2, <1>5, <1>6 DEF PageRow, SameUpload
<1> HIDE DEF v
<1>8. /\ \A s \in Drafts : VerdictKept(v, rows, P, s)
      /\ DraftHolds(v, rows, P)
  BY <1>2, <1>7 DEF PageHolds, HandlersHold, VerdictKept, DraftHolds, Attested
<1>9. /\ ListsHold(v, rows, P)
      /\ \A s \in Drafts : v.list[s].state = "uploading" => Attested(v, P, s)
  BY <1>1, <1>2, <1>5, <1>7 DEF PageHolds, HandlersHold, ListsHold, Attested
<1>10. LoadHolds(v)
  BY <1>1, <1>2, <1>5, <1>7 DEF PageHolds, HandlersHold, LoadHolds
<1>11. UpHolds(v, P)
  BY <1>2, <1>7 DEF PageHolds, HandlersHold, UpHolds, Submitting, Attested, SameUpload
<1>12. ASSUME NEW o \in Handlers PROVE OpHolds(v, rows, P, o)
  <2>1. OpHolds(page, rows, P, o)
    BY <1>2 DEF PageHolds, HandlersHold
  <2> QED
    BY <1>7, <2>1 DEF OpHolds, Attested
<1>13. PageHolds(v, rows, P)
  BY <1>8, <1>9, <1>10, <1>11, <1>12 DEF PageHolds, HandlersHold
<1>14. page' \in PageRow /\ PageHolds(page', rows, P)
  BY <1>1, <1>2, <1>3, <1>7, <1>9, <1>13, ShowUploadingHolds
<1> QED
  BY <1>1, <1>14, CountsMove, PageMoves

(* The handler that asked for the list goes on when the load is over.        *)
LEMMA GoesOnAfterLoad ==
  ASSUME NEW u \in PageRow, NEW r \in [Drafts -> Row], NEW P, PageHolds(u, r, P),
         u.load.at # "idle"
  PROVE  LET v == Continue(LoadEnds(u), u.load.by)
         IN  v \in PageRow /\ PageHolds(v, r, P)
<1> DEFINE w == LoadEnds(u)
<1>1. u.load.by \in Handlers /\ u.op[u.load.by].pc \in {"saved", "showing"}
  BY DEF PageHolds, HandlersHold, LoadHolds, PageRow, LoadRow
<1>2. w \in PageRow /\ PageHolds(w, r, P) /\ w.load.at = "idle" /\ w.op = u.op
  BY LoadEndsHolds
<1> HIDE DEF w
<1>3. /\ Free(w, u.load.by) /\ w.op[u.load.by].pc # "idle"
  BY <1>1, <1>2 DEF Free
<1>4. Continue(w, u.load.by) \in PageRow /\ PageHolds(Continue(w, u.load.by), r, P)
  BY <1>1, <1>2, <1>3, ContinueHolds
<1> QED
  BY <1>4 DEF w

LEMMA TimelinesArriveKeeps ==
  ASSUME PageInv, TimelinesArrive PROVE PageInv'
<1> DEFINE P == seen.passed
           mode == IF page.sel = NoDraft /\ page.mode # "draft" THEN "list" ELSE page.mode
           v == [page EXCEPT !.mode = mode]
<1>1. /\ page.load.at = "timelines" /\ UNCHANGED <<rows, seen>>
  BY DEF TimelinesArrive
<1>2. /\ page \in PageRow /\ rows \in [Drafts -> Row] /\ PageHolds(page, rows, P)
  BY DEF PageInv, PageTypes
<1>3. mode \in {"list", "draft", "detail"}
  BY <1>2 DEF PageRow
<1>4. page' = Continue(LoadEnds(v), page.load.by)
  BY <1>2 DEF TimelinesArrive, PageRow
<1> HIDE DEF mode
<1>5. /\ v \in PageRow /\ SameDraft(page, v) /\ SameUpload(page, v) /\ v.op = page.op
      /\ v.load = page.load
  BY <1>2, <1>3 DEF PageRow, SameDraft, SameUpload
<1> HIDE DEF v
<1>6. PageHolds(v, rows, P)
  BY <1>2, <1>5, HoldsByLooks
<1>7. page' \in PageRow /\ PageHolds(page', rows, P)
  BY <1>1, <1>2, <1>4, <1>5, <1>6, GoesOnAfterLoad
<1> QED
  BY <1>1, <1>7, CountsMove, PageMoves

LEMMA LoadFailsKeeps ==
  ASSUME PageInv, LoadFails PROVE PageInv'
<1>1. /\ page.load.at # "idle" /\ Fault /\ UNCHANGED rows
      /\ page' = Continue(LoadEnds(page), page.load.by)
  BY DEF LoadFails
<1>2. /\ page \in PageRow /\ rows \in [Drafts -> Row] /\ PageHolds(page, rows, seen.passed)
  BY DEF PageInv, PageTypes
<1>3. page' \in PageRow /\ PageHolds(page', rows, seen.passed)
  BY <1>1, <1>2, GoesOnAfterLoad
<1> QED
  BY <1>1, <1>3, CountsMove, PageMoves

----------------------------------------------------------------------------
(* The status of the upload.                                                 *)

LEMMA PollTickKeeps ==
  ASSUME PageInv, PollTick PROVE PageInv'
<1>1. page.timer /\ page' = StartPoll(page) /\ UNCHANGED <<rows, seen>>
  BY DEF PollTick
<1>2. /\ page \in PageRow /\ rows \in [Drafts -> Row] /\ PageHolds(page, rows, seen.passed)
  BY DEF PageInv, PageTypes
<1>3. Attested(page, seen.passed, page.up.sub)
  BY <1>1, <1>2 DEF PageHolds, HandlersHold, UpHolds
<1>4. page' \in PageRow /\ PageHolds(page', rows, seen.passed)
  BY <1>1, <1>2, <1>3, StartPollMoves, StartPollHolds
<1> QED
  BY <1>1, <1>4, CountsMove, PageMoves

(* What a poll, or a control, that is out knows.                             *)
LEMMA PollKnows ==
  ASSUME PageInv, NEW o \in {"poll", "control"}, page.op[o].pc \in {"asked", "answered"}
  PROVE  /\ page.op[o].sub \in Drafts /\ Attested(page, seen.passed, page.op[o].sub)
         /\ page.op[o] \in OpRow /\ Free(page, o) /\ o \in Handlers /\ o \notin Submits
         /\ page.op[o].pc = "answered" => page.op[o].got \in Statuses
<1>1. o \in Handlers /\ o \notin Submits
  BY DEF Handlers, Submits
<1>2. OpHolds(page, rows, seen.passed, o)
  BY <1>1 DEF PageInv, PageHolds, HandlersHold
<1>3. Free(page, o)
  BY <1>1, NotLoading
<1>4. page.op[o] \in OpRow
  BY <1>1 DEF PageInv, PageTypes, PageRow
<1>5. page.op[o].pc = "answered" => page.op[o].got \in Statuses
  BY <1>2 DEF OpHolds, Statuses
<1> QED
  BY <1>1, <1>2, <1>3, <1>4, <1>5 DEF OpHolds

LEMMA PollIsReadKeeps ==
  ASSUME PageInv, PollIsRead PROVE PageInv'
<1> DEFINE P == seen.passed
           op == page.op["poll"]
           s == op.sub
           new == [op EXCEPT !.pc = "answered", !.got = rows[s].up, !.at = rows[s].at]
           v == [page EXCEPT !.op["poll"] = new]
<1>1. op.pc = "asked" /\ UNCHANGED <<rows, seen>>
  BY DEF PollIsRead, Is
<1>2. /\ page \in PageRow /\ rows \in [Drafts -> Row] /\ PageHolds(page, rows, P)
  BY DEF PageInv, PageTypes
<1>3. /\ s \in Drafts /\ Attested(page, P, s) /\ op \in OpRow /\ Free(page, "poll")
      /\ "poll" \in Handlers /\ "poll" \notin Submits
  BY <1>1, PollKnows
<1>4. CASE rows[s].up = "none"
  <2>1. page' = Ends(page, "poll")
    BY <1>4 DEF PollIsRead, Sub
  <2>2. page' \in PageRow /\ PageHolds(page', rows, P)
    BY <1>2, <1>3, <2>1, EndsHolds DEF Free
  <2> QED
    BY <1>1, <2>2, CountsMove, PageMoves
<1>5. CASE rows[s].up # "none"
  <2>1. page' = v
    BY <1>2, <1>3, <1>5 DEF PollIsRead, Sub, At, PageRow, OpRow
  <2>2. new \in OpRow /\ new.pc = "answered" /\ new.sub = s /\ new.got \in Statuses
    <3>1. rows[s] \in Row
      BY <1>2, <1>3
    <3> QED
      BY <1>3, <1>5, <3>1 DEF OpRow, Row, Places, Gots, Outcomes
  <2> HIDE DEF new
  <2>3. ASSUME NEW u, SameDraft(page, u), u.op["poll"] = new PROVE OpHolds(u, rows, P, "poll")
    BY <1>3, <2>2, <2>3 DEF OpHolds, SameDraft, Attested
  <2>4. v \in PageRow /\ PageHolds(v, rows, P)
    BY <1>2, <1>3, <2>2, <2>3, OpChanges
  <2> QED
    BY <1>1, <2>1, <2>4, CountsMove, PageMoves
<1> QED
  BY <1>4, <1>5

(* What is no longer watched is shown as before.                             *)
LEMMA OverHolds ==
  ASSUME NEW u \in PageRow, NEW r \in [Drafts -> Row], NEW P, PageHolds(u, r, P)
  PROVE  LET v == [u EXCEPT !.timer = FALSE, !.busy = FALSE]
         IN  v \in PageRow /\ PageHolds(v, r, P) /\ v.op = u.op /\ v.load = u.load
<1> DEFINE v == [u EXCEPT !.timer = FALSE, !.busy = FALSE]
<1>1. /\ v \in PageRow /\ v.op = u.op /\ v.load = u.load /\ SameDraft(u, v)
      /\ v.up = u.up /\ ~v.timer
  BY DEF PageRow, SameDraft
<1> HIDE DEF v
<1>2. "boot" \in Handlers
  BY DEF Handlers
<1>3. UpHolds(v, P) /\ LoadHolds(v)
  BY <1>1 DEF PageHolds, HandlersHold, UpHolds, LoadHolds, Submitting, Attested, SameDraft
<1>4. OpHolds(v, r, P, "boot")
  <2>1. OpHolds(u, r, P, "boot")
    BY <1>2 DEF PageHolds, HandlersHold
  <2> QED
    BY <1>1, <2>1 DEF OpHolds, Attested, SameDraft
<1>5. PageHolds(v, r, P)
  BY <1>1, <1>2, <1>3, <1>4, HoldsByHandler DEF OnlyOp
<1> QED
  BY <1>1, <1>5 DEF v

(* A poll or a control that loads the list with what it was told.            *)
LEMMA ToldHolds ==
  ASSUME NEW u \in PageRow, NEW r \in [Drafts -> Row], NEW P, PageHolds(u, r, P),
         NEW o \in {"poll", "control"}, Free(u, o),
         u.op[o].sub \in Drafts, Attested(u, P, u.op[o].sub)
  PROVE  LET v == loadSubmissions(u, o, "showing")
         IN  v \in PageRow /\ PageHolds(v, r, P)
<1> DEFINE w == At(u, o, "showing")
<1>1. o \in Handlers /\ o \notin Submits /\ "showing" \in Places
  BY DEF Handlers, Submits, Places
<1>2. /\ SameDraft(u, w) /\ w.op[o].pc = "showing" /\ w.op[o].sub = u.op[o].sub
  BY <1>1, AtMoves
<1> HIDE DEF w
<1>3. OpHolds(w, r, P, o)
  BY <1>1, <1>2 DEF OpHolds, SameDraft, Attested
<1>4. PageHolds(w, r, P)
  BY <1>1, <1>3, AtHolds DEF w, Free
<1> QED
  BY <1>1, <1>4, LoadHoldsOf DEF w

(* A poll or a control shows what it was told.                               *)
LEMMA AnswerShown ==
  ASSUME PageInv, NEW o \in {"poll", "control"}, page.op[o].pc = "answered",
         page.op[o].got \in Outcomes
  PROVE  LET p == page.op[o]
             x == [sub |-> p.sub, status |-> p.got, at |-> p.at, id |-> TRUE]
             u == applyUploadState(page, x, TRUE)
         IN  /\ u \in PageRow /\ PageHolds(u, rows, seen.passed)
             /\ u.op = page.op /\ u.load = page.load
             /\ Attested(u, seen.passed, p.sub) /\ u.up.sub = p.sub
<1> DEFINE P == seen.passed
           p == page.op[o]
           x == [sub |-> p.sub, status |-> p.got, at |-> p.at, id |-> TRUE]
           u == applyUploadState(page, x, TRUE)
<1>1. /\ page \in PageRow /\ rows \in [Drafts -> Row] /\ PageHolds(page, rows, P)
  BY DEF PageInv, PageTypes
<1>2. p.sub \in Drafts /\ Attested(page, P, p.sub) /\ p \in OpRow
  BY PollKnows
<1>3. x \in UpRow /\ x.sub = p.sub
  BY <1>2 DEF UpRow, OpRow
<1> HIDE DEF x
<1>4. /\ u \in PageRow /\ u.op = page.op /\ u.load = page.load
      /\ u.folder = page.folder /\ u.qc = page.qc /\ u.up = x
  BY <1>1, <1>3, ApplyMoves
<1>5. PageHolds(u, rows, P)
  BY <1>1, <1>2, <1>3, ApplyHolds
<1> HIDE DEF u
<1>6. Attested(u, P, p.sub) /\ u.up.sub = p.sub
  BY <1>2, <1>3, <1>4 DEF Attested
<1> QED
  BY <1>4, <1>5, <1>6 DEF u, x

LEMMA pollUploadStatusOnceKeeps ==
  ASSUME PageInv, pollUploadStatusOnce PROVE PageInv'
<1> DEFINE P == seen.passed
           p == page.op["poll"]
           x == [sub |-> p.sub, status |-> p.got, at |-> p.at, id |-> TRUE]
           shown == applyUploadState(page, x, TRUE)
           over == [shown EXCEPT !.timer = FALSE, !.busy = FALSE]
<1>1. p.pc = "answered" /\ UNCHANGED <<rows, seen>>
  BY DEF pollUploadStatusOnce, Is
<1>2. /\ page \in PageRow /\ rows \in [Drafts -> Row]
  BY DEF PageInv, PageTypes
<1>3. /\ p.sub \in Drafts /\ Free(page, "poll") /\ "poll" \in Handlers
      /\ p.got \in Outcomes
  BY <1>1, PollKnows DEF Outcomes
<1>4. /\ shown \in PageRow /\ PageHolds(shown, rows, P)
      /\ shown.op = page.op /\ shown.load = page.load /\ Attested(shown, P, p.sub)
  BY <1>1, <1>3, AnswerShown
<1>5. \/ page' = Ends(shown, "poll")
      \/ page' = Ends(over, "poll")
      \/ page' = loadSubmissions(over, "poll", "showing")
  BY DEF pollUploadStatusOnce
<1> HIDE DEF shown
<1>6. /\ over \in PageRow /\ PageHolds(over, rows, P) /\ over.op = page.op
      /\ over.load = page.load
  BY <1>2, <1>4, OverHolds
<1>7. Attested(over, P, p.sub)
  BY <1>4 DEF Attested, PageRow
<1> HIDE DEF over
<1>8. Free(shown, "poll") /\ Free(over, "poll")
  BY <1>3, <1>4, <1>6 DEF Free
<1>9. page' \in PageRow /\ PageHolds(page', rows, P)
  <2>1. CASE page' = Ends(shown, "poll")
    BY <1>2, <1>3, <1>4, <1>8, <2>1, EndsHolds DEF Free
  <2>2. CASE page' = Ends(over, "poll")
    BY <1>2, <1>3, <1>6, <1>8, <2>2, EndsHolds DEF Free
  <2>3. CASE page' = loadSubmissions(over, "poll", "showing")
    <3>1. over.op["poll"].sub \in Drafts /\ Attested(over, P, over.op["poll"].sub)
      BY <1>3, <1>6, <1>7
    <3> QED
      BY <1>2, <1>6, <1>8, <2>3, <3>1, ToldHolds
  <2> QED
    BY <1>5, <2>1, <2>2, <2>3
<1> QED
  BY <1>1, <1>9, CountsMove, PageMoves

LEMMA ControlIsAnsweredKeeps ==
  ASSUME PageInv, ControlIsAnswered PROVE PageInv'
<1> DEFINE P == seen.passed
           c == page.op["control"]
           x == [sub |-> c.sub, status |-> c.got, at |-> c.at, id |-> TRUE]
           shown == applyUploadState(page, x, TRUE)
           over == [shown EXCEPT !.timer = FALSE, !.busy = FALSE]
           busy == [shown EXCEPT !.busy = TRUE]
           Told(u) == /\ u \in PageRow /\ PageHolds(u, rows, P) /\ u.load = page.load
                      /\ u.op["control"] = c /\ Attested(u, P, c.sub)
<1>1. c.pc = "answered" /\ UNCHANGED <<rows, seen>>
  BY DEF ControlIsAnswered, Is
<1>2. /\ page \in PageRow /\ rows \in [Drafts -> Row] /\ "control" # "poll"
  BY DEF PageInv, PageTypes
<1>3. /\ c.sub \in Drafts /\ Free(page, "control") /\ "control" \in Handlers
      /\ c.got \in Outcomes
  BY <1>1, PollKnows DEF Outcomes
<1>4. c.got \in {"active", "paused", "canceled"}
  BY <1>1, <1>3 DEF PageInv, PageHolds, HandlersHold, OpHolds
<1>5. /\ shown \in PageRow /\ PageHolds(shown, rows, P)
      /\ shown.op = page.op /\ shown.load = page.load /\ Attested(shown, P, c.sub)
      /\ shown.up.sub = c.sub
  BY <1>1, <1>3, AnswerShown
<1>6. \/ page' = loadSubmissions(over, "control", "showing")
      \/ page' = loadSubmissions(clearActiveUploadState(over), "control", "showing")
      \/ page' = loadSubmissions(startUploadStatusPolling(busy), "control", "showing")
  BY <1>4 DEF ControlIsAnswered
<1> HIDE DEF shown
<1>7. Told(over)
  <2>1. /\ over \in PageRow /\ PageHolds(over, rows, P) /\ over.op = page.op
        /\ over.load = page.load
    BY <1>2, <1>5, OverHolds
  <2>2. Attested(over, P, c.sub)
    BY <1>5 DEF Attested, PageRow
  <2> QED
    BY <2>1, <2>2
<1> HIDE DEF over
<1>8. Told(clearActiveUploadState(over))
  BY <1>2, <1>7, ClearMoves, ClearHolds DEF SameDraft, Attested
<1>9. Told(startUploadStatusPolling(busy))
  <2>1. /\ busy \in PageRow /\ SameDraft(shown, busy) /\ SameUpload(shown, busy)
        /\ busy.op = shown.op /\ busy.load = shown.load /\ busy.up = shown.up
    BY <1>5 DEF PageRow, SameDraft, SameUpload
  <2> HIDE DEF busy
  <2>2. PageHolds(busy, rows, P)
    BY <1>2, <1>5, <2>1, HoldsByLooks
  <2>3. Attested(busy, P, busy.up.sub)
    BY <1>5, <2>1 DEF Attested, SameDraft
  <2>4. PageHolds(startUploadStatusPolling(busy), rows, P)
    BY <1>2, <2>1, <2>2, <2>3, StartPollingHolds
  <2>5. /\ startUploadStatusPolling(busy) \in PageRow
        /\ SameDraft(busy, startUploadStatusPolling(busy))
        /\ OnlyOp(busy, startUploadStatusPolling(busy), "poll")
        /\ startUploadStatusPolling(busy).load = busy.load
    BY <2>1, StartPollingMoves
  <2>6. startUploadStatusPolling(busy).op["control"] = busy.op["control"]
    BY <1>2, <1>3, <2>5 DEF OnlyOp
  <2>7. Attested(startUploadStatusPolling(busy), P, c.sub)
    BY <1>5, <2>1, <2>5 DEF Attested, SameDraft
  <2> QED
    BY <1>5, <2>1, <2>4, <2>5, <2>6, <2>7
<1>10. ASSUME NEW u, Told(u)
       PROVE  /\ loadSubmissions(u, "control", "showing") \in PageRow
              /\ PageHolds(loadSubmissions(u, "control", "showing"), rows, P)
  <2>1. Free(u, "control")
    BY <1>3, <1>10 DEF Free
  <2> QED
    BY <1>2, <1>3, <1>10, <2>1, ToldHolds
<1>11. page' \in PageRow /\ PageHolds(page', rows, P)
  BY <1>6, <1>7, <1>8, <1>9, <1>10
<1> QED
  BY <1>1, <1>11, CountsMove, PageMoves

(* What is delivered, or controlled, was handed over.                        *)
LEMMA HandoffMoves ==
  ASSUME PageInv, NEW s \in Drafts, NEW row \in Row, rows' = [rows EXCEPT ![s] = row],
         rows[s].up # "none", row.state = rows[s].state, row.path = rows[s].path,
         row.files = rows[s].files
  PROVE  /\ rows' \in [Drafts -> Row] /\ rows'[s] = row /\ RowsHold(rows', seen.passed)
         /\ PageHolds(page, rows', seen.passed)
<1>1. RowHolds(rows[s], seen.passed, s)
  BY DEF PageInv, RowsHold
<1>2. RowHolds(row, seen.passed, s)
  BY <1>1 DEF RowHolds
<1> QED
  BY <1>2, RowMoves

LEMMA ControlTakesEffectKeeps ==
  ASSUME PageInv, ControlTakesEffect PROVE PageInv'
<1> DEFINE P == seen.passed
           c == page.op["control"]
           s == c.sub
<1>1. c.pc = "asked" /\ UNCHANGED seen
  BY DEF ControlTakesEffect, Is
<1>2. /\ page \in PageRow /\ rows \in [Drafts -> Row] /\ PageHolds(page, rows, P)
  BY DEF PageInv, PageTypes
<1>3. /\ s \in Drafts /\ Attested(page, P, s) /\ Free(page, "control")
      /\ "control" \in Handlers /\ "control" \notin Submits /\ c \in OpRow
  BY <1>1, PollKnows
<1>4. c.got \in {"pause", "resume", "cancel"}
  BY <1>1, <1>2, <1>3 DEF PageHolds, HandlersHold, OpHolds
<1>5. CASE rows[s].up \notin Offered(c.got)
  <2>1. page' = Fails(page, "control") /\ UNCHANGED rows
    BY <1>5 DEF ControlTakesEffect, Sub
  <2>2. page' \in PageRow /\ PageHolds(page', rows, P)
    BY <1>1, <1>2, <1>3, <2>1, FailsHolds
  <2> QED
    BY <1>1, <2>1, <2>2, CountsMove, PageMoves
<1>6. CASE rows[s].up \in Offered(c.got)
  <2>1. PICK to \in Statuses, job \in BOOLEAN :
          /\ to = CASE c.got = "pause" -> "paused"
                    [] c.got = "resume" -> "active"
                    [] c.got = "cancel" -> "canceled"
          /\ rows' = [rows EXCEPT ![s].up = to, ![s].at = @ + 1, ![s].job = job]
          /\ page' = [At(page, "control", "answered") EXCEPT
                        !.op["control"].got = to, !.op["control"].at = rows'[s].at]
    BY <1>6 DEF ControlTakesEffect, Sub
  <2> DEFINE row == [rows[s] EXCEPT !.up = to, !.at = rows[s].at + 1, !.job = job]
             new == [c EXCEPT !.pc = "answered", !.got = to, !.at = rows'[s].at]
             v == [page EXCEPT !.op["control"] = new]
  <2>2. rows[s] \in Row /\ rows[s].up # "none"
    BY <1>2, <1>3, <1>4, <1>6 DEF Offered
  <2>3. rows' = [rows EXCEPT ![s] = row]
    <3>1. rows' = [rows EXCEPT ![s].up = to, ![s].at = @ + 1, ![s].job = job]
      BY <2>1
    <3> QED
      BY <1>2, <1>3, <2>2, <3>1 DEF Row
  <2>4. /\ row \in Row /\ row.state = rows[s].state /\ row.path = rows[s].path
        /\ row.files = rows[s].files
    <3>1. rows[s].at + 1 \in Nat /\ to \in Outcomes
      BY <2>2 DEF Row, Outcomes
    <3> QED
      BY <2>2, <3>1 DEF Row
  <2> HIDE DEF row
  <2>5. /\ rows' \in [Drafts -> Row] /\ rows'[s] = row /\ RowsHold(rows', P)
        /\ PageHolds(page, rows', P)
    BY <1>3, <2>2, <2>3, <2>4, HandoffMoves
  <2>6. rows'[s].at \in Nat
    BY <2>4, <2>5 DEF Row
  <2>7. page' = v
    <3>1. page' = [At(page, "control", "answered") EXCEPT
                     !.op["control"].got = to, !.op["control"].at = rows'[s].at]
      BY <2>1
    <3> QED
      BY <1>2, <1>3, <3>1 DEF At, PageRow, OpRow
  <2>8. /\ new \in OpRow /\ new.pc = "answered" /\ new.sub = s
        /\ new.got \in {"active", "paused", "canceled"}
    BY <1>3, <1>4, <2>1, <2>6 DEF OpRow, Places, Gots, Outcomes
  <2> HIDE DEF new
  <2>9. ASSUME NEW u, SameDraft(page, u), u.op["control"] = new
        PROVE  OpHolds(u, rows', P, "control")
    BY <1>3, <2>8, <2>9 DEF OpHolds, SameDraft, Attested
  <2>10. v \in PageRow /\ PageHolds(v, rows', P)
    BY <1>2, <1>3, <2>5, <2>8, <2>9, OpChanges
  <2> QED
    BY <1>1, <2>5, <2>7, <2>10, CountsMove, BothMove
<1> QED
  BY <1>5, <1>6

----------------------------------------------------------------------------
(* The delivery.                                                             *)

LEMMA ServiceMoves ==
  ASSUME PageInv, UNCHANGED <<page, seen>>, rows' \in [Drafts -> Row],
         RowsHold(rows', seen.passed), PageHolds(page, rows', seen.passed)
  PROVE  PageInv'
BY DEF PageInv, PageTypes

LEMMA DeliveryEndsKeeps ==
  ASSUME PageInv, NEW s \in Drafts, DeliveryEnds(s) PROVE PageInv'
<1>1. PICK ok \in BOOLEAN :
        /\ rows[s].up = "active" /\ UNCHANGED <<page, seen>>
        /\ rows' = [rows EXCEPT ![s] = [rows[s] EXCEPT !.job = FALSE, !.at = rows[s].at + 1,
             !.up = IF ok THEN "completed" ELSE "failed",
             !.session = IF ok THEN "transfer_completed" ELSE "manifest_ready",
             !.report = IF ok THEN "success" ELSE "failure"]]
  BY DEF DeliveryEnds
<1> DEFINE up == IF ok THEN "completed" ELSE "failed"
           session == IF ok THEN "transfer_completed" ELSE "manifest_ready"
           report == IF ok THEN "success" ELSE "failure"
           row == [rows[s] EXCEPT !.job = FALSE, !.at = rows[s].at + 1, !.up = up,
                     !.session = session, !.report = report]
<1>2. rows' = [rows EXCEPT ![s] = row]
  BY <1>1
<1>3. up \in Outcomes /\ session \in Sessions /\ report \in {"none", "success", "failure"}
  BY DEF Outcomes, Statuses, Sessions
<1> HIDE DEF up, session, report
<1>4. /\ rows[s] \in Row /\ rows[s].up # "none"
  BY <1>1 DEF PageInv, PageTypes
<1>5. rows[s].at + 1 \in Nat
  BY <1>4 DEF Row
<1>6. /\ row \in Row /\ row.state = rows[s].state /\ row.path = rows[s].path
      /\ row.files = rows[s].files
  BY <1>3, <1>4, <1>5 DEF Row
<1> HIDE DEF row
<1>7. /\ rows' \in [Drafts -> Row] /\ RowsHold(rows', seen.passed)
      /\ PageHolds(page, rows', seen.passed)
  BY <1>2, <1>4, <1>6, HandoffMoves
<1> QED
  BY <1>1, <1>7, ServiceMoves

LEMMA DeliveryIsCanceledKeeps ==
  ASSUME PageInv, NEW s \in Drafts, DeliveryIsCanceled(s) PROVE PageInv'
<1> DEFINE row == [rows[s] EXCEPT !.job = FALSE, !.report = "failure"]
<1>1. /\ rows[s] \in Row /\ rows[s].up = "canceled" /\ UNCHANGED <<page, seen>>
      /\ rows \in [Drafts -> Row]
  BY DEF DeliveryIsCanceled, PageInv, PageTypes
<1>2. rows' = [rows EXCEPT ![s] = row]
  BY <1>1 DEF DeliveryIsCanceled, Row
<1>3. /\ row \in Row /\ row.state = rows[s].state /\ row.path = rows[s].path
      /\ row.files = rows[s].files
  BY <1>1 DEF Row
<1> HIDE DEF row
<1>4. /\ rows' \in [Drafts -> Row] /\ RowsHold(rows', seen.passed)
      /\ PageHolds(page, rows', seen.passed)
  BY <1>1, <1>2, <1>3, HandoffMoves
<1> QED
  BY <1>1, <1>4, ServiceMoves

LEMMA MoveAfterDeliveryKeeps ==
  ASSUME PageInv, NEW s \in Drafts, MoveAfterDelivery(s) PROVE PageInv'
<1> DEFINE to == IF rows[s].report = "success" THEN "under_review" ELSE "draft"
           from == IF rows[s].report = "success" THEN {"uploading", "draft"} ELSE {"uploading"}
           told == [rows[s] EXCEPT !.report = "none"]
           row == IF told.state \in from
                  THEN [told EXCEPT !.state = to, !.version = told.version + 1] ELSE told
<1>1. /\ rows[s] \in Row /\ RowHolds(rows[s], seen.passed, s) /\ UNCHANGED <<page, seen>>
  BY DEF MoveAfterDelivery, PageInv, PageTypes, RowsHold
<1>2. rows' = [rows EXCEPT ![s] = row]
  BY <1>1 DEF MoveAfterDelivery
<1>3. /\ told \in Row /\ told.state = rows[s].state /\ told.path = rows[s].path
      /\ told.files = rows[s].files /\ told.up = rows[s].up /\ told.session = rows[s].session
  BY <1>1 DEF Row
<1> HIDE DEF told
<1>4. to \in {"under_review", "draft"} /\ told.version + 1 \in Nat
  BY <1>3 DEF Row
<1> HIDE DEF to, from
<1>5. /\ row \in Row /\ row.path = rows[s].path /\ row.files = rows[s].files
      /\ row.up = rows[s].up /\ row.session = rows[s].session
      /\ row.state = rows[s].state \/ row.state \in {"under_review", "draft"}
  BY <1>3, <1>4 DEF Row
<1> HIDE DEF row
<1>6. RowHolds(row, seen.passed, s)
  BY <1>1, <1>5 DEF RowHolds
<1>7. /\ rows[s].state # "absent" => row.state # "absent"
      /\ row.state = "uploading" => rows[s].state = "uploading"
  BY <1>5
<1>8. /\ rows' \in [Drafts -> Row] /\ RowsHold(rows', seen.passed)
      /\ PageHolds(page, rows', seen.passed)
  BY <1>2, <1>5, <1>6, <1>7, RowMoves
<1> QED
  BY <1>1, <1>8, ServiceMoves

----------------------------------------------------------------------------
(* What goes wrong.                                                          *)

LEMMA RequestFailsKeeps ==
  ASSUME PageInv, NEW o \in Handlers, RequestFails(o) PROVE PageInv'
<1>1. /\ page.op[o].pc \in Sent /\ Fault /\ UNCHANGED rows /\ page' = Fails(page, o)
  BY DEF RequestFails
<1>2. /\ page \in PageRow /\ rows \in [Drafts -> Row] /\ PageHolds(page, rows, seen.passed)
  BY DEF PageInv, PageTypes
<1>3. Free(page, o) /\ page.op[o].pc # "idle"
  BY <1>1, NotLoading DEF Sent
<1>4. page' \in PageRow /\ PageHolds(page', rows, seen.passed)
  BY <1>1, <1>2, <1>3, FailsHolds
<1> QED
  BY <1>1, <1>4, CountsMove, PageMoves

LEMMA AnswerIsLostKeeps ==
  ASSUME PageInv, NEW o \in Handlers, AnswerIsLost(o) PROVE PageInv'
<1>1. Fault /\ page' = Fails(page, o) /\ page.op[o].pc \in {"starting", "handing", "moving"}
  BY DEF AnswerIsLost, Is
<1>2. page \in PageRow
  BY DEF PageInv, PageTypes
<1>3. o \in Submits
  BY <1>1 DEF PageInv, PageHolds, HandlersHold, OpHolds
<1>4. \/ page.op[o].pc = "starting" /\ rows' = Started(o)
      \/ page.op[o].pc = "handing" /\ rows' = Handed(o)
      \/ page.op[o].pc = "moving" /\ MayMove(o) /\ rows' = Moved(Sub(o), "uploading")
  BY DEF AnswerIsLost, Is
<1>5. /\ rows' \in [Drafts -> Row] /\ RowsHold(rows', seen.passed)
      /\ PageHolds(page, rows', seen.passed)
  <2>1. CASE page.op[o].pc = "starting" /\ rows' = Started(o)
    BY <1>3, <2>1, StartedHolds
  <2>2. CASE page.op[o].pc = "handing" /\ rows' = Handed(o)
    BY <1>3, <2>2, HandedHolds
  <2>3. CASE page.op[o].pc = "moving" /\ MayMove(o) /\ rows' = Moved(Sub(o), "uploading")
    BY <1>3, <2>3, MovedHolds
  <2> QED
    BY <1>4, <2>1, <2>2, <2>3
<1>6. Free(page, o)
  BY <1>1, NotLoading
<1>7. page' \in PageRow /\ PageHolds(page', rows', seen.passed)
  BY <1>1, <1>2, <1>5, <1>6, FailsHolds
<1> QED
  BY <1>1, <1>5, <1>7, CountsMove, BothMove

(* A page that is started again knows what is kept, and asks for the list.   *)
LEMMA FreshHolds ==
  ASSUME NEW kept \in StoredRow, NEW r \in [Drafts -> Row], NEW P,
         \A s \in Drafts :
           kept.ctx[s].qc => <<s, kept.ctx[s].folder>> \in P /\ r[s].state # "absent"
  PROVE  LET v == loadSubmissions(FreshPage(kept), "boot", "showing")
         IN  v \in PageRow /\ PageHolds(v, r, P)
<1> DEFINE u == FreshPage(kept)
           w == At(u, "boot", "showing")
<1>1. NoRow \in Row /\ NoRow.state = "absent"
  BY DEF NoRow, Row, Outcomes, Sessions, MaybeFolder
<1>2. "boot" \in Handlers /\ "boot" \notin Submits /\ "showing" \in Places
  BY DEF Handlers, Submits, Places
<1>3. u \in PageRow
  BY <1>1, <1>2, IdleIsOp, NoUploadIsUp
  DEF FreshPage, PageRow, LoadRow, MaybeDraft, MaybeFolder
<1>4. /\ u.draft = NoDraft /\ u.stored = kept /\ u.up = NoUpload /\ ~u.timer
      /\ u.load.at = "idle" /\ \A s \in Drafts : ~u.qc[s] /\ u.list[s].state = "absent"
      /\ \A o \in Handlers : u.op[o] = Idle
  BY <1>1 DEF FreshPage
<1> HIDE DEF u
<1>5. \A o \in Handlers : u.op[o].pc = "idle"
  BY <1>4, IdleIsOp
<1>6. \A s : Attested(u, P, s)
  BY <1>4 DEF Attested
<1>7. PageHolds(u, r, P)
  <2>1. \A s \in Drafts : VerdictKept(u, r, P, s)
    BY <1>4 DEF VerdictKept
  <2>2. DraftHolds(u, r, P) /\ ListsHold(u, r, P) /\ LoadHolds(u)
    BY <1>4, <1>6, NoneOfThem DEF DraftHolds, ListsHold, LoadHolds
  <2>3. UpHolds(u, P)
    BY <1>4, <1>6, NoUploadIsUp DEF UpHolds
  <2>4. \A o \in Handlers : OpHolds(u, r, P, o)
    BY <1>5 DEF OpHolds
  <2> QED
    BY <2>1, <2>2, <2>3, <2>4 DEF PageHolds, HandlersHold
<1>8. SameDraft(u, w) /\ w.op["boot"].pc = "showing"
  BY <1>2, <1>3, AtMoves
<1> HIDE DEF w
<1>9. OpHolds(w, r, P, "boot")
  BY <1>2, <1>8 DEF OpHolds, Submits
<1>10. PageHolds(w, r, P)
  BY <1>2, <1>3, <1>4, <1>7, <1>9, AtHolds DEF w
<1>11. Free(u, "boot")
  BY <1>4 DEF Free
<1> QED
  BY <1>2, <1>3, <1>10, <1>11, LoadHoldsOf DEF w, u

LEMMA RestartKeeps ==
  ASSUME PageInv, Restart PROVE PageInv'
<1>1. /\ Fault /\ UNCHANGED rows
      /\ page' = loadSubmissions(FreshPage(page.stored), "boot", "showing")
  BY DEF Restart
<1>2. /\ page \in PageRow /\ rows \in [Drafts -> Row] /\ PageHolds(page, rows, seen.passed)
  BY DEF PageInv, PageTypes
<1>3. page.stored \in StoredRow
  BY <1>2 DEF PageRow
<1>4. \A s \in Drafts : page.stored.ctx[s].qc =>
        <<s, page.stored.ctx[s].folder>> \in seen.passed /\ rows[s].state # "absent"
  BY <1>2 DEF PageHolds, VerdictKept
<1>5. page' \in PageRow /\ PageHolds(page', rows, seen.passed)
  BY <1>1, <1>2, <1>3, <1>4, FreshHolds
<1> QED
  BY <1>1, <1>5, CountsMove, PageMoves

----------------------------------------------------------------------------
(* The invariant holds at first, and every step keeps it.                    *)

LEMMA FirstRows ==
  /\ NoRow \in Row /\ NoRow.state = "absent" /\ NoRow.files = NoFolder
  /\ NoRow.path = NoFolder /\ NoRow.up = "none" /\ NoRow.session = "none"
  /\ Ready \in Row /\ Ready.state = "draft" /\ Ready.files = NoFolder
  /\ Ready.path = NoFolder /\ Ready.up = "none" /\ Ready.session = "none"
<1>1. /\ NoRow \in Row /\ NoRow.state = "absent" /\ NoRow.files = NoFolder
      /\ NoRow.path = NoFolder /\ NoRow.up = "none" /\ NoRow.session = "none"
  BY DEF NoRow, Row, Outcomes, Sessions, MaybeFolder
<1> QED
  BY <1>1 DEF Ready, Row

LEMMA DeliveredRow ==
  ASSUME NEW f \in Folders
  PROVE  /\ Uploading(f) \in Row /\ Uploading(f).state = "uploading"
         /\ Uploading(f).files = f /\ Uploading(f).path = f
<1>1. f \in MaybeFolder /\ "active" \in Outcomes /\ "manifest_ready" \in Sessions
  BY DEF MaybeFolder, Outcomes, Statuses, Sessions
<1> QED
  BY <1>1, FirstRows DEF Uploading, Row

LEMMA InitHolds == PageInit => PageInv
<1> SUFFICES ASSUME PageInit PROVE PageInv
  OBVIOUS
<1>1. PICK context \in [Drafts -> {NoContext} \union [kept : {TRUE}, folder : Folders, qc : {TRUE}]] :
        /\ \A s \in Drafts : rows[s].state # "draft" => context[s] = NoContext
        /\ page = loadSubmissions(FreshPage([up |-> NoUpload, ctx |-> context]), "boot", "showing")
        /\ seen = [passed |-> {x \in Drafts \X Folders :
                                 x[2] \in {rows[x[1]].files, context[x[1]].folder}},
                   disturbed |-> FALSE, clicks |-> 0, autosaves |-> 0, faults |-> 0]
  BY DEF PageInit
<1> DEFINE P == seen.passed
           kept == [up |-> NoUpload, ctx |-> context]
<1>2. rows \in [Drafts -> {NoRow, Ready} \union {Uploading(f) : f \in Folders}]
  BY DEF PageInit
<1>3. seen \in Seen /\ P = {x \in Drafts \X Folders : x[2] \in {rows[x[1]].files, context[x[1]].folder}}
  BY <1>1 DEF Seen
<1>4. \A s \in Drafts, f \in Folders :
        <<s, f>> \in P <=> f = rows[s].files \/ f = context[s].folder
  BY <1>3
<1> HIDE DEF P
<1>5. ASSUME NEW s \in Drafts
      PROVE  /\ rows[s] \in Row
             /\ \/ rows[s].state = "absent" /\ rows[s].files = NoFolder
                \/ rows[s].state = "draft" /\ rows[s].files = NoFolder
                \/ rows[s].state = "uploading" /\ rows[s].files \in Folders
             /\ rows[s].path = rows[s].files
             /\ rows[s].files = NoFolder => rows[s].up = "none" /\ rows[s].session = "none"
  <2>1. \/ rows[s] = NoRow \/ rows[s] = Ready
        \/ \E f \in Folders : rows[s] = Uploading(f)
    BY <1>2
  <2> QED
    BY <2>1, FirstRows, DeliveredRow, NoneOfThem
<1>6. ASSUME NEW s \in Drafts
      PROVE  /\ context[s] \in CtxRow
             /\ context[s] = NoContext => context[s].folder = NoFolder /\ ~context[s].qc
             /\ context[s] # NoContext => context[s].folder \in Folders
  <2>1. NoContext \in CtxRow /\ NoContext.folder = NoFolder /\ ~NoContext.qc
    BY DEF NoContext, CtxRow, MaybeFolder
  <2>2. context[s] = NoContext \/ context[s] \in [kept : {TRUE}, folder : Folders, qc : {TRUE}]
    OBVIOUS
  <2> QED
    BY <2>1, <2>2 DEF CtxRow, MaybeFolder
<1>7. rows \in [Drafts -> Row]
  BY <1>2, <1>5
<1>8. RowsHold(rows, P)
  <2> SUFFICES ASSUME NEW s \in Drafts PROVE RowHolds(rows[s], P, s)
    BY DEF RowsHold
  <2>1. (\E f \in Folders : <<s, f>> \in P) => rows[s].state # "absent"
    BY <1>1, <1>4, <1>5, <1>6, NoneOfThem
  <2>2. rows[s].files # NoFolder => rows[s].files \in Folders
    BY <1>5
  <2>3. rows[s].files # NoFolder => <<s, rows[s].files>> \in P
    BY <1>4, <2>2
  <2> QED
    BY <1>5, <2>1, <2>3 DEF RowHolds
<1>9. kept \in StoredRow
  BY <1>6, NoUploadIsUp DEF StoredRow
<1>10. \A s \in Drafts : kept.ctx[s].qc =>
         <<s, kept.ctx[s].folder>> \in P /\ rows[s].state # "absent"
  <2> SUFFICES ASSUME NEW s \in Drafts, context[s].qc
               PROVE  <<s, context[s].folder>> \in P /\ rows[s].state # "absent"
    OBVIOUS
  <2>1. context[s] # NoContext /\ context[s].folder \in Folders
    BY <1>6
  <2>2. rows[s].state = "draft"
    BY <1>1, <2>1
  <2> QED
    BY <1>4, <2>1, <2>2
<1>11. page = loadSubmissions(FreshPage(kept), "boot", "showing")
  BY <1>1
<1> HIDE DEF kept
<1>12. page \in PageRow /\ PageHolds(page, rows, P)
  BY <1>7, <1>9, <1>10, <1>11, FreshHolds
<1> QED
  BY <1>3, <1>7, <1>8, <1>12 DEF PageInv, PageTypes, P

LEMMA StepsKeep ==
  ASSUME Stays, PageInv, [PageNext]_pageVars PROVE PageInv'
<1>1. CASE Answers
  <2>1. ASSUME NEW o \in Handlers, createDraftIfNeeded(o) \/ updateMetadata(o) PROVE PageInv'
    BY <2>1, createDraftKeeps, updateMetadataKeeps
  <2>2. ASSUME NEW o \in Submits,
               \/ startSession(o) \/ putManifest(o) \/ createHandoff(o)
               \/ lockSubmissionFiles(o) \/ requestUploading(o) \/ SubmitEnds(o)
        PROVE  PageInv'
    BY <2>2, startSessionKeeps, putManifestKeeps, createHandoffKeeps, lockFilesKeeps,
       requestUploadingKeeps, SubmitEndsKeeps
  <2>3. CASE CreateForAirtable \/ CreateForQc \/ syncAirtable \/ resetAirtable \/ evaluatePack
    BY <2>3, CreateForAirtableKeeps, CreateForQcKeeps, syncAirtableKeeps, resetAirtableKeeps,
       evaluatePackKeeps
  <2>4. CASE \/ ControlTakesEffect \/ ControlIsAnswered \/ PollIsRead \/ pollUploadStatusOnce
             \/ ListIsRead \/ ListArrives \/ TimelinesArrive
    BY <2>4, ControlTakesEffectKeeps, ControlIsAnsweredKeeps, PollIsReadKeeps,
       pollUploadStatusOnceKeeps, ListIsReadKeeps, ListArrivesKeeps, TimelinesArriveKeeps
  <2> QED
    BY <1>1, <2>1, <2>2, <2>3, <2>4 DEF Answers
<1>2. CASE Delivery
  BY <1>2, DeliveryEndsKeeps, DeliveryIsCanceledKeeps, MoveAfterDeliveryKeeps DEF Delivery
<1>3. CASE Clicks
  <2>1. CASE beginNewDraft \/ BackToList \/ FillForm \/ ClickSave \/ runQcCheck
    BY <2>1, beginNewDraftKeeps, LooksKeep, SavesKeep, runQcCheckKeeps
  <2>2. CASE handleCompleteAirtableStep \/ handleResetAirtableStep
    BY <2>2, AirtableStepKeeps, ResetStepKeeps
  <2>3. CASE \E s \in Drafts : openSubmission(s)
    BY <2>3, openSubmissionKeeps
  <2>4. CASE \E f \in Folders : handleSelectPackFolder(f)
    BY <2>4, SelectFolderKeeps
  <2>5. CASE \E o \in Submits : handleSubmitForReview(o)
    BY <2>5, handleSubmitKeeps
  <2>6. CASE \E action \in {"pause", "resume", "cancel"} : handleUploadControlAction(action)
    BY <2>6, ControlActionKeeps
  <2> QED
    BY <1>3, <2>1, <2>2, <2>3, <2>4, <2>5, <2>6 DEF Clicks
<1>4. CASE AutoSave \/ PollTick
  BY <1>4, SavesKeep, PollTickKeeps
<1>5. CASE Disturbances
  BY <1>5, LoadFailsKeeps, RestartKeeps, RequestFailsKeeps, AnswerIsLostKeeps DEF Disturbances
<1>6. CASE UNCHANGED pageVars
  BY <1>6 DEF pageVars, PageInv, PageTypes
<1> QED
  BY <1>1, <1>2, <1>3, <1>4, <1>5, <1>6 DEF PageNext

----------------------------------------------------------------------------

(* workspace-page.js:67-171, 1230-1330, 2100-2330: of a creator who stays    *)
(* with a draft while anything is in flight, the page, its requests and the  *)
(* service's rows agree as PageInv says, whatever fails and whenever the     *)
(* page is started again.                                                    *)
THEOREM PageAgrees == Stays => (PageSpec => []PageInv)
<1> SUFFICES ASSUME Stays PROVE PageSpec => []PageInv
  OBVIOUS
<1>1. PageInit => PageInv
  BY InitHolds
<1>2. PageInv /\ [PageNext]_pageVars => PageInv'
  BY StepsKeep
<1> QED
  BY <1>1, <1>2, PTL DEF PageSpec

(* workspace-page.js:1304, 1827: what is handed over for delivery was found  *)
(* good by a QC run of that submission on that very folder.                  *)
THEOREM OnlyPassedFoldersAreSubmitted == Stays => (PageSpec => []SubmittedFolderPassedQc)
<1>1. PageInv => SubmittedFolderPassedQc
  BY DEF PageInv, RowsHold, RowHolds, SubmittedFolderPassedQc
<1> QED
  BY <1>1, PageAgrees, PTL

(* workspace-page.js:759, 1712, 2298: a verdict that is kept is about the    *)
(* folder that is kept with it, and a verdict the page goes by is kept.      *)
THEOREM VerdictIsKept == Stays => (PageSpec => []VerdictIsKeptWithItsFolder)
<1>1. PageInv => VerdictIsKeptWithItsFolder
  BY DEF PageInv, PageHolds, VerdictKept, VerdictIsKeptWithItsFolder
<1> QED
  BY <1>1, PageAgrees, PTL

----------------------------------------------------------------------------
(* That an upload is watched.  While nothing disturbs a session one submit   *)
(* is under way at a time, and an upload starts when no poll is out, so no   *)
(* late answer of an earlier one stops the polling.                          *)

Early == {"updating", "saved", "starting", "listing", "handing"}
HandedOver(u, s) == u.op["submit"].pc \in {"locking", "moving"} /\ u.op["submit"].sub = s

OneSubmit(u) == u.op["again"].pc = "idle" /\ u.op["control"].pc = "idle"
Watched(u, r) == u.up.id /\ r[u.up.sub].up = "active" => u.timer

(* An upload that goes on is a submit's, or its submission is uploading.     *)
UnderWay(u, r) ==
  \A s \in Drafts :
    /\ r[s].up # "canceled"
    /\ r[s].up = "active" =>
         r[s].report = "none" /\ (r[s].state = "uploading" \/ HandedOver(u, s))

(* Until a submit hands its pack over, nothing is being uploaded or polled.  *)
Quiet(u, r) ==
  u.op["submit"].pc \in Early =>
    /\ u.op["poll"].pc = "idle" /\ ~u.timer
    /\ \A s \in Drafts : r[s].state # "uploading" /\ r[s].report = "none"
    /\ u.load.at = "answered" => \A s \in Drafts : u.load.rows[s].state # "uploading"

(* What a poll, a list or the storage say of an upload that is over is true. *)
PollTold(u, r) ==
  LET p == u.op["poll"]
  IN  /\ p.pc = "asked" /\ ~u.timer => r[p.sub].up # "active"
      /\ p.pc = "answered" /\ p.got = "active" => u.timer
      /\ p.pc = "answered" /\ p.got # "active" => r[p.sub].up # "active"
ListTells(L, r) ==
  \A s \in Drafts :
    L[s].state = "uploading" /\ L[s].up \notin {"none", "active"} => r[s].up # "active"
StoredTells(u, r) ==
  LET x == u.stored.up
  IN  x.id => x.sub \in Drafts /\ (x.status # "active" => r[x.sub].up # "active")

WatchHolds(u, r) ==
  /\ OneSubmit(u) /\ Watched(u, r) /\ UnderWay(u, r) /\ Quiet(u, r) /\ PollTold(u, r)
  /\ u.load.at = "answered" => ListTells(u.load.rows, r)
  /\ StoredTells(u, r)

WatchInv == ~seen.disturbed => WatchHolds(page, rows)

(* What the watching is about, but for the handlers.                         *)
SameWatch(u, v) == v.up = u.up /\ v.timer = u.timer /\ v.stored.up = u.stored.up

LEMMA AtWatch ==
  ASSUME NEW u \in PageRow, NEW o \in Handlers, NEW to
  PROVE  SameWatch(u, At(u, o, to))
BY DEF At, PageRow, SameWatch

LEMMA EndsWatch ==
  ASSUME NEW u \in PageRow, NEW o \in Handlers
  PROVE  SameWatch(u, Ends(u, o))
BY DEF Ends, PageRow, SameWatch

LEMMA ClearWatch ==
  ASSUME NEW u \in PageRow
  PROVE  clearActiveUploadState(u).stored.up = NoUpload
BY DEF clearActiveUploadState, PageRow, StoredRow

LEMMA ApplyWatch ==
  ASSUME NEW u \in PageRow, NEW x \in UpRow, NEW persist \in BOOLEAN
  PROVE  applyUploadState(u, x, persist).stored.up = IF persist THEN x ELSE u.stored.up
<1> DEFINE w == [u EXCEPT !.up = x, !.stored.up = IF persist THEN x ELSE @]
<1>1. w \in PageRow /\ w.stored.up = IF persist THEN x ELSE u.stored.up
  BY DEF PageRow, StoredRow
<1>2. applyUploadState(u, x, persist) = persistDraftContext(w, x.sub)
  BY DEF applyUploadState
<1> HIDE DEF w
<1>3. persistDraftContext(w, x.sub).stored.up = w.stored.up
  BY <1>1 DEF persistDraftContext, PageRow, StoredRow
<1> QED
  BY <1>1, <1>2, <1>3

LEMMA PersistWatch ==
  ASSUME NEW u \in PageRow, NEW s
  PROVE  SameWatch(u, persistDraftContext(u, s))
BY DEF persistDraftContext, PageRow, StoredRow, SameWatch

LEMMA StartPollWatch ==
  ASSUME NEW u \in PageRow
  PROVE  /\ SameWatch(u, StartPoll(u))
         /\ LET v == startUploadStatusPolling(u)
            IN  v.timer /\ v.up = u.up /\ v.stored.up = u.stored.up
BY DEF StartPoll, startUploadStatusPolling, PageRow, SameWatch

----------------------------------------------------------------------------
(* A step of another handler than the submit.                                *)
LEMMA WatchByOther ==
  ASSUME NEW u \in PageRow, NEW v \in PageRow, NEW r \in [Drafts -> Row],
         NEW o \in Handlers \ {"submit", "again", "control"},
         WatchHolds(u, r), SameWatch(u, v), OnlyOp(u, v, o),
         v.load = u.load \/ v.load.at # "answered",
         o = "poll" => \/ v.op[o].pc = "idle"
                       \/ u.op[o].pc # "idle" /\ v.op[o].pc \notin {"asked", "answered"}
  PROVE  WatchHolds(v, r)
<1>0. {"submit", "again", "control", "poll"} \subseteq Handlers
  BY DEF Handlers
<1>1. v.op["submit"] = u.op["submit"] /\ v.op["again"] = u.op["again"] /\ v.op["control"] = u.op["control"]
  BY <1>0 DEF OnlyOp
<1>2. OneSubmit(v) /\ Watched(v, r) /\ StoredTells(v, r) /\ UnderWay(v, r)
  BY <1>1 DEF WatchHolds, OneSubmit, Watched, StoredTells, UnderWay, HandedOver, SameWatch
<1>3. \/ v.op["poll"] = u.op["poll"]
      \/ v.op["poll"].pc = "idle"
      \/ u.op["poll"].pc # "idle" /\ v.op["poll"].pc \notin {"asked", "answered"}
  BY <1>0 DEF OnlyOp
<1>4. Quiet(v, r)
  BY <1>1, <1>3 DEF WatchHolds, Quiet, SameWatch
<1>5. PollTold(v, r)
  BY <1>3 DEF WatchHolds, PollTold, SameWatch
<1> QED
  BY <1>2, <1>4, <1>5 DEF WatchHolds

(* A step of the submit that hands nothing over.                             *)
LEMMA WatchBySubmit ==
  ASSUME NEW u \in PageRow, NEW v \in PageRow, NEW r \in [Drafts -> Row],
         WatchHolds(u, r), SameWatch(u, v), OnlyOp(u, v, "submit"),
         v.load = u.load \/ v.load.at # "answered",
         v.op["submit"].pc \in Early => u.op["submit"].pc \in Early,
         \A s \in Drafts : HandedOver(u, s) =>
           HandedOver(v, s) \/ r[s].up # "active" \/ r[s].state = "uploading"
  PROVE  WatchHolds(v, r)
<1>1. /\ v.op["poll"] = u.op["poll"] /\ v.op["again"] = u.op["again"]
      /\ v.op["control"] = u.op["control"]
  BY DEF OnlyOp, Handlers
<1>2. OneSubmit(v) /\ Watched(v, r) /\ StoredTells(v, r) /\ PollTold(v, r)
  BY <1>1 DEF WatchHolds, OneSubmit, Watched, StoredTells, PollTold, SameWatch
<1>3. UnderWay(v, r)
  BY DEF WatchHolds, UnderWay
<1>4. Quiet(v, r)
  BY <1>1 DEF WatchHolds, Quiet, SameWatch
<1> QED
  BY <1>2, <1>3, <1>4 DEF WatchHolds

(* A step that shows another upload, or none.                                *)
LEMMA WatchByShown ==
  ASSUME NEW u \in PageRow, NEW v \in PageRow, NEW r \in [Drafts -> Row],
         WatchHolds(u, r), v.op = u.op, v.timer = u.timer,
         v.load = u.load \/ v.load.at # "answered",
         Watched(v, r), StoredTells(v, r)
  PROVE  WatchHolds(v, r)
BY DEF WatchHolds, OneSubmit, UnderWay, HandedOver, Quiet, PollTold

(* A step of the service that starts no upload.                              *)
Calmer(r, q) ==
  \A s \in Drafts :
    /\ q[s].up = "active" =>
         r[s].up = "active" /\ q[s].state = r[s].state /\ q[s].report = r[s].report
    /\ q[s].up # "canceled" \/ r[s].up = "canceled"
    /\ q[s].state = "uploading" => r[s].state = "uploading"
    /\ q[s].report # "none" => r[s].report # "none" \/ r[s].up = "active"

LEMMA WatchByRows ==
  ASSUME NEW u \in PageRow, NEW r \in [Drafts -> Row], NEW q \in [Drafts -> Row],
         u.up.id => u.up.sub \in Drafts,
         u.op["poll"].pc # "idle" => u.op["poll"].sub \in Drafts,
         WatchHolds(u, r), Calmer(r, q)
  PROVE  WatchHolds(u, q)
<1>1. Watched(u, q) /\ UnderWay(u, q)
  BY DEF WatchHolds, Watched, UnderWay, Calmer
<1>2. StoredTells(u, q) /\ PollTold(u, q)
  BY DEF WatchHolds, StoredTells, PollTold, Calmer
<1>3. u.load.at = "answered" => ListTells(u.load.rows, q)
  BY DEF WatchHolds, ListTells, Calmer
<1>4. Quiet(u, q)
  <2> SUFFICES ASSUME u.op["submit"].pc \in Early PROVE Quiet(u, q)
    BY DEF Quiet
  <2>1. \A s \in Drafts : r[s].up # "active"
    BY DEF WatchHolds, Quiet, UnderWay, HandedOver, Early
  <2> QED
    BY <2>1 DEF WatchHolds, Quiet, Calmer
<1> QED
  BY <1>1, <1>2, <1>3, <1>4 DEF WatchHolds

----------------------------------------------------------------------------
(* The helpers.                                                              *)

LEMMA ShowOutcomeWatch ==
  ASSUME NEW u \in PageRow, NEW r \in [Drafts -> Row], NEW P, PageHolds(u, r, P),
         Free(u, "poll"), u.op["poll"].pc # "idle", WatchHolds(u, r)
  PROVE  WatchHolds(ShowOutcome(u), r)
<1> DEFINE s == u.op["poll"].sub
           completed == u.op["poll"].got = "completed"
           w == Ends(u, "poll")
           v == [w EXCEPT !.sel = s]
           c == clearActiveUploadState(v)
           x == [c EXCEPT !.mode = "detail"]
           y == [v EXCEPT !.mode = "draft", !.busy = completed, !.ctl = FALSE]
<1>1. "poll" \in Handlers /\ "poll" \notin {"submit", "again", "control"}
  BY DEF Handlers
<1>2. s \in Drafts
  BY <1>1 DEF PageHolds, HandlersHold, OpHolds
<1>3. ShowOutcome(u) \in PageRow
  BY ShowOutcomeHolds
<1>4. ShowOutcome(u) = IF completed /\ u.list[s].state = "under_review" THEN x ELSE y
  BY DEF ShowOutcome
<1>5. /\ w \in PageRow /\ SameWatch(u, w) /\ OnlyOp(u, w, "poll") /\ w.load = u.load
      /\ w.op["poll"].pc = "idle"
  BY <1>1, EndsMoves, EndsWatch
<1> HIDE DEF s, w
<1>6. v \in PageRow /\ SameWatch(w, v) /\ v.op = w.op /\ v.load = w.load
  BY <1>2, <1>5 DEF PageRow, MaybeDraft, SameWatch
<1> HIDE DEF v
<1>7. WatchHolds(v, r)
  BY <1>1, <1>5, <1>6, WatchByOther DEF SameWatch, OnlyOp
<1>8. y \in PageRow /\ SameWatch(v, y) /\ y.op = v.op /\ y.load = v.load
  BY <1>6 DEF PageRow, SameWatch
<1>9. WatchHolds(y, r)
  <2> HIDE DEF y
  <2> QED
    BY <1>6, <1>7, <1>8, WatchByShown DEF WatchHolds, Watched, StoredTells, SameWatch
<1>10. /\ c \in PageRow /\ c.op = v.op /\ c.load = v.load /\ c.timer = v.timer
       /\ c.up = NoUpload /\ c.stored.up = NoUpload
  BY <1>6, ClearMoves, ClearWatch
<1> HIDE DEF c
<1>11. x \in PageRow /\ SameWatch(c, x) /\ x.op = c.op /\ x.load = c.load
  BY <1>10 DEF PageRow, SameWatch
<1>12. WatchHolds(x, r)
  <2> HIDE DEF x
  <2>1. Watched(x, r) /\ StoredTells(x, r)
    BY <1>10, <1>11, NoUploadIsUp DEF Watched, StoredTells, SameWatch
  <2> QED
    BY <1>6, <1>7, <1>10, <1>11, <2>1, WatchByShown DEF SameWatch
<1> QED
  BY <1>4, <1>9, <1>12

(* Early, a submit goes on to start its session; shown, to poll.             *)
LEMMA ContinueWatch ==
  ASSUME NEW u \in PageRow, NEW r \in [Drafts -> Row], NEW P,
         NEW o \in Handlers \ {"again", "control"},
         PageHolds(u, r, P), Free(u, o), WatchHolds(u, r),
         u.op[o].pc \in {"saved", "showing"}
  PROVE  WatchHolds(Continue(u, o), r)
<1>0. /\ Submits = {"submit", "again"} /\ {"syncing", "starting", "polling"} \subseteq Places
      /\ {"submit", "poll"} \subseteq Handlers
  BY DEF Submits, Places, Handlers
<1>1. Continue(u, o) \in PageRow
  BY ContinueHolds
<1>2. CASE o = "poll"
  <2>1. Continue(u, o) = ShowOutcome(u)
    BY <1>0, <1>2 DEF Continue
  <2> QED
    BY <1>2, <2>1, ShowOutcomeWatch
<1>3. CASE o = "airtable"
  <2>1. Continue(u, o) = At(u, o, "syncing")
    BY <1>0, <1>3 DEF Continue
  <2>2. LET v == At(u, o, "syncing") IN SameWatch(u, v) /\ OnlyOp(u, v, o) /\ v.load = u.load
    BY <1>0, AtMoves, AtWatch
  <2> QED
    BY <1>1, <1>3, <2>1, <2>2, WatchByOther
<1>4. CASE o = "submit" /\ u.op[o].pc = "saved"
  <2> DEFINE w == At(u, o, "starting")
             v == [w EXCEPT !.op[o].folder = u.folder]
  <2>1. Continue(u, o) = v
    BY <1>0, <1>4 DEF Continue
  <2>2. /\ w \in PageRow /\ SameWatch(u, w) /\ OnlyOp(u, w, o) /\ w.load = u.load
        /\ w.op[o].pc = "starting"
    BY <1>0, AtMoves, AtWatch
  <2> HIDE DEF w
  <2>3. SameWatch(w, v) /\ OnlyOp(w, v, o) /\ v.load = w.load /\ v.op[o].pc = "starting"
    BY <2>2 DEF PageRow, OpRow, SameWatch, OnlyOp
  <2>4. SameWatch(u, v) /\ OnlyOp(u, v, o) /\ v.load = u.load /\ v.op[o].pc = "starting"
    BY <2>2, <2>3 DEF SameWatch, OnlyOp
  <2> HIDE DEF v
  <2>5. u.op["submit"].pc \in Early /\ \A s \in Drafts : ~HandedOver(u, s)
    BY <1>4 DEF Early, HandedOver
  <2> QED
    BY <1>1, <1>4, <2>1, <2>4, <2>5, WatchBySubmit
<1>5. CASE o = "submit" /\ u.op[o].pc = "showing"
  <2> DEFINE w == StartPoll(u)
             v == At(w, o, "polling")
  <2>1. Continue(u, o) = v
    BY <1>0, <1>5 DEF Continue
  <2>2. /\ w \in PageRow /\ SameWatch(u, w) /\ OnlyOp(u, w, "poll") /\ w.load = u.load
        /\ \/ w.op = u.op
           \/ /\ u.op["poll"].pc = "idle" /\ u.up.id
              /\ w.op["poll"].pc = "asked" /\ w.op["poll"].sub = u.up.sub
    BY StartPollMoves, StartPollWatch
  <2> HIDE DEF w
  <2>3. /\ v \in PageRow /\ SameWatch(w, v) /\ OnlyOp(w, v, o) /\ v.load = w.load
        /\ v.op[o].pc = "polling"
    BY <1>0, <2>2, AtMoves, AtWatch
  <2> HIDE DEF v
  <2>4. /\ SameWatch(u, v) /\ v.load = u.load
        /\ v.op["again"] = u.op["again"] /\ v.op["control"] = u.op["control"]
        /\ v.op["submit"].pc = "polling"
        /\ \/ v.op["poll"] = u.op["poll"]
           \/ u.up.id /\ v.op["poll"].pc = "asked" /\ v.op["poll"].sub = u.up.sub
    BY <1>5, <2>2, <2>3 DEF SameWatch, OnlyOp, Handlers
  <2>5. OneSubmit(v) /\ Watched(v, r) /\ StoredTells(v, r) /\ PollTold(v, r)
    BY <2>4 DEF WatchHolds, OneSubmit, Watched, StoredTells, PollTold, SameWatch
  <2>6. Quiet(v, r)
    BY <2>4 DEF Quiet, Early
  <2>7. UnderWay(v, r)
    BY <1>5 DEF WatchHolds, UnderWay, HandedOver
  <2> QED
    BY <2>1, <2>4, <2>5, <2>6, <2>7 DEF WatchHolds
<1>6. CASE o \notin {"poll", "airtable", "submit"}
  <2>1. Continue(u, o) = Ends(u, o)
    BY <1>0, <1>6 DEF Continue
  <2>2. LET v == Ends(u, o) IN SameWatch(u, v) /\ OnlyOp(u, v, o) /\ v.load = u.load
    BY EndsMoves, EndsWatch
  <2> QED
    BY <1>1, <1>6, <2>1, <2>2, WatchByOther
<1> QED
  BY <1>2, <1>3, <1>4, <1>5, <1>6

LEMMA LoadWatch ==
  ASSUME NEW u \in PageRow, NEW r \in [Drafts -> Row], NEW P,
         NEW o \in Handlers \ {"again", "control"}, NEW to \in {"saved", "showing"},
         PageHolds(At(u, o, to), r, P), Free(u, o), WatchHolds(At(u, o, to), r)
  PROVE  WatchHolds(loadSubmissions(u, o, to), r)
<1> DEFINE w == At(u, o, to)
           v == [w EXCEPT !.load = [@ EXCEPT !.at = "asked", !.by = o]]
<1>1. to \in Places
  BY DEF Places
<1>2. w \in PageRow /\ w.load = u.load /\ w.op[o].pc = to
  BY <1>1, AtMoves
<1>3. PageHolds(w, r, P) /\ WatchHolds(w, r)
  OBVIOUS
<1>4. loadSubmissions(u, o, to) = IF u.load.at # "idle" THEN Continue(w, o) ELSE v
  BY DEF loadSubmissions
<1> HIDE DEF w
<1>5. WatchHolds(Continue(w, o), r)
  BY <1>2, <1>3, ContinueWatch DEF Free
<1>6. v \in PageRow /\ SameWatch(w, v) /\ v.op = w.op /\ v.load.at = "asked"
  BY <1>2 DEF PageRow, LoadRow, SameWatch
<1> HIDE DEF v
<1>7. Watched(v, r) /\ StoredTells(v, r)
  BY <1>3, <1>6 DEF WatchHolds, Watched, StoredTells, SameWatch
<1>8. WatchHolds(v, r)
  BY <1>2, <1>3, <1>6, <1>7, WatchByShown DEF SameWatch
<1> QED
  BY <1>4, <1>5, <1>8

(* Once a submit has handed over, to start polling is never wrong.           *)
LEMMA PollingWatch ==
  ASSUME NEW u \in PageRow, NEW r \in [Drafts -> Row],
         u.op["submit"].pc \notin Early, OneSubmit(u), UnderWay(u, r), PollTold(u, r),
         u.load.at = "answered" => ListTells(u.load.rows, r),
         StoredTells(u, r)
  PROVE  WatchHolds(startUploadStatusPolling(u), r)
<1> DEFINE v == startUploadStatusPolling(u)
<1>1. /\ v \in PageRow /\ OnlyOp(u, v, "poll") /\ v.load = u.load
      /\ v.op = u.op \/ v.op["poll"].pc = "asked"
  BY StartPollingMoves
<1>2. v.timer /\ v.up = u.up /\ v.stored.up = u.stored.up
  BY StartPollWatch
<1> HIDE DEF v
<1>3. /\ v.op["submit"] = u.op["submit"] /\ v.op["again"] = u.op["again"]
      /\ v.op["control"] = u.op["control"]
  BY <1>1 DEF OnlyOp, Handlers
<1>4. OneSubmit(v) /\ Watched(v, r) /\ UnderWay(v, r) /\ Quiet(v, r) /\ StoredTells(v, r)
  BY <1>2, <1>3 DEF OneSubmit, Watched, UnderWay, HandedOver, Quiet, StoredTells
<1>5. PollTold(v, r)
  BY <1>1, <1>2 DEF PollTold
<1>6. WatchHolds(v, r)
  BY <1>1, <1>4, <1>5 DEF WatchHolds
<1> QED
  BY <1>6 DEF v

(* What is found for a submission that is uploading, if it is over, is.      *)
LEMMA FoundTells ==
  ASSUME NEW u \in PageRow, NEW r \in [Drafts -> Row], NEW s \in Drafts,
         u.list[s].state = "uploading", ListTells(u.list, r), StoredTells(u, r)
  PROVE  LET x == getStoredOrSubmissionUploadState(u, s)
         IN  x.id /\ x.status # "active" => r[s].up # "active"
<1> DEFINE row == u.list[s]
           status == IF row.state = "uploading" /\ row.up \notin Surfaced THEN "active" ELSE row.up
           y == [sub |-> s, status |-> status, at |-> row.at, id |-> row.up # "none"]
           z == snapshotUploadStateFromSubmission(u, s)
           x == getStoredOrSubmissionUploadState(u, s)
<1>1. y.id /\ y.status # "active" => r[s].up # "active"
  BY DEF ListTells, Surfaced
<1>2. ~NoUpload.id
  BY NoUploadIsUp
<1>3. z = y \/ z = NoUpload
  BY DEF snapshotUploadStateFromSubmission
<1>4. x = z \/ x = NoUpload \/ (x = u.stored.up /\ u.stored.up.sub = s)
  BY DEF getStoredOrSubmissionUploadState, Listed
<1> HIDE DEF y, z, x
<1>5. x.id /\ x.status # "active" => r[s].up # "active"
  BY <1>1, <1>2, <1>3, <1>4 DEF StoredTells
<1> QED
  BY <1>5 DEF x

LEMMA ShowUploadingWatch ==
  ASSUME NEW u \in PageRow, NEW r \in [Drafts -> Row], WatchHolds(u, r), ListTells(u.list, r),
         u.op["submit"].pc \in Early => \A s \in Drafts : u.list[s].state # "uploading"
  PROVE  WatchHolds(ShowUploading(u), r)
<1> DEFINE s == ActiveUploadSubmission(u)
           x == getStoredOrSubmissionUploadState(u, s)
           a == applyUploadState(u, x, x.id)
           v == [a EXCEPT !.sel = s, !.mode = "draft", !.busy = x.status = "active"]
           shown == Listed(u, s) /\ u.list[s].state = "uploading" /\ x # NoUpload
<1>1. ShowUploading(u) =
        IF shown THEN IF x.id /\ x.status = "active" THEN startUploadStatusPolling(v) ELSE v ELSE u
  BY DEF ShowUploading
<1>2. CASE ~shown
  BY <1>1, <1>2
<1>3. CASE shown
  <2>1. s \in Drafts /\ u.op["submit"].pc \notin Early
    BY <1>3 DEF Listed
  <2>2. x \in UpRow /\ x.sub = s
    BY <1>3, <2>1, StoredIsItsOwn
  <2>3. x.id /\ x.status # "active" => r[s].up # "active"
    BY <1>3, <2>1, FoundTells DEF WatchHolds
  <2>4. x.id \in BOOLEAN
    BY <2>2 DEF UpRow
  <2> HIDE DEF s, x
  <2>5. /\ a \in PageRow /\ a.up = x /\ a.timer = u.timer /\ a.op = u.op /\ a.load = u.load
        /\ a.stored.up = IF x.id THEN x ELSE u.stored.up
    BY <2>2, <2>4, ApplyMoves, ApplyWatch
  <2> HIDE DEF a
  <2>6. v \in PageRow /\ SameWatch(a, v) /\ v.op = a.op /\ v.load = a.load
    BY <2>1, <2>5 DEF PageRow, MaybeDraft, SameWatch
  <2> HIDE DEF v
  <2>7. StoredTells(v, r)
    BY <2>1, <2>2, <2>3, <2>4, <2>5, <2>6 DEF WatchHolds, StoredTells, SameWatch
  <2>8. ASSUME ~(x.id /\ x.status = "active") PROVE WatchHolds(v, r)
    <3>1. Watched(v, r)
      BY <2>2, <2>3, <2>5, <2>6, <2>8 DEF Watched, SameWatch
    <3> QED
      BY <2>5, <2>6, <2>7, <3>1, WatchByShown DEF SameWatch
  <2>9. WatchHolds(startUploadStatusPolling(v), r)
    <3>1. OneSubmit(v) /\ UnderWay(v, r)
      BY <2>5, <2>6 DEF WatchHolds, OneSubmit, UnderWay, HandedOver
    <3>2. PollTold(v, r)
      BY <2>5, <2>6 DEF WatchHolds, PollTold, SameWatch
    <3> QED
      BY <2>1, <2>5, <2>6, <2>7, <3>1, <3>2, PollingWatch DEF WatchHolds
  <2> QED
    BY <1>1, <1>3, <2>8, <2>9
<1> QED
  BY <1>2, <1>3

(* What saves is not the submit; its save is in its click.                   *)
LEMMA SaveWatch ==
  ASSUME NEW u \in PageRow, NEW r \in [Drafts -> Row], NEW P,
         NEW o \in Handlers \ {"submit", "again", "control", "poll"},
         PageHolds(u, r, P), Free(u, o), WatchHolds(u, r)
  PROVE  WatchHolds(saveMetadata(u, o), r)
<1>0. /\ {"saved", "creating", "updating"} \subseteq Places /\ "done" \in Gots /\ "none" \in Gots
      /\ o \notin Submits
  BY DEF Places, Gots, Outcomes, Submits
<1>1. saveMetadata(u, o) \in PageRow
  BY <1>0, SaveHolds
<1>2. CASE ~u.full
  <2> DEFINE w == At(u, o, "saved")
  <2>1. saveMetadata(u, o) = Continue(w, o)
    BY <1>2 DEF saveMetadata
  <2>2. /\ w \in PageRow /\ OnlyOp(u, w, o) /\ w.load = u.load /\ SameWatch(u, w)
        /\ w.op[o].pc = "saved"
    BY <1>0, AtMoves, AtWatch
  <2>3. OpHolds(w, r, P, o)
    BY <1>0, AtMoves DEF OpHolds
  <2>4. PageHolds(w, r, P)
    BY <1>0, <2>3, AtHolds DEF Free
  <2> HIDE DEF w
  <2>5. WatchHolds(w, r)
    BY <2>2, WatchByOther
  <2> QED
    BY <2>1, <2>2, <2>4, <2>5, ContinueWatch DEF Free
<1>3. CASE u.full /\ u.draft = NoDraft
  <2>1. saveMetadata(u, o) = At(u, o, "creating")
    BY <1>3 DEF saveMetadata
  <2>2. LET v == At(u, o, "creating") IN SameWatch(u, v) /\ OnlyOp(u, v, o) /\ v.load = u.load
    BY <1>0, AtMoves, AtWatch
  <2> QED
    BY <1>1, <2>1, <2>2, WatchByOther
<1>4. CASE u.full /\ u.draft # NoDraft
  <2> DEFINE v == [At(u, o, "updating") EXCEPT !.op[o].sub = u.draft,
                                              !.op[o].got = IF u.done THEN "done" ELSE "none"]
  <2>1. saveMetadata(u, o) = v
    BY <1>4 DEF saveMetadata
  <2>2. LET w == At(u, o, "updating")
        IN  w \in PageRow /\ SameWatch(u, w) /\ OnlyOp(u, w, o) /\ w.load = u.load
    BY <1>0, AtMoves, AtWatch
  <2>3. SameWatch(u, v) /\ OnlyOp(u, v, o) /\ v.load = u.load
    BY <2>2 DEF PageRow, SameWatch, OnlyOp
  <2> QED
    BY <1>1, <2>1, <2>3, WatchByOther
<1> QED
  BY <1>2, <1>3, <1>4

----------------------------------------------------------------------------
(* The creator's clicks.                                                     *)

LEMMA WatchBase ==
  ASSUME PageInv
  PROVE  /\ page \in PageRow /\ rows \in [Drafts -> Row] /\ PageHolds(page, rows, seen.passed)
         /\ page.up.id => page.up.sub \in Drafts
         /\ page.op["poll"].pc # "idle" => page.op["poll"].sub \in Drafts
<1>1. page \in PageRow /\ rows \in [Drafts -> Row] /\ PageHolds(page, rows, seen.passed)
  BY DEF PageInv, PageTypes
<1>2. page.up.id => page.up.sub \in Drafts
  BY <1>1 DEF PageHolds, HandlersHold, UpHolds
<1>3. "poll" \in Handlers
  BY DEF Handlers
<1>4. OpHolds(page, rows, seen.passed, "poll")
  BY <1>1, <1>3 DEF PageHolds, HandlersHold
<1> QED
  BY <1>1, <1>2, <1>4 DEF OpHolds

(* A step of the page that changes neither the upload nor a handler.         *)
LEMMA LooksWatch ==
  ASSUME NEW u \in PageRow, NEW v \in PageRow, NEW r \in [Drafts -> Row],
         WatchHolds(u, r), SameWatch(u, v), v.op = u.op, v.load = u.load
  PROVE  WatchHolds(v, r)
<1>1. Watched(v, r) /\ StoredTells(v, r)
  BY DEF WatchHolds, Watched, StoredTells, SameWatch
<1> QED
  BY <1>1, WatchByShown DEF SameWatch

LEMMA LooksKeepWatch ==
  ASSUME PageInv, PageInv', beginNewDraft \/ BackToList \/ FillForm, WatchHolds(page, rows)
  PROVE  WatchHolds(page', rows')
<1>1. page \in PageRow /\ page' \in PageRow /\ rows \in [Drafts -> Row] /\ UNCHANGED rows
  BY DEF PageInv, PageTypes, beginNewDraft, BackToList, FillForm
<1>2. SameWatch(page, page') /\ page'.op = page.op /\ page'.load = page.load
  BY <1>1 DEF beginNewDraft, BackToList, FillForm, PageRow, SameWatch
<1> QED
  BY <1>1, <1>2, LooksWatch

LEMMA SelectFolderWatch ==
  ASSUME PageInv, PageInv', NEW f \in Folders, handleSelectPackFolder(f), WatchHolds(page, rows)
  PROVE  WatchHolds(page', rows')
<1> DEFINE qc == [s \in Drafts |-> page.qc[s] /\ (s # page.draft \/ f = page.folder)]
           w == [page EXCEPT !.folder = f, !.qc = qc]
<1>1. page \in PageRow /\ page' \in PageRow /\ rows \in [Drafts -> Row] /\ UNCHANGED rows
  BY DEF PageInv, PageTypes, handleSelectPackFolder
<1>2. page' = persistDraftContext(w, page.draft)
  BY <1>1 DEF handleSelectPackFolder, PageRow
<1>3. qc \in [Drafts -> BOOLEAN]
  BY <1>1 DEF PageRow
<1> HIDE DEF qc
<1>4. w \in PageRow /\ SameWatch(page, w) /\ w.op = page.op /\ w.load = page.load
  BY <1>1, <1>3 DEF PageRow, MaybeFolder, SameWatch
<1>5. page.draft \in MaybeDraft
  BY <1>1 DEF PageRow
<1> HIDE DEF w
<1>6. SameWatch(w, page') /\ page'.op = w.op /\ page'.load = w.load
  BY <1>2, <1>4, <1>5, PersistMoves, PersistWatch
<1>7. SameWatch(page, page') /\ page'.op = page.op /\ page'.load = page.load
  BY <1>4, <1>6 DEF SameWatch
<1> QED
  BY <1>1, <1>7, LooksWatch

LEMMA SavesWatch ==
  ASSUME PageInv, ClickSave \/ AutoSave, WatchHolds(page, rows)
  PROVE  WatchHolds(page', rows')
<1>1. PICK o \in {"save", "auto"} :
        page.op[o].pc = "idle" /\ page' = saveMetadata(page, o) /\ UNCHANGED rows
  BY DEF ClickSave, AutoSave, Is
<1>2. o \in Handlers \ {"submit", "again", "control", "poll"}
  BY DEF Handlers
<1>3. Free(page, o)
  BY <1>1, <1>2, NotLoading
<1> QED
  BY <1>1, <1>2, <1>3, WatchBase, SaveWatch

(* A handler that is moved from one place to the next.                       *)
LEMMA AtOtherWatch ==
  ASSUME NEW u \in PageRow, NEW r \in [Drafts -> Row],
         NEW o \in Handlers \ {"submit", "again", "control", "poll"}, NEW to \in Places,
         WatchHolds(u, r)
  PROVE  WatchHolds(At(u, o, to), r)
<1>1. LET v == At(u, o, to)
      IN  v \in PageRow /\ OnlyOp(u, v, o) /\ v.load = u.load /\ SameWatch(u, v)
  BY AtMoves, AtWatch
<1> QED
  BY <1>1, WatchByOther

LEMMA EndsOtherWatch ==
  ASSUME NEW u \in PageRow, NEW r \in [Drafts -> Row],
         NEW o \in Handlers \ {"submit", "again", "control"}, WatchHolds(u, r)
  PROVE  WatchHolds(Ends(u, o), r)
<1>1. LET v == Ends(u, o)
      IN  /\ v \in PageRow /\ OnlyOp(u, v, o) /\ v.load = u.load /\ SameWatch(u, v)
          /\ v.op[o].pc = "idle"
  BY EndsMoves, EndsWatch
<1> QED
  BY <1>1, WatchByOther

LEMMA MarkAirtableWatch ==
  ASSUME NEW u \in PageRow, NEW r \in [Drafts -> Row], NEW P, NEW s \in Drafts,
         PageHolds(u, r, P), Free(u, "airtable"), WatchHolds(u, r),
         r[s].state # "absent", Attested(u, P, s)
  PROVE  WatchHolds(MarkAirtable(u, s), r)
<1> DEFINE row == [u.op["airtable"] EXCEPT !.sub = s]
           w == [u EXCEPT !.sel = s, !.draft = s, !.done = TRUE, !.op["airtable"].sub = s]
           v == [u EXCEPT !.sel = s, !.draft = s, !.done = TRUE, !.op["airtable"] = row]
<1>1. "airtable" \in Handlers \ {"submit", "again", "control", "poll"}
  BY DEF Handlers
<1>2. w = v
  BY <1>1 DEF PageRow, OpRow
<1>3. row \in OpRow /\ row.pc = u.op["airtable"].pc /\ row.sub = s
  BY <1>1 DEF PageRow, OpRow, MaybeDraft
<1> HIDE DEF row
<1>4. /\ v \in PageRow /\ SameWatch(u, v) /\ OnlyOp(u, v, "airtable") /\ v.load = u.load
      /\ v.op["airtable"] = row /\ v.draft = s
      /\ v.list = u.list /\ v.folder = u.folder /\ v.qc = u.qc /\ v.stored = u.stored
  BY <1>1, <1>3 DEF PageRow, MaybeDraft, SameWatch, OnlyOp
<1>5. MarkAirtable(u, s) = saveMetadata(v, "airtable")
  BY <1>2 DEF MarkAirtable
<1> HIDE DEF v
<1>6. WatchHolds(v, r)
  BY <1>1, <1>4, WatchByOther
<1>7. PageHolds(v, r, P) /\ Free(v, "airtable")
  <2>1. OpHolds(v, r, P, "airtable")
    <3>1. OpHolds(u, r, P, "airtable")
      BY <1>1 DEF PageHolds, HandlersHold
    <3> QED
      BY <1>3, <1>4, <3>1 DEF OpHolds, Submits, Attested
  <2>2. DraftHolds(v, r, P)
    BY <1>4 DEF DraftHolds, Attested
  <2>3. UpHolds(v, P)
    BY <1>4 DEF PageHolds, HandlersHold, UpHolds, Submitting, Submits, Handlers, OnlyOp,
         Attested, SameWatch
  <2>4. LoadHolds(v)
    BY <1>4 DEF PageHolds, HandlersHold, LoadHolds, OnlyOp, PageRow, LoadRow, Free
  <2> QED
    BY <1>1, <1>4, <2>1, <2>2, <2>3, <2>4, HoldsByDraft DEF Free
<1> QED
  BY <1>1, <1>4, <1>5, <1>6, <1>7, SaveWatch

LEMMA AirtableStepWatch ==
  ASSUME PageInv, handleCompleteAirtableStep, WatchHolds(page, rows)
  PROVE  WatchHolds(page', rows')
<1>1. /\ page.op["airtable"].pc = "idle" /\ UNCHANGED rows
      /\ page' = IF page.draft = NoDraft THEN At(page, "airtable", "drafting")
                 ELSE MarkAirtable(page, page.draft)
  BY DEF handleCompleteAirtableStep, Is
<1>2. /\ "airtable" \in Handlers \ {"submit", "again", "control", "poll"}
      /\ "drafting" \in Places
  BY DEF Handlers, Places
<1>3. Free(page, "airtable")
  BY <1>1, <1>2, NotLoading
<1>4. page \in PageRow /\ rows \in [Drafts -> Row] /\ PageHolds(page, rows, seen.passed)
  BY WatchBase
<1>5. WatchHolds(At(page, "airtable", "drafting"), rows)
  BY <1>2, <1>4, AtOtherWatch
<1>6. ASSUME page.draft # NoDraft PROVE WatchHolds(MarkAirtable(page, page.draft), rows)
  <2>1. page.draft \in Drafts
    BY <1>4, <1>6 DEF PageRow, MaybeDraft
  <2>2. rows[page.draft].state # "absent" /\ Attested(page, seen.passed, page.draft)
    BY <1>4, <2>1 DEF PageHolds, HandlersHold, DraftHolds
  <2> QED
    BY <1>3, <1>4, <2>1, <2>2, MarkAirtableWatch
<1> QED
  BY <1>1, <1>5, <1>6

LEMMA ResetPageWatch ==
  ASSUME NEW u \in PageRow, NEW r \in [Drafts -> Row], WatchHolds(u, r)
  PROVE  WatchHolds(ResetPage(u), r)
<1> DEFINE v == ResetPage(u)
<1>1. v \in PageRow /\ SameWatch(u, v) /\ v.op = u.op /\ v.load = u.load
  BY DEF ResetPage, PageRow, SameWatch
<1> HIDE DEF v
<1>2. WatchHolds(v, r)
  BY <1>1, LooksWatch
<1> QED
  BY <1>2 DEF v

LEMMA ResetStepWatch ==
  ASSUME PageInv, PageInv', handleResetAirtableStep, WatchHolds(page, rows)
  PROVE  WatchHolds(page', rows')
<1> DEFINE w == At(page, "reset", "resetting")
<1>1. page.op["reset"].pc = "idle" /\ UNCHANGED rows
  BY DEF handleResetAirtableStep, Is
<1>2. /\ "reset" \in Handlers \ {"submit", "again", "control", "poll"}
      /\ "resetting" \in Places
  BY DEF Handlers, Places
<1>3. Free(page, "reset")
  BY <1>1, <1>2, NotLoading
<1>4. page \in PageRow /\ rows \in [Drafts -> Row] /\ PageHolds(page, rows, seen.passed)
  BY WatchBase
<1>5. CASE page' = saveMetadata(ResetPage(page), "reset")
  <2>1. /\ ResetPage(page) \in PageRow /\ PageHolds(ResetPage(page), rows, seen.passed)
        /\ Free(ResetPage(page), "reset")
    BY <1>3, <1>4, ResetPageHolds DEF Free
  <2> QED
    BY <1>1, <1>2, <1>4, <1>5, <2>1, ResetPageWatch, SaveWatch
<1>6. CASE page' = [w EXCEPT !.op["reset"].sub = page.draft]
  <2>1. w \in PageRow /\ OnlyOp(page, w, "reset") /\ w.load = page.load /\ SameWatch(page, w)
    BY <1>2, <1>4, AtMoves, AtWatch
  <2> HIDE DEF w
  <2>2. OnlyOp(page, page', "reset") /\ page'.load = page.load /\ SameWatch(page, page')
    BY <1>6, <2>1 DEF PageRow, OnlyOp, SameWatch
  <2>3. page' \in PageRow
    BY DEF PageInv, PageTypes
  <2> QED
    BY <1>1, <1>2, <1>4, <2>2, <2>3, WatchByOther
<1> QED
  BY <1>5, <1>6 DEF handleResetAirtableStep

LEMMA AskQcWatch ==
  ASSUME NEW u \in PageRow, NEW r \in [Drafts -> Row], NEW P, NEW s \in Drafts,
         PageHolds(u, r, P), Free(u, "qc"), r[s].state # "absent", WatchHolds(u, r)
  PROVE  WatchHolds(AskQc(u, s), r)
<1> DEFINE w == At(u, "qc", "evaluating")
           v == [w EXCEPT !.sel = s, !.op["qc"].sub = s, !.op["qc"].folder = u.folder]
<1>1. "qc" \in Handlers \ {"submit", "again", "control", "poll"} /\ "evaluating" \in Places
  BY DEF Handlers, Places
<1>2. w \in PageRow /\ OnlyOp(u, w, "qc") /\ w.load = u.load /\ SameWatch(u, w)
  BY <1>1, AtMoves, AtWatch
<1>3. AskQc(u, s) = v
  BY DEF AskQc
<1> HIDE DEF w
<1>4. OnlyOp(u, v, "qc") /\ v.load = u.load /\ SameWatch(u, v)
  BY <1>2 DEF PageRow, OnlyOp, SameWatch
<1>5. v \in PageRow
  BY <1>3, AskQcHolds
<1> QED
  BY <1>1, <1>3, <1>4, <1>5, WatchByOther

LEMMA runQcCheckWatch ==
  ASSUME PageInv, runQcCheck, WatchHolds(page, rows) PROVE WatchHolds(page', rows')
<1> DEFINE u == [page EXCEPT !.qcRun = TRUE]
<1>1. /\ page.op["qc"].pc = "idle" /\ UNCHANGED rows
      /\ page' = IF page.draft = NoDraft THEN At(u, "qc", "drafting") ELSE AskQc(u, page.draft)
  BY DEF runQcCheck, Is
<1>2. page \in PageRow /\ rows \in [Drafts -> Row] /\ PageHolds(page, rows, seen.passed)
  BY WatchBase
<1>3. "qc" \in Handlers \ {"submit", "again", "control", "poll"} /\ "drafting" \in Places
  BY DEF Handlers, Places
<1>4. /\ u \in PageRow /\ SameDraft(page, u) /\ SameUpload(page, u) /\ SameWatch(page, u)
      /\ u.op = page.op /\ u.load = page.load
  BY <1>2 DEF PageRow, SameDraft, SameUpload, SameWatch
<1>5. Free(u, "qc")
  BY <1>1, <1>3, <1>4, NotLoading DEF Free
<1> HIDE DEF u
<1>6. PageHolds(u, rows, seen.passed) /\ WatchHolds(u, rows)
  BY <1>2, <1>4, HoldsByLooks, LooksWatch
<1>7. ASSUME page.draft # NoDraft PROVE WatchHolds(AskQc(u, page.draft), rows)
  <2>1. page.draft \in Drafts
    BY <1>2, <1>7 DEF PageRow, MaybeDraft
  <2>2. rows[page.draft].state # "absent"
    BY <1>2, <2>1 DEF PageHolds, HandlersHold, DraftHolds
  <2> QED
    BY <1>2, <1>4, <1>5, <1>6, <2>1, <2>2, AskQcWatch
<1> QED
  BY <1>1, <1>2, <1>3, <1>4, <1>6, <1>7, AtOtherWatch

----------------------------------------------------------------------------
(* The requests that start no upload.                                        *)

LEMMA RowsWatch ==
  ASSUME PageInv, NEW q \in [Drafts -> Row], Calmer(rows, q), WatchHolds(page, rows)
  PROVE  WatchHolds(page, q)
BY WatchBase, WatchByRows

LEMMA CreateWatch ==
  ASSUME PageInv, NEW s \in Fresh, Create(s, page.done), WatchHolds(page, rows)
  PROVE  WatchHolds(page, rows')
<1> DEFINE row == [NoRow EXCEPT !.state = "draft", !.done = page.done]
<1>1. rows' \in [Drafts -> Row] /\ rows \in [Drafts -> Row] /\ s \in Drafts
  BY CreateHolds, WatchBase
<1>2. rows' = [rows EXCEPT ![s] = row]
  BY DEF Create
<1>3. row.state = "draft" /\ row.up = "none" /\ row.report = "none"
  BY DEF NoRow
<1> HIDE DEF row
<1>4. Calmer(rows, rows')
  BY <1>1, <1>2, <1>3 DEF Calmer
<1> QED
  BY <1>1, <1>4, RowsWatch

LEMMA CreateForAirtableWatch ==
  ASSUME PageInv, CreateForAirtable, WatchHolds(page, rows) PROVE WatchHolds(page', rows')
<1>1. PICK s \in Fresh :
        /\ page.op["airtable"].pc = "drafting" /\ Create(s, page.done)
        /\ page' = MarkAirtable(page, s)
  BY DEF CreateForAirtable, Is
<1>2. page \in PageRow /\ "airtable" \in Handlers
  BY WatchBase DEF Handlers
<1>3. /\ s \in Drafts /\ rows' \in [Drafts -> Row]
      /\ PageHolds(page, rows', seen.passed) /\ rows'[s].state # "absent"
      /\ Attested(page, seen.passed, s)
  BY <1>1, CreateHolds
<1>4. Free(page, "airtable")
  BY <1>1, <1>2, NotLoading
<1>5. WatchHolds(page, rows')
  BY <1>1, CreateWatch
<1> QED
  BY <1>1, <1>2, <1>3, <1>4, <1>5, MarkAirtableWatch

LEMMA CreateForQcWatch ==
  ASSUME PageInv, PageInv', CreateForQc, WatchHolds(page, rows)
  PROVE  WatchHolds(page', rows')
<1>1. PICK s \in Fresh :
        /\ page.op["qc"].pc = "drafting" /\ Create(s, page.done)
        /\ page' = AskQc([page EXCEPT !.draft = s], s)
  BY DEF CreateForQc, Is
<1> DEFINE v == [page EXCEPT !.draft = s]
           w == At(v, "qc", "evaluating")
<1>2. page \in PageRow /\ "qc" \in Handlers \ {"submit", "again", "control", "poll"}
      /\ "evaluating" \in Places
  BY WatchBase DEF Handlers, Places
<1>3. s \in Drafts /\ rows' \in [Drafts -> Row]
  BY <1>1, CreateHolds
<1>4. /\ v \in PageRow /\ SameWatch(page, v) /\ v.op = page.op /\ v.load = page.load
  BY <1>2, <1>3 DEF PageRow, MaybeDraft, SameWatch
<1>5. page' = [w EXCEPT !.sel = s, !.op["qc"].sub = s, !.op["qc"].folder = v.folder]
  BY <1>1 DEF AskQc
<1> HIDE DEF v
<1>6. WatchHolds(w, rows')
  BY <1>1, <1>2, <1>3, <1>4, CreateWatch, LooksWatch, AtOtherWatch
<1>7. w \in PageRow
  BY <1>2, <1>4, AtMoves
<1> HIDE DEF w
<1>8. SameWatch(w, page') /\ OnlyOp(w, page', "qc") /\ page'.load = w.load
  BY <1>5, <1>7 DEF PageRow, SameWatch, OnlyOp
<1>9. page' \in PageRow
  BY DEF PageInv, PageTypes
<1> QED
  BY <1>2, <1>3, <1>6, <1>7, <1>8, <1>9, WatchByOther

LEMMA createDraftWatch ==
  ASSUME PageInv, PageInv', NEW o \in Handlers, createDraftIfNeeded(o), WatchHolds(page, rows)
  PROVE  WatchHolds(page', rows')
<1>1. PICK s \in Fresh :
        /\ page.op[o].pc = "creating" /\ Create(s, page.done)
        /\ page' = [At(page, o, "updating") EXCEPT !.draft = s, !.op[o].sub = s,
                      !.op[o].got = IF page.done THEN "done" ELSE "none"]
  BY DEF createDraftIfNeeded, Is
<1> DEFINE w == At(page, o, "updating")
<1>2. page \in PageRow /\ PageHolds(page, rows, seen.passed) /\ "updating" \in Places
  BY WatchBase DEF Places
<1>3. o \notin Submits \union {"control"}
  <2>1. OpHolds(page, rows, seen.passed, o)
    BY <1>2 DEF PageHolds, HandlersHold
  <2>2. o \notin Submits
    BY <1>1, <2>1 DEF OpHolds
  <2> QED
    BY <1>1, <2>2 DEF WatchHolds, OneSubmit
<1>4. page' \in PageRow /\ rows' \in [Drafts -> Row]
  BY DEF PageInv, PageTypes
<1>5. /\ w \in PageRow /\ SameWatch(page, w) /\ OnlyOp(page, w, o) /\ w.load = page.load
      /\ w.op[o].pc = "updating"
  BY <1>2, AtMoves, AtWatch
<1> HIDE DEF w
<1>6. SameWatch(page, page') /\ OnlyOp(page, page', o) /\ page'.load = page.load
      /\ page'.op[o].pc = "updating"
  BY <1>1, <1>5 DEF PageRow, OpRow, SameWatch, OnlyOp, w
<1>7. WatchHolds(page, rows')
  BY <1>1, CreateWatch
<1> QED
  BY <1>1, <1>2, <1>3, <1>4, <1>6, <1>7, WatchByOther DEF Submits

(* The fields of a submission's form are stored.                             *)
LEMMA FieldsWatch ==
  ASSUME PageInv, NEW s, NEW done, NEW linked, rows' \in [Drafts -> Row],
         WatchHolds(page, rows),
         \/ rows' = [rows EXCEPT ![s].done = done, ![s].linked = linked]
         \/ rows' = [rows EXCEPT ![s].done = done]
  PROVE  WatchHolds(page, rows')
<1>1. rows \in [Drafts -> Row]
  BY WatchBase
<1>2. ASSUME NEW t \in Drafts
      PROVE  /\ rows'[t].up = rows[t].up /\ rows'[t].state = rows[t].state
             /\ rows'[t].report = rows[t].report
  BY <1>1 DEF Row
<1>3. Calmer(rows, rows')
  BY <1>2 DEF Calmer
<1> QED
  BY <1>3, RowsWatch

LEMMA SameFieldsHold ==
  ASSUME PageInv, NEW s, NEW done, NEW linked, rows' \in [Drafts -> Row],
         \/ rows' = [rows EXCEPT ![s].done = done, ![s].linked = linked]
         \/ rows' = [rows EXCEPT ![s].done = done]
  PROVE  PageHolds(page, rows', seen.passed)
<1>1. page \in PageRow /\ rows \in [Drafts -> Row] /\ PageHolds(page, rows, seen.passed)
  BY WatchBase
<1>2. ASSUME NEW t \in Drafts
      PROVE  /\ rows'[t].state = rows[t].state /\ rows'[t].path = rows[t].path
             /\ rows'[t].files = rows[t].files
  BY <1>1 DEF Row
<1> QED
  BY <1>1, <1>2, HoldsByRows

(* What is saved is no longer asked for.                                     *)
LEMMA SavedWatch ==
  ASSUME NEW u \in PageRow, NEW r \in [Drafts -> Row],
         NEW o \in Handlers \ {"again", "control"}, u.op[o].pc = "updating", WatchHolds(u, r)
  PROVE  WatchHolds(At(u, o, "saved"), r)
<1> DEFINE v == At(u, o, "saved")
<1>1. "saved" \in Places
  BY DEF Places
<1>2. /\ v \in PageRow /\ OnlyOp(u, v, o) /\ v.load = u.load /\ SameWatch(u, v)
      /\ v.op[o].pc = "saved"
  BY <1>1, AtMoves, AtWatch
<1> HIDE DEF v
<1>3. ASSUME o = "submit" PROVE WatchHolds(v, r)
  <2>1. OnlyOp(u, v, "submit") /\ v.op["submit"].pc \in Early /\ u.op["submit"].pc \in Early
    BY <1>2, <1>3 DEF Early
  <2>2. \A s \in Drafts : ~HandedOver(u, s)
    BY <1>3 DEF HandedOver
  <2> QED
    BY <1>2, <2>1, <2>2, WatchBySubmit
<1>4. ASSUME o # "submit" PROVE WatchHolds(v, r)
  <2>1. o \in Handlers \ {"submit", "again", "control"}
    BY <1>4
  <2>2. u.op[o].pc # "idle" /\ v.op[o].pc \notin {"asked", "answered"}
    BY <1>2
  <2> QED
    BY <1>2, <2>1, <2>2, WatchByOther
<1> QED
  BY <1>3, <1>4 DEF v

LEMMA updateMetadataWatch ==
  ASSUME PageInv, PageInv', NEW o \in Handlers, updateMetadata(o), WatchHolds(page, rows)
  PROVE  WatchHolds(page', rows')
<1> DEFINE P == seen.passed
           s == page.op[o].sub
           w == [page EXCEPT !.sel = s]
<1>1. /\ page.op[o].pc = "updating"
      /\ rows' = [rows EXCEPT ![s].done = page.op[o].got = "done"]
      /\ page' = loadSubmissions(w, o, "saved")
  BY DEF updateMetadata, Is, Sub
<1>2. page \in PageRow /\ rows \in [Drafts -> Row] /\ rows' \in [Drafts -> Row]
  BY DEF PageInv, PageTypes
<1>3. s \in MaybeDraft
  BY <1>2 DEF PageRow, OpRow
<1>4. WatchHolds(page, rows')
  BY <1>1, <1>2, FieldsWatch
<1>5. PageHolds(page, rows', P)
  BY <1>1, <1>2, SameFieldsHold
<1> HIDE DEF s
<1>6. /\ w \in PageRow /\ SameDraft(page, w) /\ SameUpload(page, w) /\ w.op = page.op
      /\ w.load = page.load /\ SameWatch(page, w)
  BY <1>2, <1>3 DEF PageRow, SameDraft, SameUpload, SameWatch
<1> HIDE DEF w
<1>7. PageHolds(w, rows', P) /\ WatchHolds(w, rows')
  BY <1>2, <1>4, <1>5, <1>6, HoldsByLooks, LooksWatch
<1>8. Free(w, o) /\ o \notin {"again", "control"}
  BY <1>1, <1>6, NotLoading DEF Free, WatchHolds, OneSubmit
<1>9. PageHolds(At(w, o, "saved"), rows', P) /\ WatchHolds(At(w, o, "saved"), rows')
  BY <1>1, <1>2, <1>6, <1>7, <1>8, SavedHolds, SavedWatch
<1> QED
  BY <1>1, <1>2, <1>6, <1>8, <1>9, LoadWatch

LEMMA syncAirtableWatch ==
  ASSUME PageInv, PageInv', syncAirtable, WatchHolds(page, rows) PROVE WatchHolds(page', rows')
<1> DEFINE w == Ends(page, "airtable")
<1>1. PICK linked \in BOOLEAN :
        /\ rows' = [rows EXCEPT ![Sub("airtable")].done = linked, ![Sub("airtable")].linked = linked]
        /\ page' = [w EXCEPT !.done = linked, !.linked = linked]
  BY DEF syncAirtable
<1>2. page \in PageRow /\ page' \in PageRow /\ rows' \in [Drafts -> Row]
  BY DEF PageInv, PageTypes
<1>3. "airtable" \in Handlers \ {"submit", "again", "control"}
  BY DEF Handlers
<1>4. WatchHolds(page, rows')
  BY <1>1, <1>2, FieldsWatch
<1>5. w \in PageRow /\ WatchHolds(w, rows')
  BY <1>2, <1>3, <1>4, EndsMoves, EndsOtherWatch
<1> HIDE DEF w
<1>6. SameWatch(w, page') /\ page'.op = w.op /\ page'.load = w.load
  BY <1>1, <1>5 DEF PageRow, SameWatch
<1> QED
  BY <1>2, <1>5, <1>6, LooksWatch

LEMMA resetAirtableWatch ==
  ASSUME PageInv, PageInv', resetAirtable, WatchHolds(page, rows) PROVE WatchHolds(page', rows')
<1>1. /\ page.op["reset"].pc = "resetting"
      /\ rows' = [rows EXCEPT ![Sub("reset")].done = FALSE, ![Sub("reset")].linked = FALSE]
      /\ page' = saveMetadata(ResetPage(page), "reset")
  BY DEF resetAirtable, Is
<1>2. page \in PageRow /\ rows' \in [Drafts -> Row]
  BY DEF PageInv, PageTypes
<1>3. "reset" \in Handlers \ {"submit", "again", "control", "poll"}
  BY DEF Handlers
<1>4. WatchHolds(page, rows') /\ PageHolds(page, rows', seen.passed)
  BY <1>1, <1>2, FieldsWatch, SameFieldsHold
<1>5. Free(page, "reset")
  BY <1>1, <1>3, NotLoading
<1>6. /\ ResetPage(page) \in PageRow /\ PageHolds(ResetPage(page), rows', seen.passed)
      /\ Free(ResetPage(page), "reset") /\ WatchHolds(ResetPage(page), rows')
  BY <1>2, <1>4, <1>5, ResetPageHolds, ResetPageWatch DEF Free
<1> QED
  BY <1>1, <1>2, <1>3, <1>6, SaveWatch

LEMMA evaluatePackWatch ==
  ASSUME PageInv, PageInv', evaluatePack, WatchHolds(page, rows) PROVE WatchHolds(page', rows')
<1> DEFINE s == page.op["qc"].sub
           e == Ends(page, "qc")
<1>1. PICK passed \in BOOLEAN :
        /\ page.op["qc"].pc = "evaluating" /\ UNCHANGED rows
        /\ page' = [persistDraftContext([e EXCEPT !.qc[s] = passed], s) EXCEPT !.qcRun = FALSE]
  BY DEF evaluatePack, Is, Sub
<1> DEFINE x == [e EXCEPT !.qc[s] = passed]
           y == persistDraftContext(x, s)
<1>2. page \in PageRow /\ page' \in PageRow /\ rows \in [Drafts -> Row]
  BY DEF PageInv, PageTypes
<1>3. "qc" \in Handlers \ {"submit", "again", "control"}
  BY DEF Handlers
<1>4. s \in MaybeDraft
  BY <1>2, <1>3 DEF PageRow, OpRow
<1>5. e \in PageRow /\ WatchHolds(e, rows)
  BY <1>2, <1>3, EndsMoves, EndsOtherWatch
<1> HIDE DEF e, s
<1>6. x \in PageRow /\ SameWatch(e, x) /\ x.op = e.op /\ x.load = e.load
  BY <1>4, <1>5 DEF PageRow, SameWatch
<1> HIDE DEF x
<1>7. y \in PageRow /\ SameWatch(x, y) /\ y.op = x.op /\ y.load = x.load
  BY <1>4, <1>6, PersistMoves, PersistWatch
<1>8. page' = [y EXCEPT !.qcRun = FALSE]
  BY <1>1 DEF x
<1> HIDE DEF y
<1>9. SameWatch(y, page') /\ page'.op = y.op /\ page'.load = y.load
  BY <1>7, <1>8 DEF PageRow, SameWatch
<1>10. SameWatch(e, page') /\ page'.op = e.op /\ page'.load = e.load
  BY <1>6, <1>7, <1>9 DEF SameWatch
<1> QED
  BY <1>1, <1>2, <1>5, <1>10, LooksWatch

----------------------------------------------------------------------------
(* The submit.                                                               *)

(* Undisturbed, the one who submits is the submit.                           *)
LEMMA TheSubmit ==
  ASSUME NEW o \in Submits, page.op[o].pc # "idle", WatchHolds(page, rows)
  PROVE  o = "submit"
BY DEF Submits, WatchHolds, OneSubmit

(* Nothing is under way when a submit begins that disturbs nothing.          *)
LEMMA SettledIsCalm ==
  ASSUME PageInv, Settled, WatchHolds(page, rows)
  PROVE  /\ \A o \in Handlers : page.op[o].pc = "idle"
         /\ page.load.at = "idle" /\ ~page.timer
         /\ \A s \in Drafts : /\ rows[s].state # "uploading" /\ rows[s].report = "none"
                              /\ rows[s].up # "active"
<1>1. /\ \A o \in Handlers : page.op[o].pc = "idle"
      /\ ~page.timer
      /\ \A s \in Drafts : rows[s].state # "uploading" /\ rows[s].report = "none"
  BY DEF Settled, InFlight, Is
<1>2. "submit" \in Handlers
  BY DEF Handlers
<1>3. \A s \in Drafts : rows[s].up # "active"
  BY <1>1, <1>2 DEF WatchHolds, UnderWay, HandedOver
<1> QED
  BY <1>1, <1>3 DEF PageInv, PageTypes, PageHolds, HandlersHold, LoadHolds, PageRow, LoadRow

LEMMA handleSubmitWatch ==
  ASSUME PageInv, PageInv', NEW o \in Submits, handleSubmitForReview(o), ~seen'.disturbed,
         WatchHolds(page, rows)
  PROVE  WatchHolds(page', rows')
<1> DEFINE u == IF page.up # NoUpload THEN clearActiveUploadState(page) ELSE page
           v == [u EXCEPT !.busy = TRUE]
           w == At(v, o, "updating")
<1>1. /\ page' = saveMetadata(v, o) /\ UNCHANGED rows /\ buildContext(page)
      /\ o = "again" => page.op["submit"].pc # "idle"
      /\ seen' = [seen EXCEPT !.clicks = @ + 1, !.disturbed = seen.disturbed \/ ~Settled]
  BY DEF handleSubmitForReview, Is
<1>2. page \in PageRow /\ page' \in PageRow /\ rows \in [Drafts -> Row] /\ seen \in Seen
  BY DEF PageInv, PageTypes
<1>3. Settled
  BY <1>1, <1>2 DEF Seen
<1>4. /\ \A p \in Handlers : page.op[p].pc = "idle"
      /\ page.load.at = "idle" /\ ~page.timer
      /\ \A s \in Drafts : /\ rows[s].state # "uploading" /\ rows[s].report = "none"
                           /\ rows[s].up # "active"
  BY <1>3, SettledIsCalm
<1>5. o = "submit" /\ {"submit", "again", "control", "poll"} \subseteq Handlers
      /\ "updating" \in Places
  BY <1>1, <1>4 DEF Submits, Handlers, Places
<1>6. /\ u \in PageRow /\ u.op = page.op /\ u.load = page.load /\ u.timer = page.timer
      /\ u.stored.up = page.stored.up \/ u.stored.up = NoUpload
  BY <1>2, ClearMoves, ClearWatch
<1>7. u.full = page.full /\ u.draft = page.draft
  BY <1>2 DEF clearActiveUploadState, PageRow
<1> HIDE DEF u
<1>8. v \in PageRow /\ v.op = u.op /\ v.load = u.load /\ SameWatch(u, v)
      /\ v.full = page.full /\ v.draft = page.draft
  BY <1>6, <1>7 DEF PageRow, SameWatch
<1>9. page' = [w EXCEPT !.op[o].sub = v.draft, !.op[o].got = IF v.done THEN "done" ELSE "none"]
  BY <1>1, <1>8 DEF saveMetadata, buildContext
<1> HIDE DEF v
<1>10. /\ w \in PageRow /\ SameWatch(v, w) /\ OnlyOp(v, w, o) /\ w.load = v.load
       /\ w.op[o].pc = "updating"
  BY <1>5, <1>8, AtMoves, AtWatch
<1> HIDE DEF w
<1>11. /\ SameWatch(w, page') /\ OnlyOp(w, page', o) /\ page'.load = w.load
       /\ page'.op[o].pc = "updating"
  BY <1>9, <1>10 DEF PageRow, OpRow, SameWatch, OnlyOp
<1>18. /\ v.op = page.op /\ v.load = page.load /\ v.timer = page.timer
       /\ v.stored.up = page.stored.up \/ v.stored.up = NoUpload
  BY <1>6, <1>8 DEF SameWatch
<1>12. /\ page'.op["again"] = page.op["again"] /\ page'.op["control"] = page.op["control"]
       /\ page'.op["poll"] = page.op["poll"] /\ page'.op["submit"].pc = "updating"
       /\ page'.load = page.load /\ ~page'.timer
       /\ page'.stored.up = page.stored.up \/ page'.stored.up = NoUpload
  <2>1. \A p \in Handlers \ {"submit"} : page'.op[p] = page.op[p]
    BY <1>5, <1>10, <1>11, <1>18 DEF OnlyOp
  <2>2. page'.load = page.load /\ page'.timer = page.timer /\ page'.stored.up = v.stored.up
    BY <1>10, <1>11, <1>18 DEF SameWatch
  <2> QED
    BY <1>4, <1>5, <1>11, <1>18, <2>1, <2>2
<1>13. page'.up.id => page'.up.sub \in Drafts
  BY DEF PageInv, PageHolds, HandlersHold, UpHolds
<1>14. OneSubmit(page') /\ Watched(page', rows) /\ UnderWay(page', rows)
  BY <1>4, <1>12, <1>13 DEF WatchHolds, OneSubmit, Watched, UnderWay
<1>15. Quiet(page', rows) /\ PollTold(page', rows)
  BY <1>4, <1>5, <1>12 DEF Quiet, PollTold
<1>16. StoredTells(page', rows)
  BY <1>12, NoUploadIsUp DEF WatchHolds, StoredTells
<1>17. page'.load.at # "answered"
  BY <1>4, <1>12
<1> QED
  BY <1>1, <1>14, <1>15, <1>16, <1>17 DEF WatchHolds

LEMMA SubmitFailsWatch ==
  ASSUME NEW u \in PageRow, NEW r \in [Drafts -> Row], u.op["submit"].pc \in Early,
         WatchHolds(u, r)
  PROVE  WatchHolds(SubmitFails(u, "submit"), r)
<1> DEFINE w == Ends(u, "submit")
           c == clearActiveUploadState(w)
           v == [c EXCEPT !.timer = FALSE, !.busy = FALSE]
<1>1. "submit" \in Handlers /\ "poll" \in Handlers
  BY DEF Handlers
<1>2. /\ w \in PageRow /\ OnlyOp(u, w, "submit") /\ w.load = u.load /\ w.op["submit"].pc = "idle"
  BY <1>1, EndsMoves
<1>3. SubmitFails(u, "submit") = v
  BY DEF SubmitFails
<1> HIDE DEF w
<1>4. /\ c \in PageRow /\ c.op = w.op /\ c.load = w.load /\ c.up = NoUpload
      /\ c.stored.up = NoUpload
  BY <1>2, ClearMoves, ClearWatch
<1> HIDE DEF c
<1>5. /\ v.op = w.op /\ v.load = u.load /\ v.up = NoUpload /\ v.stored.up = NoUpload
  BY <1>2, <1>4 DEF PageRow
<1> HIDE DEF v
<1>6. u.op["poll"].pc = "idle" /\ \A s \in Drafts : ~HandedOver(u, s)
  BY DEF WatchHolds, Quiet, Early, HandedOver
<1>7. /\ v.op["again"] = u.op["again"] /\ v.op["control"] = u.op["control"]
      /\ v.op["poll"] = u.op["poll"] /\ v.op["submit"].pc = "idle"
  BY <1>2, <1>5 DEF OnlyOp, Handlers
<1>8. OneSubmit(v) /\ Watched(v, r) /\ StoredTells(v, r)
  BY <1>5, <1>7, NoUploadIsUp DEF WatchHolds, OneSubmit, Watched, StoredTells
<1>9. UnderWay(v, r)
  BY <1>6 DEF WatchHolds, UnderWay
<1>10. Quiet(v, r) /\ PollTold(v, r)
  BY <1>6, <1>7 DEF Quiet, PollTold, Early
<1>11. v.load.at = "answered" => ListTells(v.load.rows, r)
  BY <1>5 DEF WatchHolds
<1> QED
  BY <1>3, <1>8, <1>9, <1>10, <1>11 DEF WatchHolds

(* A submit that goes on and has handed nothing over yet, or had already.    *)
LEMMA SubmitStepWatch ==
  ASSUME PageInv, page' \in PageRow, rows' \in [Drafts -> Row], OnlyOp(page, page', "submit"),
         SameWatch(page, page'), page'.load = page.load,
         Calmer(rows, rows'), WatchHolds(page, rows),
         page'.op["submit"].pc \in Early => page.op["submit"].pc \in Early,
         page.op["submit"].pc \in {"locking", "moving"} =>
           /\ page'.op["submit"].pc \in {"locking", "moving"}
           /\ page'.op["submit"].sub = page.op["submit"].sub
  PROVE  WatchHolds(page', rows')
<1>1. WatchHolds(page, rows') /\ page \in PageRow
  BY RowsWatch, WatchBase
<1>2. \A s \in Drafts : HandedOver(page, s) => HandedOver(page', s)
  BY DEF HandedOver
<1> QED
  BY <1>1, <1>2, WatchBySubmit

LEMMA startSessionWatch ==
  ASSUME PageInv, PageInv', NEW o \in Submits, startSession(o), WatchHolds(page, rows)
  PROVE  WatchHolds(page', rows')
<1> DEFINE s == page.op["submit"].sub
           f == page.op["submit"].folder
           session == rows'[s].session
           to == CASE session = "initiated" -> "listing"
                   [] session = "manifest_ready" -> "handing"
                   [] session = "transfer_completed" -> "locking"
<1>1. o = "submit" /\ page.op[o].pc = "starting"
  BY TheSubmit DEF startSession, Is
<1>2. /\ page \in PageRow /\ page' \in PageRow
      /\ rows \in [Drafts -> Row] /\ rows' \in [Drafts -> Row]
  BY DEF PageInv, PageTypes
<1>3. CASE f = NoFolder
  BY <1>1, <1>2, <1>3, SubmitFailsWatch DEF startSession, Early
<1>4. CASE f # NoFolder
  <2>1. /\ rows' = Started("submit")
        /\ page' = [page EXCEPT !.op["submit"].got = session, !.op["submit"].pc = to]
    BY <1>1, <1>4 DEF startSession, Sub
  <2>2. OnlyOp(page, page', "submit") /\ SameWatch(page, page') /\ page'.load = page.load
    BY <1>2, <2>1 DEF PageRow, OnlyOp, SameWatch
  <2>3. ASSUME NEW t \in Drafts
        PROVE  /\ rows'[t].up = rows[t].up \/ rows'[t].up = "none"
               /\ rows'[t].state = rows[t].state /\ rows'[t].report = rows[t].report
    <3>1. CASE t # s
      BY <1>2, <2>1, <3>1 DEF Started, Sub
    <3>2. CASE t = s
      <4>1. rows[s] \in Row
        BY <1>2, <3>2
      <4>2. rows'[s] \in { [rows[s] EXCEPT !.session = "initiated", !.path = f],
                          [rows[s] EXCEPT !.session = "initiated", !.path = f, !.up = "none"],
                          rows[s] }
        <5>1. CASE rows[s].session = "none" /\ rows[s].up \notin {"canceled", "failed"}
          BY <1>2, <2>1, <3>2, <5>1 DEF Started, Sub
        <5>2. CASE rows[s].session # "none" \/ rows[s].up \in {"canceled", "failed"}
          BY <1>2, <2>1, <3>2, <5>2 DEF Started, Sub
        <5> QED
          BY <5>1, <5>2
      <4> QED
        BY <3>2, <4>1, <4>2 DEF Row
    <3> QED
      BY <3>1, <3>2
  <2>4. Calmer(rows, rows')
    BY <2>3 DEF Calmer
  <2> QED
    BY <1>1, <1>2, <2>2, <2>4, SubmitStepWatch DEF Early
<1> QED
  BY <1>3, <1>4

LEMMA putManifestWatch ==
  ASSUME PageInv, PageInv', NEW o \in Submits, putManifest(o), WatchHolds(page, rows)
  PROVE  WatchHolds(page', rows')
<1>1. o = "submit" /\ page.op[o].pc = "listing"
  BY TheSubmit DEF putManifest, Is
<1>2. /\ page \in PageRow /\ page' \in PageRow
      /\ rows \in [Drafts -> Row] /\ rows' \in [Drafts -> Row]
  BY DEF PageInv, PageTypes
<1>3. CASE rows[Sub(o)].session # "initiated"
  BY <1>1, <1>2, <1>3, SubmitFailsWatch DEF putManifest, Early
<1>4. CASE rows[Sub(o)].session = "initiated"
  <2>1. /\ rows' = [rows EXCEPT ![Sub(o)].session = "manifest_ready",
                                ![Sub(o)].files = page.op[o].folder]
        /\ page' = At(page, o, "handing")
    BY <1>4 DEF putManifest
  <2>2. "submit" \in Handlers /\ "handing" \in Places
    BY DEF Handlers, Places
  <2>3. /\ OnlyOp(page, page', "submit") /\ SameWatch(page, page') /\ page'.load = page.load
    BY <1>1, <1>2, <2>1, <2>2, AtMoves, AtWatch
  <2>4. ASSUME NEW t \in Drafts
        PROVE  /\ rows'[t].up = rows[t].up
               /\ rows'[t].state = rows[t].state /\ rows'[t].report = rows[t].report
    BY <1>2, <2>1 DEF Row
  <2>5. Calmer(rows, rows')
    BY <2>4 DEF Calmer
  <2> QED
    BY <1>1, <1>2, <2>3, <2>5, SubmitStepWatch DEF Early
<1> QED
  BY <1>3, <1>4

LEMMA createHandoffWatch ==
  ASSUME PageInv, PageInv', NEW o \in Submits, createHandoff(o), WatchHolds(page, rows)
  PROVE  WatchHolds(page', rows')
<1> DEFINE s == page.op["submit"].sub
           row == rows'[s]
           x == [sub |-> s, status |-> row.up, at |-> row.at, id |-> TRUE]
           a == applyUploadState(page, x, TRUE)
           w == startUploadStatusPolling(a)
<1>1. o = "submit" /\ page.op[o].pc = "handing"
  BY TheSubmit DEF createHandoff, Is
<1>2. rows' = Handed("submit") /\ page' = At(w, "submit", "locking")
  BY <1>1 DEF createHandoff, Sub
<1>3. /\ page \in PageRow /\ page' \in PageRow
      /\ rows \in [Drafts -> Row] /\ rows' \in [Drafts -> Row]
  BY DEF PageInv, PageTypes
<1>4. s \in Drafts
  BY <1>1, SubmitKnows
<1>5. /\ page.op["poll"].pc = "idle"
      /\ \A t \in Drafts : rows[t].state # "uploading" /\ rows[t].report = "none"
      /\ page.load.at = "answered" => \A t \in Drafts : page.load.rows[t].state # "uploading"
  BY <1>1 DEF WatchHolds, Quiet, Early
<1>6. \A t \in Drafts : rows[t].up \notin {"active", "canceled"}
  BY <1>1, <1>5 DEF WatchHolds, UnderWay, HandedOver
<1>7. ASSUME NEW t \in Drafts
      PROVE  /\ rows'[t].report = rows[t].report
             /\ rows'[t].up = rows[t].up \/ (t = s /\ rows'[t].up = "active")
  <2>1. CASE rows[s].up \notin {"none", "failed"}
    BY <1>2, <1>3, <2>1 DEF Handed, Sub
  <2>2. CASE rows[s].up \in {"none", "failed"}
    <3>1. rows' = [rows EXCEPT ![s] = [rows[s] EXCEPT !.up = "active", !.at = rows[s].at + 1,
                                                     !.job = TRUE]]
      BY <1>2, <2>2 DEF Handed, Sub
    <3>2. rows[s] \in Row
      BY <1>3, <1>4
    <3> QED
      BY <1>3, <3>1, <3>2 DEF Row
  <2> QED
    BY <2>1, <2>2
<1>8. x \in UpRow /\ x.sub = s /\ x.id /\ (x.status # "active" => rows'[s].up # "active")
  <2>1. row \in Row
    BY <1>3, <1>4
  <2> QED
    BY <1>4, <2>1 DEF UpRow, Row, MaybeDraft
<1> HIDE DEF x
<1>9. /\ a \in PageRow /\ a.op = page.op /\ a.load = page.load /\ a.stored.up = x
  <2>1. TRUE \in BOOLEAN /\ x \in UpRow
    BY <1>8
  <2> QED
    BY <1>3, <2>1, ApplyMoves, ApplyWatch
<1> HIDE DEF a
<1>10. /\ w \in PageRow /\ OnlyOp(a, w, "poll") /\ w.load = a.load
       /\ w.op = a.op \/ w.op["poll"].pc = "asked"
       /\ w.timer /\ w.stored.up = a.stored.up
  BY <1>9, StartPollingMoves, StartPollWatch
<1> HIDE DEF w
<1>11. {"submit", "again", "control", "poll"} \subseteq Handlers /\ "locking" \in Places
  BY DEF Handlers, Places
<1>12. /\ OnlyOp(w, page', "submit") /\ page'.load = w.load /\ SameWatch(w, page')
       /\ page'.op["submit"].pc = "locking" /\ page'.op["submit"].sub = w.op["submit"].sub
  BY <1>2, <1>10, <1>11, AtMoves, AtWatch
<1>13. /\ page'.op["again"] = page.op["again"] /\ page'.op["control"] = page.op["control"]
       /\ page'.op["submit"].sub = s /\ page'.op["poll"].pc \in {"idle", "asked"}
  BY <1>5, <1>9, <1>10, <1>11, <1>12 DEF OnlyOp
<1>14. page'.load = page.load /\ page'.timer /\ page'.stored.up = x
  BY <1>9, <1>10, <1>12 DEF SameWatch
<1> HIDE DEF s
<1>15. OneSubmit(page') /\ Watched(page', rows') /\ StoredTells(page', rows')
  BY <1>4, <1>8, <1>13, <1>14 DEF WatchHolds, OneSubmit, Watched, StoredTells
<1>16. UnderWay(page', rows')
  BY <1>5, <1>6, <1>7, <1>12, <1>13 DEF UnderWay, HandedOver
<1>17. Quiet(page', rows') /\ PollTold(page', rows')
  BY <1>12, <1>13, <1>14 DEF Quiet, PollTold, Early
<1>18. page'.load.at = "answered" => ListTells(page'.load.rows, rows')
  BY <1>5, <1>14 DEF ListTells
<1> QED
  BY <1>15, <1>16, <1>17, <1>18 DEF WatchHolds

LEMMA lockFilesWatch ==
  ASSUME PageInv, PageInv', NEW o \in Submits, lockSubmissionFiles(o), WatchHolds(page, rows)
  PROVE  WatchHolds(page', rows')
<1>1. o = "submit" /\ page.op[o].pc = "locking" /\ page' = At(page, o, "moving") /\ UNCHANGED rows
  BY TheSubmit DEF lockSubmissionFiles, Is
<1>2. /\ page \in PageRow /\ page' \in PageRow /\ rows \in [Drafts -> Row]
      /\ "submit" \in Handlers /\ "moving" \in Places
  BY DEF PageInv, PageTypes, Handlers, Places
<1>3. /\ OnlyOp(page, page', "submit") /\ SameWatch(page, page') /\ page'.load = page.load
      /\ page'.op["submit"].pc = "moving" /\ page'.op["submit"].sub = page.op["submit"].sub
  BY <1>1, <1>2, AtMoves, AtWatch
<1>4. Calmer(rows, rows')
  BY <1>1 DEF Calmer
<1> QED
  BY <1>1, <1>2, <1>3, <1>4, SubmitStepWatch DEF Early

(* What was handed over is being uploaded.                                   *)
LEMMA requestUploadingWatch ==
  ASSUME PageInv, PageInv', NEW o \in Submits, requestUploading(o), ~seen'.disturbed,
         WatchHolds(page, rows)
  PROVE  WatchHolds(page', rows')
<1> DEFINE s == page.op["submit"].sub
           v == [page EXCEPT !.mode = "draft"]
           w == At(v, "submit", "showing")
<1>1. o = "submit" /\ page.op[o].pc = "moving"
  BY TheSubmit DEF requestUploading, Is
<1>2. /\ page \in PageRow /\ rows \in [Drafts -> Row] /\ rows' \in [Drafts -> Row]
      /\ {"submit", "again", "control", "poll"} \subseteq Handlers /\ "showing" \in Places
      /\ "submit" \in Submits /\ seen \in Seen
  BY DEF PageInv, PageTypes, Handlers, Places, Submits
<1>3. MayMove("submit")
  BY <1>1, <1>2 DEF requestUploading, Seen
<1>4. /\ rows' = Moved(s, "uploading") /\ page' = loadSubmissions(v, "submit", "showing")
  BY <1>1, <1>3 DEF requestUploading, Sub
<1>5. PageHolds(page, rows', seen.passed)
  BY <1>1, <1>3, <1>4, MovedHolds DEF Sub
<1>6. /\ v \in PageRow /\ SameDraft(page, v) /\ SameUpload(page, v) /\ v.op = page.op
      /\ v.load = page.load /\ SameWatch(page, v)
  BY <1>2 DEF PageRow, SameDraft, SameUpload, SameWatch
<1> HIDE DEF v
<1>7. PageHolds(v, rows', seen.passed)
  BY <1>2, <1>5, <1>6, HoldsByLooks
<1>8. Free(v, "submit")
  BY <1>1, <1>2, <1>6, NotLoading DEF Free
<1>9. PageHolds(w, rows', seen.passed)
  BY <1>1, <1>2, <1>6, <1>7, <1>8, SubmitGoesOn
<1>10. /\ w \in PageRow /\ OnlyOp(v, w, "submit") /\ SameWatch(v, w) /\ w.load = v.load
       /\ w.op["submit"].pc = "showing"
  BY <1>2, <1>6, AtMoves, AtWatch
<1> HIDE DEF w
<1>11. /\ w.op["again"] = page.op["again"] /\ w.op["control"] = page.op["control"]
       /\ w.op["poll"] = page.op["poll"] /\ w.load = page.load /\ SameWatch(page, w)
  BY <1>2, <1>6, <1>10 DEF OnlyOp, SameWatch
<1>12. ASSUME NEW t \in Drafts
       PROVE  /\ rows'[t].up = rows[t].up /\ rows'[t].report = rows[t].report
              /\ rows'[t].state = IF t = s THEN "uploading" ELSE rows[t].state
  <2> DEFINE row == [rows[s] EXCEPT !.state = "uploading", !.version = rows[s].version + 1]
  <2>1. s \in Drafts
    BY <1>1, <1>2, SubmitKnows
  <2>2. rows' = [rows EXCEPT ![s] = row]
    BY <1>2, <1>4, <2>1 DEF Moved, Row
  <2>3. /\ row.state = "uploading" /\ row.up = rows[s].up /\ row.report = rows[s].report
    BY <1>2, <2>1 DEF Row
  <2> HIDE DEF row
  <2> QED
    BY <1>2, <2>1, <2>2, <2>3
<1>13. page.up.id => page.up.sub \in Drafts
  BY WatchBase
<1>14. page.op["poll"].pc # "idle" => page.op["poll"].sub \in Drafts
  BY WatchBase
<1>15. OneSubmit(w) /\ Watched(w, rows')
  BY <1>11, <1>12, <1>13 DEF WatchHolds, OneSubmit, Watched, SameWatch
<1>16. StoredTells(w, rows') /\ PollTold(w, rows')
  BY <1>11, <1>12, <1>14 DEF WatchHolds, StoredTells, PollTold, SameWatch
<1>17. UnderWay(w, rows')
  BY <1>12 DEF WatchHolds, UnderWay, HandedOver
<1>18. Quiet(w, rows')
  BY <1>10 DEF Quiet, Early
<1>19. w.load.at = "answered" => ListTells(w.load.rows, rows')
  BY <1>11, <1>12 DEF WatchHolds, ListTells
<1>20. WatchHolds(w, rows')
  BY <1>15, <1>16, <1>17, <1>18, <1>19 DEF WatchHolds
<1> QED
  BY <1>2, <1>4, <1>6, <1>8, <1>9, <1>20, LoadWatch DEF w

LEMMA SubmitEndsWatch ==
  ASSUME PageInv, PageInv', NEW o \in Submits, SubmitEnds(o), WatchHolds(page, rows)
  PROVE  WatchHolds(page', rows')
<1> DEFINE v == Ends(page, "submit")
<1>1. o = "submit" /\ page.op[o].pc = "polling" /\ UNCHANGED rows
  BY TheSubmit DEF SubmitEnds, Is
<1>2. /\ page \in PageRow /\ page' \in PageRow /\ rows \in [Drafts -> Row]
      /\ "submit" \in Handlers
  BY DEF PageInv, PageTypes, Handlers
<1>3. /\ v \in PageRow /\ OnlyOp(page, v, "submit") /\ SameWatch(page, v) /\ v.load = page.load
      /\ v.op["submit"].pc = "idle"
  BY <1>2, EndsMoves, EndsWatch
<1>4. page' = [v EXCEPT !.busy = page'.busy]
  BY <1>1, <1>3 DEF SubmitEnds, PageRow
<1> HIDE DEF v
<1>5. /\ OnlyOp(page, page', "submit") /\ SameWatch(page, page') /\ page'.load = page.load
      /\ page'.op["submit"].pc = "idle"
  BY <1>3, <1>4 DEF PageRow, OnlyOp, SameWatch
<1>6. Calmer(rows, rows')
  BY <1>1 DEF Calmer
<1> QED
  BY <1>1, <1>2, <1>5, <1>6, SubmitStepWatch DEF Early

----------------------------------------------------------------------------
(* To open a submission, when nothing is being uploaded.                     *)
LEMMA CalmWatch ==
  ASSUME NEW u \in PageRow, NEW v \in PageRow, NEW r \in [Drafts -> Row],
         WatchHolds(u, r), \A o \in Handlers : u.op[o].pc = "idle",
         \A s \in Drafts : r[s].up # "active",
         OnlyOp(u, v, "poll"), v.load.at = "idle", v.op["poll"].pc \in {"idle", "asked"},
         v.up.id => v.up.sub \in Drafts, v.stored.up.id => v.stored.up.sub \in Drafts,
         v.op["poll"].pc = "asked" => v.op["poll"].sub \in Drafts
  PROVE  WatchHolds(v, r)
<1>1. {"submit", "again", "control"} \subseteq Handlers \ {"poll"}
  BY DEF Handlers
<1>2. \A o \in {"submit", "again", "control"} : v.op[o].pc = "idle"
  BY <1>1 DEF OnlyOp
<1>3. OneSubmit(v) /\ Watched(v, r) /\ StoredTells(v, r)
  BY <1>2 DEF OneSubmit, Watched, StoredTells
<1>4. UnderWay(v, r)
  BY DEF WatchHolds, UnderWay
<1>5. Quiet(v, r)
  BY <1>2 DEF Quiet, Early
<1>6. PollTold(v, r)
  BY DEF PollTold
<1> QED
  BY <1>3, <1>4, <1>5, <1>6 DEF WatchHolds

LEMMA openSubmissionWatch ==
  ASSUME PageInv, PageInv', Stays, NEW s \in Drafts, openSubmission(s), WatchHolds(page, rows)
  PROVE  WatchHolds(page', rows')
<1> DEFINE x == getStoredOrSubmissionUploadState(page, s)
           uploading == page.list[s].state = "uploading"
           opened == OpenedPage(page, s)
           shown == CASE x.sub = s -> applyUploadState(opened, x, x.id)
                      [] x.sub # s /\ page.up.status = "active" -> opened
                      [] OTHER -> clearActiveUploadState(opened)
           resumed == [shown EXCEPT !.busy = uploading]
           polled == uploading /\ x.id /\ x.status \in {"active", "paused"}
<1>1. /\ UNCHANGED rows /\ Settled
      /\ page' = IF polled THEN startUploadStatusPolling(resumed) ELSE resumed
  BY DEF openSubmission, OpenedPage, Leaves
<1>2. /\ page \in PageRow /\ page' \in PageRow /\ rows \in [Drafts -> Row]
  BY DEF PageInv, PageTypes
<1>3. x \in UpRow /\ (x.id => x.sub = s) /\ x.id \in BOOLEAN
  BY <1>2, StoredIsItsOwn DEF UpRow
<1> HIDE DEF x
<1>4. opened \in PageRow /\ opened.op = page.op /\ opened.load = page.load
      /\ SameUpload(page, opened) /\ opened.stored = page.stored
  BY <1>2, OpenedMoves
<1> HIDE DEF opened
<1>5. /\ shown \in PageRow /\ shown.op = page.op /\ shown.load = page.load
      /\ shown.stored.up \in {x, NoUpload, page.stored.up}
      /\ shown.stored.up = x => x.sub = s \/ x = page.stored.up \/ x = NoUpload
  <2>1. CASE x.sub = s
    <3>1. LET a == applyUploadState(opened, x, x.id)
          IN  /\ a \in PageRow /\ a.op = opened.op /\ a.load = opened.load
              /\ a.stored.up = IF x.id THEN x ELSE opened.stored.up
      BY <1>3, <1>4, ApplyMoves, ApplyWatch
    <3> QED
      BY <1>4, <2>1, <3>1
  <2>2. CASE x.sub # s /\ page.up.status = "active"
    BY <1>4, <2>2
  <2>3. CASE x.sub # s /\ page.up.status # "active"
    <3>1. LET c == clearActiveUploadState(opened)
          IN  c \in PageRow /\ c.op = opened.op /\ c.load = opened.load /\ c.stored.up = NoUpload
      BY <1>4, ClearMoves, ClearWatch
    <3> QED
      BY <1>4, <2>3, <3>1
  <2> QED
    BY <2>1, <2>2, <2>3
<1> HIDE DEF shown
<1>6. /\ resumed \in PageRow /\ resumed.op = page.op /\ resumed.load = page.load
      /\ resumed.stored = shown.stored
  BY <1>5 DEF PageRow
<1> HIDE DEF resumed
<1>7. resumed.stored.up.id => resumed.stored.up.sub \in Drafts
  BY <1>3, <1>5, <1>6, NoUploadIsUp DEF WatchHolds, StoredTells
<1>8. /\ OnlyOp(page, page', "poll") /\ page'.load = page.load
      /\ page'.stored.up = resumed.stored.up
      /\ \/ page'.op["poll"] = page.op["poll"]
         \/ page'.op["poll"].pc = "asked" /\ page'.op["poll"].sub \in Drafts
  <2>1. CASE ~polled
    BY <1>1, <1>6, <2>1 DEF OnlyOp
  <2>2. CASE polled
    <3>1. LET q == startUploadStatusPolling(resumed)
          IN  /\ OnlyOp(resumed, q, "poll") /\ q.load = resumed.load
              /\ q.stored.up = resumed.stored.up
              /\ q.op = resumed.op \/ q.op["poll"].pc = "asked"
      BY <1>6, StartPollingMoves, StartPollWatch
    <3>2. page'.op["poll"].pc # "idle" => page'.op["poll"].sub \in Drafts
      BY WatchBase, <1>2 DEF PageInv, PageHolds, HandlersHold, OpHolds, Handlers
    <3> QED
      BY <1>1, <1>6, <2>2, <3>1, <3>2 DEF OnlyOp
  <2> QED
    BY <2>1, <2>2
<1>9. page'.up.id => page'.up.sub \in Drafts
  BY DEF PageInv, PageHolds, HandlersHold, UpHolds
<1>10. /\ \A o \in Handlers : page.op[o].pc = "idle"
       /\ page.load.at = "idle" /\ \A t \in Drafts : rows[t].up # "active"
  BY <1>1, SettledIsCalm
<1>11. "poll" \in Handlers
  BY DEF Handlers
<1> QED
  BY <1>1, <1>2, <1>7, <1>8, <1>9, <1>10, <1>11, CalmWatch

----------------------------------------------------------------------------
(* The status of the upload, and the list.                                   *)

LEMMA PollTickWatch ==
  ASSUME PageInv, PollTick, WatchHolds(page, rows) PROVE WatchHolds(page', rows')
<1>1. page.timer /\ page' = StartPoll(page) /\ UNCHANGED rows
  BY DEF PollTick
<1>2. page \in PageRow /\ rows \in [Drafts -> Row]
  BY WatchBase
<1>3. /\ OnlyOp(page, page', "poll") /\ SameWatch(page, page') /\ page'.load = page.load
      /\ page'.op = page.op \/ page'.op["poll"].pc = "asked"
  BY <1>1, <1>2, StartPollMoves, StartPollWatch
<1>4. /\ page'.op["submit"] = page.op["submit"] /\ page'.op["again"] = page.op["again"]
      /\ page'.op["control"] = page.op["control"]
  BY <1>3 DEF OnlyOp, Handlers
<1>5. page'.timer /\ page.op["submit"].pc \notin Early
  BY <1>1, <1>3 DEF SameWatch, WatchHolds, Quiet
<1>6. OneSubmit(page') /\ Watched(page', rows) /\ StoredTells(page', rows) /\ UnderWay(page', rows)
  BY <1>3, <1>4 DEF WatchHolds, OneSubmit, Watched, StoredTells, UnderWay, HandedOver, SameWatch
<1>7. Quiet(page', rows) /\ PollTold(page', rows)
  BY <1>3, <1>4, <1>5 DEF WatchHolds, Quiet, PollTold
<1> QED
  BY <1>1, <1>3, <1>6, <1>7 DEF WatchHolds

LEMMA PollIsReadWatch ==
  ASSUME PageInv, PageInv', PollIsRead, WatchHolds(page, rows) PROVE WatchHolds(page', rows')
<1> DEFINE s == page.op["poll"].sub
           w == At(page, "poll", "answered")
<1>1. page.op["poll"].pc = "asked" /\ UNCHANGED rows
  BY DEF PollIsRead, Is
<1>2. /\ page \in PageRow /\ page' \in PageRow /\ rows \in [Drafts -> Row]
      /\ "answered" \in Places /\ {"submit", "again", "control"} \subseteq Handlers \ {"poll"}
      /\ "poll" \in Handlers
  BY DEF PageInv, PageTypes, Places, Handlers
<1>3. CASE rows[s].up = "none"
  <2>1. page' = Ends(page, "poll")
    BY <1>3 DEF PollIsRead, Sub
  <2> QED
    BY <1>1, <1>2, <2>1, EndsOtherWatch
<1>4. CASE rows[s].up # "none"
  <2>1. page' = [w EXCEPT !.op["poll"].got = rows[s].up, !.op["poll"].at = rows[s].at]
    BY <1>4 DEF PollIsRead, Sub
  <2>2. /\ w \in PageRow /\ OnlyOp(page, w, "poll") /\ SameWatch(page, w) /\ w.load = page.load
        /\ w.op["poll"].pc = "answered" /\ w.op["poll"].sub = s
    BY <1>2, AtMoves, AtWatch
  <2> HIDE DEF w
  <2>3. /\ OnlyOp(w, page', "poll") /\ SameWatch(w, page') /\ page'.load = w.load
        /\ page'.op["poll"].pc = "answered" /\ page'.op["poll"].sub = s
        /\ page'.op["poll"].got = rows[s].up
    <3> DEFINE new == [w.op["poll"] EXCEPT !.got = rows[s].up, !.at = rows[s].at]
    <3>1. w.op["poll"] \in OpRow
      BY <1>2, <2>2 DEF PageRow
    <3>2. page' = [w EXCEPT !.op["poll"] = new]
      BY <1>2, <2>1, <2>2 DEF PageRow
    <3>3. new.pc = "answered" /\ new.sub = s /\ new.got = rows[s].up
      BY <2>2, <3>1 DEF OpRow
    <3> HIDE DEF new
    <3> QED
      BY <1>2, <2>2, <3>2, <3>3 DEF PageRow, OnlyOp, SameWatch
  <2>4. OnlyOp(page, page', "poll") /\ SameWatch(page, page') /\ page'.load = page.load
    BY <2>2, <2>3 DEF OnlyOp, SameWatch
  <2>5. /\ page'.op["submit"] = page.op["submit"] /\ page'.op["again"] = page.op["again"]
        /\ page'.op["control"] = page.op["control"]
    BY <1>2, <2>4 DEF OnlyOp
  <2>6. /\ OneSubmit(page') /\ Watched(page', rows) /\ StoredTells(page', rows)
        /\ UnderWay(page', rows)
    BY <2>4, <2>5 DEF WatchHolds, OneSubmit, Watched, StoredTells, UnderWay, HandedOver, SameWatch
  <2>7. PollTold(page', rows)
    BY <1>1, <2>3, <2>4 DEF WatchHolds, PollTold, SameWatch
  <2>8. Quiet(page', rows)
    BY <1>1, <2>5 DEF WatchHolds, Quiet
  <2> QED
    BY <1>1, <2>4, <2>6, <2>7, <2>8 DEF WatchHolds
<1> QED
  BY <1>3, <1>4

(* A poll that was answered: what it shows of an upload that goes on is      *)
(* polled again, and what it shows of one that is over is true.              *)
LEMMA pollUploadStatusOnceWatch ==
  ASSUME PageInv, PageInv', pollUploadStatusOnce, WatchHolds(page, rows)
  PROVE  WatchHolds(page', rows')
<1> DEFINE p == page.op["poll"]
           x == [sub |-> p.sub, status |-> p.got, at |-> p.at, id |-> TRUE]
           shown == applyUploadState(page, x, TRUE)
           over == [shown EXCEPT !.timer = FALSE, !.busy = FALSE]
<1>1. p.pc = "answered" /\ UNCHANGED rows
  BY DEF pollUploadStatusOnce, Is
<1>2. /\ page \in PageRow /\ page' \in PageRow /\ rows \in [Drafts -> Row]
      /\ "poll" \in Handlers \ {"submit", "again", "control"} /\ "showing" \in Places
  BY DEF PageInv, PageTypes, Handlers, Places
<1>3. /\ p.sub \in Drafts /\ p \in OpRow /\ Free(page, "poll") /\ p.got \in Outcomes
      /\ Attested(page, seen.passed, p.sub)
  BY <1>1, PollKnows DEF Outcomes
<1>4. /\ shown \in PageRow /\ PageHolds(shown, rows, seen.passed)
      /\ shown.op = page.op /\ shown.load = page.load /\ Attested(shown, seen.passed, p.sub)
  BY <1>1, <1>3, AnswerShown
<1>5. x \in UpRow /\ x.sub = p.sub /\ x.status = p.got /\ TRUE \in BOOLEAN
  BY <1>3 DEF UpRow, OpRow, MaybeDraft
<1>6. page' = CASE p.got = "active" -> Ends(shown, "poll")
                [] p.got = "paused" -> Ends(over, "poll")
                [] OTHER -> loadSubmissions(over, "poll", "showing")
  BY DEF pollUploadStatusOnce
<1> HIDE DEF x
<1>7. shown.up = x /\ shown.timer = page.timer /\ shown.stored.up = x
  BY <1>2, <1>5, ApplyMoves, ApplyWatch
<1> HIDE DEF shown
<1>8. /\ over \in PageRow /\ PageHolds(over, rows, seen.passed) /\ over.op = page.op
      /\ over.load = page.load
  BY <1>2, <1>4, OverHolds
<1>9. over.up = x /\ over.stored.up = x
  BY <1>4, <1>7 DEF PageRow
<1>10. Attested(over, seen.passed, p.sub)
  BY <1>4 DEF Attested, PageRow
<1> HIDE DEF over
<1>11. CASE p.got = "active"
  <2>1. page.timer
    BY <1>1, <1>11 DEF WatchHolds, PollTold
  <2>2. Watched(shown, rows) /\ StoredTells(shown, rows)
    BY <1>3, <1>5, <1>7, <1>11, <2>1 DEF Watched, StoredTells
  <2>3. WatchHolds(shown, rows)
    BY <1>2, <1>4, <1>7, <2>2, WatchByShown
  <2>4. page' = Ends(shown, "poll")
    BY <1>6, <1>11
  <2> QED
    BY <1>1, <1>2, <1>4, <2>3, <2>4, EndsOtherWatch
<1>12. CASE p.got # "active"
  <2>1. rows[p.sub].up # "active"
    BY <1>1, <1>12 DEF WatchHolds, PollTold
  <2>2. /\ page.op["submit"].pc \notin Early
    BY <1>1 DEF WatchHolds, Quiet
  <2>3. ASSUME NEW v \in PageRow, OnlyOp(page, v, "poll"), v.load = page.load, v.up = x,
               v.stored.up = x, v.op["poll"].pc \notin {"asked", "answered"}
        PROVE  WatchHolds(v, rows)
    <3>1. /\ v.op["submit"] = page.op["submit"] /\ v.op["again"] = page.op["again"]
          /\ v.op["control"] = page.op["control"]
      BY <2>3 DEF OnlyOp, Handlers
    <3>2. OneSubmit(v) /\ UnderWay(v, rows)
      BY <3>1 DEF WatchHolds, OneSubmit, UnderWay, HandedOver
    <3>3. Watched(v, rows) /\ StoredTells(v, rows)
      BY <1>3, <1>5, <2>1, <2>3 DEF Watched, StoredTells
    <3>4. Quiet(v, rows) /\ PollTold(v, rows)
      BY <2>2, <2>3, <3>1 DEF Quiet, PollTold
    <3> QED
      BY <2>3, <3>2, <3>3, <3>4 DEF WatchHolds
  <2>4. CASE p.got = "paused"
    <3>1. page' = Ends(over, "poll")
      BY <1>6, <1>12, <2>4
    <3>2. /\ OnlyOp(over, page', "poll") /\ page'.load = over.load
          /\ SameWatch(over, page') /\ page'.op["poll"].pc = "idle"
      BY <1>2, <1>8, <3>1, EndsMoves, EndsWatch
    <3> QED
      BY <1>1, <1>2, <1>8, <1>9, <2>3, <3>2 DEF OnlyOp, SameWatch
  <2>5. CASE p.got # "paused"
    <3> DEFINE w == At(over, "poll", "showing")
    <3>1. page' = loadSubmissions(over, "poll", "showing")
      BY <1>6, <1>12, <2>5
    <3>2. /\ w \in PageRow /\ SameDraft(over, w) /\ OnlyOp(over, w, "poll")
          /\ w.load = over.load /\ SameWatch(over, w)
          /\ w.op["poll"].pc = "showing" /\ w.op["poll"].sub = p.sub
      BY <1>2, <1>8, AtMoves, AtWatch
    <3>3. Free(over, "poll")
      BY <1>3, <1>8 DEF Free
    <3> HIDE DEF w
    <3>4. OpHolds(w, rows, seen.passed, "poll")
      BY <1>2, <1>3, <1>10, <3>2 DEF OpHolds, SameDraft, Attested, Submits
    <3>5. PageHolds(w, rows, seen.passed)
      BY <1>2, <1>8, <3>3, <3>4, AtHolds DEF w, Free, Submits
    <3>6. WatchHolds(w, rows)
      BY <1>8, <1>9, <2>3, <3>2 DEF OnlyOp, SameWatch
    <3> QED
      BY <1>1, <1>2, <1>8, <3>1, <3>3, <3>5, <3>6, LoadWatch DEF w
  <2> QED
    BY <2>4, <2>5
<1> QED
  BY <1>11, <1>12

LEMMA ListIsReadWatch ==
  ASSUME PageInv, PageInv', ListIsRead, WatchHolds(page, rows) PROVE WatchHolds(page', rows')
<1> DEFINE answer == [s \in Drafts |-> Listing(rows[s])]
<1>1. /\ UNCHANGED rows
      /\ page' = [page EXCEPT !.load.at = "answered", !.load.rows = answer]
  BY DEF ListIsRead
<1>2. page \in PageRow /\ rows \in [Drafts -> Row]
  BY WatchBase
<1>3. ASSUME NEW s \in Drafts
      PROVE  answer[s].state = rows[s].state /\ answer[s].up = rows[s].up
  BY DEF Listing, NoRow
<1> HIDE DEF answer
<1>4. /\ page'.op = page.op /\ SameWatch(page, page') /\ page'.load.rows = answer
  BY <1>1, <1>2 DEF PageRow, LoadRow, SameWatch
<1>5. /\ OneSubmit(page') /\ Watched(page', rows) /\ StoredTells(page', rows)
      /\ UnderWay(page', rows) /\ PollTold(page', rows)
  BY <1>4 DEF WatchHolds, OneSubmit, Watched, StoredTells, UnderWay, HandedOver, PollTold, SameWatch
<1>6. Quiet(page', rows)
  BY <1>3, <1>4 DEF WatchHolds, Quiet, SameWatch
<1>7. ListTells(page'.load.rows, rows)
  BY <1>3, <1>4 DEF ListTells
<1> QED
  BY <1>1, <1>5, <1>6, <1>7 DEF WatchHolds

LEMMA ListArrivesWatch ==
  ASSUME PageInv, ListArrives, WatchHolds(page, rows) PROVE WatchHolds(page', rows')
<1> DEFINE load == [page.load EXCEPT !.at = "timelines"]
           v == [page EXCEPT !.list = page.load.rows, !.load = load]
<1>1. /\ page.load.at = "answered" /\ UNCHANGED rows
      /\ page' = ShowUploading([page EXCEPT !.list = page.load.rows, !.load.at = "timelines"])
  BY DEF ListArrives
<1>2. page \in PageRow /\ rows \in [Drafts -> Row] /\ page.load \in LoadRow
  BY WatchBase DEF PageRow
<1>3. [page EXCEPT !.list = page.load.rows, !.load.at = "timelines"] = v
  BY <1>2 DEF PageRow, LoadRow
<1>4. load \in LoadRow /\ load.at = "timelines" /\ page.load.rows \in [Drafts -> Row]
  BY <1>2 DEF LoadRow
<1> HIDE DEF load
<1>5. /\ v \in PageRow /\ v.list = page.load.rows /\ v.op = page.op /\ v.load = load
      /\ SameWatch(page, v)
  BY <1>2, <1>4 DEF PageRow, SameWatch
<1> HIDE DEF v
<1>6. Watched(v, rows) /\ StoredTells(v, rows)
  BY <1>5 DEF WatchHolds, Watched, StoredTells, SameWatch
<1>7. WatchHolds(v, rows)
  BY <1>2, <1>4, <1>5, <1>6, WatchByShown DEF SameWatch
<1>8. ListTells(v.list, rows)
  BY <1>1, <1>5 DEF WatchHolds
<1>9. v.op["submit"].pc \in Early => \A s \in Drafts : v.list[s].state # "uploading"
  BY <1>1, <1>5 DEF WatchHolds, Quiet
<1> QED
  BY <1>1, <1>2, <1>3, <1>5, <1>7, <1>8, <1>9, ShowUploadingWatch

LEMMA TimelinesArriveWatch ==
  ASSUME PageInv, TimelinesArrive, WatchHolds(page, rows) PROVE WatchHolds(page', rows')
<1> DEFINE P == seen.passed
           o == page.load.by
           mode == IF page.sel = NoDraft /\ page.mode # "draft" THEN "list" ELSE page.mode
           v == [page EXCEPT !.mode = mode]
           w == LoadEnds(v)
<1>1. page.load.at = "timelines" /\ UNCHANGED rows
  BY DEF TimelinesArrive
<1>2. page \in PageRow /\ rows \in [Drafts -> Row] /\ PageHolds(page, rows, P)
  BY WatchBase
<1>3. mode \in {"list", "draft", "detail"}
  BY <1>2 DEF PageRow
<1>4. page' = Continue(w, o)
  BY <1>2 DEF TimelinesArrive, PageRow
<1> HIDE DEF mode
<1>5. /\ v \in PageRow /\ SameDraft(page, v) /\ SameUpload(page, v) /\ v.op = page.op
      /\ v.load = page.load /\ SameWatch(page, v)
  BY <1>2, <1>3 DEF PageRow, SameDraft, SameUpload, SameWatch
<1> HIDE DEF v
<1>6. PageHolds(v, rows, P) /\ WatchHolds(v, rows)
  BY <1>2, <1>5, HoldsByLooks, LooksWatch
<1>7. w \in PageRow /\ PageHolds(w, rows, P) /\ w.load.at = "idle" /\ w.op = v.op
  BY <1>1, <1>2, <1>5, <1>6, LoadEndsHolds
<1>8. SameWatch(v, w)
  BY <1>5 DEF LoadEnds, PageRow, SameWatch
<1> HIDE DEF w
<1>9. WatchHolds(w, rows)
  <2>1. Watched(w, rows) /\ StoredTells(w, rows)
    BY <1>6, <1>8 DEF WatchHolds, Watched, StoredTells, SameWatch
  <2> QED
    BY <1>2, <1>5, <1>6, <1>7, <1>8, <2>1, WatchByShown DEF SameWatch
<1>10. o \in Handlers /\ page.op[o].pc \in {"saved", "showing"}
  BY <1>1, <1>2 DEF PageHolds, HandlersHold, LoadHolds, PageRow, LoadRow
<1>11. o \notin {"again", "control"} /\ Free(w, o) /\ w.op[o].pc \in {"saved", "showing"}
  BY <1>5, <1>7, <1>10 DEF WatchHolds, OneSubmit, Free
<1> QED
  BY <1>1, <1>2, <1>4, <1>7, <1>9, <1>10, <1>11, ContinueWatch

----------------------------------------------------------------------------
(* The delivery in the service.                                              *)

LEMMA DeliveryWatch ==
  ASSUME PageInv, PageInv', NEW s \in Drafts,
         DeliveryEnds(s) \/ DeliveryIsCanceled(s) \/ MoveAfterDelivery(s),
         WatchHolds(page, rows)
  PROVE  WatchHolds(page', rows')
<1>1. rows \in [Drafts -> Row] /\ rows' \in [Drafts -> Row] /\ UNCHANGED page /\ rows[s] \in Row
  BY DEF PageInv, PageTypes, DeliveryEnds, DeliveryIsCanceled, MoveAfterDelivery
<1>2. CASE DeliveryEnds(s)
  <2>1. PICK ok \in BOOLEAN :
          /\ rows[s].up = "active"
          /\ rows' = [rows EXCEPT ![s] = [rows[s] EXCEPT !.job = FALSE, !.at = rows[s].at + 1,
               !.up = IF ok THEN "completed" ELSE "failed",
               !.session = IF ok THEN "transfer_completed" ELSE "manifest_ready",
               !.report = IF ok THEN "success" ELSE "failure"]]
    BY <1>2 DEF DeliveryEnds
  <2>2. rows'[s].up \in {"completed", "failed"} /\ rows'[s].state = rows[s].state
    BY <1>1, <2>1 DEF Row
  <2>3. \A t \in Drafts \ {s} : rows'[t] = rows[t]
    BY <1>1, <2>1
  <2>4. Calmer(rows, rows')
    BY <2>1, <2>2, <2>3 DEF Calmer
  <2> QED
    BY <1>1, <2>4, RowsWatch
<1>3. CASE DeliveryIsCanceled(s)
  BY <1>3 DEF DeliveryIsCanceled, WatchHolds, UnderWay
<1>4. CASE MoveAfterDelivery(s)
  <2> DEFINE to == IF rows[s].report = "success" THEN "under_review" ELSE "draft"
             from == IF rows[s].report = "success" THEN {"uploading", "draft"} ELSE {"uploading"}
             told == [rows[s] EXCEPT !.report = "none"]
             row == IF told.state \in from
                    THEN [told EXCEPT !.state = to, !.version = told.version + 1] ELSE told
  <2>1. rows[s].up # "active"
    BY <1>4 DEF MoveAfterDelivery, WatchHolds, UnderWay
  <2>2. rows' = [rows EXCEPT ![s] = row]
    BY <1>1, <1>4 DEF MoveAfterDelivery
  <2>3. /\ told \in Row /\ told.state = rows[s].state /\ told.up = rows[s].up
        /\ told.report = "none"
    BY <1>1 DEF Row
  <2>4. to \in {"under_review", "draft"}
    OBVIOUS
  <2> HIDE DEF told, to, from
  <2>5. /\ row.up = rows[s].up /\ row.report = "none"
        /\ row.state = rows[s].state \/ row.state \in {"under_review", "draft"}
    BY <2>3, <2>4 DEF Row
  <2> HIDE DEF row
  <2>6. Calmer(rows, rows')
    BY <1>1, <2>1, <2>2, <2>5 DEF Calmer
  <2> QED
    BY <1>1, <2>6, RowsWatch
<1> QED
  BY <1>2, <1>3, <1>4

----------------------------------------------------------------------------
(* Whoever starts the page again, or fails a request, disturbs the session.  *)
LEMMA DisturbancesDisturb ==
  ASSUME PageInv,
         \/ Disturbances
         \/ \E action \in {"pause", "resume", "cancel"} : handleUploadControlAction(action)
  PROVE  seen'.disturbed
<1>1. seen \in Seen
  BY DEF PageInv, PageTypes
<1>2. \/ seen' = [seen EXCEPT !.faults = @ + 1, !.disturbed = TRUE]
      \/ seen' = [seen EXCEPT !.clicks = @ + 1, !.disturbed = TRUE]
  BY DEF Disturbances, LoadFails, Restart, RequestFails, AnswerIsLost, Fault,
         handleUploadControlAction
<1> QED
  BY <1>1, <1>2 DEF Seen

(* A session that was disturbed stays so.                                    *)
LEMMA DisturbedStays ==
  ASSUME PageInv, [PageNext]_pageVars, ~seen'.disturbed PROVE ~seen.disturbed
<1>1. seen \in Seen
  BY DEF PageInv, PageTypes
<1> SUFFICES ASSUME seen.disturbed PROVE seen'.disturbed
  OBVIOUS
<1>2. CASE UNCHANGED seen
  BY <1>2
<1>3. CASE Click \/ seen' = [seen EXCEPT !.autosaves = @ + 1]
  BY <1>1, <1>3 DEF Click, Seen
<1>4. CASE \E P : seen' = [seen EXCEPT !.passed = P]
  BY <1>1, <1>4 DEF Seen
<1>5. CASE \E o \in Submits : handleSubmitForReview(o)
  BY <1>1, <1>5 DEF handleSubmitForReview, Seen
<1>6. CASE seen' = [seen EXCEPT !.disturbed = TRUE]
  BY <1>1, <1>6 DEF Seen
<1>7. CASE Disturbances \/ \E action \in {"pause", "resume", "cancel"} : handleUploadControlAction(action)
  BY <1>7, DisturbancesDisturb
<1>8. CASE Answers
  <2>1. CASE evaluatePack
    BY <1>4, <2>1 DEF evaluatePack
  <2>2. CASE \E o \in Submits : requestUploading(o)
    BY <1>2, <1>6, <2>2 DEF requestUploading
  <2>3. CASE \/ \E o \in Handlers : createDraftIfNeeded(o) \/ updateMetadata(o)
             \/ \E o \in Submits : startSession(o) \/ putManifest(o) \/ createHandoff(o)
                                     \/ lockSubmissionFiles(o) \/ SubmitEnds(o)
    BY <1>2, <2>3 DEF createDraftIfNeeded, updateMetadata, startSession, putManifest,
         createHandoff, lockSubmissionFiles, SubmitEnds
  <2>4. CASE \/ CreateForAirtable \/ CreateForQc \/ syncAirtable \/ resetAirtable
             \/ ControlTakesEffect \/ ControlIsAnswered \/ PollIsRead \/ pollUploadStatusOnce
             \/ ListIsRead \/ ListArrives \/ TimelinesArrive
    BY <1>2, <2>4 DEF CreateForAirtable, CreateForQc, syncAirtable, resetAirtable,
         ControlTakesEffect, ControlIsAnswered, PollIsRead, pollUploadStatusOnce,
         ListIsRead, ListArrives, TimelinesArrive
  <2> QED
    BY <1>8, <2>1, <2>2, <2>3, <2>4 DEF Answers
<1>9. CASE Delivery
  BY <1>2, <1>9 DEF Delivery, DeliveryEnds, DeliveryIsCanceled, MoveAfterDelivery
<1>10. CASE Clicks
  <2>1. CASE \/ beginNewDraft \/ BackToList \/ FillForm \/ ClickSave \/ runQcCheck
             \/ handleCompleteAirtableStep \/ handleResetAirtableStep
             \/ \E s \in Drafts : openSubmission(s)
             \/ \E f \in Folders : handleSelectPackFolder(f)
    BY <1>2, <1>3, <2>1 DEF beginNewDraft, BackToList, FillForm, ClickSave, runQcCheck,
         handleCompleteAirtableStep, handleResetAirtableStep, openSubmission,
         handleSelectPackFolder
  <2> QED
    BY <1>5, <1>7, <1>10, <2>1 DEF Clicks
<1> QED
  BY <1>2, <1>3, <1>7, <1>8, <1>9, <1>10 DEF PageNext, AutoSave, PollTick, pageVars
(* A page that is started knows of no upload and polls for none.             *)
LEMMA InitWatch == PageInit => WatchInv
<1> SUFFICES ASSUME PageInit PROVE WatchHolds(page, rows)
  BY DEF WatchInv
<1>1. PICK context \in [Drafts -> {NoContext} \union [kept : {TRUE}, folder : Folders, qc : {TRUE}]] :
        page = loadSubmissions(FreshPage([up |-> NoUpload, ctx |-> context]), "boot", "showing")
  BY DEF PageInit
<1> DEFINE u == FreshPage([up |-> NoUpload, ctx |-> context])
           w == At(u, "boot", "showing")
           v == [w EXCEPT !.load = [@ EXCEPT !.at = "asked", !.by = "boot"]]
<1>2. page \in PageRow /\ rows \in [Drafts -> Row]
  BY InitHolds DEF PageInv, PageTypes
<1>3. /\ u.load.at = "idle" /\ u.up = NoUpload /\ ~u.timer /\ u.stored.up = NoUpload
      /\ u.op = [o \in Handlers |-> Idle]
  BY DEF FreshPage
<1>4. page = v
  BY <1>1, <1>3 DEF loadSubmissions
<1>5. /\ page.up = NoUpload /\ ~page.timer /\ page.stored.up = NoUpload
      /\ page.load.at = "asked"
      /\ \A o \in Handlers \ {"boot"} : page.op[o] = Idle
  BY <1>3, <1>4 DEF At, FreshPage
<1>6. \A o \in {"submit", "again", "control", "poll"} : page.op[o].pc = "idle"
  BY <1>5, IdleIsOp DEF Handlers
<1>7. ASSUME NEW s \in Drafts
      PROVE  /\ rows[s].up # "canceled"
             /\ rows[s].up = "active" => rows[s].report = "none" /\ rows[s].state = "uploading"
  <2>1. \/ rows[s] = NoRow \/ rows[s] = Ready
        \/ \E f \in Folders : rows[s] = Uploading(f)
    BY DEF PageInit
  <2> QED
    BY <2>1, FirstRows DEF Uploading, Ready, NoRow
<1>8. OneSubmit(page) /\ Watched(page, rows) /\ UnderWay(page, rows)
  BY <1>5, <1>6, <1>7, NoUploadIsUp DEF OneSubmit, Watched, UnderWay
<1>9. Quiet(page, rows) /\ PollTold(page, rows) /\ StoredTells(page, rows)
  BY <1>5, <1>6, NoUploadIsUp DEF Quiet, PollTold, StoredTells, Early
<1> QED
  BY <1>5, <1>8, <1>9 DEF WatchHolds

LEMMA StepsWatch ==
  ASSUME Stays, PageInv, PageInv', [PageNext]_pageVars, WatchInv PROVE WatchInv'
<1> SUFFICES ASSUME ~seen'.disturbed PROVE WatchHolds(page', rows')
  BY DEF WatchInv
<1>0. WatchHolds(page, rows)
  BY DisturbedStays DEF WatchInv
<1>1. CASE Answers
  <2>1. ASSUME NEW o \in Handlers, createDraftIfNeeded(o) \/ updateMetadata(o)
        PROVE  WatchHolds(page', rows')
    BY <1>0, <2>1, createDraftWatch, updateMetadataWatch
  <2>2. ASSUME NEW o \in Submits,
               \/ startSession(o) \/ putManifest(o) \/ createHandoff(o)
               \/ lockSubmissionFiles(o) \/ requestUploading(o) \/ SubmitEnds(o)
        PROVE  WatchHolds(page', rows')
    BY <1>0, <2>2, startSessionWatch, putManifestWatch, createHandoffWatch, lockFilesWatch,
       requestUploadingWatch, SubmitEndsWatch
  <2>3. CASE CreateForAirtable \/ CreateForQc \/ syncAirtable \/ resetAirtable \/ evaluatePack
    BY <1>0, <2>3, CreateForAirtableWatch, CreateForQcWatch, syncAirtableWatch,
       resetAirtableWatch, evaluatePackWatch
  <2>4. CASE PollIsRead \/ pollUploadStatusOnce \/ ListIsRead \/ ListArrives \/ TimelinesArrive
    BY <1>0, <2>4, PollIsReadWatch, pollUploadStatusOnceWatch, ListIsReadWatch,
       ListArrivesWatch, TimelinesArriveWatch
  <2>5. CASE ControlTakesEffect \/ ControlIsAnswered
    BY <1>0, <2>5 DEF ControlTakesEffect, ControlIsAnswered, Is, WatchHolds, OneSubmit
  <2> QED
    BY <1>1, <2>1, <2>2, <2>3, <2>4, <2>5 DEF Answers
<1>2. CASE Delivery
  BY <1>0, <1>2, DeliveryWatch DEF Delivery
<1>3. CASE Clicks
  <2>1. CASE beginNewDraft \/ BackToList \/ FillForm \/ ClickSave \/ runQcCheck
    BY <1>0, <2>1, LooksKeepWatch, SavesWatch, runQcCheckWatch
  <2>2. CASE handleCompleteAirtableStep \/ handleResetAirtableStep
    BY <1>0, <2>2, AirtableStepWatch, ResetStepWatch
  <2>3. CASE \E s \in Drafts : openSubmission(s)
    BY <1>0, <2>3, openSubmissionWatch
  <2>4. CASE \E f \in Folders : handleSelectPackFolder(f)
    BY <1>0, <2>4, SelectFolderWatch
  <2>5. CASE \E o \in Submits : handleSubmitForReview(o)
    BY <1>0, <2>5, handleSubmitWatch
  <2>6. CASE \E action \in {"pause", "resume", "cancel"} : handleUploadControlAction(action)
    BY <2>6, DisturbancesDisturb
  <2> QED
    BY <1>3, <2>1, <2>2, <2>3, <2>4, <2>5, <2>6 DEF Clicks
<1>4. CASE AutoSave \/ PollTick
  BY <1>0, <1>4, SavesWatch, PollTickWatch
<1>5. CASE Disturbances
  BY <1>5, DisturbancesDisturb
<1>6. CASE UNCHANGED pageVars
  BY <1>0, <1>6 DEF pageVars
<1> QED
  BY <1>1, <1>2, <1>3, <1>4, <1>5, <1>6 DEF PageNext

(* workspace-page.js:1447, 1961, 2328: of a creator who stays with a draft   *)
(* while anything is in flight, an upload the page shows is polled as long   *)
(* as it goes on, unless a request failed, the page was started again, the   *)
(* upload was controlled, or a submit began while something was under way.   *)
THEOREM UploadsAreWatched == Stays => (PageSpec => []UploadIsWatched)
<1> SUFFICES ASSUME Stays PROVE PageSpec => []UploadIsWatched
  OBVIOUS
<1>1. PageSpec => []PageInv
  BY PageAgrees
<1>2. PageInit => WatchInv
  BY InitWatch
<1>3. PageInv /\ PageInv' /\ [PageNext]_pageVars /\ WatchInv => WatchInv'
  BY StepsWatch
<1>4. WatchInv => UploadIsWatched
  BY DEF WatchInv, WatchHolds, Watched, UploadIsWatched
<1> QED
  BY <1>1, <1>2, <1>3, <1>4, PTL DEF PageSpec
=============================================================================
