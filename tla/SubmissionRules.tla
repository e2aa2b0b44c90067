---------------------------- MODULE SubmissionRules ----------------------------
(***************************************************************************)
(* The workflow states, the actor roles and the transition table of        *)
(* apps/api/app/features/submissions: TRANSITION_RULES of                  *)
(* state_machine/rules.py and the enumerations of contracts.py.            *)
(***************************************************************************)

States == {"draft", "qc_failed", "under_review", "uploading", "approved",
           "rejected", "scheduled", "released"}

Roles == {"creator", "reviewer", "admin", "system"}

Rule(from, to, roles, reasonRequired) ==
    [from |-> from, to |-> to, roles |-> roles, reasonRequired |-> reasonRequired]

(* draft, qc_failed: whoever prepares the submission.  *)
Preparers == {"creator", "admin", "system"}

TransitionRules ==
    { Rule("draft", to, Preparers, FALSE) :
          to \in {"qc_failed", "uploading", "under_review"} }
    \cup
    { Rule("qc_failed",    "draft",        Preparers,             FALSE),
      Rule("under_review", "approved",     {"reviewer", "admin"}, FALSE),
      Rule("under_review", "rejected",     {"reviewer", "admin"}, TRUE),
      Rule("rejected",     "draft",        {"reviewer", "admin"}, TRUE),
      Rule("uploading",    "under_review", {"system", "admin"},   FALSE),
      Rule("uploading",    "draft",        {"system", "admin"},   TRUE),
      Rule("approved",     "scheduled",    {"system", "admin"},   FALSE),
      Rule("scheduled",    "released",     {"system", "admin"},   FALSE) }

(* The rule, the role check and the reason check of transition().  *)
Permits(from, to, role, reasonGiven) ==
    \E r \in TransitionRules :
        /\ r.from = from
        /\ r.to = to
        /\ role \in r.roles
        /\ r.reasonRequired => reasonGiven

(* What the outside may see the state do, whoever asks for it.  *)
Edge(from, to) == \E r \in TransitionRules : r.from = from /\ r.to = to
================================================================================
