---------------------------- MODULE SubmissionLedger ----------------------------
(***************************************************************************)
(* What the submission workflow promises: every submission has a state and *)
(* an append-only ledger of the transitions that led to it.  A transition  *)
(* is one atomic step along an edge of the rule table, it moves the state  *)
(* and appends its entry together, and a request appears at most once in   *)
(* the ledger of its submission.                                           *)
(***************************************************************************)
EXTENDS Integers, Sequences, SubmissionRules

CONSTANTS Submissions, RequestIds

VARIABLES
    current,    (* the state of each submission, "absent" before its draft  *)
    ledger      (* the transitions of each submission, oldest first         *)

ledgerVars == <<current, ledger>>

Entry == [from : States, to : States, req : RequestIds]

LedgerInit ==
    /\ current = [s \in Submissions |-> "absent"]
    /\ ledger = [s \in Submissions |-> <<>>]

OpenDraft(s) ==
    /\ current[s] = "absent"
    /\ current' = [current EXCEPT ![s] = "draft"]
    /\ UNCHANGED ledger

Transition(s, to, req) ==
    /\ current[s] \in States
    /\ Edge(current[s], to)
    /\ \A i \in DOMAIN ledger[s] : ledger[s][i].req # req
    /\ current' = [current EXCEPT ![s] = to]
    /\ ledger' = [ledger EXCEPT
                    ![s] = Append(@, [from |-> current[s], to |-> to, req |-> req])]

LedgerNext ==
    \E s \in Submissions :
        \/ OpenDraft(s)
        \/ \E to \in States, req \in RequestIds : Transition(s, to, req)

LedgerSpec == LedgerInit /\ [][LedgerNext]_ledgerVars
================================================================================
