----------------------------- MODULE MCJiraSync -----------------------------
(***************************************************************************)
(* A small instance of JiraSync for TLC: two issues, because a lost update *)
(* takes one issue that is changed and another that moves the cursor.      *)
(***************************************************************************)
EXTENDS JiraSync

MCIssues == 1..2

=============================================================================
