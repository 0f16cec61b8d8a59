------------------------------ MODULE JobStore ------------------------------
(***************************************************************************)
(* The store as the runners of one job see it: the committed value of the  *)
(* job.  A transaction that writes the job is one commit.                  *)
(***************************************************************************)
EXTENDS JobHeader

CONSTANT Mails  \* whether the job is a scheduled_email: the kinds there are

ASSUME StoreAssumption == Mails \subseteq BOOLEAN

VARIABLES
  present,  \* the job is in the table
  header,   \* its header
  mail      \* payload.type = "scheduled_email"

storeVars == <<present, header, mail>>

StoreInit ==
  /\ present = TRUE
  /\ header \in FreshHeaders(1)
  /\ mail \in Mails

Commit(p, h) ==
  /\ present' = p
  /\ header' = h
  /\ UNCHANGED mail

=============================================================================
