---------------------------- MODULE ExclusiveRun ----------------------------
(***************************************************************************)
(* What the scan lock promises the users of one /cache volume: sessions    *)
(* that do not overlap.  A session is one process's exclusive use of the   *)
(* volume; in it there is at most one scan, at most one action, the action *)
(* only after the scan of the same session, and nothing after the session  *)
(* has begun to close.  A session may be cut short at any point, because   *)
(* its process may die.                                                    *)
(***************************************************************************)
CONSTANTS
  Users,    \* the processes
  Nobody    \* no session is open

VARIABLES
  user,     \* whose session is open
  stage     \* how far it has come

Stages == {"free", "entered", "scanning", "scanned", "acting", "closing"}

Init == user = Nobody /\ stage = "free"

Enter(u) ==
  /\ user = Nobody
  /\ user' = u
  /\ stage' = "entered"

\* The session of user moves on; no other user has a part in it.
Advance(from, to) ==
  /\ stage = from
  /\ stage' = to
  /\ UNCHANGED user

Scan == Advance("entered", "scanning")
Scanned == Advance("scanning", "scanned")
Act == Advance("scanned", "acting")
Close == \E from \in Stages \ {"free", "closing"} : Advance(from, "closing")

\* The session ends, in order or because its process died.
Leave ==
  /\ user # Nobody
  /\ user' = Nobody
  /\ stage' = "free"

Next == (\E u \in Users : Enter(u)) \/ Scan \/ Scanned \/ Act \/ Close \/ Leave

Spec == Init /\ [][Next]_<<user, stage>>
=============================================================================
