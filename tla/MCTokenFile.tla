----------------------------- MODULE MCTokenFile -----------------------------
(***************************************************************************)
(* What the server keeps of codes and of addresses, for TLC: tokens.json   *)
(* (TokenFile) and the failed attempts (Attempts).  Each run has one of    *)
(* them; the other stays as it is at the start.                            *)
(***************************************************************************)
EXTENDS TokenFile, Attempts

CONSTANTS c1, c2

VARIABLE record  \* the one that runs

attempts_vars == <<now, count, first_fail, blocked_until>>

\* One use of the limited code; the other has no sessions.
Uses == [c \in Code |-> 1]

Sessions == [c \in Code |-> IF c = c1 THEN 2 ELSE 0]

RecordInit == record \in {"codes", "attempts"} /\ Init /\ Limit!Init

RecordNext ==
  /\ UNCHANGED record
  /\ \/ record = "codes" /\ Next /\ UNCHANGED attempts_vars
     \/ record = "attempts" /\ Limit!Next /\ UNCHANGED vars

RecordSpec == RecordInit /\ [][RecordNext]_<<record, vars, attempts_vars>> /\ Fairness
=============================================================================
