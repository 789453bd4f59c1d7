-------------------------------- MODULE Attempts --------------------------------
(***************************************************************************)
(* The limit on failed attempts (FailureLimit) beside the sessions, whose  *)
(* handlers ask it first.  It shares no state with them.                   *)
(***************************************************************************)
CONSTANTS Ip, FailMax, BlockSec, FailWindow, MaxTime

VARIABLES now, count, first_fail, blocked_until

Limit == INSTANCE FailureLimit

ASSUME LimitAssumption == Limit!ParametersFit

\* A block is served in full and never grows (_record_failure,
\* _cleanup_failed_attempts).
BlockIsServed == Limit!BlockIsServed

\* An address in one window gets FailMax guesses, and then one for each block it
\* has sat out (_is_blocked, _record_failure).
GuessesAreBounded == Limit!GuessesAreBounded
=============================================================================
