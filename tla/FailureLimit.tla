----------------------------- MODULE FailureLimit -----------------------------
(***************************************************************************)
(* The defence of server.py against guessed access codes: failed attempts  *)
(* are counted per address, and an address with too many is blocked for a  *)
(* while.  agent_hello, browser_pair and controller_hello ask _is_blocked  *)
(* first and give up at once when it says yes, so each of their outcomes   *)
(* is one action here.                                                     *)
(*                                                                         *)
(* time.time() is a natural number of ticks.  An address has an entry in   *)
(* _failed_attempts just when its count is not 0.                          *)
(***************************************************************************)
EXTENDS Integers

CONSTANTS
  Ip,          \* addresses that clients connect from
  FailMax,     \* _FAIL_MAX
  BlockSec,    \* _BLOCK_SEC
  FailWindow,  \* _FAIL_WINDOW
  MaxTime      \* bound on the clock

\* Of _FAIL_MAX = 5, _BLOCK_SEC = 300 and _FAIL_WINDOW = 600 what matters: a
\* block is no longer than the window.
ParametersFit ==
  /\ FailMax \in Nat \ {0}
  /\ BlockSec \in Nat \ {0}
  /\ FailWindow \in Nat
  /\ BlockSec <= FailWindow
  /\ MaxTime \in Nat

VARIABLES
  now,           \* time.time()
  count,         \* address -> failures counted, 0 without an entry
  first_fail,    \* address -> time of the first of them
  blocked_until  \* address -> end of its block

vars == <<now, count, first_fail, blocked_until>>

TypeOK ==
  /\ now \in Nat
  /\ count \in [Ip -> Nat]
  /\ first_fail \in [Ip -> Nat]
  /\ blocked_until \in [Ip -> Nat]

Init ==
  /\ now = 0
  /\ count = [ip \in Ip |-> 0]
  /\ first_fail = [ip \in Ip |-> 0]
  /\ blocked_until = [ip \in Ip |-> 0]

-----------------------------------------------------------------------------
\* Each definition named Wrong... is a plausible slip in the one after it; the
\* specification does not use it.

IsBlocked(ip) == count[ip] # 0 /\ now < blocked_until[ip]

\* The entry is new, or so old that its failures no longer count.
StartsOver(ip) == count[ip] = 0 \/ now - first_fail[ip] > FailWindow

\* The window is measured from the latest failure.
WrongRecordFailure(ip) ==
  LET n == IF StartsOver(ip) THEN 1 ELSE count[ip] + 1 IN
  /\ count' = [count EXCEPT ![ip] = n]
  /\ first_fail' = [first_fail EXCEPT ![ip] = now]
  /\ blocked_until' = [blocked_until EXCEPT ![ip] =
       IF n >= FailMax THEN now + BlockSec ELSE IF StartsOver(ip) THEN 0 ELSE @]

\* _record_failure
RecordFailure(ip) ==
  LET n == IF StartsOver(ip) THEN 1 ELSE count[ip] + 1 IN
  /\ count' = [count EXCEPT ![ip] = n]
  /\ first_fail' = [first_fail EXCEPT ![ip] = IF StartsOver(ip) THEN now ELSE @]
  /\ blocked_until' = [blocked_until EXCEPT ![ip] =
       IF n >= FailMax THEN now + BlockSec ELSE IF StartsOver(ip) THEN 0 ELSE @]

\* The entries of the addresses in S are gone.
Forget(S) ==
  /\ count' = [ip \in Ip |-> IF ip \in S THEN 0 ELSE count[ip]]
  /\ first_fail' = [ip \in Ip |-> IF ip \in S THEN 0 ELSE first_fail[ip]]
  /\ blocked_until' = [ip \in Ip |-> IF ip \in S THEN 0 ELSE blocked_until[ip]]

\* A code that is unknown, used up, expired, or (controller_hello) has no agent.
AttemptFails(ip) ==
  /\ ~IsBlocked(ip)
  /\ RecordFailure(ip)
  /\ UNCHANGED now

\* agent_hello or controller_hello accepted.  browser_pair does not clear the
\* record, and a code that another agent holds is no failure: no step here.
AttemptSucceeds(ip) ==
  /\ ~IsBlocked(ip)
  /\ count[ip] # 0
  /\ Forget({ip})
  /\ UNCHANGED now

\* The cleanup drops an entry as soon as its window is over.
WrongCleanup ==
  LET old == {ip \in Ip : count[ip] # 0 /\ now - first_fail[ip] > FailWindow} IN
  /\ old # {}
  /\ Forget(old)
  /\ UNCHANGED now

\* One round of _cleanup_failed_attempts, which sleeps an hour in between.
Cleanup ==
  LET old == {ip \in Ip : count[ip] # 0 /\ now - first_fail[ip] > 2 * FailWindow} IN
  /\ old # {}
  /\ Forget(old)
  /\ UNCHANGED now

Tick ==
  /\ now < MaxTime
  /\ now' = now + 1
  /\ UNCHANGED <<count, first_fail, blocked_until>>

Next ==
  \/ \E ip \in Ip : AttemptFails(ip) \/ AttemptSucceeds(ip)
  \/ Cleanup
  \/ Tick

Spec == Init /\ [][Next]_vars

-----------------------------------------------------------------------------
\* A block is served in full and never grows: as long as an address is blocked
\* nothing moves the end of its block, neither more attempts, nor a success,
\* nor the hourly cleanup, which may find its first failure long past
\* (_cleanup_failed_attempts).
BlockIsServed ==
  [][\A ip \in Ip : IsBlocked(ip) =>
       count'[ip] # 0 /\ blocked_until'[ip] = blocked_until[ip]]_vars

\* An address in one window gets FailMax guesses, and then one for each block it
\* has sat out: the count passes the limit, as failures after a block but in the
\* same window go on counting, but only at the pace of the blocks.
GuessesAreBounded ==
  \A ip \in Ip : count[ip] > FailMax =>
    (count[ip] - FailMax) * BlockSec <= FailWindow

\* No address is shut out for good: the end of its block lies within one block
\* of the end of the window of its failures.
BlockHasAnEnd ==
  \A ip \in Ip : count[ip] # 0 =>
    blocked_until[ip] <= first_fail[ip] + FailWindow + BlockSec
=============================================================================
