------------------------------ MODULE CodeLease ------------------------------
(***************************************************************************)
(* What an access code promises, without the server that keeps it: a code  *)
(* is leased to one session at a time, a lease that ends is counted once,  *)
(* and a limited code is spent when its last use has been counted.  Only   *)
(* an operator's unlock, the housekeeping and a restart may end a lease    *)
(* without counting it.                                                    *)
(***************************************************************************)
EXTENDS Naturals

CONSTANTS Code, Unlimited, MaxUses

VARIABLES
  lease,  \* code -> "free", "leased" or "spent"
  uses    \* code -> leases that ended and were counted

vars == <<lease, uses>>

Init ==
  /\ lease = [c \in Code |-> "free"]
  /\ uses = [c \in Code |-> 0]

\* A session begins.
Grant(c) ==
  /\ lease[c] = "free"
  /\ lease' = [lease EXCEPT ![c] = "leased"]
  /\ UNCHANGED uses

\* A session on an unlimited code ends.
Release(c) ==
  /\ c \in Unlimited
  /\ lease[c] = "leased"
  /\ lease' = [lease EXCEPT ![c] = "free"]
  /\ UNCHANGED uses

\* A session on a limited code ends and is counted.
Settle(c) ==
  /\ c \notin Unlimited
  /\ lease[c] = "leased"
  /\ uses' = [uses EXCEPT ![c] = @ + 1]
  /\ lease' = [lease EXCEPT ![c] = IF uses[c] + 1 < MaxUses[c] THEN "free" ELSE "spent"]

\* The leases of S are set aside uncounted.
Forfeit(S) ==
  /\ \A c \in S : lease[c] = "leased"
  /\ lease' = [c \in Code |-> IF c \in S THEN "free" ELSE lease[c]]
  /\ UNCHANGED uses

\* The code is withdrawn.
Withdraw(c) ==
  /\ lease[c] # "spent"
  /\ lease' = [lease EXCEPT ![c] = "spent"]
  /\ UNCHANGED uses

Next ==
  \/ \E c \in Code : Grant(c) \/ Release(c) \/ Settle(c) \/ Withdraw(c)
  \/ \E S \in SUBSET Code : Forfeit(S)

Spec == Init /\ [][Next]_vars
=============================================================================
