---------------------------- MODULE MCLogStreams ----------------------------
(***************************************************************************)
(* The streams of both agents for TLC.  A device runs one of the two; the  *)
(* other's variables stay as they are at the start.                        *)
(***************************************************************************)
EXTENDS AgentStreams

CONSTANTS h1, h2, s1, s2, s3

VARIABLE agent  \* the agent that the device runs

StreamsInit == agent \in {"python", "go"} /\ Init /\ Go!Init

\* Names that nobody bears are given in this order, to commands and to streams:
\* with another order a run is the same but for the names.
Order == <<s1, s2, s3>>

NamedInOrder(given) ==
  \A i \in 1..3 : Order[i] \in given => \A j \in 1..i - 1 : ~Unknown(Order[j])

PythonNext ==
  /\ Next
  /\ h2 \in Busy' \ Busy => h1 \in Busy
  /\ NamedInOrder({new'[h] : h \in {g \in Handler : new'[g] # new[g]}})

StreamsNext ==
  \/ agent = "python" /\ PythonNext /\ UNCHANGED <<agent, go_vars>>
  \/ agent = "go" /\ Go!Next /\ UNCHANGED <<agent, vars>>

StreamsSpec ==
  /\ StreamsInit /\ [][StreamsNext]_<<agent, vars, go_vars>>
  /\ Fairness /\ Go!Fairness
=============================================================================
