-------------------------------- MODULE MCPage --------------------------------
(***************************************************************************)
(* The browser's page for TLC.  Its parts share no state; each run has one *)
(* of them, and the others stay as they are at the start.                  *)
(***************************************************************************)
EXTENDS Page, FiniteSets, TLC

CONSTANTS
  Part,        \* those that a configuration is about
  MaxOverlaps, \* bound: overlapping operations of the page
  b1, k1, d1, o1

VARIABLES
  part,     \* the one that runs
  overlaps  \* how often operations of the page have overlapped

PageInit ==
  /\ part \in Part
  /\ Init /\ Ports!Init /\ Eng!Init
  /\ overlaps = 0
  /\ part # "ports" => own = [d \in Device |-> 3]

\* Two operations of the page overlap if its devices' own mode is the page's
\* default, and MaxOverlaps times at most.
PortsNext ==
  /\ Ports!Next
  /\ IF Cardinality(Ports!Busy') > 1 /\ Cardinality(Ports!Busy) = 1
     THEN /\ overlaps < MaxOverlaps /\ overlaps' = overlaps + 1
          /\ \A d \in Device : own[d] = 3
     ELSE UNCHANGED overlaps

PageNext ==
  /\ UNCHANGED part
  /\ \/ part = "remote" /\ Next /\ UNCHANGED <<ports_vars, overlaps, engines_vars>>
     \/ part = "ports" /\ PortsNext /\ UNCHANGED <<vars, engines_vars>>
     \/ part = "engines" /\ Eng!Next /\ UNCHANGED <<vars, ports_vars, overlaps>>

PageSpec == PageInit /\ [][PageNext]_<<part, overlaps, vars, ports_vars, engines_vars>>

FairPageSpec == PageSpec /\ Fairness /\ Eng!Fairness

\* Ids of a pool, devices and operations are interchangeable.  Parts run one at a
\* time: what is swapped in one may be tied to what is swapped in the other.
Tied(A, B, a, b) ==
  {p \in Permutations(A \cup B) : {p[x] : x \in A} = A /\ (p[a] = a <=> p[b] = b)}

Symmetry == Tied(Browser, Device, b1, d1) \cup Tied(Controller, Operation, k1, o1)
===============================================================================
