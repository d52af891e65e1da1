---------------------------- MODULE ReplicatedLog ----------------------------
(***************************************************************************)
(* What the users of a Raft group rely on: one log that only grows, and    *)
(* state machines that have each applied a prefix of it.  A state machine  *)
(* whose node restarts begins again with the first entry.                  *)
(***************************************************************************)
EXTENDS Naturals, Sequences, SequencesExt

CONSTANT Node

VARIABLES
  clog,  \* the entries some state machine has applied, in order
  sm     \* the entries each state machine has applied since it started

vars == <<clog, sm>>

Init == \A n \in Node : IsPrefix(sm[n], clog)

\* A state machine applies entries; the first to apply an entry fixes it.
Deliver(n) ==
  /\ \A x \in Node \ {n} : sm'[x] = sm[x]
  /\ IsPrefix(sm[n], sm'[n])
  /\ \/ IsPrefix(sm'[n], clog) /\ clog' = clog
     \/ IsPrefix(clog, sm'[n]) /\ clog' = sm'[n]

Restart(n) ==
  /\ \A x \in Node \ {n} : sm'[x] = sm[x]
  /\ IsPrefix(sm'[n], clog)
  /\ UNCHANGED clog

Next == \E n \in Node : Deliver(n) \/ Restart(n)

Spec == Init /\ [][Next]_vars
==============================================================================
