------------------------------- MODULE MCRaft -------------------------------
(* Instances of Raft with three nodes. *)
EXTENDS Raft

CONSTANTS n1, n2, n3

\* Three members; elections in two terms after the one the group starts with.
L == [boot |-> Node, ahead |-> FALSE, slow |-> {}, join |-> {}, term |-> 4, props |-> 0,
      beats |-> 0, reports |-> 0, restarts |-> 0,
      power |-> FALSE, early |-> FALSE]

\* Elections and restarts of whole groups; joins, of a group with one member
\* and with two; proposals; a slow node; a group of one whose machine fails.
Limits ==
  {[L EXCEPT !.ahead = TRUE, !.term = 5],
   [L EXCEPT !.slow = {n1}, !.term = 3, !.restarts = 1],
   [L EXCEPT !.boot = {n1}, !.slow = {n1}, !.join = {n2, n3}, !.props = 1],
   [L EXCEPT !.boot = {n1, n2}, !.join = {n3}, !.beats = 1],
   [L EXCEPT !.boot = {n1, n2}, !.join = {n3}, !.restarts = 1],
   [L EXCEPT !.boot = {n1, n2}, !.props = 1, !.reports = 1, !.restarts = 1],
   [L EXCEPT !.boot = {}, !.join = {n2}, !.props = 1, !.restarts = 1, !.early = TRUE],
   [L EXCEPT !.boot = {n1}, !.restarts = 1, !.power = TRUE]}
=============================================================================
