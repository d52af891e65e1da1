------------------------------- MODULE Colony -------------------------------
(***************************************************************************)
(* The colony value of colony.go: the bees that maintain one state.  The   *)
(* follower slice is a set here: AddFollower refuses an identifier that is *)
(* already a member, so a slice never holds one twice, and Equals compares *)
(* slices by length and membership, which is equality of sets.             *)
(***************************************************************************)
EXTENDS Naturals

CONSTANT MaxBeeID  \* bound: bee identifiers are 0..MaxBeeID, 0 is Nil

ASSUME MaxBeeIDAssumption == MaxBeeID \in Nat

Nil == 0

BeeIDs == 0..MaxBeeID

Colonies == [ID : BeeIDs, Leader : BeeIDs, Followers : SUBSET BeeIDs]

NilColony == [ID |-> Nil, Leader |-> Nil, Followers |-> {}]

IsNil(c) == c.ID = Nil /\ c.Leader = Nil /\ c.Followers = {}

IsFollower(c, b) == b \in c.Followers

Contains(c, b) == c.Leader = b \/ IsFollower(c, b)

\* The colony with f added; a member (or Nil) leaves it as it is.
AddFollower(c, f) ==
  IF f = Nil \/ Contains(c, f) THEN c ELSE [c EXCEPT !.Followers = @ \cup {f}]

DelFollower(c, f) == [c EXCEPT !.Followers = @ \ {f}]

\* queen.go: a new bee starts as the leader of a colony of its own.
DefaultColony(b) == [ID |-> b, Leader |-> b, Followers |-> {}]

\* bee.go, ProcessStatusChange: the old leader joins the followers and the
\* fellow on the elected hive leaves them to lead.
WithLeader(c, b) ==
  LET all == IF c.Leader = Nil THEN c
             ELSE AddFollower([c EXCEPT !.Leader = Nil], c.Leader)
  IN  [DelFollower(all, b) EXCEPT !.Leader = b]
=============================================================================
