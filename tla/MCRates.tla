------------------------------ MODULE MCRates ------------------------------
(* Instances of Rates: a second is 6 ticks, so that the rates 2, 4 and 9 give *)
(* a quantum of 1, 2 and 3 for a resolution of 3, 3 and 2.                    *)
EXTENDS Rates

A == [inRate |-> 0, inMax |-> 0, outRate |-> 0, outMax |-> 0, batch |-> 2,
      cap |-> 2, emits |-> 1, tx |-> FALSE]

\* Incoming rates, outgoing rates with two messages emitted for each message
\* received, both, and a transactional application without rates.
Apps ==
  {[A EXCEPT !.inRate = r, !.inMax = m] : r \in {2, 4, 9}, m \in {0, 1, 3}}
  \cup {[A EXCEPT !.outRate = r, !.outMax = m, !.emits = 2] :
          r \in {2, 4, 9}, m \in {0, 1, 2}}
  \cup {[A EXCEPT !.inRate = 9, !.inMax = 2, !.outRate = 4, !.outMax = 2,
                  !.emits = e, !.cap = 3] : e \in {0, 1, 2}}
  \cup {[A EXCEPT !.emits = 2, !.tx = TRUE]}

\* A transactional application with an outgoing rate.
TxApps == {[A EXCEPT !.outRate = 4, !.outMax = 2, !.tx = TRUE]}
=============================================================================
