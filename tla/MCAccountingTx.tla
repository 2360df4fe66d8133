---------------------------- MODULE MCAccountingTx ----------------------------
(* Instances of AccountingTx for TLC: an user who prints on two printers   *)
(* that are members of the same two groups.                                *)
EXTENDS AccountingTx

CONSTANTS j1, j2, onGroup, r1, balanced, counted,
          u1, p1, p2, g1, g2, c1

JobFor(printer, parents) ==
  [user |-> u1, printer |-> printer, parents |-> parents, size |-> 2, price |-> 3,
   counted |-> TRUE, code |-> c1]

(* Two jobs on the printers and one on the queue of a group. *)
MCJob == [j \in Charges |->
            CASE j = j1      -> JobFor(p1, {g1, g2})
              [] j = j2      -> JobFor(p2, {g1, g2})
              [] j = onGroup -> JobFor(g1, {})]

MCRefunded == [r \in Refunds |-> j1]

(* pkusers on one user, edpykota on two quota entries. *)
MCChanges == [s \in Saves |->
                IF s = balanced THEN <<[row |-> Balance(u1), by |-> 5]>>
                ELSE <<[row |-> Quota(u1, g2), by |-> 0], [row |-> Quota(u1, p1), by |-> 4]>>]

MCInitialAmount == [r \in Rows |-> 0]

=============================================================================
