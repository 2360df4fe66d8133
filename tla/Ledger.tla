-------------------------------- MODULE Ledger --------------------------------
(***************************************************************************)
(* What the accounting database promises: rows that hold a number (the     *)
(* balance of an user, the pages of a quota entry or of a billing code),   *)
(* and transactions that each happen at once or not at all.  A transaction *)
(* that adds (a job, a refund) adds its effect to what the rows hold then. *)
(* One that sets (the administrator's tools) writes what it likes to the   *)
(* rows it is about, and touches no other.                                 *)
(***************************************************************************)
EXTENDS Integers

CONSTANTS Rows, Adders, Setters,
          InitialAmount,
          Effect(_, _),   (* what an adder adds to a row *)
          Target(_)       (* the rows a setter is about  *)

VARIABLES amount, done

vars == <<amount, done>>

Init == /\ amount = InitialAmount
        /\ done = {}

Happens(t) == /\ t \notin done
              /\ done' = done \cup {t}

Add(t) == /\ Happens(t)
          /\ amount' = [r \in Rows |-> amount[r] + Effect(t, r)]

Set(t) == /\ Happens(t)
          /\ amount' \in [Rows -> Int]
          /\ \A r \in Rows \ Target(t) : amount'[r] = amount[r]

Next == \/ \E t \in Adders  : Add(t)
        \/ \E t \in Setters : Set(t)

Spec == Init /\ [][Next]_vars

=============================================================================
