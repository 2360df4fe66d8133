----------------------------- MODULE QuotaCheck -----------------------------
(***************************************************************************)
(* The decisions PyKota takes from counters, limits and prices, as         *)
(* constant-level operators: no state, no database.  The modules that have *)
(* a state apply them to what a process read.                              *)
(*                                                                         *)
(* Credits and pages are integers.  A limit that is not set (None in the   *)
(* code, NULL in the database) is NoLimit.                                 *)
(***************************************************************************)
EXTENDS Integers, FiniteSets, Functions

CONSTANTS NoLimit,       (* a soft limit, hard limit or maximal size that is not set *)
          BalanceZero,   (* the 'balancezero' directive                              *)
          PoorMan        (* the 'poorman' directive                                  *)

ASSUME ThresholdAssumption ==
  /\ BalanceZero \in Int
  /\ PoorMan \in Int
  /\ NoLimit \notin Int

Verdicts == {"ALLOW", "WARN", "DENY"}

(* The two limits of a print quota entry. *)
LimitPairs == [soft : Nat \cup {NoLimit}, hard : Nat \cup {NoLimit}]

(* The grace period of an entry: its date limit is not set, set and still  *)
(* in the future, or set and past.                                         *)
DateLimits == {"unset", "running", "over"}

-----------------------------------------------------------------------------

(* What the check adds to the counters before comparing: STRICT enforcement *)
(* counts the job as if it were already printed.  The mutant never does.   *)
AnticipatesNothing(enforcement, amount) == 0
Anticipated(enforcement, amount) == IF enforcement = "STRICT" THEN amount ELSE 0

(* Between the soft and the hard limit the user prints on borrowed time.   *)
(* The mutant includes the hard limit.                                     *)
GraceThroughHard(pages, limits) ==
  /\ limits.soft # NoLimit
  /\ limits.hard # NoLimit
  /\ limits.soft <= pages
  /\ pages <= limits.hard

InGrace(pages, limits) ==
  /\ limits.soft # NoLimit
  /\ limits.hard # NoLimit
  /\ limits.soft <= pages
  /\ pages < limits.hard

(* Below the first limit that is set: nothing to complain about. *)
BelowLimits(pages, limits) ==
  IF limits.soft # NoLimit
  THEN pages < limits.soft
  ELSE limits.hard # NoLimit => pages < limits.hard

(* The verdict on one print quota entry, for a page counter that already   *)
(* includes what STRICT anticipates.                                       *)
PagesVerdict(pages, limits, date) ==
  IF BelowLimits(pages, limits) THEN "ALLOW"
  ELSE IF InGrace(pages, limits) /\ date # "over" THEN "WARN"
  ELSE "DENY"

(* The check starts the grace period of an entry that has none. *)
StartsGrace(pages, limits, date) == InGrace(pages, limits) /\ date = "unset"

(* The verdict on an account balance.  Under STRICT a job that leaves      *)
(* exactly balancezero is still printed.                                   *)
BalanceVerdict(enforcement, balance, price) ==
  LET val == balance - Anticipated(enforcement, price)
  IN  IF enforcement = "STRICT" /\ val = BalanceZero THEN "WARN"
      ELSE IF val <= BalanceZero THEN "DENY"
      ELSE IF val <= PoorMan THEN "WARN"
      ELSE "ALLOW"

(* The user's own verdict from those on the printer and on its ancestors,  *)
(* after the groups the user is a member of.                               *)
WorstVerdict(verdicts) ==
  IF "DENY" \in verdicts THEN "DENY"
  ELSE IF "WARN" \in verdicts THEN "WARN"
  ELSE "ALLOW"

(* checkUserPQuota: a group that denies wins; a user limited by balance is *)
(* judged on the balance alone (a group's warning is forgotten there, and  *)
(* a null overcharge factor always prints); every other user is judged on  *)
(* the pages used on the printer and its ancestors.                        *)
UserVerdict(group, limitby, overcharge, onbalance, onpages) ==
  IF group = "DENY" THEN "DENY"
  ELSE IF limitby = "balance" THEN IF overcharge = 0 THEN "ALLOW" ELSE onbalance
  ELSE WorstVerdict({group} \cup onpages)

-----------------------------------------------------------------------------

(* The price of a job of size pages: page and job prices added up over the *)
(* printer and its ancestors, times the user's overcharge factor.  A job   *)
(* of no page costs nothing.                                               *)
JobPrice(size, overcharge, jobfee, pageprice) ==
  IF size = 0 THEN 0 ELSE overcharge * (jobfee + size * pageprice)

(* The sum of a price over a set of printers. *)
TotalPrice(price, printers) == SumFunctionOnSet(price, printers)
=============================================================================
