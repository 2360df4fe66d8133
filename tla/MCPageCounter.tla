---------------------------- MODULE MCPageCounter -----------------------------
(* Instances of PageCounter for TLC.                                       *)
EXTENDS PageCounter

Ordinary ==
  [protocol |-> "SNMP", skip |-> FALSE, limited |-> TRUE, retry |-> TRUE, lies |-> FALSE,
   mask |-> {"Jammed"}, slow |-> FALSE, counter |-> 28, previous |-> None]

(* Every protocol with an ordinary printer, with and without the initial   *)
(* wait; one that lies, one that is slow, one without a limit, one whose   *)
(* jams are masked, new ones, a command that must not fail.                *)
MCConfs ==
  {[Ordinary EXCEPT !.protocol = p, !.skip = s] : p \in Protocols, s \in BOOLEAN}
    \cup {[Ordinary EXCEPT !.protocol = p, !.lies = TRUE] : p \in {"SNMP", "PJL"}}
    \cup {[Ordinary EXCEPT !.slow = TRUE, !.skip = TRUE],
          [Ordinary EXCEPT !.limited = FALSE],
          [Ordinary EXCEPT !.mask = {}],
          [Ordinary EXCEPT !.counter = 0, !.skip = TRUE],
          [Ordinary EXCEPT !.counter = 0, !.previous = 7, !.skip = TRUE],
          [Ordinary EXCEPT !.protocol = "COMMAND", !.retry = FALSE]}

Sheets(action, n) == [action |-> action, bytes |-> TRUE, sheets |-> n]

(* Jobs of two sheets, accepted or with a warning, one the printer rejects *)
(* and one without data.                                                   *)
MCRequests ==
  {Sheets("ALLOW", 2), Sheets("WARN", 2), Sheets("ALLOW", 0),
   [action |-> "ALLOW", bytes |-> FALSE, sheets |-> 0]}

(* The configuration of the comment at conf/pykota.conf.sample:706. *)
MCSkipping == {[Ordinary EXCEPT !.protocol = p, !.skip = TRUE] : p \in {"SNMP", "PJL"}}

=============================================================================
