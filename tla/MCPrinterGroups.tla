--------------------------- MODULE MCPrinterGroups ----------------------------
(* Instances of PrinterGroups for TLC: the requests a command may get.     *)
EXTENDS PrinterGroups, TLC

CONSTANTS c1, c2, c3

Request(ns, gs, del) == [names |-> ns, groups |-> gs, remove |-> del]

MCPrinters == 1 .. 3

(* One name and one group, to add. *)
MCSingle == {Request({p}, {g}, FALSE) : p, g \in MCPrinters}

(* These, several names, several groups, a name that is one of the groups, *)
(* and a removal.                                                          *)
MCRequests ==
  MCSingle \cup {Request(MCPrinters \ {g}, {g}, FALSE) : g \in MCPrinters}
           \cup {Request({3}, {1, 2}, FALSE), Request({1}, {1, 2}, FALSE),
                 Request({1}, {2}, TRUE)}

(* The commands are interchangeable. *)
MCSymmetry == Permutations(Commands)

=============================================================================
