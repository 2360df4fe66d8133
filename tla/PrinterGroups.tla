---------------------------- MODULE PrinterGroups -----------------------------
(***************************************************************************)
(* The printer groups, and the pkprinters commands that change them.  A    *)
(* group is a printer itself, so groups may be nested; the price of a job  *)
(* and the entries it counts on come from a recursion over the groups its  *)
(* printer is in, which ends only when no group is in itself.  A command   *)
(* works in one transaction; other commands may run at the same time.      *)
(***************************************************************************)
EXTENDS Integers

CONSTANTS
  Printers,    (* printers and groups; a number stands for a name          *)
  Commands,    (* the processes                                            *)
  Requests,    (* what a command may be asked: names, groups, remove       *)
  Caching      (* storagecaching                                           *)

ASSUME GroupsAssumption ==
  /\ Printers \subseteq Nat
  /\ Requests \subseteq [names : SUBSET Printers, groups : SUBSET Printers, remove : BOOLEAN]
  /\ Caching \in BOOLEAN

VARIABLES
  members,   (* printergroupsmembers: pairs of a group and a member        *)
  status, request,
  todo,      (* pairs of a printer and a group that are left to manage     *)
  changes,   (* rows inserted, or deleted, in the open transaction         *)
  asked,     (* the printers of which it has cached the Parents attribute  *)
  known,     (* these attributes                                           *)
  raced      (* commands during which another one committed                *)

vars == <<members, status, request, todo, changes, asked, known, raced>>

NothingKnown == [p \in Printers |-> {}]
NoRequest == [names |-> {}, groups |-> {}, remove |-> FALSE]

Init ==
  /\ members = {}
  /\ status = [c \in Commands |-> "idle"]
  /\ request = [c \in Commands |-> NoRequest]
  /\ todo = [c \in Commands |-> {}]
  /\ changes = [c \in Commands |-> {}]
  /\ asked = [c \in Commands |-> {}]
  /\ known = [c \in Commands |-> NothingKnown]
  /\ raced = {}

-----------------------------------------------------------------------------
(* Parents.                                                                *)

(* The rows a command sees: the committed ones and its own. *)
View(c) == IF request[c].remove THEN members \ changes[c] ELSE members \cup changes[c]

(* getParentPrintersFromBackend. *)
DirectParents(rows, p) == {g \in Printers \ {p} : <<g, p>> \in rows}
ParentsIn(rows)        == [p \in Printers |-> DirectParents(rows, p)]

(* A set of printers that holds the parents of its members. *)
Closed(Parents, S) == \A p \in S : Parents[p] \subseteq S

(* The printers a recursion over the parents of p meets. *)
Above(Parents, p) ==
  {q \in Printers : \A S \in SUBSET Printers :
                      Parents[p] \subseteq S /\ Closed(Parents, S) => q \in S}

(* The recursion from p ends: no set of printers it meets, p among them,   *)
(* sends it from member to member for ever.                                *)
Ends(Parents, p) ==
  \A S \in SUBSET ({p} \cup Above(Parents, p)) :
    S # {} => \E q \in S : Parents[q] \cap S = {}

(* With the cache, the Parents of a printer that was looked at before are  *)
(* what they were then.                                                    *)
SeenParents(c) ==
  IF Caching
  THEN [p \in Printers |-> IF p \in asked[c] THEN known[c][p] ELSE DirectParents(View(c), p)]
  ELSE ParentsIn(View(c))

-----------------------------------------------------------------------------
Start(c) ==
  /\ status[c] = "idle"
  /\ status' = [status EXCEPT ![c] = "open"]
  /\ \E r \in Requests :
       /\ request' = [request EXCEPT ![c] = r]
       /\ todo' = [todo EXCEPT ![c] = r.names \X r.groups]
  /\ UNCHANGED <<members, changes, asked, known, raced>>

(* Printers in the order of their names, for each the groups in theirs. *)
Before(x, y) == x[1] < y[1] \/ (x[1] = y[1] /\ x[2] < y[2])

TakeNext(c, p, g) ==
  /\ status[c] = "open"
  /\ <<p, g>> \in todo[c]
  /\ \A x \in todo[c] : ~Before(x, <<p, g>>)
  /\ todo' = [todo EXCEPT ![c] = @ \ {<<p, g>>}]

(* printer not in getParentPrinters(group) compares objects.  The parents  *)
(* come from the cache: without it they are new objects, and a printer     *)
(* named among the groups too was cached again after the one in hand.  A  *)
(* mutant only compares the two names.                                     *)
SameIdent(c, p, g)  == p = g
SameObject(c, p) == Caching /\ p \notin request[c].groups
Ineligible(c, p, g) == p = g \/ (SameObject(c, p) /\ p \in Above(SeenParents(c), g))

(* The printers whose Parents attribute the recursion sets. *)
Met(c, g) == {g} \cup Above(SeenParents(c), g)

(* addPrinterToGroup, and writePrinterToGroup, which waits for another     *)
(* command that inserts the same row.                                      *)
AddPrinterToGroup(c, p, g) ==
  /\ ~request[c].remove
  /\ Ends(SeenParents(c), g)
  /\ TakeNext(c, p, g)
  /\ IF Ineligible(c, p, g)
     THEN UNCHANGED changes
     ELSE /\ \A d \in Commands \ {c} : status[d] = "open" => <<g, p>> \notin changes[d]
          /\ changes' = [changes EXCEPT ![c] = @ \cup {<<g, p>>}]
  /\ asked' = [asked EXCEPT ![c] = @ \cup Met(c, g)]
  /\ known' = [known EXCEPT ![c] = [q \in Printers |->
                 IF q \in Met(c, g) THEN Above(SeenParents(c), q) ELSE @[q]]]
  /\ UNCHANGED <<members, status, request, raced>>

DelPrinterFromGroup(c, p, g) ==
  /\ request[c].remove
  /\ TakeNext(c, p, g)
  /\ changes' = [changes EXCEPT ![c] = @ \cup {<<g, p>>}]
  /\ UNCHANGED <<members, status, request, asked, known, raced>>

(* The process exits, and its memory with it. *)
Exit(c) ==
  /\ status[c] = "open"
  /\ status' = [status EXCEPT ![c] = "over"]
  /\ request' = [request EXCEPT ![c] = NoRequest]
  /\ todo' = [todo EXCEPT ![c] = {}]
  /\ changes' = [changes EXCEPT ![c] = {}]
  /\ asked' = [asked EXCEPT ![c] = {}]
  /\ known' = [known EXCEPT ![c] = NothingKnown]

Commit(c) ==
  /\ todo[c] = {}
  /\ members' = View(c)
  /\ raced' = raced \cup {d \in Commands \ {c} : status[d] = "open"}
  /\ Exit(c)

(* The recursion that does not end, or the row that another command had    *)
(* inserted first, raises an exception, and anything else may.             *)
Fail(c) == Exit(c) /\ UNCHANGED <<members, raced>>

Manage(c) == \E p, g \in Printers : AddPrinterToGroup(c, p, g) \/ DelPrinterFromGroup(c, p, g)

Next == \E c \in Commands : Start(c) \/ Manage(c) \/ Commit(c) \/ Fail(c)

Spec == Init /\ [][Next]_vars

-----------------------------------------------------------------------------
(* The properties.                                                         *)

InDatabase == ParentsIn(members)

(* No group is, directly or through other groups, in itself. *)
Ordered(Parents) == \A S \in SUBSET Printers : S # {} => \E q \in S : Parents[q] \cap S = {}

(* pkprinters: the cost of printing is the recursive sum of the prices of  *)
(* the printer and of all the groups it is in; it must have an end.        *)
CostIsDefined == \A p \in Printers : Ends(InDatabase, p)

(* What it takes to put a group into itself all the same: no cache,        *)
(* several groups at once (one of them is named as a printer too, or the   *)
(* cached parents of one miss what was added to the other), or another     *)
(* command that committed in between.                                      *)
Careless(c) ==
  \/ ~Caching
  \/ \A g \in Printers : request[c].groups # {g}
  \/ c \in raced

(* A command without any of these leaves the groups in order, if it finds  *)
(* them so.                                                                *)
CarefulCommandsKeepOrder ==
  [][\A c \in Commands :
       /\ status[c] = "open" /\ todo[c] = {} /\ members' = View(c)
       /\ Ordered(InDatabase)
       /\ ~Careless(c)
       => Ordered(InDatabase')]_vars

=============================================================================
