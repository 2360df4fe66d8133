------------------------- MODULE PrinterGroups_proofs -------------------------
(* A command with the cache, on one group, that no other command disturbs  *)
(* never puts a group into itself, for any printers, commands and requests. *)
EXTENDS PrinterGroups, TLAPS

(* The printers above p hold their own parents, and those of p. *)
LEMMA AboveIsClosed ==
  ASSUME NEW Up \in [Printers -> SUBSET Printers], NEW p \in Printers
  PROVE  /\ Above(Up, p) \subseteq Printers
         /\ Up[p] \subseteq Above(Up, p)
         /\ Closed(Up, Above(Up, p))
<1>1. Above(Up, p) \subseteq Printers
  BY DEF Above
<1>2. Up[p] \subseteq Above(Up, p)
  BY DEF Above
<1>3. ASSUME NEW q \in Above(Up, p), NEW r \in Up[q]
      PROVE  r \in Above(Up, p)
  <2>1. q \in Printers /\ r \in Printers
    BY <1>3, <1>1
  <2>2. ASSUME NEW S \in SUBSET Printers, Up[p] \subseteq S, Closed(Up, S)
        PROVE  r \in S
    <3>1. q \in S
      BY <2>2 DEF Above
    <3>2. QED
      BY <3>1, <2>2, <1>3 DEF Closed
  <2>3. QED
    BY <2>1, <2>2 DEF Above
<1>4. QED
  BY <1>1, <1>2, <1>3 DEF Closed

(* The parents of a printer are printers. *)
LEMMA ParentsType ==
  ASSUME NEW rows
  PROVE  ParentsIn(rows) \in [Printers -> SUBSET Printers]
BY DEF ParentsIn, DirectParents

(* Members that are neither g nor above g may join g. *)
LEMMA OrderKept ==
  ASSUME NEW old, NEW new, NEW g \in Printers,
         Ordered(ParentsIn(old)),
         \A x \in new \ old : \E q \in Printers : /\ x = <<g, q>>
                                                  /\ q \notin {g} \cup Above(ParentsIn(old), g)
  PROVE  Ordered(ParentsIn(new))
<1> DEFINE Old == ParentsIn(old)
           New == ParentsIn(new)
           T   == {g} \cup Above(Old, g)
<1> SUFFICES ASSUME NEW S \in SUBSET Printers, S # {},
                    \A q \in S : New[q] \cap S # {}
             PROVE  FALSE
  BY DEF Ordered
<1>1. Old \in [Printers -> SUBSET Printers]
  BY ParentsType
<1>2. /\ Above(Old, g) \subseteq Printers
      /\ \A q \in T : Old[q] \subseteq T
  BY <1>1, AboveIsClosed DEF Closed
(* A parent that is new is g, and its member is not in T. *)
<1>3. \A q \in Printers : \A r \in New[q] : r \in Old[q] \/ (r = g /\ q \notin T)
  <2> TAKE q \in Printers
  <2> TAKE r \in New[q]
  <2>1. /\ r \in Printers \ {q}
        /\ <<r, q>> \in new
    BY DEF ParentsIn, DirectParents
  <2>2. CASE <<r, q>> \in old
    BY <2>1, <2>2 DEF ParentsIn, DirectParents
  <2>3. CASE <<r, q>> \notin old
    <3>1. PICK m \in Printers : <<r, q>> = <<g, m>> /\ m \notin T
      BY <2>1, <2>3
    <3>2. QED
      BY <3>1
  <2>4. QED
    BY <2>2, <2>3
<1>4. CASE g \notin S
  <2>1. \A q \in S : Old[q] \cap S # {}
    BY <1>3, <1>4
  <2>2. QED
    BY <2>1 DEF Ordered
<1>5. CASE g \in S
  <2>1. \A q \in S \cap T : Old[q] \cap (S \cap T) # {}
    <3> TAKE q \in S \cap T
    <3>1. PICK r \in New[q] : r \in S
      OBVIOUS
    <3>2. r \in Old[q]
      BY <3>1, <1>3
    <3>3. r \in T
      BY <3>2, <1>2
    <3>4. QED
      BY <3>1, <3>2, <3>3
  <2>2. S \cap T \in SUBSET Printers /\ S \cap T # {}
    BY <1>5
  <2>3. QED
    BY <2>1, <2>2 DEF Ordered
<1>6. QED
  BY <1>4, <1>5

(* Removing members keeps the order too. *)
LEMMA RemovalKeepsOrder ==
  ASSUME NEW old, NEW new, new \subseteq old, Ordered(ParentsIn(old))
  PROVE  Ordered(ParentsIn(new))
<1>1. \A q \in Printers : ParentsIn(new)[q] \subseteq ParentsIn(old)[q]
  BY DEF ParentsIn, DirectParents
<1>2. QED
  BY <1>1 DEF Ordered

-----------------------------------------------------------------------------
(* The inductive invariant: the cache of a careful command that adds holds *)
(* everything above its group, and what it inserted is below.              *)
GroupsTypeOK ==
  /\ status \in [Commands -> {"idle", "open", "over"}]
  /\ request \in [Commands -> [names : SUBSET Printers, groups : SUBSET Printers,
                               remove : BOOLEAN]]
  /\ todo \in [Commands -> SUBSET (Printers \X Printers)]
  /\ changes \in [Commands -> SUBSET (Printers \X Printers)]
  /\ asked \in [Commands -> SUBSET Printers]
  /\ known \in [Commands -> [Printers -> SUBSET Printers]]

IdleIsBlank ==
  \A c \in Commands : status[c] = "idle" => changes[c] = {} /\ asked[c] = {}

AddsCarefully(c, g) ==
  /\ status[c] = "open"
  /\ Caching
  /\ request[c].groups = {g}
  /\ ~request[c].remove
  /\ c \notin raced

InsertedBelow(c, g) ==
  \A x \in changes[c] : \E q \in Printers : /\ x = <<g, q>>
                                            /\ q \notin {g} \cup Above(InDatabase, g)

CacheHolds(c, g) == IF g \in asked[c] THEN Above(InDatabase, g) \subseteq known[c][g]
                    ELSE changes[c] = {} /\ asked[c] = {}

CarefulInv ==
  \A c \in Commands, g \in Printers :
    AddsCarefully(c, g) => /\ todo[c] \subseteq Printers \X {g}
                           /\ InsertedBelow(c, g)
                           /\ CacheHolds(c, g)

GroupsInv == GroupsTypeOK /\ IdleIsBlank /\ CarefulInv

LEMMA GroupsInit == Init => GroupsInv
BY DEF Init, GroupsInv, GroupsTypeOK, IdleIsBlank, CarefulInv, AddsCarefully, NoRequest, NothingKnown

(* What a command takes for the parents of its printers are printers. *)
LEMMA SeenType ==
  ASSUME GroupsTypeOK, NEW c \in Commands
  PROVE  SeenParents(c) \in [Printers -> SUBSET Printers]
BY DEF GroupsTypeOK, SeenParents, ParentsIn, DirectParents

(* A careful command sees everything that is above its group. *)
LEMMA SeesAllAbove ==
  ASSUME GroupsInv, NEW c \in Commands, NEW g \in Printers, AddsCarefully(c, g)
  PROVE  Above(InDatabase, g) \subseteq Above(SeenParents(c), g)
<1>1. CacheHolds(c, g)
  BY DEF GroupsInv, CarefulInv
<1>2. CASE g \in asked[c]
  <2>1. SeenParents(c)[g] = known[c][g]
    BY <1>2 DEF SeenParents, AddsCarefully
  <2>2. SeenParents(c)[g] \subseteq Above(SeenParents(c), g)
    BY AboveIsClosed, SeenType DEF GroupsInv
  <2>3. QED
    BY <1>1, <1>2, <2>1, <2>2 DEF CacheHolds
<1>3. CASE g \notin asked[c]
  <2>1. View(c) = members
    BY <1>1, <1>3 DEF CacheHolds, View, AddsCarefully
  <2>2. SeenParents(c) = InDatabase
    BY <1>1, <1>3, <2>1 DEF CacheHolds, SeenParents, InDatabase, ParentsIn, AddsCarefully
  <2>3. QED
    BY <2>2
<1>4. QED
  BY <1>2, <1>3

-----------------------------------------------------------------------------
LEMMA TypeStep == GroupsTypeOK /\ [Next]_vars => GroupsTypeOK'
<1> SUFFICES ASSUME GroupsTypeOK, [Next]_vars
             PROVE  GroupsTypeOK'
  OBVIOUS
<1> USE GroupsAssumption DEF GroupsTypeOK
<1>1. ASSUME NEW c \in Commands, Start(c)
      PROVE  GroupsTypeOK'
  BY <1>1 DEF Start
<1>2. ASSUME NEW c \in Commands, NEW p \in Printers, NEW g \in Printers,
             AddPrinterToGroup(c, p, g)
      PROVE  GroupsTypeOK'
  <2>1. /\ Met(c, g) \subseteq Printers
        /\ \A q \in Printers : Above(SeenParents(c), q) \subseteq Printers
    BY SeenType, AboveIsClosed DEF Met
  <2>2. changes' \in [Commands -> SUBSET (Printers \X Printers)]
    BY <1>2 DEF AddPrinterToGroup
  <2>3. asked' \in [Commands -> SUBSET Printers] /\ known' \in [Commands -> [Printers -> SUBSET Printers]]
    BY <1>2, <2>1 DEF AddPrinterToGroup
  <2>4. todo' \in [Commands -> SUBSET (Printers \X Printers)]
    BY <1>2 DEF AddPrinterToGroup, TakeNext
  <2>5. QED
    BY <1>2, <2>2, <2>3, <2>4 DEF AddPrinterToGroup
<1>3. ASSUME NEW c \in Commands, NEW p \in Printers, NEW g \in Printers,
             DelPrinterFromGroup(c, p, g)
      PROVE  GroupsTypeOK'
  BY <1>3 DEF DelPrinterFromGroup, TakeNext
<1>4. ASSUME NEW c \in Commands, Commit(c) \/ Fail(c)
      PROVE  GroupsTypeOK'
  <2>1. /\ NoRequest \in [names : SUBSET Printers, groups : SUBSET Printers, remove : BOOLEAN]
        /\ NothingKnown \in [Printers -> SUBSET Printers]
    BY DEF NoRequest, NothingKnown
  <2>2. Exit(c)
    BY <1>4 DEF Commit, Fail
  <2>3. QED
    BY <2>1, <2>2 DEF Exit
<1>5. CASE UNCHANGED vars
  BY <1>5 DEF vars
<1>6. QED
  BY <1>1, <1>2, <1>3, <1>4, <1>5 DEF Next, Manage

LEMMA IdleStep == GroupsTypeOK /\ IdleIsBlank /\ [Next]_vars => IdleIsBlank'
<1> SUFFICES ASSUME GroupsTypeOK, IdleIsBlank, [Next]_vars
             PROVE  IdleIsBlank'
  OBVIOUS
<1> USE DEF GroupsTypeOK, IdleIsBlank
<1>1. ASSUME NEW c \in Commands, Start(c)
      PROVE  IdleIsBlank'
  BY <1>1 DEF Start
<1>2. ASSUME NEW c \in Commands, NEW p \in Printers, NEW g \in Printers,
             AddPrinterToGroup(c, p, g) \/ DelPrinterFromGroup(c, p, g)
      PROVE  IdleIsBlank'
  <2>1. status[c] = "open" /\ status' = status
    BY <1>2 DEF AddPrinterToGroup, DelPrinterFromGroup, TakeNext
  <2>2. \A d \in Commands \ {c} : changes'[d] = changes[d] /\ asked'[d] = asked[d]
    BY <1>2 DEF AddPrinterToGroup, DelPrinterFromGroup
  <2>3. QED
    BY <2>1, <2>2
<1>3. ASSUME NEW c \in Commands, Commit(c) \/ Fail(c)
      PROVE  IdleIsBlank'
  BY <1>3 DEF Commit, Fail, Exit
<1>4. CASE UNCHANGED vars
  BY <1>4 DEF vars
<1>5. QED
  BY <1>1, <1>2, <1>3, <1>4 DEF Next, Manage

(* What the invariant says of one command. *)
Careful(c, g) == /\ todo[c] \subseteq Printers \X {g}
                 /\ InsertedBelow(c, g)
                 /\ CacheHolds(c, g)

(* A command that a step leaves alone stays careful only if the rows did   *)
(* not change.                                                             *)
LEMMA OthersStayCareful ==
  ASSUME GroupsInv, NEW d \in Commands, NEW h \in Printers, AddsCarefully(d, h)',
         status'[d] = status[d], request'[d] = request[d], todo'[d] = todo[d],
         changes'[d] = changes[d], asked'[d] = asked[d], known'[d] = known[d],
         members' = members, raced \subseteq raced'
  PROVE  Careful(d, h)'
<1>1. AddsCarefully(d, h)
  BY DEF AddsCarefully
<1>2. InDatabase' = InDatabase
  BY DEF InDatabase, ParentsIn, DirectParents
<1>3. QED
  BY <1>1, <1>2 DEF GroupsInv, CarefulInv, Careful, InsertedBelow, CacheHolds

LEMMA CarefulStep == GroupsInv /\ [Next]_vars => CarefulInv'
<1> SUFFICES ASSUME GroupsInv, [Next]_vars,
                    NEW d \in Commands, NEW h \in Printers, AddsCarefully(d, h)'
             PROVE  Careful(d, h)'
  BY DEF CarefulInv, Careful
<1>0. GroupsTypeOK
  BY DEF GroupsInv
<1>1. ASSUME NEW c \in Commands, Start(c)
      PROVE  Careful(d, h)'
  <2>1. CASE c = d
    <3>1. /\ todo'[d] = request'[d].names \X request'[d].groups
          /\ request'[d].names \subseteq Printers
          /\ changes' = changes /\ asked' = asked
      BY <1>0, <1>1, <2>1, GroupsAssumption DEF Start, GroupsTypeOK
    <3>2. changes[d] = {} /\ asked[d] = {}
      BY <1>1, <2>1 DEF Start, GroupsInv, IdleIsBlank
    <3>3. request'[d].groups = {h}
      BY DEF AddsCarefully
    <3>4. QED
      BY <3>1, <3>2, <3>3 DEF Careful, InsertedBelow, CacheHolds
  <2>2. CASE c # d
    BY <1>0, <1>1, <2>2, OthersStayCareful DEF Start, GroupsTypeOK
  <2>3. QED
    BY <2>1, <2>2
<1>2. ASSUME NEW c \in Commands, NEW p \in Printers, NEW g \in Printers,
             AddPrinterToGroup(c, p, g)
      PROVE  Careful(d, h)'
  <2>1. CASE c = d
    <3>1. /\ AddsCarefully(d, h)
          /\ InDatabase' = InDatabase
      BY <1>2, <2>1 DEF AddPrinterToGroup, AddsCarefully, InDatabase, ParentsIn, DirectParents
    <3>2. Careful(d, h)
      BY <3>1 DEF GroupsInv, CarefulInv, Careful
    <3>3. g = h /\ todo'[d] \subseteq todo[d]
      BY <1>0, <1>2, <2>1, <3>2 DEF AddPrinterToGroup, TakeNext, Careful, GroupsTypeOK
    <3>4. Above(InDatabase, h) \subseteq Above(SeenParents(d), h)
      BY <3>1, SeesAllAbove
    <3>5. CacheHolds(d, h)'
      <4>1. h \in asked'[d] /\ known'[d][h] = Above(SeenParents(d), h)
        BY <1>0, <1>2, <2>1, <3>3 DEF AddPrinterToGroup, Met, GroupsTypeOK
      <4>2. QED
        BY <3>1, <3>4, <4>1 DEF CacheHolds
    <3>6. InsertedBelow(d, h)'
      <4>1. CASE Ineligible(d, p, h)
        BY <1>2, <2>1, <3>1, <3>2, <3>3, <4>1 DEF AddPrinterToGroup, Careful, InsertedBelow
      <4>2. CASE ~Ineligible(d, p, h)
        <5>1. changes'[d] = changes[d] \cup {<<h, p>>}
          BY <1>0, <1>2, <2>1, <3>3, <4>2 DEF AddPrinterToGroup, GroupsTypeOK
        <5>2. p \notin {h} \cup Above(InDatabase, h)
          BY <3>1, <3>4, <4>2 DEF Ineligible, SameObject, AddsCarefully
        <5>3. QED
          BY <3>1, <3>2, <5>1, <5>2 DEF Careful, InsertedBelow
      <4>3. QED
        BY <4>1, <4>2
    <3>7. QED
      BY <3>2, <3>3, <3>5, <3>6 DEF Careful
  <2>2. CASE c # d
    BY <1>0, <1>2, <2>2, OthersStayCareful DEF AddPrinterToGroup, TakeNext, GroupsTypeOK
  <2>3. QED
    BY <2>1, <2>2
<1>3. ASSUME NEW c \in Commands, NEW p \in Printers, NEW g \in Printers,
             DelPrinterFromGroup(c, p, g)
      PROVE  Careful(d, h)'
  <2>1. c # d
    BY <1>3 DEF DelPrinterFromGroup, AddsCarefully
  <2>2. QED
    BY <1>0, <1>3, <2>1, OthersStayCareful DEF DelPrinterFromGroup, TakeNext, GroupsTypeOK
<1>4. ASSUME NEW c \in Commands, Commit(c)
      PROVE  Careful(d, h)'
  <2>1. c # d /\ status[d] = "open"
    BY <1>0, <1>4 DEF Commit, Exit, AddsCarefully, GroupsTypeOK
  <2>2. d \in raced'
    BY <1>4, <2>1 DEF Commit
  <2>3. QED
    BY <2>2 DEF AddsCarefully
<1>5. ASSUME NEW c \in Commands, Fail(c)
      PROVE  Careful(d, h)'
  <2>1. c # d
    BY <1>0, <1>5 DEF Fail, Exit, AddsCarefully, GroupsTypeOK
  <2>2. QED
    BY <1>0, <1>5, <2>1, OthersStayCareful DEF Fail, Exit, GroupsTypeOK
<1>6. CASE UNCHANGED vars
  BY <1>6, OthersStayCareful DEF vars
<1>7. QED
  BY <1>1, <1>2, <1>3, <1>4, <1>5, <1>6 DEF Next, Manage

(* The invariant holds always. *)
THEOREM CommandsAreCareful == Spec => []GroupsInv
<1>1. GroupsInv /\ [Next]_vars => GroupsInv'
  BY TypeStep, IdleStep, CarefulStep DEF GroupsInv
<1>2. QED
  BY GroupsInit, <1>1, PTL DEF Spec

(* A careful command that commits puts no group into itself. *)
LEMMA CommitKeepsOrder ==
  ASSUME GroupsInv, NEW c \in Commands, status[c] = "open", members' = View(c),
         Ordered(InDatabase), ~Careless(c)
  PROVE  Ordered(InDatabase')
<1>1. PICK g \in Printers : request[c].groups = {g}
  BY DEF Careless
<1>2. InDatabase = ParentsIn(members) /\ InDatabase' = ParentsIn(View(c))
  BY DEF InDatabase, ParentsIn, DirectParents
<1>3. CASE request[c].remove
  BY <1>2, <1>3, RemovalKeepsOrder DEF View
<1>4. CASE ~request[c].remove
  <2>1. InsertedBelow(c, g)
    BY <1>1, <1>4 DEF GroupsInv, CarefulInv, AddsCarefully, Careless
  <2>2. View(c) \ members \subseteq changes[c]
    BY <1>4 DEF View
  <2>3. QED
    BY <1>2, <2>1, <2>2, OrderKept DEF InsertedBelow
<1>5. QED
  BY <1>3, <1>4

(* Every careful command keeps the groups in order: the recursion over the *)
(* groups of a printer ends after it if it ended before, whatever the      *)
(* number of printers, groups and commands.                                *)
THEOREM CarefulCommands == Spec => CarefulCommandsKeepOrder
<1> DEFINE Step == \A c \in Commands :
                     /\ status[c] = "open" /\ todo[c] = {} /\ members' = View(c)
                     /\ Ordered(InDatabase)
                     /\ ~Careless(c)
                     => Ordered(InDatabase')
<1>1. GroupsInv => Step
  BY CommitKeepsOrder
<1>2. Spec => [][Step]_vars
  <2>1. GroupsInv /\ [Next]_vars => [Step]_vars
    BY <1>1
  <2>2. QED
    BY <2>1, CommandsAreCareful, PTL DEF Spec
<1>3. QED
  BY <1>2 DEF CarefulCommandsKeepOrder

=============================================================================
