-------------------------- MODULE PrintJobs_proofs --------------------------
(***************************************************************************)
(* Proofs about PrintJobs, for every set of jobs, topology and setting:    *)
(* its types, and the safety properties that hold for every instance.      *)
(* Each of these rests on an inductive invariant; all of them need the     *)
(* mutual exclusion of the processes that work on the same device, which   *)
(* is proved first.                                                        *)
(***************************************************************************)
EXTENDS PrintJobs, Sums_proofs, TLAPS

LEMMA TicketFacts ==
  ASSUME NEW j \in Jobs
  PROVE  /\ User(j) \in Users
         /\ Printer(j) \in Printers
         /\ Device(j) \in Devices
         /\ Ticket[j].size \in Nat
         /\ Ticket[j].code \in Codes \cup {None}
<1>1. /\ Ticket[j].user \in Users /\ Ticket[j].printer \in Printers
      /\ Ticket[j].size \in Nat /\ Ticket[j].code \in Codes \cup {None}
  BY TopologyAssumption
<1>2. QED
  BY <1>1, TopologyAssumption DEF User, Printer, Device

LEMMA ConfFacts ==
  ASSUME TypeOK, NEW j \in Jobs
  PROVE  Conf(j) \in ConfType
BY TicketFacts, SettingsAssumption DEF TypeOK, Conf

LEMMA TypeInit == Init => TypeOK
BY TopologyAssumption, SettingsAssumption
   DEF Init, TypeOK, NoMem, NoRow, Points, Working, Actions, DateLimits,
       EntryType, CodeType, RowType, MemoryType

LEMMA GoToType ==
  ASSUME pc \in [Jobs -> Points], NEW j \in Jobs, NEW from, NEW to \in Points, GoTo(j, from, to)
  PROVE  pc' \in [Jobs -> Points]
BY DEF GoTo

(* The assignments to one entry of userpquota, whatever the new entry is. *)
LEMMA EntryUpdate ==
  ASSUME upq \in [Users -> [Printers -> EntryType]],
         NEW u \in Users, NEW p \in Printers, NEW e \in EntryType
  PROVE  [upq EXCEPT ![u] = [upq[u] EXCEPT ![p] = e]] \in [Users -> [Printers -> EntryType]]
<1>1. [upq[u] EXCEPT ![p] = e] \in [Printers -> EntryType]
  OBVIOUS
<1>2. QED
  BY <1>1

LEMMA ShownUpdate ==
  ASSUME shown \in [Users -> [Printers -> Nat]],
         NEW u \in Users, NEW p \in Printers, NEW n \in Nat
  PROVE  [shown EXCEPT ![u] = [shown[u] EXCEPT ![p] = n]] \in [Users -> [Printers -> Nat]]
<1>1. [shown[u] EXCEPT ![p] = n] \in [Printers -> Nat]
  OBVIOUS
<1>2. QED
  BY <1>1

LEMMA EntryFields ==
  ASSUME NEW e \in EntryType, NEW n \in Int, NEW w \in Nat
  PROVE  [e EXCEPT !.pages = n, !.warn = w] \in EntryType
BY DEF EntryType

LEMMA RetrieveCases ==
  ASSUME NEW j \in Jobs, Retrieve(j)
  PROVE  Rejected(j) \/ KnownUser(j) \/ CreatedByPolicy(j) \/ AllowedByPolicy(j)
BY DEF Retrieve

LEMMA TypeWait ==
  ASSUME TypeOK, NEW j \in Jobs, WaitForLock(j)
  PROVE  TypeOK'
BY TicketFacts DEF TypeOK, WaitForLock, GoTo, Points, Working, dbVars, devVars

LEMMA TypeClean ==
  ASSUME TypeOK, NEW j \in Jobs, Clean(j)
  PROVE  TypeOK'
BY TicketFacts DEF TypeOK, Clean, GoTo, Points, Working, dbVars, devVars

LEMMA TypeAbort ==
  ASSUME TypeOK, NEW j \in Jobs, Abort(j)
  PROVE  TypeOK'
BY TicketFacts DEF TypeOK, Abort, GoTo, Points, Working, dbVars, devVars

LEMMA TypeSend ==
  ASSUME TypeOK, NEW j \in Jobs, SendOrRemove(j)
  PROVE  TypeOK'
<1>1. pc' \in [Jobs -> Points]
  BY GoToType DEF TypeOK, SendOrRemove, Points, Working
<1>2. tries' \in [Jobs -> Nat]
  BY DEF TypeOK, SendOrRemove
<1>3. UNCHANGED <<conf, dbVars, devVars,
                  lock, action, mem, retcode, bannersize, before, meter, orphans>>
  BY DEF SendOrRemove
<1>4. QED
  BY <1>1, <1>2, <1>3 DEF TypeOK, dbVars, devVars

LEMMA TypeOrphanPrints ==
  ASSUME TypeOK, NEW j \in Jobs, OrphanPrints(j)
  PROVE  TypeOK'
BY TicketFacts DEF TypeOK, OrphanPrints, dbVars, procVars

LEMMA TypeOrphanEnds ==
  ASSUME TypeOK, NEW j \in Jobs, OrphanEnds(j)
  PROVE  TypeOK'
BY DEF TypeOK, OrphanEnds, dbVars, devVars

LEMMA TypeBackendPrints ==
  ASSUME TypeOK, NEW j \in Jobs, BackendPrints(j)
  PROVE  TypeOK'
BY TicketFacts DEF TypeOK, BackendPrints, dbVars, procVars

LEMMA TypeBackendEnds ==
  ASSUME TypeOK, NEW j \in Jobs, BackendSucceeds(j) \/ BackendFails(j)
  PROVE  TypeOK'
<1>1. pc' \in [Jobs -> Points]
  <2>1. {AfterBackend(j, TRUE), AfterBackend(j, FALSE), "asleep"} \subseteq Points
    BY DEF AfterBackend, Points, Working
  <2>2. QED
    BY <2>1, GoToType DEF TypeOK, BackendSucceeds, BackendFails
<1>2. retcode' \in [Jobs -> BOOLEAN]
  BY DEF TypeOK, BackendSucceeds, BackendFails
<1>3. UNCHANGED <<conf, dbVars, devVars,
                  lock, action, mem, tries, bannersize, before, meter, orphans>>
  BY DEF BackendSucceeds, BackendFails
<1>4. QED
  BY <1>1, <1>2, <1>3 DEF TypeOK, dbVars, devVars

LEMMA TypeRetry ==
  ASSUME TypeOK, NEW j \in Jobs, Retry(j)
  PROVE  TypeOK'
<1>1. pc' \in [Jobs -> Points]
  <2>1. "backend" \in Points
    BY DEF Points, Working
  <2>2. QED
    BY <2>1, GoToType DEF TypeOK, Retry
<1>2. tries' \in [Jobs -> Nat]
  <2>1. LoopCount(j) \in Nat /\ tries \in [Jobs -> Nat]
    BY DEF TypeOK, LoopCount
  <2>2. QED
    BY <2>1 DEF Retry
<1>3. QED
  BY <1>1, <1>2 DEF Retry, TypeOK, dbVars, devVars

LEMMA TypeGrace ==
  ASSUME TypeOK, NEW u \in Users, NEW p \in Printers, GraceEnds(u, p)
  PROVE  TypeOK'
<1>1. upq' \in [Users -> [Printers -> EntryType]]
  <2>1. upq \in [Users -> [Printers -> EntryType]]
    BY DEF TypeOK, EntryType
  <2>2. [upq[u][p] EXCEPT !.date = "over"] \in EntryType
    BY <2>1 DEF EntryType, DateLimits
  <2>3. upq' = [upq EXCEPT ![u] = [upq[u] EXCEPT ![p] = [upq[u][p] EXCEPT !.date = "over"]]]
    BY DEF GraceEnds
  <2>4. QED
    BY <2>1, <2>2, <2>3
<1>2. QED
  BY <1>1 DEF TypeOK, EntryType, GraceEnds, procVars, devVars

LEMMA TypeRetrieve ==
  ASSUME TypeOK, NEW j \in Jobs, Retrieve(j)
  PROVE  TypeOK'
<1>1. action' \in [Jobs -> Actions]
  BY SettingsAssumption DEF TypeOK, Retrieve, Actions
<1>2. pc' \in [Jobs -> Points]
  <2>1. {"clean", "retrieved", "backend"} \subseteq Points
    BY DEF Points, Working
  <2>2. QED
    BY <2>1, RetrieveCases, GoToType
       DEF TypeOK, Rejected, KnownUser, CreatedByPolicy, AllowedByPolicy
<1>3. tries' \in [Jobs -> Nat]
  BY RetrieveCases DEF TypeOK, Rejected, KnownUser, CreatedByPolicy, AllowedByPolicy
<1>4. mem' \in [Jobs -> MemoryType]
  <2>1. CASE Rejected(j)
    BY <2>1 DEF TypeOK, Rejected
  <2>2. CASE AllowedByPolicy(j)
    BY <2>2 DEF TypeOK, AllowedByPolicy
  <2>3. CASE KnownUser(j) \/ CreatedByPolicy(j)
    <3>1. Snapshot(j) \in MemoryType
      <4>1. User(j) \in Users /\ Printer(j) \in Printers
        BY TicketFacts
      <4>2. balance[User(j)] \in Int /\ upq[User(j)][Printer(j)] \in EntryType
        BY <4>1 DEF TypeOK
      <4>3. QED
        BY <4>2 DEF Snapshot, NoMem, MemoryType, EntryType
    <3>2. mem' = [mem EXCEPT ![j] = Snapshot(j)]
      BY <2>3 DEF KnownUser, CreatedByPolicy
    <3>3. QED
      BY <3>1, <3>2 DEF TypeOK
  <2>4. QED
    BY <2>1, <2>2, <2>3, RetrieveCases
<1>5. upq' \in [Users -> [Printers -> EntryType]]
  <2>1. upq \in [Users -> [Printers -> EntryType]] /\ User(j) \in Users /\ Printer(j) \in Printers
    BY TicketFacts DEF TypeOK
  <2>2. upq[User(j)][Printer(j)] \in EntryType
    BY <2>1
  <2> DEFINE created == [upq[User(j)][Printer(j)] EXCEPT !.exists = TRUE]
  <2>3. created \in EntryType
    BY <2>2 DEF EntryType
  <2>4. \/ upq' = upq
        \/ upq' = [upq EXCEPT ![User(j)] = [upq[User(j)] EXCEPT ![Printer(j)] = created]]
    BY RetrieveCases DEF Rejected, KnownUser, CreatedByPolicy, AllowedByPolicy
  <2> HIDE DEF created
  <2>5. QED
    BY <2>1, <2>3, <2>4, EntryUpdate
<1>6. QED
  BY <1>1, <1>2, <1>3, <1>4, <1>5 DEF TypeOK, Retrieve, EntryType, devVars

LEMMA PriceType ==
  ASSUME NEW j \in Jobs, NEW size \in Int, NEW printers \in SUBSET Printers
  PROVE  Price(j, size, printers) \in Int
<1>0. IsFiniteSet(printers) /\ \A p \in printers : JobFee[p] \in Int /\ PagePrice[p] \in Int
  BY TopologyAssumption, SettingsAssumption, FS_Subset
<1>1. /\ Profile[User(j)].overcharge \in Int
      /\ TotalPrice(JobFee, printers) \in Int
      /\ TotalPrice(PagePrice, printers) \in Int
  BY <1>0, TicketFacts, SettingsAssumption, SumType DEF TotalPrice
<1>2. QED
  <2> DEFINE o == Profile[User(j)].overcharge
             f == TotalPrice(JobFee, printers)
             g == TotalPrice(PagePrice, printers)
  <2>1. o \in Int /\ f \in Int /\ g \in Int
    BY <1>1
  <2> HIDE DEF o, f, g
  <2>2. o * (f + size * g) \in Int
    BY <2>1
  <2>3. Price(j, size, printers) = IF size = 0 THEN 0 ELSE o * (f + size * g)
    BY DEF Price, JobPrice, o, f, g
  <2>4. QED
    BY <2>2, <2>3

LEMMA SizeType ==
  ASSUME TypeOK, NEW j \in Jobs
  PROVE  JobSize(j) \in Int
<1>1. Conf(j).trustvalue \in Nat \cup {NoLimit}
  BY ConfFacts DEF ConfType
<1>2. /\ meter[j] \in Int /\ bannersize[j] \in Nat
      /\ Ticket[j].size \in Nat
  BY TicketFacts DEF TypeOK
<1>3. Sanitized(j, meter[j]) \in Int
  BY <1>1, <1>2 DEF Sanitized
<1>4. QED
  BY <1>2, <1>3 DEF JobSize, BannersAndData

LEMMA RowPriceType ==
  ASSUME TypeOK, NEW j \in Jobs
  PROVE  RowPrice(j) \in Int
<1>1. mem[j].entries \in SUBSET Printers
  BY DEF TypeOK, MemoryType
<1>2. QED
  BY <1>1, SizeType, PriceType DEF RowPrice

LEMMA TypeClose ==
  ASSUME TypeOK, NEW j \in Jobs, Close(j)
  PROVE  TypeOK'
<1>1. FinalAction(j) \in Actions
  BY DEF FinalAction, TypeOK, Actions
<1>2. pc' \in [Jobs -> Points]
  BY GoToType DEF TypeOK, Close, Points, Working
<1>3. rows' \in [Jobs -> RowType]
  <2>1. [action |-> FinalAction(j), size |-> JobSize(j), price |-> RowPrice(j)] \in RowType
    BY <1>1, SizeType, RowPriceType DEF RowType
  <2>2. QED
    BY <2>1 DEF Close, TypeOK
<1>4. last' \in [Printers -> Jobs \cup {None}]
  BY DEF Close, TypeOK
<1>5. balance' \in [Users -> Int]
  <2>1. ChargedBalance(j) \in Int
    BY RowPriceType, TicketFacts DEF ChargedBalance, TypeOK
  <2>2. QED
    BY <2>1 DEF Close, TypeOK
<1>6. upq' \in [Users -> [Printers -> EntryType]]
  <2>1. ASSUME NEW q \in Printers
        PROVE  EntryAfter(j, q) \in EntryType
    <3>1. upq[User(j)][q] \in EntryType
      BY TicketFacts DEF TypeOK
    <3> DEFINE n == IF Counted(j) /\ q \in mem[j].entries
                    THEN upq[User(j)][q].pages + JobSize(j) ELSE upq[User(j)][q].pages
               w == IF q = Printer(j) /\ ~Refused(FinalAction(j))
                    THEN 0 ELSE upq[User(j)][q].warn
    <3>2. n \in Int /\ w \in Nat
      BY <3>1, SizeType DEF EntryType
    <3>3. EntryAfter(j, q) = [upq[User(j)][q] EXCEPT !.pages = n, !.warn = w]
      BY DEF EntryAfter
    <3> HIDE DEF n, w
    <3>4. QED
      BY <3>1, <3>2, <3>3, EntryFields
  <2>2. QED
    BY <2>1 DEF TypeOK, Close
<1>7. codes' \in [Codes -> CodeType]
  <2>1. ASSUME Ticket[j].code \in Codes
        PROVE  CodeAfter(j) \in CodeType
    <3>1. codes[Ticket[j].code] \in CodeType
      BY <2>1 DEF TypeOK
    <3>2. JobSize(j) \in Int /\ RowPrice(j) \in Int
      BY SizeType, RowPriceType
    <3> DEFINE n == codes[Ticket[j].code].pages + JobSize(j)
               b == codes[Ticket[j].code].balance + RowPrice(j)
    <3>3. n \in Int /\ b \in Int
      BY <3>1, <3>2 DEF CodeType
    <3>4. CodeAfter(j) = [codes[Ticket[j].code] EXCEPT !.pages = n, !.balance = b]
      BY DEF CodeAfter
    <3> HIDE DEF n, b
    <3>5. QED
      BY <3>1, <3>3, <3>4 DEF CodeType
  <2>2. QED
    BY <2>1 DEF Close, TypeOK
<1>8. mem' \in [Jobs -> MemoryType]
  <2>1. [mem[j] EXCEPT !.warn = 0] \in MemoryType
    <3>1. mem[j] \in MemoryType
      BY DEF TypeOK
    <3>2. QED
      BY <3>1 DEF MemoryType
  <2>2. mem' = mem \/ mem' = [mem EXCEPT ![j] = [mem[j] EXCEPT !.warn = 0]]
    BY DEF Close
  <2>3. QED
    BY <2>1, <2>2 DEF TypeOK
<1>9. shown' \in [Users -> [Printers -> Nat]]
  BY TicketFacts DEF Close, TypeOK
<1>10. action' \in [Jobs -> Actions]
  BY <1>1 DEF Close, TypeOK
<1>11. QED
  BY <1>2, <1>3, <1>4, <1>5, <1>6, <1>7, <1>8, <1>9, <1>10 DEF Close, TypeOK

(* What a banner leaves in the variables it may change. *)
BannerType ==
  /\ upq' \in [Users -> [Printers -> EntryType]]
  /\ mem' \in [Jobs -> MemoryType]
  /\ bannersize' \in [Jobs -> Nat]
  /\ counter' \in [Devices -> Nat]
  /\ sheets' \in [Jobs -> Nat]
  /\ banners' \in [Jobs -> Nat]
  /\ shown' \in [Users -> [Printers -> Nat]]

LEMMA TypeBanner ==
  ASSUME TypeOK, NEW j \in Jobs, NEW c, NEW w, BannerIf(j, c, w)
  PROVE  BannerType
<1> DEFINE warned == [upq[User(j)][Printer(j)] EXCEPT !.warn = @ + 1]
           known  == [mem[j] EXCEPT !.warn = @ + 1]
<1>1. /\ User(j) \in Users /\ Printer(j) \in Printers /\ Device(j) \in Devices
      /\ upq \in [Users -> [Printers -> EntryType]] /\ mem \in [Jobs -> MemoryType]
  BY TicketFacts DEF TypeOK
<1>2. upq[User(j)][Printer(j)] \in EntryType /\ mem[j] \in MemoryType
  BY <1>1
<1>3. warned \in EntryType /\ known \in MemoryType
  BY <1>2 DEF EntryType, MemoryType
<1>4. CASE NoBanner
  BY <1>4 DEF NoBanner, BannerType, TypeOK
<1>5. CASE HandleBanner(j, w)
  <2>1. CASE Denied(j) /\ EnoughDenyBanners(j)
    BY <1>5, <2>1 DEF HandleBanner, BannerType, TypeOK
  <2>2. CASE ~(Denied(j) /\ EnoughDenyBanners(j))
    <3>1. PICK show \in ShowsBanner(j), out \in {0, 1} :
            /\ \/ upq' = upq
               \/ upq' = [upq EXCEPT ![User(j)] = [upq[User(j)] EXCEPT ![Printer(j)] = warned]]
            /\ mem' = mem \/ mem' = [mem EXCEPT ![j] = known]
            /\ banners' = IF show THEN [banners EXCEPT ![j] = @ + 1] ELSE banners
            /\ shown' = IF Denied(j) /\ show
                        THEN [shown EXCEPT ![User(j)][Printer(j)] = @ + 1] ELSE shown
            /\ bannersize' = IF w /\ show /\ Conf(j).accounter = "software"
                             THEN [bannersize EXCEPT ![j] = @ + 1] ELSE bannersize
            /\ counter' = [counter EXCEPT ![Device(j)] = @ + out]
            /\ sheets' = IF w /\ ~Denied(j)
                         THEN [sheets EXCEPT ![j] = @ + out] ELSE sheets
      BY <1>5, <2>2 DEF HandleBanner
    <3> HIDE DEF warned, known
    <3>2. upq' \in [Users -> [Printers -> EntryType]] /\ mem' \in [Jobs -> MemoryType]
      <4>1. \/ upq' = upq
            \/ upq' = [upq EXCEPT ![User(j)] = [upq[User(j)] EXCEPT ![Printer(j)] = warned]]
        BY <3>1
      <4>2. mem' = mem \/ mem' = [mem EXCEPT ![j] = known]
        BY <3>1
      <4>3. upq' \in [Users -> [Printers -> EntryType]]
        BY <1>1, <1>3, <4>1, EntryUpdate
      <4>4. QED
        BY <1>1, <1>3, <4>2, <4>3
    <3>3. bannersize' \in [Jobs -> Nat] /\ banners' \in [Jobs -> Nat]
      <4>1. bannersize[j] + 1 \in Nat /\ banners[j] + 1 \in Nat
        BY DEF TypeOK
      <4>2. bannersize' = bannersize \/ bannersize' = [bannersize EXCEPT ![j] = bannersize[j] + 1]
        BY <3>1
      <4>3. banners' = banners \/ banners' = [banners EXCEPT ![j] = banners[j] + 1]
        BY <3>1
      <4>4. QED
        BY <4>1, <4>2, <4>3 DEF TypeOK
    <3>4. counter' \in [Devices -> Nat]
      <4>1. counter[Device(j)] + out \in Nat
        BY <1>1 DEF TypeOK
      <4>2. QED
        BY <3>1, <4>1 DEF TypeOK
    <3>5. sheets' \in [Jobs -> Nat]
      <4>1. sheets[j] + out \in Nat
        BY DEF TypeOK
      <4>2. sheets' = sheets \/ sheets' = [sheets EXCEPT ![j] = sheets[j] + out]
        BY <3>1
      <4>3. QED
        BY <4>1, <4>2 DEF TypeOK
    <3>6. shown' \in [Users -> [Printers -> Nat]]
      <4> DEFINE n == shown[User(j)][Printer(j)] + 1
      <4>1. n \in Nat /\ shown \in [Users -> [Printers -> Nat]]
        BY <1>1 DEF TypeOK
      <4>2. \/ shown' = shown
            \/ shown' = [shown EXCEPT ![User(j)] = [shown[User(j)] EXCEPT ![Printer(j)] = n]]
        BY <3>1
      <4> HIDE DEF n
      <4>3. QED
        BY <1>1, <4>1, <4>2, ShownUpdate
    <3>7. QED
      BY <3>2, <3>3, <3>4, <3>5, <3>6 DEF BannerType
  <2>3. QED
    BY <2>1, <2>2
<1>6. QED
  BY <1>4, <1>5 DEF BannerIf

LEMMA TypeBegin ==
  ASSUME TypeOK, NEW j \in Jobs, Begin(j)
  PROVE  TypeOK'
<1>1. BannerType
  BY TypeBanner DEF Begin
<1>2. pc' \in [Jobs -> Points]
  BY GoToType DEF TypeOK, Begin, Points, Working
<1>3. before' \in [Jobs -> Nat]
  BY <1>1, TicketFacts DEF Begin, TypeOK, BannerType
<1>4. QED
  BY <1>1, <1>2, <1>3 DEF TypeOK, BannerType, Begin

LEMMA TypeFinish ==
  ASSUME TypeOK, NEW j \in Jobs, Finish(j)
  PROVE  TypeOK'
<1>1. BannerType
  BY TypeBanner DEF Finish
<1>2. pc' \in [Jobs -> Points]
  BY GoToType DEF TypeOK, Finish, Points, Working
<1>3. meter' \in [Jobs -> Int]
  <2>1. /\ counter'[Device(j)] \in Int /\ before[j] \in Int /\ Ticket[j].size \in Int
    BY <1>1, TicketFacts DEF TypeOK, BannerType
  <2>2. QED
    BY <2>1 DEF Finish, TypeOK
<1>4. QED
  BY <1>1, <1>2, <1>3 DEF TypeOK, BannerType, Finish

LEMMA TypeEndBanner ==
  ASSUME TypeOK, NEW j \in Jobs, EndBanner(j)
  PROVE  TypeOK'
<1>1. BannerType
  BY TypeBanner DEF EndBanner
<1>2. pc' \in [Jobs -> Points]
  BY GoToType DEF TypeOK, EndBanner, Points, Working
<1>3. QED
  BY <1>1, <1>2 DEF TypeOK, BannerType, EndBanner

LEMMA TypeDecide ==
  ASSUME TypeOK, NEW j \in Jobs, Decide(j)
  PROVE  TypeOK'
<1>1. pc' \in [Jobs -> Points]
  BY GoToType DEF TypeOK, Decide, Points, Working
<1>2. codes' \in [Codes -> CodeType]
  <2>1. codes' = codes \/ codes' = [codes EXCEPT ![Ticket[j].code] =
                                      [codes[Ticket[j].code] EXCEPT !.exists = TRUE]]
    BY DEF Decide
  <2>2. ASSUME Ticket[j].code \in Codes
        PROVE  [codes[Ticket[j].code] EXCEPT !.exists = TRUE] \in CodeType
    <3>1. codes[Ticket[j].code] \in CodeType
      BY <2>2 DEF TypeOK
    <3>2. QED
      BY <3>1 DEF CodeType
  <2>3. QED
    BY <2>1, <2>2 DEF TypeOK
<1>3. mem' \in [Jobs -> MemoryType]
  <2>1. PICK code \in BOOLEAN :
          mem' = [mem EXCEPT ![j] = [mem[j] EXCEPT !.entries = Entries(j), !.code = code,
                                                   !.last = last[Printer(j)]]]
    BY DEF Decide
  <2>2. mem[j] \in MemoryType /\ last[Printer(j)] \in Jobs \cup {None}
    BY TicketFacts DEF TypeOK
  <2>3. Entries(j) \in SUBSET Printers
    BY TicketFacts, TopologyAssumption DEF Entries
  <2>4. [mem[j] EXCEPT !.entries = Entries(j), !.code = code, !.last = last[Printer(j)]]
          \in MemoryType
    BY <2>2, <2>3 DEF MemoryType
  <2>5. QED
    BY <2>1, <2>4 DEF TypeOK
<1>4. action' \in [Jobs -> Actions] /\ upq' \in [Users -> [Printers -> EntryType]]
  <2>1. ASSUME NEW a \in Actions, Settle(j, a)
        PROVE  action' \in [Jobs -> Actions]
    BY <2>1 DEF Settle, TypeOK, Actions
  <2>2. ASSUME NEW a \in Actions, Decision(j, a)
        PROVE  action' \in [Jobs -> Actions] /\ upq' \in [Users -> [Printers -> EntryType]]
    BY <2>1, <2>2 DEF Decision, TypeOK
  <2>3. ASSUME DecideByQuota(j)
        PROVE  action' \in [Jobs -> Actions] /\ upq' \in [Users -> [Printers -> EntryType]]
    <3>1. PICK g \in GroupVerdicts, s \in SUBSET Printers :
            /\ Settle(j, QuotaVerdict(j, g))
            /\ upq' = [upq EXCEPT ![User(j)] =
                 [p \in Printers |-> IF p \in s THEN InGraceNow(j, p) ELSE upq[User(j)][p]]]
      <4>1. PICK g \in GroupVerdicts :
              /\ Settle(j, QuotaVerdict(j, g))
              /\ \E s \in GraceStarts(j, g) : upq' = [upq EXCEPT ![User(j)] =
                   [p \in Printers |-> IF p \in s THEN InGraceNow(j, p) ELSE upq[User(j)][p]]]
        BY <2>3 DEF DecideByQuota
      <4>2. PICK s \in GraceStarts(j, g) : upq' = [upq EXCEPT ![User(j)] =
                   [p \in Printers |-> IF p \in s THEN InGraceNow(j, p) ELSE upq[User(j)][p]]]
        BY <4>1
      <4>3. Entries(j) \subseteq Printers
        BY TicketFacts, TopologyAssumption DEF Entries
      <4>4. s \subseteq Printers
        BY <4>2, <4>3 DEF GraceStarts
      <4>5. QED
        BY <4>1, <4>2, <4>4
    <3>2. QuotaVerdict(j, g) \in Actions
      BY <3>1, SettingsAssumption
         DEF QuotaVerdict, UserVerdict, BalanceVerdict, WorstVerdict, Verdicts, Actions
    <3>3. ASSUME NEW p \in Printers
          PROVE  upq[User(j)][p] \in EntryType /\ InGraceNow(j, p) \in EntryType
      <4>1. upq[User(j)][p] \in EntryType
        BY TicketFacts DEF TypeOK
      <4>2. QED
        BY <4>1 DEF InGraceNow, EntryType, DateLimits
    <3>4. QED
      BY <2>1, <3>1, <3>2, <3>3 DEF TypeOK
  <2>4. {"ALLOW", "DENY"} \cup DupeAnswers \subseteq Actions /\ action[j] \in Actions
    BY SettingsAssumption DEF Actions, TypeOK
  <2>5. AfterDupeCheck(j) \subseteq Actions
    BY <2>4, ConfFacts DEF AfterDupeCheck, ConfType
  <2>6. QED
    BY <2>2, <2>3, <2>4, <2>5 DEF Decide
<1>5. QED
  BY <1>1, <1>2, <1>3, <1>4 DEF TypeOK, Decide, devVars

LEMMA TypeStep == TypeOK /\ [Next]_vars => TypeOK'
<1> SUFFICES ASSUME TypeOK, [Next]_vars
             PROVE  TypeOK'
  OBVIOUS
<1>1. ASSUME NEW j \in Jobs, Process(j) \/ RealBackend(j)
      PROVE  TypeOK'
  BY <1>1, TypeWait, TypeRetrieve, TypeDecide, TypeBegin, TypeSend, TypeFinish, TypeClose,
     TypeEndBanner, TypeClean, TypeBackendPrints, TypeBackendEnds, TypeRetry DEF Process, RealBackend
<1>2. ASSUME Environment
      PROVE  TypeOK'
  BY <1>2, TypeAbort, TypeOrphanPrints, TypeOrphanEnds, TypeGrace DEF Environment
<1>3. CASE AllDone \/ UNCHANGED vars
  BY <1>3 DEF AllDone, vars, dbVars, procVars, devVars, TypeOK
<1>4. QED
  BY <1>1, <1>2, <1>3 DEF Next

(* The variables keep the values TypeOK gives them, whatever the jobs, the *)
(* topology and the settings are.                                          *)
THEOREM TypeCorrect == Spec => []TypeOK
BY TypeInit, TypeStep, PTL DEF Spec

-----------------------------------------------------------------------------
(* Mutual exclusion.                                                       *)

(* Whoever works holds the lock of his device. *)
LockHeld == \A j \in Jobs : pc[j] \in Working => lock[Device(j)] = j

LEMMA LockHeldInit == Init => LockHeld
BY DEF Init, LockHeld, Working

(* A process that goes on working leaves the locks alone. *)
LEMMA LockHeldWork ==
  ASSUME TypeOK, LockHeld, NEW j \in Jobs, NEW from \in Working, NEW to,
         GoTo(j, from, to), UNCHANGED lock
  PROVE  LockHeld'
BY DEF TypeOK, LockHeld, GoTo, Device, Printer

LEMMA LockHeldStep == TypeOK /\ LockHeld /\ [Next]_vars => LockHeld'
<1> SUFFICES ASSUME TypeOK, LockHeld, [Next]_vars
             PROVE  LockHeld'
  OBVIOUS
<1> USE DEF Device, Printer
<1>1. ASSUME NEW j \in Jobs, WaitForLock(j)
      PROVE  LockHeld'
  BY <1>1, TicketFacts, TopologyAssumption
     DEF WaitForLock, LockIsFree, GoTo, LockHeld, TypeOK
<1>2. ASSUME NEW j \in Jobs,
             Retrieve(j) \/ Decide(j) \/ Begin(j) \/ SendOrRemove(j) \/ Finish(j)
               \/ Close(j) \/ EndBanner(j) \/ BackendSucceeds(j) \/ Retry(j)
      PROVE  LockHeld'
  <2>1. {"locked", "retrieved", "decided", "begun", "backend", "asleep", "after", "ended", "accounted"}
          \subseteq Working
    BY DEF Working
  <2>2. QED
    BY <1>2, <2>1, LockHeldWork
       DEF Retrieve, Rejected, KnownUser, CreatedByPolicy, AllowedByPolicy, Decide, Begin,
           SendOrRemove, Finish, Close, EndBanner, BackendSucceeds, Retry
<1>3. ASSUME NEW j \in Jobs, BackendFails(j)
      PROVE  LockHeld'
  <2>1. "backend" \in Working
    BY DEF Working
  <2>2. QED
    BY <1>3, <2>1, LockHeldWork DEF BackendFails, LockHeld
<1>4. ASSUME NEW j \in Jobs, Clean(j)
      PROVE  LockHeld'
  BY <1>4, TicketFacts DEF Clean, GoTo, LockHeld, TypeOK, Working
<1>5. ASSUME NEW j \in Jobs, Abort(j)
      PROVE  LockHeld'
  BY <1>5, TicketFacts DEF Abort, LockHeld, TypeOK, Working
<1>6. ASSUME NEW j \in Jobs, BackendPrints(j) \/ OrphanPrints(j) \/ OrphanEnds(j)
      PROVE  LockHeld'
  BY <1>6 DEF BackendPrints, OrphanPrints, OrphanEnds, procVars, LockHeld
<1>7. ASSUME NEW u \in Users, NEW p \in Printers, GraceEnds(u, p)
      PROVE  LockHeld'
  BY <1>7 DEF GraceEnds, procVars, LockHeld
<1>8. CASE AllDone \/ UNCHANGED vars
  BY <1>8 DEF AllDone, vars, procVars, LockHeld
<1>9. QED
  BY <1>1, <1>2, <1>3, <1>4, <1>5, <1>6, <1>7, <1>8 DEF Next, Process, RealBackend, Environment

LEMMA MutexFromLock == LockHeld => DeviceMutex
BY DEF LockHeld, DeviceMutex

(* Two processes never work on the same device, whatever their queues.     *)
THEOREM MutualExclusion == Spec => []DeviceMutex
BY TypeInit, TypeStep, LockHeldInit, LockHeldStep, MutexFromLock, PTL DEF Spec

-----------------------------------------------------------------------------
(* Metering.                                                               *)

(* What the accounting of a job by a hardware accounter rests on: as long  *)
(* as nobody else prints on the device, the sheets of the job are those    *)
(* the counter moved by since the first reading.                           *)
MeterInv(j) ==
  /\ pc[j] \in {"start", "locked"} => ~mem[j].accounted
  /\ pc[j] \in {"retrieved", "decided", "begun", "after", "ended", "accounted"} => mem[j].accounted
  /\ pc[j] \notin {"accounted", "clean", "done"} => rows[j] = NoRow
  /\ pc[j] \in {"start", "locked", "retrieved", "decided", "begun"} => ~retcode[j]
  /\ mem[j].accounted /\ Refused(action[j]) => ~retcode[j] /\ pc[j] \notin {"backend", "asleep"}
  /\ Conf(j).accounter = "hardware" /\ j \notin disturbed =>
       /\ bannersize[j] = 0
       /\ pc[j] \in {"start", "locked", "retrieved", "decided"} => sheets[j] = 0
       /\ Metering(j) => sheets[j] = counter[Device(j)] - before[j]
       /\ pc[j] = "ended" /\ ~Refused(action[j]) => meter[j] = sheets[j]
       /\ Measured(j) /\ Conf(j).trustlimit = NoLimit => rows[j].size = sheets[j]

MeterInvs == \A j \in Jobs : MeterInv(j)

(* A step that leaves a job, its process and its device alone. *)
Spectator(j) ==
  /\ conf' = conf
  /\ pc'[j] = pc[j] /\ mem'[j] = mem[j] /\ rows'[j] = rows[j] /\ action'[j] = action[j]
  /\ bannersize'[j] = bannersize[j] /\ before'[j] = before[j] /\ meter'[j] = meter[j]
  /\ sheets'[j] = sheets[j] /\ retcode'[j] = retcode[j]
  /\ disturbed \subseteq disturbed'
  /\ Metering(j) => counter'[Device(j)] = counter[Device(j)] \/ j \in disturbed'

LEMMA SpectatorKeeps ==
  ASSUME NEW j \in Jobs, MeterInv(j), Spectator(j)
  PROVE  MeterInv(j)'
BY DEF MeterInv, Spectator, Metering, Measured, Conf, Device, Printer, Refused

(* The counter of a device moves for the process that works there. *)
LEMMA OthersDevice ==
  ASSUME DeviceMutex, NEW j \in Jobs, NEW k \in Jobs, j # k,
         pc[k] \in Working, Metering(j)
  PROVE  Device(j) # Device(k)
BY DEF DeviceMutex, Metering, Working

LEMMA BannerSpectator ==
  ASSUME TypeOK, NEW j \in Jobs, NEW k \in Jobs, j # k, NEW c, NEW w, BannerIf(k, c, w)
  PROVE  /\ mem'[j] = mem[j] /\ bannersize'[j] = bannersize[j] /\ sheets'[j] = sheets[j]
         /\ Device(j) # Device(k) => counter'[Device(j)] = counter[Device(j)]
<1> USE TicketFacts
<1>1. CASE NoBanner
  BY <1>1 DEF NoBanner
<1>2. CASE HandleBanner(k, w)
  BY <1>2 DEF HandleBanner, TypeOK
<1>3. QED
  BY <1>1, <1>2 DEF BannerIf

LEMMA ProcessSpectator ==
  ASSUME TypeOK, DeviceMutex, NEW j \in Jobs, NEW k \in Jobs, j # k,
         Process(k) \/ RealBackend(k)
  PROVE  Spectator(j)
<1> USE DEF GoTo, Spectator
<1>1. CASE WaitForLock(k) \/ SendOrRemove(k) \/ Clean(k) \/ BackendSucceeds(k) \/ BackendFails(k)
           \/ Retry(k)
  BY <1>1 DEF Retry, WaitForLock, SendOrRemove, Clean, BackendSucceeds, BackendFails, Retry, dbVars, devVars, TypeOK
<1>2. CASE Retrieve(k)
  <2>1. mem'[j] = mem[j] /\ pc'[j] = pc[j] /\ action'[j] = action[j]
    BY <1>2 DEF Retrieve, Rejected, KnownUser, CreatedByPolicy, AllowedByPolicy, TypeOK
  <2>2. QED
    BY <1>2, <2>1 DEF Retrieve, devVars
<1>3. CASE Decide(k)
  <2>1. action'[j] = action[j]
    BY <1>3 DEF Decide, Decision, DecideByQuota, Settle, TypeOK
  <2>2. mem'[j] = mem[j] /\ pc'[j] = pc[j]
    BY <1>3 DEF Decide, TypeOK
  <2>3. QED
    BY <1>3, <2>1, <2>2 DEF Decide, devVars
<1>4. CASE Close(k)
  BY <1>4 DEF Close, TypeOK
<1>5. CASE Begin(k) \/ Finish(k) \/ EndBanner(k)
  <2>1. pc[k] \in Working
    BY <1>5 DEF Begin, Finish, EndBanner, Working
  <2>2. /\ mem'[j] = mem[j] /\ bannersize'[j] = bannersize[j] /\ sheets'[j] = sheets[j]
        /\ Device(j) # Device(k) => counter'[Device(j)] = counter[Device(j)]
    BY <1>5, BannerSpectator DEF Begin, Finish, EndBanner
  <2>3. /\ conf' = conf /\ pc'[j] = pc[j] /\ rows' = rows /\ action' = action
        /\ before'[j] = before[j] /\ meter'[j] = meter[j] /\ disturbed' = disturbed
        /\ retcode' = retcode
    BY <1>5 DEF Begin, Finish, EndBanner, TypeOK
  <2>4. QED
    BY <2>1, <2>2, <2>3, OthersDevice
<1>6. CASE BackendPrints(k)
  <2>1. pc[k] \in Working
    BY <1>6 DEF BackendPrints, Working
  <2>2. QED
    BY <1>6, <2>1, OthersDevice, TicketFacts DEF BackendPrints, dbVars, procVars, TypeOK
<1>7. QED
  BY <1>1, <1>2, <1>3, <1>4, <1>5, <1>6 DEF Process, RealBackend

LEMMA EnvironmentSpectator ==
  ASSUME TypeOK, NEW j \in Jobs, Environment
  PROVE  Spectator(j) \/ Abort(j)
<1> USE DEF Spectator
<1>1. ASSUME NEW k \in Jobs, j # k, Abort(k)
      PROVE  Spectator(j)
  BY <1>1 DEF Abort, dbVars, devVars, TypeOK
<1>2. ASSUME NEW k \in Jobs, OrphanPrints(k)
      PROVE  Spectator(j)
  <2>1. Metering(j) => counter'[Device(j)] = counter[Device(j)] \/ j \in disturbed'
    BY <1>2, TicketFacts DEF OrphanPrints, TypeOK
  <2>2. QED
    BY <1>2, <2>1 DEF OrphanPrints, dbVars, procVars
<1>3. ASSUME NEW k \in Jobs, OrphanEnds(k)
      PROVE  Spectator(j)
  BY <1>3 DEF OrphanEnds, dbVars, devVars
<1>4. ASSUME NEW u \in Users, NEW p \in Printers, GraceEnds(u, p)
      PROVE  Spectator(j)
  BY <1>4 DEF GraceEnds, procVars, devVars
<1>5. QED
  BY <1>1, <1>2, <1>3, <1>4 DEF Environment

(* A banner of the job itself: what it adds to the job's sheets, the       *)
(* counter moves by too; it adds nothing to the size of a hardware         *)
(* accounter's job.                                                        *)
LEMMA OwnBanner ==
  ASSUME TypeOK, NEW j \in Jobs, NEW c, NEW w \in BOOLEAN, BannerIf(j, c, w)
  PROVE  /\ mem'[j].accounted = mem[j].accounted
         /\ Conf(j).accounter = "hardware" => bannersize'[j] = bannersize[j]
         /\ w /\ ~Refused(action[j]) => sheets'[j] - sheets[j] = counter'[Device(j)] - counter[Device(j)]
         /\ ~w => sheets'[j] = sheets[j]
<1> USE TicketFacts
<1>0. mem[j] \in MemoryType /\ counter[Device(j)] \in Nat /\ sheets[j] \in Nat
  BY DEF TypeOK
<1>1. CASE NoBanner
  BY <1>1, <1>0 DEF NoBanner
<1>2. CASE HandleBanner(j, w)
  <2>1. mem'[j].accounted = mem[j].accounted
    BY <1>2, <1>0 DEF HandleBanner, TypeOK, MemoryType
  <2>2. Conf(j).accounter = "hardware" => bannersize'[j] = bannersize[j]
    BY <1>2 DEF HandleBanner
  <2>3. ~w => sheets'[j] = sheets[j]
    BY <1>2 DEF HandleBanner
  <2>4. ASSUME w, ~Refused(action[j])
        PROVE  sheets'[j] - sheets[j] = counter'[Device(j)] - counter[Device(j)]
    <3>1. ~Denied(j)
      BY <2>4 DEF Refused, Denied
    <3>2. PICK out \in {0, 1} : /\ counter' = [counter EXCEPT ![Device(j)] = @ + out]
                                /\ sheets' = [sheets EXCEPT ![j] = @ + out]
      BY <1>2, <2>4, <3>1 DEF HandleBanner
    <3>3. QED
      BY <1>0, <3>2 DEF TypeOK
  <2>5. QED
    BY <2>1, <2>2, <2>3, <2>4
<1>3. QED
  BY <1>1, <1>2 DEF BannerIf

LEMMA OwnStep ==
  ASSUME TypeOK, NEW j \in Jobs, MeterInv(j), Process(j) \/ RealBackend(j) \/ Abort(j)
  PROVE  MeterInv(j)'
<1> USE TicketFacts DEF GoTo, MeterInv
<1>1. CASE WaitForLock(j) \/ Clean(j) \/ Abort(j)
  BY <1>1 DEF WaitForLock, Clean, Abort, dbVars, devVars, TypeOK,
              Metering, Measured, Conf, Device, Printer, NoRow, Refused
<1>2. CASE Retrieve(j)
  <2>1. \/ pc'[j] = "retrieved" /\ mem'[j].accounted
        \/ pc'[j] \in {"backend", "asleep", "clean"} /\ ~mem'[j].accounted
    <3>1. CASE Rejected(j) \/ AllowedByPolicy(j)
      BY <3>1 DEF Rejected, AllowedByPolicy, TypeOK
    <3>2. CASE KnownUser(j) \/ CreatedByPolicy(j)
      <4>1. pc'[j] = "retrieved" /\ mem'[j] = Snapshot(j)
        BY <3>2 DEF KnownUser, CreatedByPolicy, TypeOK
      <4>2. Snapshot(j).accounted
        BY DEF Snapshot, NoMem
      <4>3. QED
        BY <4>1, <4>2
    <3>3. QED
      BY <1>2, <3>1, <3>2, RetrieveCases
  <2>2. pc[j] = "locked"
    BY <1>2, RetrieveCases DEF Rejected, KnownUser, CreatedByPolicy, AllowedByPolicy
  <2>3. QED
    BY <1>2, <2>1, <2>2 DEF Retrieve, devVars, Metering, Measured, Conf, Device, Printer, NoRow, Refused
<1>3. CASE Decide(j)
  <2>1. mem'[j].accounted = mem[j].accounted
    <3>1. mem[j] \in MemoryType
      BY DEF TypeOK
    <3>2. QED
      BY <1>3, <3>1 DEF Decide, TypeOK, MemoryType
  <2>2. QED
    BY <1>3, <2>1 DEF Decide, devVars, TypeOK, Metering, Measured, Conf, Device, Printer, NoRow, Refused
<1>4. CASE Begin(j)
  <2>1. /\ conf' = conf /\ rows' = rows /\ action' = action /\ disturbed' = disturbed
        /\ retcode' = retcode
        /\ pc[j] = "decided" /\ pc'[j] = "begun"
        /\ ~Refused(action[j]) => before'[j] = IF StartIsAccounted(j) THEN counter[Device(j)]
                                                ELSE counter'[Device(j)]
    BY <1>4 DEF Begin, TypeOK
  <2>2. BannerType
    BY <1>4, TypeBanner DEF Begin
  <2>3. StartIsAccounted(j) \in BOOLEAN
    BY DEF StartIsAccounted
  <2>4. /\ mem'[j].accounted = mem[j].accounted
        /\ Conf(j).accounter = "hardware" => bannersize'[j] = bannersize[j]
        /\ StartIsAccounted(j) /\ ~Refused(action[j])
             => sheets'[j] - sheets[j] = counter'[Device(j)] - counter[Device(j)]
        /\ ~StartIsAccounted(j) => sheets'[j] = sheets[j]
    BY <1>4, <2>3, OwnBanner DEF Begin
  <2>5. /\ sheets[j] \in Nat /\ sheets'[j] \in Nat
        /\ counter[Device(j)] \in Nat /\ counter'[Device(j)] \in Nat
    BY <2>2 DEF TypeOK, BannerType
  <2>6. ASSUME Conf(j).accounter = "hardware", j \notin disturbed, ~Refused(action[j])
        PROVE  sheets'[j] = counter'[Device(j)] - before'[j]
    BY <2>1, <2>3, <2>4, <2>5, <2>6
  <2>7. QED
    BY <2>1, <2>4, <2>6 DEF Metering, Measured, Conf, Device, Printer, NoRow, Refused
<1>5. CASE SendOrRemove(j)
  BY <1>5 DEF SendOrRemove, IsSent, Refused, dbVars, devVars, TypeOK, Metering, Measured,
              Conf, Device, Printer
<1>6. CASE BackendPrints(j)
  BY <1>6 DEF BackendPrints, dbVars, procVars, TypeOK, Metering, Measured, Conf, Device, Printer, NoRow, Refused
<1>7. CASE BackendSucceeds(j) \/ BackendFails(j) \/ Retry(j)
  BY <1>7 DEF Retry, BackendSucceeds, BackendFails, AfterBackend, dbVars, devVars, TypeOK, Metering,
              Measured, Conf, Device, Printer
<1>8. CASE Finish(j)
  <2>1. /\ conf' = conf /\ rows' = rows /\ action' = action /\ disturbed' = disturbed
        /\ retcode' = retcode
        /\ pc[j] = "after" /\ pc'[j] = "ended"
        /\ ~Refused(action[j]) /\ Conf(j).accounter = "hardware"
             => meter'[j] = counter'[Device(j)] - before[j]
    BY <1>8 DEF Finish, TypeOK
  <2>2. BannerType
    BY <1>8, TypeBanner DEF Finish
  <2>3. /\ mem'[j].accounted = mem[j].accounted
        /\ Conf(j).accounter = "hardware" => bannersize'[j] = bannersize[j]
        /\ ~Refused(action[j])
             => sheets'[j] - sheets[j] = counter'[Device(j)] - counter[Device(j)]
    <3>1. CASE BannerIf(j, EndIsAccounted(j), TRUE)
      BY <3>1, OwnBanner
    <3>2. QED
      BY <1>8, <3>1 DEF Finish
  <2>4. /\ sheets[j] \in Nat /\ sheets'[j] \in Nat /\ before[j] \in Nat
        /\ counter[Device(j)] \in Nat /\ counter'[Device(j)] \in Nat
    BY <2>2 DEF TypeOK, BannerType
  <2>5. ASSUME Conf(j).accounter = "hardware", j \notin disturbed, ~Refused(action[j])
        PROVE  meter'[j] = sheets'[j]
    <3>1. sheets[j] = counter[Device(j)] - before[j]
      BY <2>1, <2>5 DEF Metering, Refused
    <3>2. QED
      BY <2>1, <2>3, <2>4, <2>5, <3>1
  <2>6. QED
    BY <2>1, <2>3, <2>5 DEF Metering, Measured, Conf, Device, Printer, NoRow, Refused
<1>9. CASE Close(j)
  <2>1. /\ conf' = conf /\ disturbed' = disturbed /\ sheets' = sheets /\ bannersize' = bannersize
        /\ pc[j] = "ended" /\ pc'[j] = "accounted"
        /\ rows'[j].action = FinalAction(j) /\ rows'[j].size = JobSize(j)
        /\ action'[j] = FinalAction(j) /\ retcode' = retcode /\ mem'[j].accounted = mem[j].accounted
    <3>1. mem[j] \in MemoryType
      BY DEF TypeOK
    <3>2. QED
      BY <1>9, <3>1 DEF Close, TypeOK, MemoryType
  <2>2. ASSUME Conf(j).accounter = "hardware", j \notin disturbed, Measured(j)',
               Conf(j).trustlimit = NoLimit
        PROVE  JobSize(j) = sheets[j]
    <3>1. /\ ~Refused(FinalAction(j)) /\ ~Refused(action[j])
          /\ FinalAction(j) = "PROBLEM" => "CHARGE" \in Conf(j).onbackenderror
      BY <2>1, <2>2 DEF Measured, Conf, Printer, FinalAction, Refused
    <3>2. Sanitized(j, meter[j]) = meter[j]
      BY <2>2 DEF Sanitized
    <3>3. meter[j] = sheets[j] /\ bannersize[j] = 0 /\ sheets[j] \in Nat
      BY <2>1, <2>2, <3>1 DEF TypeOK
    <3>4. QED
      BY <3>1, <3>2, <3>3 DEF JobSize, BannersAndData
  <2>3. QED
    BY <2>1, <2>2 DEF Metering, Conf, Printer, FinalAction, Refused
<1>10. CASE EndBanner(j)
  BY <1>10, OwnBanner
     DEF EndBanner, EndIsFree, TypeOK, Metering, Measured, Conf, Device, Printer
<1>11. QED
  BY <1>1, <1>2, <1>3, <1>4, <1>5, <1>6, <1>7, <1>8, <1>9, <1>10 DEF Process, RealBackend

LEMMA MeterInit == Init => MeterInvs
BY DEF Init, MeterInvs, MeterInv, NoMem, NoRow, Metering, Measured

LEMMA MeterStep == TypeOK /\ DeviceMutex /\ MeterInvs /\ [Next]_vars => MeterInvs'
<1> SUFFICES ASSUME TypeOK, DeviceMutex, MeterInvs, [Next]_vars, NEW j \in Jobs
             PROVE  MeterInv(j)'
  BY DEF MeterInvs
<1>1. MeterInv(j)
  BY DEF MeterInvs
<1>2. ASSUME NEW k \in Jobs, Process(k) \/ RealBackend(k)
      PROVE  MeterInv(j)'
  BY <1>1, <1>2, OwnStep, ProcessSpectator, SpectatorKeeps
<1>3. CASE Environment
  BY <1>1, <1>3, OwnStep, EnvironmentSpectator, SpectatorKeeps
<1>4. CASE AllDone \/ UNCHANGED vars
  <2>1. Spectator(j)
    BY <1>4 DEF AllDone, vars, dbVars, procVars, devVars, Spectator
  <2>2. QED
    BY <1>1, <2>1, SpectatorKeeps
<1>5. QED
  BY <1>2, <1>3, <1>4 DEF Next

LEMMA MeterFromInv == MeterInvs => MeteredIsPrinted
BY DEF MeterInvs, MeterInv, MeteredIsPrinted

(* A hardware accounter charges a job for exactly the sheets the device    *)
(* printed for it, unless a real backend outlived its process.             *)
THEOREM ExactMetering == Spec => []MeteredIsPrinted
BY TypeInit, TypeStep, LockHeldInit, LockHeldStep, MutexFromLock,
   MeterInit, MeterStep, MeterFromInv, PTL DEF Spec

-----------------------------------------------------------------------------
(* Deny banners.                                                           *)

(* The process that knows its user knows his deny banner counter, because  *)
(* nobody else works on this entry as long as it holds the device.         *)
WarnKnown(j) ==
  /\ pc[j] \in {"retrieved", "decided", "begun", "backend", "asleep", "after", "ended", "accounted"}
  /\ mem[j].accounted
  => mem[j].warn = upq[User(j)][Printer(j)].warn

(* The counter is not below what was shown, nor above the maximum. *)
WarnBounds(u, p) ==
  /\ shown[u][p] <= upq[u][p].warn
  /\ upq[u][p].warn <= conf[p].maxdenybanners

DenyInv == /\ \A j \in Jobs : WarnKnown(j)
           /\ \A u \in Users, p \in Printers : WarnBounds(u, p)

(* A step that touches at most the counter of one user on one printer. *)
WarnSame(u, p) == upq'[u][p].warn = upq[u][p].warn /\ shown'[u][p] = shown[u][p]

LEMMA ConfPrinter ==
  ASSUME TypeOK, NEW p \in Printers
  PROVE  conf[p].maxdenybanners \in Nat
BY SettingsAssumption DEF TypeOK, ConfType

LEMMA WarnInit == Init => DenyInv
<1> SUFFICES ASSUME Init
             PROVE  DenyInv
  OBVIOUS
<1>1. ASSUME NEW u \in Users, NEW p \in Printers
      PROVE  upq[u][p].warn = 0 /\ shown[u][p] = 0
  BY DEF Init
<1>2. QED
  BY <1>1, TypeInit, ConfPrinter, TicketFacts DEF DenyInv, WarnBounds, WarnKnown, Init

LEMMA MeterAccounted ==
  ASSUME MeterInvs, TypeOK, NEW k \in Jobs,
         pc[k] \in {"decided", "after", "ended", "accounted"}
  PROVE  mem[k].accounted
BY DEF MeterInvs, MeterInv

(* What is retrieved is what the database says. *)
LEMMA RetrieveWarn ==
  ASSUME TypeOK, NEW j \in Jobs, Retrieve(j)
  PROVE  \/ pc'[j] = "retrieved" /\ mem'[j].warn = upq[User(j)][Printer(j)].warn
         \/ pc'[j] = "clean"
         \/ pc'[j] = "backend" /\ mem'[j].accounted = mem[j].accounted /\ pc[j] = "locked"
<1>1. CASE Rejected(j) \/ AllowedByPolicy(j)
  BY <1>1 DEF Rejected, AllowedByPolicy, GoTo, TypeOK
<1>2. CASE KnownUser(j) \/ CreatedByPolicy(j)
  <2>1. pc'[j] = "retrieved" /\ mem'[j] = Snapshot(j)
    BY <1>2 DEF KnownUser, CreatedByPolicy, GoTo, TypeOK
  <2>2. Snapshot(j).warn = upq[User(j)][Printer(j)].warn
    BY DEF Snapshot, NoMem
  <2>3. QED
    BY <2>1, <2>2
<1>3. QED
  BY <1>1, <1>2, RetrieveCases

(* The steps that look at the quota or let time pass leave the counters    *)
(* alone.                                                                  *)
LEMMA WarnQuiet ==
  ASSUME TypeOK, NEW u \in Users, NEW p \in Printers,
         \/ \E j \in Jobs : \/ WaitForLock(j) \/ Retrieve(j) \/ Decide(j) \/ SendOrRemove(j)
                           \/ Retry(j) \/ Clean(j) \/ RealBackend(j) \/ Abort(j) \/ OrphanPrints(j)
                           \/ OrphanEnds(j)
         \/ \E v \in Users, q \in Printers : GraceEnds(v, q)
  PROVE  WarnSame(u, p)
<1>0. upq[u][p] \in EntryType /\ upq \in [Users -> [Printers -> EntryType]]
  BY DEF TypeOK
<1>1. ASSUME NEW j \in Jobs, \/ WaitForLock(j) \/ SendOrRemove(j) \/ Retry(j) \/ Clean(j) \/ RealBackend(j)
                             \/ Abort(j) \/ OrphanPrints(j) \/ OrphanEnds(j)
      PROVE  WarnSame(u, p)
  BY <1>1 DEF WarnSame, WaitForLock, SendOrRemove, Clean, RealBackend, BackendPrints,
              BackendSucceeds, BackendFails, Retry, Abort, OrphanPrints, OrphanEnds, dbVars, devVars
<1>2. ASSUME NEW j \in Jobs, Retrieve(j)
      PROVE  WarnSame(u, p)
  <2>1. shown' = shown
    BY <1>2 DEF Retrieve, devVars
  <2>2. CASE upq' = upq
    BY <2>1, <2>2 DEF WarnSame
  <2>3. CASE upq' = [upq EXCEPT ![User(j)][Printer(j)].exists = TRUE]
    BY <1>0, <2>1, <2>3 DEF WarnSame, EntryType
  <2>4. QED
    BY <1>2, <2>2, <2>3, RetrieveCases
       DEF Rejected, KnownUser, CreatedByPolicy, AllowedByPolicy
<1>3. ASSUME NEW j \in Jobs, Decide(j)
      PROVE  WarnSame(u, p)
  <2>1. shown' = shown
    BY <1>3 DEF Decide, devVars
  <2>2. CASE upq' = upq
    BY <2>1, <2>2 DEF WarnSame
  <2>3. CASE DecideByQuota(j)
    <3>1. PICK s : upq' = [upq EXCEPT ![User(j)] =
                     [q \in Printers |-> IF q \in s THEN InGraceNow(j, q) ELSE upq[User(j)][q]]]
      BY <2>3 DEF DecideByQuota
    <3>2. InGraceNow(j, p).warn = upq[User(j)][p].warn
      <4>1. upq[User(j)][p] \in EntryType
        BY <1>0, TicketFacts
      <4>2. QED
        BY <4>1 DEF InGraceNow, EntryType
    <3>3. upq'[u][p].warn = upq[u][p].warn
      BY <1>0, <3>1, <3>2
    <3>4. QED
      BY <2>1, <3>3 DEF WarnSame
  <2>4. QED
    BY <1>3, <2>2, <2>3 DEF Decide, Decision
<1>4. ASSUME NEW v \in Users, NEW q \in Printers, GraceEnds(v, q)
      PROVE  WarnSame(u, p)
  BY <1>0, <1>4 DEF WarnSame, GraceEnds, devVars, EntryType
<1>5. QED
  BY <1>1, <1>2, <1>3, <1>4

(* What a banner of a job does to the counters. *)
LEMMA WarnBanner ==
  ASSUME TypeOK, NEW j \in Jobs, NEW c, NEW w, BannerIf(j, c, w),
         NEW u \in Users, NEW p \in Printers
  PROVE  \/ WarnSame(u, p) /\ mem' = mem
         \/ WarnSame(u, p) /\ ~(u = User(j) /\ p = Printer(j))
         \/ /\ u = User(j) /\ p = Printer(j)
            /\ mem[j].warn < Conf(j).maxdenybanners
            /\ upq'[u][p].warn = upq[u][p].warn + 1
            /\ mem'[j].warn = mem[j].warn + 1
            /\ shown'[u][p] \in {shown[u][p], shown[u][p] + 1}
<1> USE TicketFacts
<1>0. /\ upq[u][p] \in EntryType /\ upq \in [Users -> [Printers -> EntryType]]
      /\ mem[j] \in MemoryType /\ mem \in [Jobs -> MemoryType]
      /\ shown \in [Users -> [Printers -> Nat]]
      /\ mem[j].warn \in Nat /\ Conf(j).maxdenybanners \in Nat
  BY ConfFacts DEF TypeOK, MemoryType, ConfType
<1>1. CASE ~Denied(j) \/ ~HandleBanner(j, w) \/ EnoughDenyBanners(j)
  BY <1>1 DEF BannerIf, NoBanner, HandleBanner, WarnSame
<1>2. CASE Denied(j) /\ HandleBanner(j, w) /\ ~EnoughDenyBanners(j)
  <2>1. PICK show \in ShowsBanner(j) :
          /\ upq' = [upq EXCEPT ![User(j)][Printer(j)].warn = @ + 1]
          /\ mem' = [mem EXCEPT ![j].warn = @ + 1]
          /\ shown' = IF show THEN [shown EXCEPT ![User(j)][Printer(j)] = @ + 1] ELSE shown
    BY <1>2 DEF HandleBanner
  <2>2. CASE u = User(j) /\ p = Printer(j)
    <3>1. upq'[u][p].warn = upq[u][p].warn + 1
      BY <1>0, <2>1, <2>2 DEF EntryType
    <3>2. mem'[j].warn = mem[j].warn + 1
      BY <1>0, <2>1 DEF MemoryType
    <3>3. shown'[u][p] \in {shown[u][p], shown[u][p] + 1}
      BY <1>0, <2>1, <2>2
    <3>4. mem[j].warn < Conf(j).maxdenybanners
      BY <1>0, <1>2 DEF EnoughDenyBanners
    <3>5. QED
      BY <2>2, <3>1, <3>2, <3>3, <3>4
  <2>3. CASE ~(u = User(j) /\ p = Printer(j))
    BY <1>0, <2>1, <2>3 DEF WarnSame
  <2>4. QED
    BY <2>2, <2>3
<1>3. QED
  BY <1>1, <1>2

(* What the transaction does to them: nothing, or everything is forgotten. *)
LEMMA WarnClose ==
  ASSUME TypeOK, NEW j \in Jobs, Close(j), NEW u \in Users, NEW p \in Printers
  PROVE  \/ WarnSame(u, p) /\ mem' = mem
         \/ WarnSame(u, p) /\ ~(u = User(j) /\ p = Printer(j))
         \/ /\ u = User(j) /\ p = Printer(j)
            /\ upq'[u][p].warn = 0 /\ shown'[u][p] = 0 /\ mem'[j].warn = 0
<1> USE TicketFacts
<1>1. /\ upq[u][p] \in EntryType /\ upq \in [Users -> [Printers -> EntryType]]
      /\ mem[j] \in MemoryType /\ mem \in [Jobs -> MemoryType]
      /\ shown \in [Users -> [Printers -> Nat]]
  BY DEF TypeOK
<1>2. EntryAfter(j, p).warn = IF p = Printer(j) /\ ~Refused(FinalAction(j))
                              THEN 0 ELSE upq[User(j)][p].warn
  <2>1. upq[User(j)][p] \in EntryType
    BY <1>1
  <2>2. QED
    BY <2>1 DEF EntryAfter, EntryType
<1>3. upq'[u][p].warn = IF u = User(j) THEN EntryAfter(j, p).warn ELSE upq[u][p].warn
  BY <1>1 DEF Close
<1>4. shown'[u][p] = IF ~Refused(FinalAction(j)) /\ u = User(j) /\ p = Printer(j)
                     THEN 0 ELSE shown[u][p]
  BY <1>1 DEF Close
<1>5. CASE Refused(FinalAction(j))
  BY <1>2, <1>3, <1>4, <1>5 DEF WarnSame, Close
<1>6. CASE ~Refused(FinalAction(j))
  <2>1. mem'[j].warn = 0
    BY <1>1, <1>6 DEF Close, MemoryType
  <2>2. QED
    BY <1>2, <1>3, <1>4, <1>6, <2>1 DEF WarnSame
<1>7. QED
  BY <1>5, <1>6

(* The effect of a step of process k on a counter, and on what k knows. *)
WarnEffect(k, u, p) ==
  \/ WarnSame(u, p) /\ (mem'[k].warn = mem[k].warn \/ ~(u = User(k) /\ p = Printer(k)))
  \/ /\ u = User(k) /\ p = Printer(k) /\ pc[k] \in Working
     /\ mem[k].warn < Conf(k).maxdenybanners
     /\ upq'[u][p].warn = upq[u][p].warn + 1 /\ mem'[k].warn = mem[k].warn + 1
     /\ shown'[u][p] \in {shown[u][p], shown[u][p] + 1}
  \/ /\ u = User(k) /\ p = Printer(k) /\ pc[k] \in Working
     /\ upq'[u][p].warn = 0 /\ shown'[u][p] = 0 /\ mem'[k].warn = 0

LEMMA WarnSteps ==
  ASSUME TypeOK, NEW k \in Jobs,
         Begin(k) \/ Finish(k) \/ Close(k) \/ EndBanner(k),
         NEW u \in Users, NEW p \in Printers
  PROVE  WarnEffect(k, u, p)
<1>1. pc[k] \in Working
  BY DEF Begin, Finish, Close, EndBanner, GoTo, Working
<1>2. CASE Close(k)
  BY <1>1, <1>2, WarnClose DEF WarnEffect
<1>3. CASE Begin(k) \/ Finish(k) \/ EndBanner(k)
  BY <1>1, <1>3, WarnBanner DEF WarnEffect, Begin, Finish, EndBanner
<1>4. QED
  BY <1>2, <1>3

(* The bounds survive every step that has such an effect. *)
LEMMA BoundsKept ==
  ASSUME TypeOK, DenyInv, NEW k \in Jobs, NEW u \in Users, NEW p \in Printers,
         WarnEffect(k, u, p), conf' = conf,
         pc[k] \in {"decided", "after", "ended", "accounted"} /\ mem[k].accounted
  PROVE  WarnBounds(u, p)'
<1>1. /\ upq[u][p].warn \in Nat /\ shown[u][p] \in Nat /\ conf[p].maxdenybanners \in Nat
      /\ mem[k].warn \in Nat
  <2>1. upq[u][p] \in EntryType /\ mem[k] \in MemoryType
    BY DEF TypeOK
  <2>2. QED
    BY <2>1, ConfPrinter DEF TypeOK, EntryType, MemoryType
<1>2. WarnBounds(u, p) /\ mem[k].warn = upq[User(k)][Printer(k)].warn
  BY DEF DenyInv, WarnKnown
<1>3. QED
  BY <1>1, <1>2 DEF WarnEffect, WarnBounds, WarnSame, Conf

LEMMA DenyStep == TypeOK /\ DeviceMutex /\ MeterInvs /\ DenyInv /\ [Next]_vars => DenyInv'
<1> SUFFICES ASSUME TypeOK, DeviceMutex, MeterInvs, DenyInv, [Next]_vars
             PROVE  DenyInv'
  OBVIOUS
<1>0. conf' = conf
  BY DEF Next, Process, RealBackend, Environment, AllDone, vars, WaitForLock, Retrieve, Decide,
         Begin, SendOrRemove, Finish, Close, EndBanner, Clean, BackendPrints, BackendSucceeds,
         BackendFails, Retry, Abort, OrphanPrints, OrphanEnds, GraceEnds
<1>1. ASSUME NEW k \in Jobs, Begin(k) \/ Finish(k) \/ Close(k) \/ EndBanner(k)
      PROVE  DenyInv'
  <2>1. /\ pc[k] \in {"decided", "after", "ended", "accounted"}
        /\ pc'[k] \in {"begun", "ended", "accounted", "clean"}
    BY <1>1 DEF Begin, Finish, Close, EndBanner, GoTo, TypeOK
  <2>2. ASSUME NEW u \in Users, NEW p \in Printers
        PROVE  WarnEffect(k, u, p)
    BY <1>1, WarnSteps
  <2>3. mem[k].accounted
    BY <2>1, MeterAccounted
  <2>4. ASSUME NEW u \in Users, NEW p \in Printers
        PROVE  WarnBounds(u, p)'
    BY <1>0, <2>1, <2>2, <2>3, BoundsKept
  <2>5. ASSUME NEW j \in Jobs
        PROVE  WarnKnown(j)'
    <3>1. CASE j = k
      <4>1. mem[k].warn = upq[User(k)][Printer(k)].warn
        BY <2>1, <2>3 DEF DenyInv, WarnKnown
      <4>2. mem'[k].warn = upq'[User(k)][Printer(k)].warn
        BY <2>2, <4>1, TicketFacts DEF WarnEffect, WarnSame
      <4>3. QED
        BY <3>1, <4>2 DEF WarnKnown, User, Printer
    <3>2. CASE j # k
      <4>1. pc'[j] = pc[j] /\ mem'[j] = mem[j]
        BY <1>1, <3>2, ProcessSpectator DEF Process, Spectator
      <4>2. pc[j] \in Working => ~(User(j) = User(k) /\ Printer(j) = Printer(k))
        BY <2>1, <3>2 DEF DeviceMutex, Working, Device
      <4>3. pc[j] \in Working => WarnSame(User(j), Printer(j))
        BY <2>2, <4>2, TicketFacts DEF WarnEffect
      <4>4. WarnKnown(j)
        BY DEF DenyInv
      <4>5. QED
        BY <4>1, <4>3, <4>4 DEF WarnKnown, WarnSame, Working, User, Printer
    <3>3. QED
      BY <3>1, <3>2
  <2>6. QED
    BY <2>4, <2>5 DEF DenyInv
<1>2. ASSUME \/ \E j \in Jobs : \/ WaitForLock(j) \/ Retrieve(j) \/ Decide(j) \/ SendOrRemove(j)
                               \/ Retry(j) \/ Clean(j) \/ RealBackend(j) \/ Abort(j) \/ OrphanPrints(j)
                               \/ OrphanEnds(j)
             \/ \E v \in Users, q \in Printers : GraceEnds(v, q)
      PROVE  DenyInv'
  <2>1. ASSUME NEW u \in Users, NEW p \in Printers
        PROVE  WarnSame(u, p)
    BY <1>2, WarnQuiet
  <2>2. ASSUME NEW u \in Users, NEW p \in Printers
        PROVE  WarnBounds(u, p)'
    BY <1>0, <2>1 DEF DenyInv, WarnBounds, WarnSame
  <2>3. ASSUME NEW j \in Jobs
        PROVE  WarnKnown(j)'
    <3>1. WarnKnown(j) /\ WarnSame(User(j), Printer(j))
      BY <2>1, TicketFacts DEF DenyInv
    <3>2. CASE Spectator(j)
      BY <3>1, <3>2 DEF WarnKnown, Spectator, WarnSame, User, Printer
    <3>3. CASE Retrieve(j)
      <4>1. MeterInv(j)
        BY DEF MeterInvs
      <4>2. pc[j] = "locked" => ~mem[j].accounted
        BY <4>1 DEF MeterInv
      <4>3. QED
        BY <3>1, <3>3, <4>2, RetrieveWarn DEF WarnKnown, WarnSame, User, Printer
    <3>4. CASE WaitForLock(j) \/ Decide(j) \/ SendOrRemove(j) \/ Retry(j)
                 \/ Clean(j) \/ RealBackend(j) \/ Abort(j)
      <4>1. mem'[j].warn = mem[j].warn /\ mem'[j].accounted = mem[j].accounted
        <5>1. mem[j] \in MemoryType
          BY DEF TypeOK
        <5>2. CASE Decide(j)
          <6>1. PICK c : mem' = [mem EXCEPT ![j] = [mem[j] EXCEPT !.entries = Entries(j), !.code = c,
                                                               !.last = last[Printer(j)]]]
            BY <5>2 DEF Decide
          <6> DEFINE m == [mem[j] EXCEPT !.entries = Entries(j), !.code = c, !.last = last[Printer(j)]]
          <6>2. m.warn = mem[j].warn /\ m.accounted = mem[j].accounted
            BY <5>1 DEF MemoryType
          <6>3. mem'[j] = m
            BY <6>1 DEF TypeOK
          <6>4. QED
            BY <6>2, <6>3
        <5>3. CASE ~Decide(j)
          <6>1. mem' = mem
            BY <3>4, <5>3 DEF WaitForLock, SendOrRemove, Clean, RealBackend, BackendPrints,
               BackendSucceeds, BackendFails, Retry, Abort, procVars
          <6>2. QED
            BY <6>1
        <5>4. QED
          BY <5>2, <5>3
      <4>2. \/ pc'[j] \in {"locked", "done", "clean"}
            \/ /\ pc[j] \in {"retrieved", "begun", "backend", "asleep"}
               /\ pc'[j] \in {"decided", "backend", "asleep", "after"}
        <5>1. AfterBackend(j, TRUE) \in {"after", "clean"} /\ AfterBackend(j, FALSE) \in {"after", "clean"}
          BY DEF AfterBackend
        <5>2. QED
          BY <3>4, <5>1 DEF WaitForLock, Decide, SendOrRemove, Clean, RealBackend, BackendPrints,
             BackendSucceeds, BackendFails, Retry, Abort, procVars, GoTo, TypeOK
      <4>3. QED
        BY <3>1, <4>1, <4>2 DEF WarnKnown, WarnSame, User, Printer
    <3>5. QED
      BY <1>2, <3>2, <3>3, <3>4, ProcessSpectator, EnvironmentSpectator
         DEF Process, RealBackend, Environment
  <2>4. QED
    BY <2>2, <2>3 DEF DenyInv
<1>3. CASE AllDone \/ UNCHANGED vars
  BY <1>3 DEF AllDone, vars, dbVars, procVars, devVars, DenyInv, WarnKnown, WarnBounds, User, Printer
<1>4. QED
  BY <1>1, <1>2, <1>3 DEF Next, Process, Environment

LEMMA DenyFromInv == TypeOK /\ DenyInv => DenyBannersBounded
<1> SUFFICES ASSUME TypeOK, DenyInv, NEW u \in Users, NEW p \in Printers
             PROVE  shown[u][p] <= conf[p].maxdenybanners
  BY DEF DenyBannersBounded
<1>1. /\ upq[u][p].warn \in Nat /\ shown[u][p] \in Nat /\ conf[p].maxdenybanners \in Nat
  <2>1. upq[u][p] \in EntryType
    BY DEF TypeOK
  <2>2. QED
    BY <2>1, ConfPrinter DEF TypeOK, EntryType
<1>2. QED
  BY <1>1 DEF DenyInv, WarnBounds

(* An user is shown at most maxdenybanners banners of denied jobs between  *)
(* two accepted jobs on a printer.                                         *)
THEOREM DenyBannersLimited == Spec => []DenyBannersBounded
BY TypeInit, TypeStep, LockHeldInit, LockHeldStep, MutexFromLock, MeterInit, MeterStep,
   WarnInit, DenyStep, DenyFromInv, PTL DEF Spec

-----------------------------------------------------------------------------
(* Starting and ending banners.                                            *)

(* How many banners an accepted job has had at each point: the tests on    *)
(* accountbanner at the four places complement each other.                 *)
BannersInv(j) ==
  Conf(j).avoidduplicates = "NO" =>
    /\ pc[j] \in {"start", "locked", "retrieved", "decided"} => banners[j] = 0
    /\ ~Refused(action[j]) /\ mem[j].accounted =>
         /\ pc[j] \in {"begun", "backend", "asleep", "after"} => banners[j] = 1
         /\ pc[j] \in {"ended", "accounted"} => banners[j] = IF EndIsAccounted(j) THEN 2 ELSE 1
         /\ pc[j] = "clean" => banners[j] = 2

BannersInvs == \A j \in Jobs : BannersInv(j)

LEMMA BannersInit == Init => BannersInvs
BY DEF Init, BannersInvs, BannersInv

(* A step that leaves the banners of a job alone. *)
BannersSame(j) ==
  /\ conf' = conf /\ pc'[j] = pc[j] /\ action'[j] = action[j]
  /\ mem'[j].accounted = mem[j].accounted /\ banners'[j] = banners[j]

LEMMA BannersSameKeeps ==
  ASSUME NEW j \in Jobs, BannersInv(j), BannersSame(j)
  PROVE  BannersInv(j)'
BY DEF BannersInv, BannersSame, EndIsAccounted, Conf, Printer, Refused

LEMMA OwnBannerCount ==
  ASSUME TypeOK, NEW j \in Jobs, NEW c \in BOOLEAN, NEW w \in BOOLEAN, BannerIf(j, c, w)
  PROVE  /\ mem'[j].accounted = mem[j].accounted
         /\ ~c => banners'[j] = banners[j]
         /\ c /\ ~Refused(action[j]) /\ Conf(j).avoidduplicates = "NO" => banners'[j] = banners[j] + 1
<1>1. mem'[j].accounted = mem[j].accounted
  BY OwnBanner
<1>2. ~c => banners'[j] = banners[j]
  BY DEF BannerIf, NoBanner
<1>3. ASSUME c, ~Refused(action[j]), Conf(j).avoidduplicates = "NO"
      PROVE  banners'[j] = banners[j] + 1
  <2>1. HandleBanner(j, w) /\ ~Denied(j) /\ ShowsBanner(j) = {TRUE}
    BY <1>3 DEF BannerIf, Refused, Denied, ShowsBanner
  <2>2. banners' = [banners EXCEPT ![j] = @ + 1]
    BY <2>1 DEF HandleBanner
  <2>3. QED
    BY <2>2 DEF TypeOK
<1>4. QED
  BY <1>1, <1>2, <1>3

LEMMA OthersBanners ==
  ASSUME TypeOK, DeviceMutex, NEW j \in Jobs, NEW k \in Jobs, j # k,
         Process(k) \/ RealBackend(k)
  PROVE  BannersSame(j)
<1>1. Spectator(j)
  BY ProcessSpectator
<1>2. ASSUME NEW c, NEW w, BannerIf(k, c, w)
      PROVE  banners'[j] = banners[j]
  BY <1>2 DEF BannerIf, NoBanner, HandleBanner, TypeOK
<1>3. banners'[j] = banners[j]
  BY <1>2 DEF Process, RealBackend, WaitForLock, Retrieve, Decide, Begin, SendOrRemove, Retry,
     Finish, Close, EndBanner, Clean, BackendPrints, BackendSucceeds, BackendFails, devVars
<1>4. QED
  BY <1>1, <1>3 DEF Spectator, BannersSame

LEMMA OwnBannersStep ==
  ASSUME TypeOK, NEW j \in Jobs, MeterInv(j), BannersInv(j),
         Process(j) \/ RealBackend(j) \/ Abort(j)
  PROVE  BannersInv(j)'
<1> USE DEF GoTo
<1>0. /\ StartIsAccounted(j) \in BOOLEAN /\ EndIsAccounted(j) \in BOOLEAN
      /\ EndIsFree(j) = ~EndIsAccounted(j)
  BY ConfFacts DEF StartIsAccounted, EndIsAccounted, EndIsFree, ConfType
<1>1. CASE WaitForLock(j) \/ Clean(j) \/ Abort(j) \/ SendOrRemove(j) \/ RealBackend(j) \/ Retry(j)
  <2>1. /\ conf' = conf /\ action' = action /\ mem' = mem /\ banners' = banners
    BY <1>1 DEF WaitForLock, Clean, Abort, SendOrRemove, RealBackend, BackendPrints,
            BackendSucceeds, BackendFails, Retry, procVars, devVars
  <2>2. mem[j].accounted => AfterBackend(j, TRUE) = "after" /\ AfterBackend(j, FALSE) = "after"
    BY DEF AfterBackend
  <2>3. \/ pc[j] = "start" /\ pc'[j] = "locked"
        \/ pc'[j] = "done"
        \/ /\ pc[j] \in {"begun", "backend", "asleep", "after"}
           /\ mem[j].accounted => pc'[j] \in {"begun", "backend", "asleep", "after"}
           /\ pc'[j] \in {"begun", "backend", "asleep", "after", "clean"}
    BY <1>1, <2>2 DEF WaitForLock, Clean, Abort, SendOrRemove, RealBackend, BackendPrints,
            BackendSucceeds, BackendFails, Retry, AfterBackend, procVars, TypeOK
  <2>4. QED
    BY <2>1, <2>3 DEF BannersInv, Conf, Printer, Refused
<1>2. CASE Retrieve(j)
  <2>1. /\ conf' = conf /\ banners' = banners /\ pc[j] = "locked"
        /\ \/ pc'[j] = "retrieved"
           \/ pc'[j] \in {"clean", "backend"} /\ ~mem'[j].accounted
    BY <1>2, RetrieveCases
       DEF Retrieve, Rejected, KnownUser, CreatedByPolicy, AllowedByPolicy, devVars, TypeOK, MeterInv
  <2>2. QED
    BY <2>1 DEF BannersInv, Conf, Printer
<1>3. CASE Decide(j)
  <2>1. conf' = conf /\ banners' = banners /\ pc[j] = "retrieved" /\ pc'[j] = "decided"
    BY <1>3 DEF Decide, devVars, TypeOK
  <2>2. QED
    BY <2>1 DEF BannersInv, Conf, Printer
<1>4. CASE Begin(j)
  <2>1. /\ conf' = conf /\ action' = action /\ pc[j] = "decided" /\ pc'[j] = "begun"
        /\ BannerIf(j, TRUE, StartIsAccounted(j))
    BY <1>4 DEF Begin, TypeOK
  <2>2. ~Refused(action[j]) /\ Conf(j).avoidduplicates = "NO" => banners'[j] = banners[j] + 1
    BY <1>0, <2>1, OwnBannerCount
  <2>3. QED
    BY <2>1, <2>2 DEF BannersInv, Conf, Printer, Refused
<1>5. CASE Finish(j)
  <2>1. /\ conf' = conf /\ action' = action /\ pc[j] = "after" /\ pc'[j] = "ended"
        /\ BannerIf(j, EndIsAccounted(j), TRUE)
    BY <1>5 DEF Finish, TypeOK
  <2>2. /\ mem'[j].accounted = mem[j].accounted
        /\ ~EndIsAccounted(j) => banners'[j] = banners[j]
        /\ EndIsAccounted(j) /\ ~Refused(action[j]) /\ Conf(j).avoidduplicates = "NO"
             => banners'[j] = banners[j] + 1
    BY <1>0, <2>1, OwnBannerCount
  <2>3. QED
    BY <2>1, <2>2 DEF BannersInv, EndIsAccounted, Conf, Printer, Refused
<1>6. CASE Close(j)
  <2>1. /\ conf' = conf /\ banners' = banners /\ pc[j] = "ended" /\ pc'[j] = "accounted"
        /\ action'[j] = FinalAction(j)
    BY <1>6 DEF Close, TypeOK
  <2>2. mem[j].accounted
    BY <2>1 DEF MeterInv
  <2>3. ~Refused(FinalAction(j)) => ~Refused(action[j])
    BY <2>2 DEF MeterInv, FinalAction
  <2>4. QED
    BY <2>1, <2>2, <2>3 DEF BannersInv, EndIsAccounted, Conf, Printer, Refused
<1>7. CASE EndBanner(j)
  <2>1. /\ conf' = conf /\ action' = action /\ pc[j] = "accounted" /\ pc'[j] = "clean"
        /\ BannerIf(j, EndIsFree(j), FALSE)
    BY <1>7 DEF EndBanner, TypeOK
  <2>2. /\ mem'[j].accounted = mem[j].accounted
        /\ EndIsAccounted(j) => banners'[j] = banners[j]
        /\ ~EndIsAccounted(j) /\ ~Refused(action[j]) /\ Conf(j).avoidduplicates = "NO"
             => banners'[j] = banners[j] + 1
    BY <1>0, <2>1, OwnBannerCount
  <2>3. QED
    BY <2>1, <2>2 DEF BannersInv, Conf, Printer, Refused
<1>8. QED
  BY <1>1, <1>2, <1>3, <1>4, <1>5, <1>6, <1>7 DEF Process

LEMMA BannersStep == TypeOK /\ DeviceMutex /\ MeterInvs /\ BannersInvs /\ [Next]_vars => BannersInvs'
<1> SUFFICES ASSUME TypeOK, DeviceMutex, MeterInvs, BannersInvs, [Next]_vars, NEW j \in Jobs
             PROVE  BannersInv(j)'
  BY DEF BannersInvs
<1>1. MeterInv(j) /\ BannersInv(j)
  BY DEF MeterInvs, BannersInvs
<1>2. ASSUME NEW k \in Jobs, Process(k) \/ RealBackend(k)
      PROVE  BannersInv(j)'
  BY <1>1, <1>2, OwnBannersStep, OthersBanners, BannersSameKeeps
<1>3. CASE Environment
  <2>1. banners' = banners
    BY <1>3 DEF Environment, Abort, OrphanPrints, OrphanEnds, GraceEnds, devVars
  <2>2. Spectator(j) => BannersSame(j)
    BY <2>1 DEF Spectator, BannersSame
  <2>3. QED
    BY <1>1, <1>3, <2>2, OwnBannersStep, EnvironmentSpectator, BannersSameKeeps
<1>4. CASE AllDone \/ UNCHANGED vars
  <2>1. BannersSame(j)
    BY <1>4 DEF AllDone, vars, procVars, devVars, BannersSame
  <2>2. QED
    BY <1>1, <2>1, BannersSameKeeps
<1>5. QED
  BY <1>2, <1>3, <1>4 DEF Next

LEMMA BannersFromInv == BannersInvs => TwoBannersPerJob
BY DEF BannersInvs, BannersInv, TwoBannersPerJob

(* In every setting of accountbanner a job that goes through gets its two  *)
(* banners, each once.                                                     *)
THEOREM BannersAreTwo == Spec => []TwoBannersPerJob
BY TypeInit, TypeStep, LockHeldInit, LockHeldStep, MutexFromLock, MeterInit, MeterStep,
   BannersInit, BannersStep, BannersFromInv, PTL DEF Spec

-----------------------------------------------------------------------------
(* The charges, against what was sent to the printer, against the limits   *)
(* and balances the jobs were checked on, and against the history.         *)


-----------------------------------------------------------------------------
(* The inductive invariant: the data of a job comes out only on behalf of  *)
(* a process that had decided to send it, and that does not change its     *)
(* mind; a real backend that outlives its process left no row.             *)
SentInv(j) ==
  /\ pc[j] \in {"start", "locked", "retrieved", "decided", "begun"} => data[j] = 0
  /\ pc[j] # "done" => j \notin orphans
  /\ pc[j] \notin {"accounted", "clean", "done"} => action[j] # "PROBLEM"
  /\ pc[j] \in {"backend", "asleep"} => /\ tries[j] > 0
                                        /\ mem[j].accounted => IsSent(action[j])
  /\ pc[j] \in {"after", "ended"} => IF IsSent(action[j]) THEN tries[j] > 0 ELSE data[j] = 0
  /\ retcode[j] => tries[j] > 0
  /\ Refused(rows[j].action) => /\ rows[j].size = 0 /\ rows[j].price = 0 /\ data[j] = 0
                                /\ pc[j] \in {"accounted", "clean", "done"}
                                /\ j \notin orphans
  /\ rows[j].price # 0 => tries[j] > 0 \/ rows[j].action = "OTHER"

SentInvs == \A j \in Jobs : SentInv(j)

LEMMA SentInit == Init => SentInvs
BY DEF Init, SentInvs, SentInv, NoMem, NoRow, Refused

(* A step that leaves a job and its data alone. *)
Aside(j) ==
  /\ pc'[j] = pc[j] /\ mem'[j] = mem[j] /\ rows'[j] = rows[j] /\ action'[j] = action[j]
  /\ retcode'[j] = retcode[j] /\ data'[j] = data[j] /\ tries'[j] = tries[j]
  /\ j \in orphans' => j \in orphans

LEMMA AsideKeeps ==
  ASSUME NEW j \in Jobs, SentInv(j), Aside(j)
  PROVE  SentInv(j)'
BY DEF SentInv, Aside, IsSent, Refused

LEMMA ProcessAside ==
  ASSUME TypeOK, DeviceMutex, NEW j \in Jobs, NEW k \in Jobs, j # k,
         Process(k) \/ RealBackend(k)
  PROVE  Aside(j)
<1>1. Spectator(j)
  BY ProcessSpectator
<1>2. orphans' = orphans
  BY DEF Process, RealBackend, WaitForLock, Retrieve, Decide, Begin, SendOrRemove, Retry,
         Finish, Close, EndBanner, Clean, BackendPrints, BackendSucceeds, BackendFails, procVars
<1>3. data'[j] = data[j]
  BY DEF Process, RealBackend, WaitForLock, Retrieve, Decide, Begin, SendOrRemove, Retry,
         Finish, Close, EndBanner, Clean, BackendPrints, BackendSucceeds, BackendFails, devVars,
         TypeOK
<1>4. tries'[j] = tries[j]
  <2>1. CASE Retrieve(k)
    BY <2>1, RetrieveCases DEF Rejected, KnownUser, CreatedByPolicy, AllowedByPolicy, TypeOK
  <2>2. CASE ~Retrieve(k)
    BY <2>2 DEF Process, RealBackend, WaitForLock, Decide, Begin, SendOrRemove, Retry, Finish,
         Close, EndBanner, Clean, BackendPrints, BackendSucceeds, BackendFails, procVars, TypeOK
  <2>3. QED
    BY <2>1, <2>2
<1>5. QED
  BY <1>1, <1>2, <1>3, <1>4 DEF Spectator, Aside

-----------------------------------------------------------------------------
(* Steps of the job itself.                                                *)

(* What a decision may be. *)
LEMMA DecidedAction ==
  ASSUME TypeOK, NEW j \in Jobs, Decide(j)
  PROVE  action'[j] \in {"ALLOW", "WARN", "DENY", "CANCEL"} \cup DupeAnswers
<1> DEFINE Answers == {"ALLOW", "WARN", "DENY", "CANCEL"} \cup DupeAnswers
<1>1. ASSUME NEW a \in Answers, Settle(j, a)
      PROVE  action'[j] \in Answers
  BY <1>1 DEF Settle, TypeOK
<1>2. ASSUME NEW a \in Answers, Decision(j, a)
      PROVE  action'[j] \in Answers
  BY <1>1, <1>2 DEF Decision
<1>3. ASSUME DecideByQuota(j)
      PROVE  action'[j] \in Answers
  <2>1. PICK g \in GroupVerdicts : Settle(j, QuotaVerdict(j, g))
    BY <1>3 DEF DecideByQuota
  <2>2. QuotaVerdict(j, g) \in {"ALLOW", "WARN", "DENY"}
    BY <2>1, SettingsAssumption
       DEF QuotaVerdict, UserVerdict, BalanceVerdict, WorstVerdict, Verdicts
  <2>3. QED
    BY <1>1, <2>1, <2>2
<1>4. AfterDupeCheck(j) \subseteq Answers
  BY ConfFacts DEF AfterDupeCheck, ConfType
<1>5. Refused(action[j]) => action[j] \in Answers
  BY DEF Refused
<1>6. QED
  BY <1>2, <1>3, <1>4, <1>5 DEF Decide

LEMMA SentOwnStep ==
  ASSUME TypeOK, NEW j \in Jobs, MeterInv(j), SentInv(j),
         Process(j) \/ RealBackend(j) \/ Abort(j)
  PROVE  SentInv(j)'
<1> USE DEF GoTo, SentInv
<1>1. CASE WaitForLock(j) \/ Clean(j) \/ Abort(j)
  BY <1>1 DEF WaitForLock, Clean, Abort, dbVars, devVars, TypeOK, Refused
<1>2. CASE Retrieve(j)
  <2>1. pc[j] = "locked" /\ j \notin orphans' /\ data' = data /\ rows' = rows /\ retcode' = retcode
    BY <1>2, RetrieveCases
       DEF Retrieve, Rejected, KnownUser, CreatedByPolicy, AllowedByPolicy, devVars
  <2>2. \/ pc'[j] \in {"retrieved", "clean"}
        \/ pc'[j] = "backend" /\ tries'[j] = 1 /\ ~mem'[j].accounted
    BY <1>2, RetrieveCases
       DEF Rejected, KnownUser, CreatedByPolicy, AllowedByPolicy, TypeOK, MeterInv
  <2>3. action'[j] # "PROBLEM"
    BY <1>2, SettingsAssumption DEF Retrieve, TypeOK
  <2>4. rows[j] = NoRow /\ ~retcode[j]
    BY <2>1 DEF MeterInv
  <2>5. QED
    BY <2>1, <2>2, <2>3, <2>4 DEF NoRow, Refused
<1>3. CASE Decide(j)
  <2>1. action'[j] # "PROBLEM"
    BY <1>3, DecidedAction, SettingsAssumption
  <2>2. pc[j] = "retrieved" /\ pc'[j] = "decided" /\ rows[j] = NoRow /\ ~retcode[j]
    BY <1>3 DEF Decide, TypeOK, MeterInv
  <2>3. QED
    BY <1>3, <2>1, <2>2 DEF Decide, devVars, NoRow, Refused
<1>4. CASE Begin(j) \/ Finish(j) \/ EndBanner(j)
  BY <1>4 DEF Begin, Finish, EndBanner, TypeOK, IsSent, Refused
<1>5. CASE SendOrRemove(j)
  BY <1>5 DEF SendOrRemove, dbVars, devVars, TypeOK, IsSent, Refused, MeterInv, NoRow
<1>6. CASE BackendPrints(j)
  BY <1>6 DEF BackendPrints, dbVars, procVars, TypeOK, Refused
<1>7. CASE BackendSucceeds(j) \/ BackendFails(j) \/ Retry(j)
  BY <1>7 DEF BackendSucceeds, BackendFails, Retry, LoopCount, AfterBackend, dbVars, devVars,
              TypeOK, IsSent, Refused
<1>8. CASE Close(j)
  <2>1. /\ pc[j] = "ended" /\ pc'[j] = "accounted" /\ orphans' = orphans /\ data' = data
        /\ tries' = tries /\ retcode' = retcode
        /\ rows'[j] = [action |-> FinalAction(j), size |-> JobSize(j), price |-> RowPrice(j)]
    BY <1>8 DEF Close, TypeOK
  <2>2. ASSUME Refused(FinalAction(j))
        PROVE  JobSize(j) = 0 /\ RowPrice(j) = 0 /\ data[j] = 0
    <3>1. ~IsSent(action[j])
      BY <2>2 DEF FinalAction, Refused, IsSent
    <3>2. QED
      BY <2>1, <2>2, <3>1 DEF JobSize, RowPrice, Counted
  <2>3. ASSUME RowPrice(j) # 0
        PROVE  tries[j] > 0 \/ FinalAction(j) = "OTHER"
    <3>1. ~Refused(FinalAction(j))
      BY <2>3 DEF RowPrice, Counted
    <3>2. action[j] \in Actions /\ action[j] # "PROBLEM"
      BY <2>1 DEF TypeOK
    <3>3. retcode[j] \/ IsSent(action[j]) \/ FinalAction(j) = "OTHER"
      BY <3>1, <3>2 DEF FinalAction, Refused, IsSent, Actions
    <3>4. QED
      BY <2>1, <3>3
  <2>4. QED
    BY <2>1, <2>2, <2>3
<1>9. QED
  BY <1>1, <1>2, <1>3, <1>4, <1>5, <1>6, <1>7, <1>8 DEF Process, RealBackend

LEMMA SentStep == TypeOK /\ DeviceMutex /\ MeterInvs /\ SentInvs /\ [Next]_vars => SentInvs'
<1> SUFFICES ASSUME TypeOK, DeviceMutex, MeterInvs, SentInvs, [Next]_vars, NEW j \in Jobs
             PROVE  SentInv(j)'
  BY DEF SentInvs
<1>1. MeterInv(j) /\ SentInv(j)
  BY DEF MeterInvs, SentInvs
<1>2. ASSUME NEW k \in Jobs, Process(k) \/ RealBackend(k) \/ Abort(k)
      PROVE  SentInv(j)'
  <2>1. CASE k = j
    BY <1>1, <1>2, <2>1, SentOwnStep
  <2>2. CASE k # j /\ ~Abort(k)
    BY <1>1, <1>2, <2>2, ProcessAside, AsideKeeps
  <2>3. CASE k # j /\ Abort(k)
    <3>1. Aside(j)
      BY <2>3 DEF Abort, Aside, dbVars, devVars, TypeOK
    <3>2. QED
      BY <1>1, <3>1, AsideKeeps
  <2>4. QED
    BY <1>2, <2>1, <2>2, <2>3
(* The sheets of an orphan are those of a process that left no row. *)
<1>3. ASSUME NEW k \in Jobs, OrphanPrints(k)
      PROVE  SentInv(j)'
  BY <1>1, <1>3 DEF OrphanPrints, SentInv, dbVars, procVars, TypeOK, IsSent, Refused
<1>4. ASSUME NEW k \in Jobs, OrphanEnds(k)
      PROVE  SentInv(j)'
  <2>1. Aside(j)
    BY <1>4 DEF OrphanEnds, Aside, dbVars, devVars
  <2>2. QED
    BY <1>1, <2>1, AsideKeeps
<1>5. ASSUME NEW u \in Users, NEW p \in Printers, GraceEnds(u, p)
      PROVE  SentInv(j)'
  <2>1. Aside(j)
    BY <1>5 DEF GraceEnds, Aside, procVars, devVars
  <2>2. QED
    BY <1>1, <2>1, AsideKeeps
<1>6. CASE AllDone \/ UNCHANGED vars
  <2>1. Aside(j)
    BY <1>6 DEF AllDone, vars, dbVars, procVars, devVars, Aside
  <2>2. QED
    BY <1>1, <2>1, AsideKeeps
<1>7. QED
  BY <1>2, <1>3, <1>4, <1>5, <1>6 DEF Next, Environment

LEMMA RefusedFromInv == SentInvs => RefusedPrintsNothing
BY DEF SentInvs, SentInv, RefusedPrintsNothing, Refused

(* A job that the history says was denied or cancelled has cost nothing    *)
(* and none of its data was printed, whatever the configuration, and even  *)
(* when its process or another one is stopped.                             *)
THEOREM RefusedIsFree == Spec => []RefusedPrintsNothing
BY TypeInit, TypeStep, LockHeldInit, LockHeldStep, MutexFromLock,
   MeterInit, MeterStep, SentInit, SentStep, RefusedFromInv, PTL DEF Spec

-----------------------------------------------------------------------------
(* Charges.  The answer of the denyduplicates command is all that can make *)
(* an action that is neither sent nor refused.                             *)
NoOther == \A j \in Jobs : action[j] # "OTHER" /\ rows[j].action # "OTHER"

LEMMA NoOtherInit == Init => NoOther
BY DEF Init, NoOther, NoRow

LEMMA NoOtherStep ==
  ASSUME "OTHER" \notin DupeAnswers
  PROVE  TypeOK /\ DeviceMutex /\ NoOther /\ [Next]_vars => NoOther'
<1> SUFFICES ASSUME TypeOK, DeviceMutex, NoOther, [Next]_vars, NEW j \in Jobs
             PROVE  action'[j] # "OTHER" /\ rows'[j].action # "OTHER"
  BY DEF NoOther
<1> DEFINE Same(k) == action'[k] = action[k] /\ rows'[k] = rows[k]
<1>1. Same(j) => action'[j] # "OTHER" /\ rows'[j].action # "OTHER"
  BY DEF NoOther
<1>2. ASSUME NEW k \in Jobs, k # j, Process(k) \/ RealBackend(k)
      PROVE  Same(j)
  BY <1>2, ProcessSpectator DEF Spectator
<1>3. CASE Retrieve(j)
  BY <1>3, SettingsAssumption DEF Retrieve, TypeOK, NoOther
<1>4. CASE Decide(j)
  BY <1>4, DecidedAction DEF Decide, NoOther
<1>5. CASE Close(j)
  <2>1. rows'[j].action = FinalAction(j) /\ action'[j] = FinalAction(j)
    BY <1>5 DEF Close, TypeOK
  <2>2. QED
    BY <2>1 DEF FinalAction, NoOther
<1>6. ASSUME RealBackend(j) \/ WaitForLock(j) \/ Begin(j) \/ SendOrRemove(j) \/ Retry(j)
               \/ Finish(j) \/ EndBanner(j) \/ Clean(j)
      PROVE  Same(j)
  BY <1>6 DEF RealBackend, WaitForLock, Begin, SendOrRemove, Retry, Finish, EndBanner, Clean,
              BackendPrints, BackendSucceeds, BackendFails, dbVars, procVars
<1>7. ASSUME Environment \/ AllDone \/ UNCHANGED vars
      PROVE  Same(j)
  BY <1>7 DEF Environment, Abort, OrphanPrints, OrphanEnds, GraceEnds, AllDone, vars, dbVars, procVars
<1>8. QED
  BY <1>1, <1>2, <1>3, <1>4, <1>5, <1>6, <1>7 DEF Next, Process

LEMMA ChargedFromInv == SentInvs /\ NoOther => ChargedWasSent
BY DEF SentInvs, SentInv, NoOther, ChargedWasSent

(* Only jobs whose data was sent to the real backend are charged for, as   *)
(* long as the denyduplicates command gives one of the documented answers: *)
(* another answer is the only cause of a charge without printing.          *)
THEOREM ChargedJobsWereSent ==
  ASSUME "OTHER" \notin DupeAnswers
  PROVE  Spec => []ChargedWasSent
<1>1. TypeOK /\ DeviceMutex /\ NoOther /\ [Next]_vars => NoOther'
  BY NoOtherStep
<1>2. QED
  BY <1>1, TypeInit, TypeStep, LockHeldInit, LockHeldStep, MutexFromLock, MeterInit, MeterStep,
     SentInit, SentStep, NoOtherInit, ChargedFromInv, PTL DEF Spec

-----------------------------------------------------------------------------
(* What a decision is still worth when the job is charged: the check that  *)
(* a job passed was made on the balance and the pages its process has in   *)
(* memory, and on the size and the price it will be charged.               *)

(* From the decision to the transaction. *)
Judged == {"decided", "begun", "backend", "asleep", "after", "ended"}

(* The quota checks a job passed, on what its process remembers. *)
BalancePassed(j) ==
  BalanceVerdict(Conf(j).enforcement, mem[j].balance,
                 Price(j, Ticket[j].size, mem[j].entries)) # "DENY"

PagesPassed(j) ==
  \E date \in DateLimits :
    PagesVerdict(mem[j].pages + Anticipated(Conf(j).enforcement, Ticket[j].size),
                 Limits[User(j)][Printer(j)], date) # "DENY"

Passed(j) ==
  /\ Profile[User(j)].limitby = "balance" /\ Profile[User(j)].overcharge # 0 => BalancePassed(j)
  /\ Profile[User(j)].limitby = "quota" => PagesPassed(j)

(* The inductive invariant: a job that goes on was allowed to, and the     *)
(* size a software accounter gives it is the one the check anticipated.    *)
PassedInv(j) ==
  /\ pc[j] \in Judged /\ mem[j].accounted /\ ~Refused(action[j]) /\ QuotaChecked(j) => Passed(j)
  /\ Conf(j).accountbanner = "NONE" => bannersize[j] = 0
  /\ pc[j] = "ended" /\ ~Refused(action[j]) /\ Conf(j).accounter = "software"
       => meter[j] = Ticket[j].size
  /\ mem[j].entries \subseteq {Printer(j)} \cup Ancestors[Printer(j)]

PassedInvs == \A j \in Jobs : PassedInv(j)

LEMMA PassedInit == Init => PassedInvs
BY DEF Init, PassedInvs, PassedInv, NoMem, Judged

-----------------------------------------------------------------------------
(* A process that remembers the same has passed the same checks. *)
LEMMA PassedSame ==
  ASSUME NEW j \in Jobs, conf' = conf, Passed(j), mem'[j].balance = mem[j].balance,
         mem'[j].pages = mem[j].pages, mem'[j].entries = mem[j].entries
  PROVE  Passed(j)'
BY DEF Passed, BalancePassed, PagesPassed, Conf, User, Printer, Price

(* What a process remembers of its checks, banners and sizes. *)
Recall(j) == <<mem[j].balance, mem[j].pages, mem[j].entries, mem[j].accounted, action[j],
               bannersize[j], meter[j]>>

(* Steps that change none of this, of any process. *)
LEMMA RecallKeeps ==
  ASSUME NEW j \in Jobs, PassedInv(j), conf' = conf, Recall(j)' = Recall(j),
         pc'[j] \in Judged => pc[j] \in Judged \/ ~mem[j].accounted,
         pc'[j] = "ended" => pc[j] = "ended"
  PROVE  PassedInv(j)'
BY PassedSame DEF PassedInv, Recall, QuotaChecked, Conf, User, Printer, Refused

(* A banner counts pages and deny banners, and nothing else a process      *)
(* remembers.                                                              *)
LEMMA BannerRecall ==
  ASSUME TypeOK, NEW j \in Jobs, NEW c \in BOOLEAN, NEW w \in BOOLEAN, BannerIf(j, c, w)
  PROVE  /\ mem'[j].balance = mem[j].balance /\ mem'[j].pages = mem[j].pages
         /\ mem'[j].entries = mem[j].entries /\ mem'[j].accounted = mem[j].accounted
         /\ ~c \/ ~w => bannersize'[j] = bannersize[j]
<1>1. mem[j] \in MemoryType
  BY DEF TypeOK
<1>2. CASE NoBanner
  BY <1>2 DEF NoBanner
<1>3. CASE c /\ HandleBanner(j, w)
  <2>1. mem' = mem \/ mem' = [mem EXCEPT ![j] = [mem[j] EXCEPT !.warn = mem[j].warn + 1]]
    BY <1>3 DEF HandleBanner
  <2>2. ~w => bannersize' = bannersize
    BY <1>3 DEF HandleBanner
  <2>3. QED
    BY <1>1, <1>3, <2>1, <2>2 DEF TypeOK, MemoryType
<1>4. QED
  BY <1>2, <1>3 DEF BannerIf

(* Whoever is not refused by the decision has passed the checks. *)
LEMMA DecidePasses ==
  ASSUME TypeOK, NEW j \in Jobs, Decide(j), ~Refused(action'[j]), QuotaChecked(j)
  PROVE  /\ Profile[User(j)].limitby = "balance" /\ Profile[User(j)].overcharge # 0
              => BalanceVerdict(Conf(j).enforcement, mem[j].balance,
                                Price(j, Ticket[j].size, Entries(j))) # "DENY"
         /\ Profile[User(j)].limitby = "quota" => PagesPassed(j)
<1>1. ASSUME NEW a, Refused(a), Decision(j, a)
      PROVE  FALSE
  BY <1>1 DEF Decision, Settle, Refused, TypeOK
<1>2. DecideByQuota(j)
  <2>1. Refused(IF Refused(action[j]) THEN action[j] ELSE "DENY")
    BY DEF Refused
  <2>2. QED
    BY <1>1, <2>1 DEF Decide
<1>3. PICK g \in GroupVerdicts : Settle(j, QuotaVerdict(j, g))
  BY <1>2 DEF DecideByQuota
<1>4. QuotaVerdict(j, g) # "DENY"
  BY <1>3 DEF Settle, Refused, TypeOK
<1>5. ASSUME Profile[User(j)].limitby = "balance", Profile[User(j)].overcharge # 0
      PROVE  BalanceVerdict(Conf(j).enforcement, mem[j].balance,
                            Price(j, Ticket[j].size, Entries(j))) # "DENY"
  BY <1>4, <1>5 DEF QuotaVerdict, UserVerdict
<1>6. ASSUME Profile[User(j)].limitby = "quota"
      PROVE  PagesPassed(j)
  <2>1. "DENY" \notin PagesVerdicts(j)
    BY <1>4, <1>6 DEF QuotaVerdict, UserVerdict, WorstVerdict
  <2>2. Printer(j) \in Entries(j)
    BY DEF Entries
  <2>3. PagesVerdict(SeenPages(j, Printer(j)), Limits[User(j)][Printer(j)],
                     upq[User(j)][Printer(j)].date) # "DENY"
    BY <2>1, <2>2 DEF PagesVerdicts
  <2>4. SeenPages(j, Printer(j)) = mem[j].pages + Anticipated(Conf(j).enforcement, Ticket[j].size)
    BY DEF SeenPages, Conf
  <2>5. upq[User(j)][Printer(j)].date \in DateLimits
    <3>1. upq[User(j)][Printer(j)] \in EntryType
      BY TicketFacts DEF TypeOK
    <3>2. QED
      BY <3>1 DEF EntryType
  <2>6. QED
    BY <2>3, <2>4, <2>5 DEF PagesPassed
<1>7. QED
  BY <1>5, <1>6

LEMMA PassedOwnStep ==
  ASSUME TypeOK, NEW j \in Jobs, MeterInv(j), PassedInv(j),
         Process(j) \/ RealBackend(j) \/ Abort(j)
  PROVE  PassedInv(j)'
<1> USE DEF GoTo
<1>1. CASE WaitForLock(j) \/ Clean(j) \/ Abort(j) \/ SendOrRemove(j) \/ RealBackend(j) \/ Retry(j)
  <2>1. conf' = conf /\ Recall(j)' = Recall(j)
    BY <1>1 DEF WaitForLock, Clean, Abort, SendOrRemove, RealBackend, BackendPrints,
            BackendSucceeds, BackendFails, Retry, procVars, Recall
  <2>2. AfterBackend(j, TRUE) \in {"after", "clean"} /\ AfterBackend(j, FALSE) \in {"after", "clean"}
    BY DEF AfterBackend
  <2>3. /\ pc'[j] \in Judged => pc[j] \in Judged
        /\ pc'[j] = "ended" => pc[j] = "ended"
    BY <1>1, <2>2 DEF WaitForLock, Clean, Abort, SendOrRemove, RealBackend, BackendPrints,
            BackendSucceeds, BackendFails, Retry, procVars, Judged, TypeOK
  <2>4. QED
    BY <2>1, <2>3, RecallKeeps
<1>2. CASE Retrieve(j)
  <2>1. conf' = conf /\ bannersize' = bannersize
    BY <1>2 DEF Retrieve
  <2>2. /\ pc'[j] \in {"retrieved", "clean", "backend"}
        /\ pc'[j] = "backend" => ~mem'[j].accounted
        /\ mem'[j] \in {mem[j], Snapshot(j)}
    BY <1>2, RetrieveCases
       DEF Rejected, KnownUser, CreatedByPolicy, AllowedByPolicy, TypeOK, MeterInv
  <2>3. Snapshot(j).entries = {}
    BY DEF Snapshot, NoMem
  <2>4. QED
    BY <2>1, <2>2, <2>3 DEF PassedInv, Judged, Conf, Printer
<1>3. CASE Decide(j)
  <2>1. PICK c : mem' = [mem EXCEPT ![j] = [mem[j] EXCEPT !.entries = Entries(j), !.code = c,
                                                          !.last = last[Printer(j)]]]
    BY <1>3 DEF Decide
  <2>2. /\ mem'[j].entries = Entries(j) /\ mem'[j].balance = mem[j].balance
        /\ mem'[j].pages = mem[j].pages
    <3>1. mem[j] \in MemoryType
      BY DEF TypeOK
    <3> DEFINE m == [mem[j] EXCEPT !.entries = Entries(j), !.code = c, !.last = last[Printer(j)]]
    <3>2. m.entries = Entries(j) /\ m.balance = mem[j].balance /\ m.pages = mem[j].pages
      BY <3>1 DEF MemoryType
    <3>3. mem'[j] = m
      BY <2>1 DEF TypeOK
    <3>4. QED
      BY <3>2, <3>3
  <2>3. conf' = conf /\ bannersize' = bannersize /\ pc'[j] = "decided"
    BY <1>3 DEF Decide, TypeOK
  <2>4. ASSUME ~Refused(action'[j]), QuotaChecked(j)
        PROVE  Passed(j)'
    BY <1>3, <2>2, <2>3, <2>4, DecidePasses
       DEF Passed, BalancePassed, PagesPassed, Conf, User, Printer, Price
  <2>5. Entries(j) \subseteq {Printer(j)} \cup Ancestors[Printer(j)]
    BY DEF Entries
  <2>6. QED
    BY <2>2, <2>3, <2>4, <2>5 DEF PassedInv, QuotaChecked, Conf, User, Printer, Refused
<1>4. CASE Begin(j)
  <2>1. BannerIf(j, TRUE, StartIsAccounted(j))
    BY <1>4 DEF Begin
  <2>2. conf' = conf /\ action' = action /\ meter' = meter /\ pc[j] = "decided" /\ pc'[j] = "begun"
    BY <1>4 DEF Begin, TypeOK
  <2>3. /\ StartIsAccounted(j) \in BOOLEAN
        /\ Conf(j).accountbanner = "NONE" => ~StartIsAccounted(j)
    BY DEF StartIsAccounted
  <2>4. /\ mem'[j].balance = mem[j].balance /\ mem'[j].pages = mem[j].pages
        /\ mem'[j].entries = mem[j].entries /\ mem'[j].accounted = mem[j].accounted
        /\ Conf(j).accountbanner = "NONE" => bannersize'[j] = bannersize[j]
    BY <2>1, <2>3, BannerRecall
  <2>5. ASSUME mem[j].accounted, ~Refused(action[j]), QuotaChecked(j)
        PROVE  Passed(j)'
    BY <2>2, <2>4, <2>5, PassedSame DEF PassedInv, Judged
  <2>6. QED
    BY <2>2, <2>4, <2>5 DEF PassedInv, QuotaChecked, Conf, User, Printer, Refused
<1>5. CASE Finish(j)
  <2>1. BannerIf(j, EndIsAccounted(j), TRUE)
    BY <1>5 DEF Finish
  <2>2. /\ conf' = conf /\ action' = action /\ pc[j] = "after" /\ pc'[j] = "ended"
        /\ ~Refused(action[j]) /\ Conf(j).accounter # "hardware" => meter'[j] = Ticket[j].size
    BY <1>5 DEF Finish, TypeOK
  <2>3. /\ EndIsAccounted(j) \in BOOLEAN
        /\ Conf(j).accountbanner = "NONE" => ~EndIsAccounted(j)
    BY DEF EndIsAccounted
  <2>4. /\ mem'[j].balance = mem[j].balance /\ mem'[j].pages = mem[j].pages
        /\ mem'[j].entries = mem[j].entries /\ mem'[j].accounted = mem[j].accounted
        /\ Conf(j).accountbanner = "NONE" => bannersize'[j] = bannersize[j]
    BY <2>1, <2>3, BannerRecall
  <2>5. ASSUME mem[j].accounted, ~Refused(action[j]), QuotaChecked(j)
        PROVE  Passed(j)'
    BY <2>2, <2>4, <2>5, PassedSame DEF PassedInv, Judged
  <2>6. QED
    BY <2>2, <2>4, <2>5 DEF PassedInv, QuotaChecked, Conf, User, Printer, Refused
<1>6. CASE Close(j)
  <2>1. mem'[j].entries = mem[j].entries
    <3>1. mem[j] \in MemoryType
      BY DEF TypeOK
    <3>2. QED
      BY <1>6, <3>1 DEF Close, TypeOK, MemoryType
  <2>2. QED
    BY <1>6, <2>1 DEF Close, PassedInv, Judged, TypeOK, Conf, Printer
<1>7. CASE EndBanner(j)
  <2>1. BannerIf(j, EndIsFree(j), FALSE)
    BY <1>7 DEF EndBanner
  <2>2. conf' = conf /\ pc'[j] = "clean"
    BY <1>7 DEF EndBanner, TypeOK
  <2>3. EndIsFree(j) \in BOOLEAN
    BY DEF EndIsFree
  <2>4. QED
    BY <2>1, <2>2, <2>3, BannerRecall DEF PassedInv, Judged, Conf, Printer
<1>8. QED
  BY <1>1, <1>2, <1>3, <1>4, <1>5, <1>6, <1>7 DEF Process

LEMMA PassedStep == TypeOK /\ DeviceMutex /\ MeterInvs /\ PassedInvs /\ [Next]_vars => PassedInvs'
<1> SUFFICES ASSUME TypeOK, DeviceMutex, MeterInvs, PassedInvs, [Next]_vars, NEW j \in Jobs
             PROVE  PassedInv(j)'
  BY DEF PassedInvs
<1>1. MeterInv(j) /\ PassedInv(j)
  BY DEF MeterInvs, PassedInvs
<1>2. Spectator(j) => PassedInv(j)'
  <2>1. Spectator(j) => conf' = conf /\ Recall(j)' = Recall(j) /\ pc'[j] = pc[j]
    BY DEF Spectator, Recall
  <2>2. QED
    BY <1>1, <2>1, RecallKeeps
<1>3. ASSUME NEW k \in Jobs, Process(k) \/ RealBackend(k)
      PROVE  PassedInv(j)'
  BY <1>1, <1>2, <1>3, PassedOwnStep, ProcessSpectator
<1>4. CASE Environment
  BY <1>1, <1>2, <1>4, PassedOwnStep, EnvironmentSpectator
<1>5. CASE AllDone \/ UNCHANGED vars
  BY <1>2, <1>5 DEF AllDone, vars, dbVars, procVars, devVars, Spectator
<1>6. QED
  BY <1>3, <1>4, <1>5 DEF Next

-----------------------------------------------------------------------------
(* The transaction charges what the check anticipated, or nothing.         *)

LEMMA ChargedSize ==
  ASSUME TypeOK, NEW j \in Jobs, MeterInv(j), PassedInv(j), pc[j] = "ended",
         ~Refused(FinalAction(j)), Conf(j).accounter = "software", Conf(j).accountbanner = "NONE"
  PROVE  JobSize(j) \in {0, Ticket[j].size} /\ mem[j].accounted /\ ~Refused(action[j])
<1>1. mem[j].accounted
  BY DEF MeterInv
<1>2. ~Refused(action[j])
  BY <1>1 DEF MeterInv, FinalAction
<1>3. meter[j] = Ticket[j].size /\ bannersize[j] = 0 /\ Ticket[j].size \in Nat
  BY <1>2, TicketFacts DEF PassedInv
<1>4. BannersAndData(j) = Ticket[j].size
  BY <1>3 DEF BannersAndData, Sanitized
<1>5. QED
  BY <1>1, <1>2, <1>4 DEF JobSize

(* Only the transaction writes a row. *)
LEMMA RowByClose ==
  ASSUME TypeOK, DeviceMutex, [Next]_vars, NEW j \in Jobs, rows'[j] # rows[j]
  PROVE  Close(j)
<1>1. ~Spectator(j)
  BY DEF Spectator
<1>2. Process(j) \/ RealBackend(j) \/ Abort(j)
  <2>1. CASE \E k \in Jobs : Process(k) \/ RealBackend(k)
    BY <1>1, <2>1, ProcessSpectator
  <2>2. CASE Environment
    BY <1>1, <2>2, EnvironmentSpectator
  <2>3. CASE AllDone \/ UNCHANGED vars
    BY <2>3 DEF AllDone, vars, dbVars
  <2>4. QED
    BY <2>1, <2>2, <2>3 DEF Next
<1>3. QED
  BY <1>2 DEF Process, RealBackend, Abort, WaitForLock, Retrieve, Decide, Begin, SendOrRemove, Retry,
     Finish, EndBanner, Clean, BackendPrints, BackendSucceeds, BackendFails, dbVars

LEMMA OverdraftStep ==
  ASSUME TypeOK, DeviceMutex, MeterInvs, PassedInvs, [Next]_vars, NEW j \in Jobs,
         rows[j] = NoRow, rows'[j] # NoRow, Predictable(j), QuotaChecked(j),
         balance'[User(j)] < BalanceZero, rows'[j].price > 0
  PROVE  balance[User(j)] # mem[j].balance
<1> SUFFICES ASSUME balance[User(j)] = mem[j].balance
             PROVE  FALSE
  OBVIOUS
<1>1. Close(j)
  BY RowByClose
<1>2. rows'[j].price = RowPrice(j) /\ pc[j] = "ended"
      /\ balance'[User(j)] = balance[User(j)] - RowPrice(j)
  BY <1>1, TicketFacts DEF Close, ChargedBalance, GoTo, TypeOK
<1>3. MeterInv(j) /\ PassedInv(j)
  BY DEF MeterInvs, PassedInvs
<1>4. ~Refused(FinalAction(j)) /\ RowPrice(j) = Price(j, JobSize(j), mem[j].entries)
  BY <1>2 DEF RowPrice, Counted
<1>5. JobSize(j) \in {0, Ticket[j].size} /\ mem[j].accounted /\ ~Refused(action[j])
  BY <1>2, <1>3, <1>4, ChargedSize DEF Predictable
<1>6. JobSize(j) # 0
  BY <1>2, <1>4 DEF Price, JobPrice
<1>7. BalancePassed(j)
  BY <1>2, <1>3, <1>5 DEF PassedInv, Passed, Judged, Predictable
<1> DEFINE price == Price(j, Ticket[j].size, mem[j].entries)
<1>8. /\ BalanceZero \in Int /\ mem[j].balance \in Int
      /\ price \in Int
  <2>1. mem[j] \in MemoryType
    BY DEF TypeOK
  <2>2. QED
    BY <2>1, TicketFacts, ThresholdAssumption, PriceType DEF MemoryType
<1>9. BalanceVerdict("STRICT", mem[j].balance, price) # "DENY"
  BY <1>7 DEF BalancePassed, Predictable
<1> HIDE DEF price
<1>10. mem[j].balance - price >= BalanceZero
  BY <1>8, <1>9 DEF BalanceVerdict, Anticipated
<1>11. RowPrice(j) = price
  BY <1>4, <1>5, <1>6 DEF price
<1>12. QED
  BY <1>2, <1>8, <1>10, <1>11

LEMMA OverdraftSteps ==
  TypeOK /\ DeviceMutex /\ MeterInvs /\ PassedInvs /\ [Next]_vars
  => [\A j \in Jobs :
        /\ rows[j] = NoRow /\ rows'[j] # NoRow
        /\ Predictable(j) /\ QuotaChecked(j)
        /\ balance'[User(j)] < BalanceZero /\ rows'[j].price > 0
        => balance[User(j)] # mem[j].balance]_vars
BY OverdraftStep

(* Under STRICT, a job whose price can be foreseen only takes an account   *)
(* below balancezero when the balance changed between the moment its       *)
(* process read it and its transaction.                                    *)
THEOREM OverdraftsAreRaces == Spec => OverdraftNeedsRace
BY TypeInit, TypeStep, LockHeldInit, LockHeldStep, MutexFromLock, MeterInit, MeterStep,
   PassedInit, PassedStep, OverdraftSteps, PTL DEF Spec, OverdraftNeedsRace

-----------------------------------------------------------------------------
(* Hard limits.  edpykota exchanges two limits that are in the wrong       *)
(* order, so no entry has a soft limit above its hard limit.               *)
OrderedLimits ==
  \A u \in Users, p \in Printers :
    LET l == Limits[u][p] IN l.soft # NoLimit /\ l.hard # NoLimit => l.soft <= l.hard

(* No job of another queue counts on the entries of this printer. *)
Undivided(p) == \A k \in Jobs : p \notin Ancestors[Printer(k)]

(* As long as a process holds the device, it knows the pages of its entry. *)
PagesKnown(j) ==
  pc[j] \in Judged \cup {"retrieved"} /\ mem[j].accounted /\ Undivided(Printer(j))
  => mem[j].pages = upq[User(j)][Printer(j)].pages

HardInv == /\ \A j \in Jobs : PagesKnown(j)
           /\ StrictHardLimitKept

LEMMA HardInit == Init => HardInv
<1> SUFFICES ASSUME Init
             PROVE  HardInv
  OBVIOUS
<1>1. \A u \in Users, p \in Printers : upq[u][p].pages = 0
  BY DEF Init
<1>2. QED
  BY <1>1, TicketFacts DEF HardInv, PagesKnown, StrictHardLimitKept, Init, Judged

(* A step that leaves the pages of an entry alone. *)
PagesSame(u, p) == upq'[u][p].pages = upq[u][p].pages

LEMMA BannerPages ==
  ASSUME TypeOK, NEW j \in Jobs, NEW c, NEW w, BannerIf(j, c, w),
         NEW u \in Users, NEW p \in Printers
  PROVE  PagesSame(u, p)
<1>1. upq[u][p] \in EntryType /\ upq \in [Users -> [Printers -> EntryType]]
  BY DEF TypeOK
<1>2. CASE upq' = upq
  BY <1>2 DEF PagesSame
<1>3. CASE upq' = [upq EXCEPT ![User(j)][Printer(j)].warn = @ + 1]
  BY <1>1, <1>3 DEF PagesSame, EntryType
<1>4. QED
  BY <1>2, <1>3 DEF BannerIf, NoBanner, HandleBanner

LEMMA PagesQuiet ==
  ASSUME TypeOK, NEW u \in Users, NEW p \in Printers, [Next]_vars, \A k \in Jobs : ~Close(k)
  PROVE  PagesSame(u, p)
<1>0. upq[u][p] \in EntryType /\ upq \in [Users -> [Printers -> EntryType]]
  BY DEF TypeOK
<1>1. ASSUME NEW j \in Jobs, \/ WaitForLock(j) \/ SendOrRemove(j) \/ Retry(j) \/ Clean(j) \/ RealBackend(j)
                             \/ Abort(j) \/ OrphanPrints(j) \/ OrphanEnds(j)
      PROVE  PagesSame(u, p)
  BY <1>1 DEF PagesSame, WaitForLock, SendOrRemove, Clean, RealBackend, BackendPrints,
              BackendSucceeds, BackendFails, Retry, Abort, OrphanPrints, OrphanEnds, dbVars
<1>2. ASSUME NEW j \in Jobs, Retrieve(j)
      PROVE  PagesSame(u, p)
  <2>1. CASE upq' = upq
    BY <2>1 DEF PagesSame
  <2>2. CASE upq' = [upq EXCEPT ![User(j)][Printer(j)].exists = TRUE]
    BY <1>0, <2>2 DEF PagesSame, EntryType
  <2>3. QED
    BY <1>2, <2>1, <2>2, RetrieveCases
       DEF Rejected, KnownUser, CreatedByPolicy, AllowedByPolicy
<1>3. ASSUME NEW j \in Jobs, Decide(j)
      PROVE  PagesSame(u, p)
  <2>1. CASE upq' = upq
    BY <2>1 DEF PagesSame
  <2>2. CASE DecideByQuota(j)
    <3>1. PICK s : upq' = [upq EXCEPT ![User(j)] =
                     [q \in Printers |-> IF q \in s THEN InGraceNow(j, q) ELSE upq[User(j)][q]]]
      BY <2>2 DEF DecideByQuota
    <3>2. InGraceNow(j, p).pages = upq[User(j)][p].pages
      <4>1. upq[User(j)][p] \in EntryType
        BY <1>0, TicketFacts
      <4>2. QED
        BY <4>1 DEF InGraceNow, EntryType
    <3>3. QED
      BY <1>0, <3>1, <3>2 DEF PagesSame
  <2>3. QED
    BY <1>3, <2>1, <2>2 DEF Decide, Decision
<1>4. ASSUME NEW j \in Jobs, Begin(j) \/ Finish(j) \/ EndBanner(j)
      PROVE  PagesSame(u, p)
  BY <1>4, BannerPages DEF Begin, Finish, EndBanner
<1>5. ASSUME NEW v \in Users, NEW q \in Printers, GraceEnds(v, q)
      PROVE  PagesSame(u, p)
  BY <1>0, <1>5 DEF PagesSame, GraceEnds, EntryType
<1>6. CASE AllDone \/ UNCHANGED vars
  BY <1>6 DEF AllDone, vars, dbVars, PagesSame
<1>7. QED
  BY <1>1, <1>2, <1>3, <1>4, <1>5, <1>6 DEF Next, Process, Environment

(* The pages a transaction adds to an entry. *)
LEMMA PagesAfterClose ==
  ASSUME TypeOK, NEW k \in Jobs, Close(k), NEW u \in Users, NEW p \in Printers
  PROVE  upq'[u][p].pages = IF u = User(k) /\ p \in mem[k].entries /\ Counted(k)
                            THEN upq[u][p].pages + JobSize(k) ELSE upq[u][p].pages
<1>1. /\ upq[u][p] \in EntryType /\ upq[User(k)][p] \in EntryType
      /\ upq \in [Users -> [Printers -> EntryType]]
  BY TicketFacts DEF TypeOK
<1>2. upq'[u][p] = IF u = User(k) THEN EntryAfter(k, p) ELSE upq[u][p]
  BY <1>1 DEF Close
<1>3. EntryAfter(k, p).pages = IF Counted(k) /\ p \in mem[k].entries
                               THEN upq[User(k)][p].pages + JobSize(k) ELSE upq[User(k)][p].pages
  BY <1>1 DEF EntryAfter, EntryType
<1>4. QED
  BY <1>2, <1>3

LEMMA PagesClose ==
  ASSUME TypeOK, NEW k \in Jobs, Close(k), NEW u \in Users, NEW p \in Printers
  PROVE  \/ PagesSame(u, p)
         \/ /\ u = User(k) /\ p \in mem[k].entries /\ Counted(k)
            /\ upq'[u][p].pages = upq[u][p].pages + JobSize(k)
BY PagesAfterClose DEF PagesSame

(* Only the process that holds the device counts pages on an undivided     *)
(* printer, and it forgets them with the transaction.                      *)
LEMMA PagesKnownStep ==
  ASSUME TypeOK, DeviceMutex, MeterInvs, PassedInvs, HardInv, [Next]_vars, NEW j \in Jobs
  PROVE  PagesKnown(j)'
<1>0. PagesKnown(j) /\ MeterInv(j) /\ User(j) \in Users /\ Printer(j) \in Printers
  BY TicketFacts DEF HardInv, MeterInvs
<1>1. ASSUME NEW k \in Jobs, Close(k)
      PROVE  PagesKnown(j)'
  <2>1. pc[k] = "ended" /\ pc'[k] = "accounted"
    BY <1>1 DEF Close, GoTo, TypeOK
  <2>2. CASE j = k
    BY <2>1, <2>2 DEF PagesKnown, Judged
  <2>3. CASE j # k
    <3>1. pc'[j] = pc[j] /\ mem'[j] = mem[j]
      BY <1>1, <2>3, ProcessSpectator DEF Process, Spectator
    <3>2. ASSUME pc[j] \in Working, Undivided(Printer(j)), ~PagesSame(User(j), Printer(j))
          PROVE  FALSE
      <4>1. Printer(j) \in mem[k].entries
        BY <1>0, <1>1, <3>2, PagesClose
      <4>2. PassedInv(k)
        BY DEF PassedInvs
      <4>3. Printer(j) = Printer(k)
        BY <3>2, <4>1, <4>2 DEF PassedInv, Undivided
      <4>4. QED
        BY <2>1, <2>3, <3>2, <4>3 DEF DeviceMutex, Device, Working
    <3>3. QED
      BY <1>0, <3>1, <3>2 DEF PagesKnown, PagesSame, Undivided, Judged, Working, User, Printer
  <2>4. QED
    BY <2>2, <2>3
<1>2. ASSUME \A k \in Jobs : ~Close(k)
      PROVE  PagesKnown(j)'
  <2>1. PagesSame(User(j), Printer(j))
    BY <1>0, <1>2, PagesQuiet
  <2>2. CASE Spectator(j)
    BY <1>0, <2>1, <2>2 DEF PagesKnown, PagesSame, Spectator, Undivided, User, Printer
  <2>3. CASE Retrieve(j)
    <3>1. CASE Rejected(j) \/ AllowedByPolicy(j)
      <4>1. pc'[j] \in {"clean", "backend"} /\ mem'[j] = mem[j] /\ pc[j] = "locked"
        BY <3>1 DEF Rejected, AllowedByPolicy, GoTo, TypeOK
      <4>2. QED
        BY <1>0, <4>1 DEF PagesKnown, MeterInv, Judged
    <3>2. CASE KnownUser(j) \/ CreatedByPolicy(j)
      <4>1. mem'[j] = Snapshot(j)
        BY <3>2 DEF KnownUser, CreatedByPolicy, TypeOK
      <4>2. Snapshot(j).pages = upq[User(j)][Printer(j)].pages
        BY DEF Snapshot, NoMem
      <4>3. QED
        BY <2>1, <4>1, <4>2 DEF PagesKnown, PagesSame, User, Printer
    <3>3. QED
      BY <2>3, <3>1, <3>2, RetrieveCases
  <2>4. CASE Begin(j) \/ Finish(j) \/ EndBanner(j)
    <3>1. mem'[j].pages = mem[j].pages /\ mem'[j].accounted = mem[j].accounted
      <4>1. /\ StartIsAccounted(j) \in BOOLEAN /\ EndIsAccounted(j) \in BOOLEAN
            /\ EndIsFree(j) \in BOOLEAN
        BY DEF StartIsAccounted, EndIsAccounted, EndIsFree
      <4>2. QED
        BY <2>4, <4>1, BannerRecall DEF Begin, Finish, EndBanner
    <3>2. pc[j] \in Judged \/ pc'[j] = "clean"
      BY <2>4 DEF Begin, Finish, EndBanner, GoTo, Judged, TypeOK
    <3>3. QED
      BY <1>0, <2>1, <3>1, <3>2 DEF PagesKnown, PagesSame, Undivided, Judged, User, Printer
  <2>5. CASE Decide(j)
    <3>1. mem'[j].pages = mem[j].pages /\ mem'[j].accounted = mem[j].accounted
      <4>1. mem[j] \in MemoryType
        BY DEF TypeOK
      <4>2. PICK c : mem' = [mem EXCEPT ![j] = [mem[j] EXCEPT !.entries = Entries(j), !.code = c,
                                                              !.last = last[Printer(j)]]]
        BY <2>5 DEF Decide
      <4> DEFINE m == [mem[j] EXCEPT !.entries = Entries(j), !.code = c, !.last = last[Printer(j)]]
      <4>3. m.pages = mem[j].pages /\ m.accounted = mem[j].accounted
        BY <4>1 DEF MemoryType
      <4>4. mem'[j] = m
        BY <4>2 DEF TypeOK
      <4>5. QED
        BY <4>3, <4>4
    <3>2. pc[j] = "retrieved"
      BY <2>5 DEF Decide, GoTo
    <3>3. QED
      BY <1>0, <2>1, <3>1, <3>2 DEF PagesKnown, PagesSame, Undivided, User, Printer
  <2>6. CASE WaitForLock(j) \/ SendOrRemove(j) \/ Retry(j) \/ Clean(j) \/ RealBackend(j) \/ Abort(j)
    <3>1. mem' = mem
      BY <2>6 DEF WaitForLock, SendOrRemove, Clean, RealBackend, BackendPrints,
         BackendSucceeds, BackendFails, Retry, Abort, procVars
    <3>2. pc'[j] \in Judged => pc[j] \in Judged
      <4>1. AfterBackend(j, TRUE) \in {"after", "clean"} /\ AfterBackend(j, FALSE) \in {"after", "clean"}
        BY DEF AfterBackend
      <4>2. QED
        BY <2>6, <4>1 DEF WaitForLock, SendOrRemove, Clean, RealBackend, BackendPrints,
           BackendSucceeds, BackendFails, Retry, Abort, procVars, GoTo, Judged, TypeOK
    <3>3. pc'[j] # "retrieved" \/ pc[j] = "retrieved"
      BY <2>6 DEF WaitForLock, SendOrRemove, Clean, RealBackend, BackendPrints, AfterBackend,
         BackendSucceeds, BackendFails, Retry, Abort, procVars, GoTo, TypeOK
    <3>4. QED
      BY <1>0, <2>1, <3>1, <3>2, <3>3 DEF PagesKnown, PagesSame, Undivided, User, Printer
  <2>7. QED
    <3>1. CASE \E k \in Jobs : Process(k) \/ RealBackend(k)
      BY <1>2, <2>2, <2>3, <2>4, <2>5, <2>6, <3>1, ProcessSpectator DEF Process
    <3>2. CASE Environment
      BY <2>2, <2>6, <3>2, EnvironmentSpectator
    <3>3. CASE AllDone \/ UNCHANGED vars
      BY <2>2, <3>3 DEF AllDone, vars, dbVars, procVars, devVars, Spectator
    <3>4. QED
      BY <3>1, <3>2, <3>3 DEF Next
<1>3. QED
  BY <1>1, <1>2

(* A verdict other than DENY means that the hard limit is not reached. *)
LEMMA BelowHard ==
  ASSUME NEW pages \in Int, NEW limits, NEW date,
         limits.soft \in Nat \cup {NoLimit}, limits.hard \in Nat,
         limits.soft # NoLimit => limits.soft <= limits.hard,
         PagesVerdict(pages, limits, date) # "DENY"
  PROVE  pages < limits.hard
<1>1. limits.hard # NoLimit
  BY ThresholdAssumption
<1>2. QED
  BY <1>1 DEF PagesVerdict, BelowLimits, InGrace

LEMMA HardClose ==
  ASSUME OrderedLimits, TypeOK, MeterInvs, PassedInvs, HardInv, NEW k \in Jobs, Close(k),
         NEW u \in Users, NEW p \in Printers,
         conf[p].enforcement = "STRICT", conf[p].accounter = "software",
         conf[p].accountbanner = "NONE", Profile[u].limitby = "quota",
         Limits[u][p].hard # NoLimit, Undivided(p)
  PROVE  upq'[u][p].pages = 0 \/ upq'[u][p].pages < Limits[u][p].hard
<1>1. upq[u][p].pages = 0 \/ upq[u][p].pages < Limits[u][p].hard
  BY DEF HardInv, StrictHardLimitKept, Undivided
<1>2. CASE PagesSame(u, p)
  BY <1>1, <1>2 DEF PagesSame
<1>3. ASSUME u = User(k), p \in mem[k].entries, Counted(k),
             upq'[u][p].pages = upq[u][p].pages + JobSize(k)
      PROVE  upq'[u][p].pages = 0 \/ upq'[u][p].pages < Limits[u][p].hard
  <2>1. PassedInv(k) /\ MeterInv(k) /\ PagesKnown(k) /\ pc[k] = "ended"
    BY DEF PassedInvs, MeterInvs, HardInv, Close, GoTo
  <2>2. p = Printer(k)
    BY <1>3, <2>1 DEF PassedInv, Undivided
  <2>3. JobSize(k) \in {0, Ticket[k].size} /\ mem[k].accounted /\ ~Refused(action[k])
    BY <1>3, <2>1, <2>2, ChargedSize DEF Conf, Counted
  <2>4. upq[u][p].pages \in Int /\ Ticket[k].size \in Nat
    <3>1. upq[u][p] \in EntryType
      BY DEF TypeOK
    <3>2. QED
      BY <3>1, TicketFacts DEF EntryType
  <2>5. CASE JobSize(k) = 0
    BY <1>1, <1>3, <2>4, <2>5
  <2>6. CASE JobSize(k) = Ticket[k].size
    <3>1. PagesPassed(k)
      BY <1>3, <2>1, <2>3 DEF PassedInv, Passed, Judged, QuotaChecked, Counted
    <3>2. mem[k].pages = upq[u][p].pages
      BY <1>3, <2>1, <2>2, <2>3 DEF PagesKnown, Judged
    <3>3. PICK date \in DateLimits :
            PagesVerdict(upq[u][p].pages + Ticket[k].size, Limits[u][p], date) # "DENY"
      BY <1>3, <2>2, <3>1, <3>2 DEF PagesPassed, Anticipated, Conf
    <3>4. /\ Limits[u][p].soft \in Nat \cup {NoLimit} /\ Limits[u][p].hard \in Nat
          /\ Limits[u][p].soft # NoLimit => Limits[u][p].soft <= Limits[u][p].hard
      <4>1. Limits[u][p] \in [soft : Nat \cup {NoLimit}, hard : Nat \cup {NoLimit},
                              max : Nat \cup {NoLimit}]
        BY SettingsAssumption
      <4>2. QED
        BY <4>1 DEF OrderedLimits
    <3>5. upq[u][p].pages + Ticket[k].size < Limits[u][p].hard
      BY <2>4, <3>3, <3>4, BelowHard
    <3>6. QED
      BY <1>3, <2>6, <3>5
  <2>7. QED
    BY <2>3, <2>5, <2>6
<1>4. QED
  BY <1>2, <1>3, PagesClose

LEMMA HardStep ==
  ASSUME OrderedLimits
  PROVE  TypeOK /\ DeviceMutex /\ MeterInvs /\ PassedInvs /\ HardInv /\ [Next]_vars => HardInv'
<1> SUFFICES ASSUME TypeOK, DeviceMutex, MeterInvs, PassedInvs, HardInv, [Next]_vars
             PROVE  HardInv'
  OBVIOUS
<1>0. conf' = conf
  BY DEF Next, Process, RealBackend, Environment, AllDone, vars, WaitForLock, Retrieve, Decide,
         Begin, SendOrRemove, Finish, Close, EndBanner, Clean, BackendPrints, BackendSucceeds,
         BackendFails, Retry, Abort, OrphanPrints, OrphanEnds, GraceEnds
<1>1. \A j \in Jobs : PagesKnown(j)'
  BY PagesKnownStep
<1>2. ASSUME NEW u \in Users, NEW p \in Printers,
             conf[p].enforcement = "STRICT", conf[p].accounter = "software",
             conf[p].accountbanner = "NONE", Profile[u].limitby = "quota",
             Limits[u][p].hard # NoLimit, Undivided(p)
      PROVE  upq'[u][p].pages = 0 \/ upq'[u][p].pages < Limits[u][p].hard
  <2>1. CASE \E k \in Jobs : Close(k)
    BY <1>2, <2>1, HardClose
  <2>2. CASE \A k \in Jobs : ~Close(k)
    <3>1. PagesSame(u, p)
      BY <2>2, PagesQuiet
    <3>2. QED
      BY <1>2, <3>1 DEF HardInv, StrictHardLimitKept, Undivided, PagesSame
  <2>3. QED
    BY <2>1, <2>2
<1>3. StrictHardLimitKept'
  BY <1>0, <1>2 DEF StrictHardLimitKept, Undivided, Printer
<1>4. QED
  BY <1>1, <1>3 DEF HardInv

LEMMA HardFromInv == HardInv => StrictHardLimitKept
BY DEF HardInv

(* Under STRICT enforcement with software accounting, an user limited by   *)
(* quota never uses as many pages on an ordinary queue as its hard limit,  *)
(* however many jobs he sends at the same time.                            *)
THEOREM HardLimitHolds ==
  ASSUME OrderedLimits
  PROVE  Spec => []StrictHardLimitKept
<1>1. TypeOK /\ DeviceMutex /\ MeterInvs /\ PassedInvs /\ HardInv /\ [Next]_vars => HardInv'
  BY HardStep
<1>2. QED
  BY <1>1, TypeInit, TypeStep, LockHeldInit, LockHeldStep, MutexFromLock, MeterInit, MeterStep,
     PassedInit, PassedStep, HardInit, HardFromInv, PTL DEF Spec

-----------------------------------------------------------------------------
(* The ledger: a closed job keeps saying what it was charged for, and the  *)
(* transaction that closes one adds the same to the history as to the      *)
(* counters.                                                               *)

Prices        == [j \in Jobs |-> rows[j].price]
Sizes         == [j \in Jobs |-> rows[j].size]
JobsOf(u)     == {j \in Jobs : User(j) = u}
JobsOn(u, p)  == {j \in Jobs : User(j) = u /\ p \in mem[j].entries /\ rows[j] # NoRow /\ Counted(j)}

BalanceKept(u)  == balance[u] = InitialBalance[u] - SumFunctionOnSet(Prices, JobsOf(u))
PagesKept(u, p) == upq[u][p].pages = SumFunctionOnSet(Sizes, JobsOn(u, p))

LEMMA LedgerParts ==
  LedgerBalanced <=> /\ \A u \in Users : BalanceKept(u)
                     /\ \A u \in Users, p \in Printers : PagesKept(u, p)
BY DEF LedgerBalanced, BalanceKept, PagesKept, Prices, Sizes, JobsOf, JobsOn

(* The sets that are summed are finite, the values summed are integers. *)
LEMMA LedgerTypes ==
  ASSUME TypeOK, NEW u, NEW p
  PROVE  /\ IsFiniteSet(JobsOf(u)) /\ IsFiniteSet(JobsOn(u, p))
         /\ \A j \in Jobs : /\ Prices[j] = rows[j].price /\ Prices[j] \in Int
                            /\ Sizes[j] = rows[j].size /\ Sizes[j] \in Int
<1>1. JobsOf(u) \in SUBSET Jobs /\ JobsOn(u, p) \in SUBSET Jobs
  BY DEF JobsOf, JobsOn
<1>2. \A j \in Jobs : rows[j].price \in Int /\ rows[j].size \in Int
  BY DEF TypeOK, RowType
<1>3. QED
  BY <1>1, <1>2, TopologyAssumption, FS_Subset DEF Prices, Sizes

LEMMA LedgerInit == Init => LedgerBalanced
<1> SUFFICES ASSUME Init
             PROVE  LedgerBalanced
  OBVIOUS
<1>1. TypeOK
  BY TypeInit
<1>2. ASSUME NEW u \in Users
      PROVE  BalanceKept(u)
  <2>1. \A j \in JobsOf(u) : Prices[j] = 0
    BY DEF Init, NoRow, Prices, JobsOf
  <2>2. SumFunctionOnSet(Prices, JobsOf(u)) = 0
    BY <1>1, <2>1, LedgerTypes, SumOfZeros
  <2>3. balance[u] = InitialBalance[u] /\ InitialBalance[u] \in Int
    BY SettingsAssumption DEF Init
  <2>4. QED
    BY <2>2, <2>3 DEF BalanceKept
<1>3. ASSUME NEW u \in Users, NEW p \in Printers
      PROVE  PagesKept(u, p)
  <2>1. JobsOn(u, p) = {}
    BY DEF Init, JobsOn
  <2>2. SumFunctionOnSet(Sizes, JobsOn(u, p)) = 0
    BY <1>1, <2>1, LedgerTypes, SumOfZeros
  <2>3. upq[u][p].pages = 0
    BY DEF Init
  <2>4. QED
    BY <2>2, <2>3 DEF PagesKept
<1>4. QED
  BY <1>2, <1>3, LedgerParts

(* What the history and the memory of a process say of a closed job.       *)
SameJob(j) ==
  /\ rows'[j] = rows[j] /\ mem'[j].entries = mem[j].entries
  /\ Counted(j)' <=> Counted(j)

LEMMA CountedSame ==
  ASSUME NEW j \in Jobs, conf' = conf, FinalAction(j)' = FinalAction(j)
  PROVE  Counted(j)' <=> Counted(j)
<1>1. Conf(j)' = Conf(j)
  BY DEF Conf, Printer
<1>2. QED
  BY <1>1 DEF Counted, Forgiven, User

LEMMA ClosedStays ==
  ASSUME TypeOK, DeviceMutex, MeterInvs, [Next]_vars, NEW j \in Jobs, rows[j] # NoRow
  PROVE  SameJob(j)
<1>1. pc[j] \in {"accounted", "clean", "done"}
  BY DEF MeterInvs, MeterInv
<1>2. CASE Spectator(j)
  BY <1>2, CountedSame DEF Spectator, SameJob, FinalAction
<1>3. CASE Clean(j) \/ Abort(j)
  BY <1>3, CountedSame DEF Clean, Abort, dbVars, SameJob, FinalAction
<1>4. CASE EndBanner(j)
  <2>1. mem'[j].entries = mem[j].entries
    BY <1>4 DEF EndBanner, BannerIf, NoBanner, HandleBanner, TypeOK, MemoryType
  <2>2. QED
    BY <1>4, <2>1, CountedSame DEF EndBanner, SameJob, FinalAction
<1>5. CASE AllDone \/ UNCHANGED vars
  BY <1>5, CountedSame DEF AllDone, vars, dbVars, procVars, SameJob, FinalAction
<1>6. CASE Process(j) \/ RealBackend(j)
  <2>1. Clean(j) \/ EndBanner(j)
    BY <1>1, <1>6 DEF Process, RealBackend, GoTo, WaitForLock, Retrieve, Rejected, KnownUser,
       CreatedByPolicy, AllowedByPolicy, Decide, Begin, SendOrRemove, Retry, Finish, Close,
       BackendPrints, BackendSucceeds, BackendFails
  <2>2. QED
    BY <1>3, <1>4, <2>1
<1>7. QED
  <2>1. CASE \E k \in Jobs : Process(k) \/ RealBackend(k)
    BY <1>2, <1>6, <2>1, ProcessSpectator
  <2>2. CASE Environment
    BY <1>2, <1>3, <2>2, EnvironmentSpectator
  <2>3. QED
    BY <1>5, <2>1, <2>2 DEF Next

(* Without a transaction, neither side of the ledger moves. *)
LEMMA LedgerQuiet ==
  ASSUME TypeOK, DeviceMutex, MeterInvs, LedgerBalanced, [Next]_vars, \A k \in Jobs : ~Close(k)
  PROVE  LedgerBalanced'
<1>1. \A j \in Jobs : rows'[j] = rows[j]
  BY RowByClose
<1>2. Prices' = Prices /\ Sizes' = Sizes
  BY <1>1 DEF Prices, Sizes
<1>3. balance' = balance
  BY DEF Next, Process, RealBackend, Environment, WaitForLock, Retrieve, Decide, Begin,
     SendOrRemove, Retry, Finish, EndBanner, Clean, BackendPrints, BackendSucceeds, BackendFails,
     Abort, OrphanPrints, OrphanEnds, GraceEnds, AllDone, vars, dbVars
<1>4. ASSUME NEW u \in Users
      PROVE  BalanceKept(u)'
  <2>1. JobsOf(u)' = JobsOf(u)
    BY DEF JobsOf, User
  <2>2. BalanceKept(u)
    BY LedgerParts
  <2>3. QED
    BY <1>2, <1>3, <2>1, <2>2 DEF BalanceKept
<1>5. ASSUME NEW u \in Users, NEW p \in Printers
      PROVE  PagesKept(u, p)'
  <2>1. ASSUME NEW j \in Jobs
        PROVE  j \in JobsOn(u, p)' <=> j \in JobsOn(u, p)
    <3>1. CASE rows[j] = NoRow
      BY <1>1, <3>1 DEF JobsOn, NoRow
    <3>2. CASE rows[j] # NoRow
      BY <1>1, <3>2, ClosedStays DEF JobsOn, SameJob, NoRow, User
    <3>3. QED
      BY <3>1, <3>2
  <2>2. JobsOn(u, p)' = JobsOn(u, p)
    BY <2>1 DEF JobsOn
  <2>3. PagesKept(u, p) /\ PagesSame(u, p)
    BY LedgerParts, PagesQuiet
  <2>4. QED
    BY <1>2, <2>2, <2>3 DEF PagesKept, PagesSame
<1>6. QED
  BY <1>4, <1>5 DEF LedgerBalanced, BalanceKept, PagesKept, Prices, Sizes, JobsOf, JobsOn

(* The row a transaction writes. *)
LEMMA RowAfterClose ==
  ASSUME TypeOK, MeterInvs, NEW k \in Jobs, Close(k)
  PROVE  /\ rows[k] = NoRow /\ rows'[k] # NoRow
         /\ rows'[k].price = RowPrice(k) /\ rows'[k].size = JobSize(k)
         /\ mem'[k].entries = mem[k].entries
         /\ Counted(k)' <=> Counted(k)
         /\ \A j \in Jobs : j # k => SameJob(j)
<1>1. rows[k] = NoRow
  BY DEF Close, GoTo, MeterInvs, MeterInv
<1>2. rows'[k] = [action |-> FinalAction(k), size |-> JobSize(k), price |-> RowPrice(k)]
  BY DEF Close, TypeOK
<1>3. FinalAction(k) \in Actions
  BY DEF FinalAction, TypeOK, Actions
<1>4. rows'[k] # NoRow
  BY <1>2, <1>3 DEF NoRow, Actions
<1>5. action'[k] = FinalAction(k) /\ retcode' = retcode /\ conf' = conf
  BY DEF Close, TypeOK
<1>6. Counted(k)' <=> Counted(k)
  BY <1>5, CountedSame DEF FinalAction
<1>7. mem'[k].entries = mem[k].entries
  BY DEF Close, TypeOK, MemoryType
<1>8. ASSUME NEW j \in Jobs, j # k
      PROVE  SameJob(j)
  <2>1. rows'[j] = rows[j] /\ mem'[j] = mem[j] /\ action'[j] = action[j]
    BY <1>8 DEF Close, TypeOK
  <2>2. QED
    BY <1>5, <2>1, CountedSame DEF SameJob, FinalAction
<1>9. QED
  BY <1>1, <1>2, <1>4, <1>6, <1>7, <1>8

LEMMA LedgerClose ==
  ASSUME TypeOK, TypeOK', MeterInvs, LedgerBalanced, NEW k \in Jobs, Close(k)
  PROVE  LedgerBalanced'
<1>1. /\ rows[k] = NoRow /\ rows'[k] # NoRow
      /\ rows'[k].price = RowPrice(k) /\ rows'[k].size = JobSize(k)
      /\ mem'[k].entries = mem[k].entries
      /\ Counted(k)' <=> Counted(k)
      /\ \A j \in Jobs : j # k => SameJob(j)
  BY RowAfterClose
<1>2. \A j \in Jobs : /\ Prices[j] \in Int /\ Prices'[j] \in Int
                      /\ Sizes[j] \in Int /\ Sizes'[j] \in Int
                      /\ j # k => Prices'[j] = Prices[j] /\ Sizes'[j] = Sizes[j]
  BY <1>1 DEF Prices, Sizes, SameJob, TypeOK, RowType
<1>3. Prices[k] = 0 /\ Prices'[k] = RowPrice(k) /\ Sizes'[k] = JobSize(k)
  BY <1>1 DEF Prices, Sizes, NoRow
<1>4. ASSUME NEW u \in Users
      PROVE  BalanceKept(u)'
  <2>1. JobsOf(u)' = JobsOf(u) /\ JobsOf(u) \subseteq Jobs /\ (k \in JobsOf(u) <=> User(k) = u)
    BY DEF JobsOf, User
  <2>2. BalanceKept(u) /\ IsFiniteSet(JobsOf(u))
    BY LedgerParts, LedgerTypes
  <2>3. balance'[u] = IF u = User(k) THEN balance[u] - RowPrice(k) ELSE balance[u]
    BY TicketFacts DEF Close, ChargedBalance, TypeOK
  <2> DEFINE sum == SumFunctionOnSet(Prices, JobsOf(u))
             new == SumFunctionOnSet(Prices', JobsOf(u))
  <2>4. CASE User(k) = u
    <3>1. new = (sum - Prices[k]) + Prices'[k]
      BY <1>2, <2>1, <2>2, <2>4, SumChanges
    <3>2. sum \in Int /\ InitialBalance[u] \in Int /\ RowPrice(k) \in Int
      BY <1>2, <2>1, <2>2, SumType, RowPriceType, SettingsAssumption
    <3>3. balance[u] = InitialBalance[u] - sum
      BY <2>2 DEF BalanceKept
    <3>4. balance'[u] = balance[u] - RowPrice(k)
      BY <2>3, <2>4
    <3>5. balance'[u] = InitialBalance[u] - new
      <4> HIDE DEF sum, new
      <4>1. QED
        BY <1>3, <3>1, <3>2, <3>3, <3>4
    <3>6. QED
      BY <2>1, <3>5 DEF BalanceKept
  <2>5. CASE User(k) # u
    <3>1. sum = new
      BY <1>2, <2>1, <2>2, <2>5, SumAgrees
    <3>2. QED
      BY <2>1, <2>2, <2>3, <2>5, <3>1 DEF BalanceKept
  <2>6. QED
    BY <2>4, <2>5
<1>5. ASSUME NEW u \in Users, NEW p \in Printers
      PROVE  PagesKept(u, p)'
  <2> DEFINE J == JobsOn(u, p)
             sum == SumFunctionOnSet(Sizes, J)
             charged == User(k) = u /\ p \in mem[k].entries /\ Counted(k)
  <2>1. J \subseteq Jobs /\ k \notin J /\ IsFiniteSet(J) /\ upq[u][p].pages = sum
    BY <1>1, LedgerParts, LedgerTypes DEF JobsOn, PagesKept
  <2>2. ASSUME NEW j \in Jobs, j # k
        PROVE  j \in J' <=> j \in J
    BY <1>1, <2>2 DEF JobsOn, SameJob, NoRow, User
  <2>3. k \in J' <=> charged
    BY <1>1 DEF JobsOn, NoRow, User
  <2>4. J' \subseteq Jobs
    BY DEF JobsOn
  <2>5. SumFunctionOnSet(Sizes', J) = sum
    BY <1>2, <2>1, SumAgrees
  <2>6. CASE charged
    <3>1. J' = J \cup {k} /\ J' \ {k} = J
      BY <2>1, <2>2, <2>3, <2>4, <2>6
    <3>2. IsFiniteSet(J')
      BY <2>4, TopologyAssumption, FS_Subset
    <3>3. SumFunctionOnSet(Sizes', J') = Sizes'[k] + SumFunctionOnSet(Sizes', J' \ {k})
      BY <1>2, <2>3, <2>4, <2>6, <3>2, SumTakesAny
    <3>4. upq'[u][p].pages = upq[u][p].pages + JobSize(k)
      BY <2>6, PagesAfterClose
    <3>5. sum \in Int /\ JobSize(k) \in Int
      BY <1>2, <2>1, SumType, SizeType
    <3>6. sum + JobSize(k) = JobSize(k) + sum
      <4> HIDE DEF sum
      <4>1. QED
        BY <3>5
    <3>7. QED
      BY <1>3, <2>1, <2>5, <3>1, <3>3, <3>4, <3>6 DEF PagesKept
  <2>7. CASE ~charged
    <3>1. J' = J
      BY <2>1, <2>2, <2>3, <2>4, <2>7
    <3>2. upq'[u][p].pages = upq[u][p].pages
      BY <2>7, PagesAfterClose
    <3>3. QED
      BY <2>1, <2>5, <3>1, <3>2 DEF PagesKept
  <2>8. QED
    BY <2>6, <2>7
<1>6. QED
  BY <1>4, <1>5 DEF LedgerBalanced, BalanceKept, PagesKept, Prices, Sizes, JobsOf, JobsOn

LEMMA LedgerStep == TypeOK /\ TypeOK' /\ DeviceMutex /\ MeterInvs /\ LedgerBalanced /\ [Next]_vars
                      => LedgerBalanced'
BY LedgerQuiet, LedgerClose

(* However many jobs end at the same time on however many devices, die or  *)
(* are refused, the balance of every user is what it was minus the prices  *)
(* in his history, and the pages of every quota entry are those of the     *)
(* jobs that count on it.                                                  *)
THEOREM LedgerIsBalanced == Spec => []LedgerBalanced
BY TypeInit, TypeStep, LockHeldInit, LockHeldStep, MutexFromLock, MeterInit, MeterStep,
   LedgerInit, LedgerStep, PTL DEF Spec

=============================================================================
