-------------------------- MODULE PageCounter_proofs ---------------------------
(***************************************************************************)
(* Proofs about PageCounter: types, what the readings of the counter are   *)
(* worth, and that sizes are exact.                                        *)
(***************************************************************************)
EXTENDS PageCounter, TLAPS

-----------------------------------------------------------------------------
(* Types.                                                                  *)

HandlerType ==
  [counter : Nat \cup {None}, status : {"none", "idle", "printing", "other"},
   errors : {None, {}, {"Jammed"}}, idle : Nat, first : Nat \cup {None}, late : BOOLEAN]

PrinterType ==
  [counter : Nat, state : {"idle", "printing", "jammed"}, due : Seq(JobIds), quiet : 0 .. Gap]

FaultsType == [query : Nat, jam : Nat, power : Nat]

(* A new handler has the type of a handler. *)
LEMMA NewHandlerType == NewHandler \in HandlerType
  BY DEF NewHandler, HandlerType

(* What a printer answers. *)
LEMMA AnswersType ==
  ASSUME TypeOK, NEW a \in Answers
  PROVE  /\ a \in [status : {"idle", "printing", "other"}, errors : {{}, {"Jammed"}}, quiet : 0 .. Gap]
         /\ Heard(a) \in HandlerType
<1> USE PageCounterAssumption DEF TypeOK
<1>1. a \in [status : {"idle", "printing", "other"}, errors : {{}, {"Jammed"}}, quiet : 0 .. Gap]
  BY DEF Answers, Reply
<1>2. Larger(handler.counter, printer.counter) \in Nat
  BY DEF Larger
<1>3. Heard(a) \in HandlerType
  BY <1>1, <1>2 DEF Heard, HandlerType
<1> QED
  BY <1>1, <1>3

(* A query leaves the printer and the handler well formed. *)
LEMMA QueryType ==
  ASSUME TypeOK, NEW h \in Queried, Query(h)
  PROVE  /\ h \in HandlerType
         /\ printer' \in PrinterType /\ faults' \in FaultsType
         /\ printer'.counter = printer.counter /\ printer'.state = printer.state /\ printer'.due = printer.due
<1> USE PageCounterAssumption
<1>1. h \in HandlerType
  <2>1. handler \in HandlerType
    BY DEF TypeOK, HandlerType
  <2>2. Unheard \in HandlerType
    BY <2>1 DEF Unheard, InitValues, NewHandler, HandlerType
  <2> QED
    BY <2>2, AnswersType DEF Queried
<1>2. ASSUME NEW a \in Answers, printer' = [printer EXCEPT !.quiet = a.quiet], UNCHANGED faults
      PROVE  /\ printer' \in PrinterType /\ faults' \in FaultsType
             /\ printer'.counter = printer.counter /\ printer'.state = printer.state
             /\ printer'.due = printer.due
  <2>1. a.quiet \in 0 .. Gap
    BY AnswersType
  <2> QED
    BY <1>2, <2>1 DEF TypeOK, PrinterType, FaultsType
<1>3. ASSUME faults' = [faults EXCEPT !.query = @ + 1], UNCHANGED printer
      PROVE  printer' \in PrinterType /\ faults' \in FaultsType
  <2>1. printer \in PrinterType /\ faults \in FaultsType
    BY DEF TypeOK, PrinterType, FaultsType
  <2> QED
    BY <1>3, <2>1 DEF FaultsType
<1>4. CASE \E a \in Answers : printer' = [printer EXCEPT !.quiet = a.quiet] /\ UNCHANGED faults
  BY <1>1, <1>2, <1>4
<1>5. CASE faults' = [faults EXCEPT !.query = @ + 1] /\ UNCHANGED printer
  BY <1>1, <1>3, <1>5
<1> QED
  BY <1>4, <1>5 DEF Query

(* The size that is charged is a number, whatever readings there are. *)
LEMMA JobSizeType ==
  ASSUME NEW b \in Nat \cup {None}, NEW a \in Nat \cup {None}, NEW l \in Nat \cup {None}
  PROVE  JobSize(b, a, l) \in Nat
<1> USE PageCounterAssumption
<1>1. CASE Missing(b) \/ Missing(a)
  <2>1. CASE l = None
    BY <1>1, <2>1 DEF JobSize
  <2>2. CASE l # None
    <3>1. JobSize(b, a, l) = SizeFromHistory(b, a, l)
      BY <1>1, <2>2 DEF JobSize
    <3> QED
      BY <2>2, <3>1 DEF SizeFromHistory, Missing, Value
  <2> QED
    BY <2>1, <2>2
<1>2. CASE ~Missing(b) /\ ~Missing(a)
  BY <1>2 DEF JobSize, Difference, Missing
<1> QED
  BY <1>1, <1>2

-----------------------------------------------------------------------------
(* The printer's steps.                                                    *)

(* The printer's own steps keep the types. *)
LEMMA PrinterKeepsTypes ==
  ASSUME TypeOK, PrinterNext
  PROVE  TypeOK'
<1> SUFFICES ASSUME Unmoved
             PROVE  printer' \in PrinterType /\ printed' \in [JobIds -> Nat] /\ faults' \in FaultsType
  BY DEF PrinterNext, StartPrinting, PrintSheet, StopPrinting, Jam, Repair, PowerCycle, Unmoved,
         TypeOK, PrinterType, FaultsType
<1>t. /\ printer \in PrinterType /\ printed \in [JobIds -> Nat] /\ faults \in FaultsType /\ Gap \in Nat
  BY PageCounterAssumption DEF TypeOK, PrinterType, FaultsType
<1>1. CASE StartPrinting
  <2>1. printer' = [counter |-> printer.counter, state |-> "printing", due |-> printer.due, quiet |-> 0]
    BY <1>1, <1>t DEF StartPrinting, PrinterType
  <2> QED
    BY <1>1, <1>t, <2>1 DEF StartPrinting, PrinterType
<1>2. CASE PrintSheet
  <2>1. /\ Head(printer.due) \in JobIds /\ Tail(printer.due) \in Seq(JobIds)
    BY <1>2, <1>t DEF PrintSheet, PrinterType
  <2>2. printer' = [counter |-> printer.counter + 1, state |-> printer.state,
                    due |-> Tail(printer.due), quiet |-> printer.quiet]
    BY <1>2, <1>t DEF PrintSheet, PrinterType
  <2>3. printer' \in PrinterType
    BY <1>t, <2>1, <2>2 DEF PrinterType
  <2> QED
    BY <1>2, <1>t, <2>1, <2>3 DEF PrintSheet
<1>3. CASE StopPrinting
  BY <1>3, <1>t DEF StopPrinting, PrinterType
<1>4. CASE Jam
  BY <1>4, <1>t DEF Jam, PrinterType, FaultsType
<1>5. CASE Repair
  BY <1>5, <1>t DEF Repair, PrinterType
<1>6. CASE PowerCycle
  <2>1. (printer.counter \div 10) * 10 \in Nat
    BY <1>t DEF PrinterType
  <2>2. printer' = [counter |-> (printer.counter \div 10) * 10, state |-> "idle", due |-> <<>>, quiet |-> 0]
    BY <1>6, <1>t DEF PowerCycle, PrinterType
  <2>3. printer' \in PrinterType
    BY <1>t, <2>1, <2>2 DEF PrinterType
  <2> QED
    BY <1>6, <1>t, <2>3 DEF PowerCycle, FaultsType
<1> QED
  BY <1>1, <1>2, <1>3, <1>4, <1>5, <1>6 DEF PrinterNext
-----------------------------------------------------------------------------
(* The accounter's steps.                                                  *)

(* What a reading may be, and the handler. *)
LEMMA Readings ==
  ASSUME TypeOK
  PROVE  /\ handler \in HandlerType /\ printer \in PrinterType /\ faults \in FaultsType
         /\ printer.counter \in Nat /\ handler.counter \in Nat \cup {None}
  BY DEF TypeOK, HandlerType, PrinterType, FaultsType

(* A failure that is counted keeps the type of the counts. *)
LEMMA OneMoreFailure ==
  ASSUME TypeOK, faults' = [faults EXCEPT !.query = @ + 1]
  PROVE  faults' \in FaultsType /\ faults'.query # 0
<1>1. faults \in FaultsType
  BY Readings
<1>2. faults'.query = faults.query + 1 /\ faults.query \in Nat
  BY <1>1 DEF FaultsType
<1> QED
  BY <1>1, <1>2 DEF FaultsType

(* The accounter's steps keep the types. *)
LEMMA AccounterKeepsTypes ==
  ASSUME TypeOK, AccounterNext
  PROVE  TypeOK'
<1>1. CASE BeginJob
  BY <1>1, NewHandlerType DEF BeginJob, Ask, HandlerType, TypeOK, Stages
<1>2. CASE Send
  <2>1. asked[job] \in Requests /\ asked[job].sheets \in Nat
    BY PageCounterAssumption DEF TypeOK
  <2>2. [i \in 1 .. asked[job].sheets |-> job] \in Seq(JobIds)
    <3>1. job \in JobIds
      BY DEF TypeOK
    <3> QED
      BY <2>1, <3>1
  <2>3. printer.due \o [i \in 1 .. asked[job].sheets |-> job] \in Seq(JobIds)
    BY <2>2 DEF TypeOK
  <2>4. printer' \in PrinterType
    BY <1>2, <2>3 DEF Send, TypeOK, PrinterType
  <2> QED
    BY <1>2, <2>4, NewHandlerType DEF Send, Ask, HandlerType, PrinterType, TypeOK, Stages
<1>3. CASE WaitPrinting
  <2>1. PICK h \in Queried :
          /\ Query(h)
          /\ handler' \in {[h EXCEPT !.idle = 0],
                           [h EXCEPT !.first = IF @ = None THEN h.counter ELSE @]}
          /\ pc' \in {pc, "idle after"}
    BY <1>3 DEF WaitPrinting, Restart
  <2>2. handler' \in HandlerType
    <3>1. h \in HandlerType
      BY <2>1, QueryType
    <3>2. [h EXCEPT !.idle = 0] \in HandlerType
      BY <3>1 DEF HandlerType
    <3>3. [h EXCEPT !.first = IF @ = None THEN h.counter ELSE @] \in HandlerType
      BY <3>1 DEF HandlerType
    <3> QED
      BY <2>1, <3>2, <3>3
  <2>3. printer' \in PrinterType /\ faults' \in FaultsType
    BY <2>1, QueryType
  <2> QED
    BY <1>3, <2>1, <2>2, <2>3 DEF WaitPrinting, HandlerType, PrinterType, FaultsType, TypeOK, Stages
<1>4. CASE WaitIdle
  <2>1. PICK h \in Queried :
          /\ Query(h)
          /\ Restart(h, IF Idle(h) /\ ~Settled(h) THEN h.idle + 1 ELSE 0)
          /\ IF Settled(h) THEN Return(h.counter) ELSE UNCHANGED <<pc, before, after>>
    BY <1>4 DEF WaitIdle
  <2>2. h \in HandlerType /\ printer' \in PrinterType /\ faults' \in FaultsType
    BY <2>1, QueryType
  <2>3. handler' \in HandlerType
    BY <2>1, <2>2 DEF Restart, HandlerType
  <2>4. pc' \in Stages /\ before' \in Nat \cup {None} /\ after' \in Nat \cup {None}
    BY <2>1, <2>2 DEF Return, HandlerType, TypeOK, Stages
  <2> QED
    BY <1>4, <2>2, <2>3, <2>4 DEF WaitIdle, HandlerType, PrinterType, FaultsType, TypeOK
<1>5. CASE DelayElapses
  <2>1. handler' \in HandlerType
    BY <1>5, Readings DEF DelayElapses, HandlerType
  <2> QED
    BY <1>5, <2>1 DEF DelayElapses, HandlerType, TypeOK
<1>6. CASE AnswerLost
  <2>1. faults' \in FaultsType
    BY <1>6, OneMoreFailure DEF AnswerLost
  <2> QED
    BY <1>6, <2>1 DEF AnswerLost, FaultsType, TypeOK, Stages
<1>7. CASE CommandAnswers
  BY <1>7, Readings DEF CommandAnswers, Return, TypeOK, Stages
<1>8. CASE CommandFails
  <2>1. faults' \in FaultsType
    BY <1>8, OneMoreFailure DEF CommandFails
  <2> QED
    BY <1>8, <2>1 DEF CommandFails, FaultsType, TypeOK, Stages
<1>9. CASE Account
  <2>1. JobSize(before, after, last) \in Nat
    BY JobSizeType DEF TypeOK
  <2>2. size' \in [JobIds -> Nat \cup {None}]
    BY <1>9, <2>1 DEF Account, TypeOK
  <2>3. charged' \in Nat
    BY <1>9, <2>1 DEF Account, TypeOK
  <2>4. last' \in Nat \cup {None}
    BY <1>9 DEF Account, Value, TypeOK
  <2> QED
    BY <1>9, <2>2, <2>3, <2>4 DEF Account, TypeOK, Stages
<1>10. CASE NextJob
  <2>1. job + 1 \in JobIds
    BY <1>10, PageCounterAssumption DEF NextJob, TypeOK, JobIds
  <2> QED
    BY <1>10, <2>1, NewHandlerType DEF NextJob, HandlerType, TypeOK, Stages
<1> QED
  BY <1>1, <1>2, <1>3, <1>4, <1>5, <1>6, <1>7, <1>8, <1>9, <1>10 DEF AccounterNext

(* Whatever the printer does and answers, the state is well formed.        *)
THEOREM TypeCorrect == Spec => []TypeOK
<1>1. Init => TypeOK
  <2> SUFFICES ASSUME Init
               PROVE  TypeOK
    OBVIOUS
  <2>1. conf.counter \in Nat /\ conf.previous \in Nat \cup {None}
    BY PageCounterAssumption DEF Init, ConfType
  <2> QED
    BY <2>1, NewHandlerType, PageCounterAssumption
    DEF Init, TypeOK, JobIds, HandlerType, NoFaults, Stages
<1>2. TypeOK /\ [Next]_vars => TypeOK'
  <2> SUFFICES ASSUME TypeOK, [Next]_vars
               PROVE  TypeOK'
    OBVIOUS
  <2>1. CASE UNCHANGED vars
    BY <2>1 DEF vars, TypeOK
  <2> QED
    BY <2>1, PrinterKeepsTypes, AccounterKeepsTypes DEF Next
<1> QED
  BY <1>1, <1>2, PTL DEF Spec
-----------------------------------------------------------------------------
(* No sheet is charged twice: the readings of a job come in order, after   *)
(* what was charged before it, and never exceed the printer's counter.     *)

Low == conf.counter + charged

BeforeJob == {"idle before", "command before"}
AfterJob  == {"wait printing", "idle after", "command after"}
SinceJob  == AfterJob \cup {"send", "size"}

ReadingsInOrder ==
  faults.power = 0 =>
    /\ Low <= printer.counter
    /\ pc \in BeforeJob /\ handler.counter # None =>
         Low <= handler.counter /\ handler.counter <= printer.counter
    /\ pc \in SinceJob /\ before # None => Low <= before /\ before <= printer.counter
    /\ pc \in AfterJob /\ handler.counter # None =>
         handler.counter <= printer.counter /\ (before # None => before <= handler.counter)
    /\ pc = "size" /\ after # None =>
         after <= printer.counter /\ (before # None => before <= after)

(* What arithmetic needs to know of a state: its counters are numbers. *)
LEMMA NumbersOfState ==
  ASSUME TypeOK
  PROVE  /\ conf.counter \in Nat /\ charged \in Nat /\ Low \in Nat /\ printer.counter \in Nat
         /\ handler.counter \in Nat \cup {None} /\ before \in Nat \cup {None}
         /\ after \in Nat \cup {None} /\ faults.power \in Nat /\ None \notin Nat
<1>1. conf.counter \in Nat
  BY PageCounterAssumption DEF TypeOK, ConfType
<1> QED
  BY <1>1, PageCounterAssumption DEF TypeOK, Low

(* What a handler holds after a query. *)
LEMMA QueriedCounter ==
  ASSUME TypeOK, NEW h \in Queried, Query(h)
  PROVE  /\ h.counter = None \/ h.counter = handler.counter \/ h.counter = Larger(handler.counter, printer.counter)
         /\ faults'.power = faults.power
<1>1. h.counter = None \/ h.counter = handler.counter \/ h.counter = Larger(handler.counter, printer.counter)
  BY Readings DEF Queried, Heard, Unheard, InitValues, NewHandler, HandlerType
<1>2. faults'.power = faults.power
  <2>1. faults \in FaultsType
    BY Readings
  <2>2. ASSUME faults' = [faults EXCEPT !.query = @ + 1]
        PROVE  faults'.power = faults.power
    BY <2>1, <2>2 DEF FaultsType
  <2> QED
    BY <2>2 DEF Query
<1> QED
  BY <1>1, <1>2

(* While the backend waits for the printer a counter goes no further.      *)
LEMMA QueryKeepsOrder ==
  ASSUME TypeOK, ReadingsInOrder, NEW h \in Queried, Query(h), faults.power = 0,
         pc \in BeforeJob \cup AfterJob
  PROVE  /\ printer'.counter = printer.counter
         /\ h.counter \in Nat \cup {None}
         /\ h.counter # None =>
              /\ h.counter <= printer.counter
              /\ pc \in BeforeJob => Low <= h.counter
              /\ pc \in AfterJob /\ before # None => before <= h.counter
<1>1. h \in HandlerType /\ printer'.counter = printer.counter
  BY QueryType
<1>2. h.counter = None \/ h.counter = handler.counter \/ h.counter = Larger(handler.counter, printer.counter)
  BY QueriedCounter
<1>3. h.counter \in Nat \cup {None}
  BY <1>1 DEF HandlerType
<1>4. pc \in AfterJob => pc \in SinceJob
  BY DEF SinceJob
<1>5. CASE h.counter = handler.counter
  BY <1>1, <1>3, <1>4, <1>5 DEF ReadingsInOrder
<1>6. CASE h.counter = Larger(handler.counter, printer.counter)
  <2>1. h.counter = printer.counter \/ (handler.counter # None /\ h.counter = handler.counter)
    BY <1>6 DEF Larger
  <2>2. CASE h.counter = printer.counter
    BY <1>1, <1>3, <1>4, <2>2, NumbersOfState DEF ReadingsInOrder
  <2> QED
    BY <1>1, <1>5, <2>1, <2>2
<1> QED
  BY <1>1, <1>2, <1>3, <1>5, <1>6

(* The printer's own steps keep the readings in order. *)
LEMMA PrinterKeepsOrder ==
  ASSUME TypeOK, ReadingsInOrder, PrinterNext
  PROVE  ReadingsInOrder'
<1>1. faults'.power = 0 => faults.power = 0 /\ printer'.counter \in Nat /\ printer.counter <= printer'.counter
  <2>1. CASE PowerCycle
    <3>1. faults'.power = faults.power + 1
      BY <2>1, Readings DEF PowerCycle, FaultsType
    <3> QED
      BY <3>1, NumbersOfState
  <2>2. CASE Jam
    <3>1. faults'.power = faults.power /\ printer'.counter = printer.counter
      BY <2>2, Readings DEF Jam, FaultsType, PrinterType
    <3> QED
      BY <3>1, NumbersOfState
  <2>3. CASE StartPrinting \/ StopPrinting \/ Repair
    <3>1. faults' = faults /\ printer'.counter = printer.counter
      BY <2>3, Readings DEF StartPrinting, StopPrinting, Repair, PrinterType
    <3> QED
      BY <3>1, NumbersOfState
  <2>4. CASE PrintSheet
    <3>1. faults' = faults /\ printer'.counter = printer.counter + 1
      BY <2>4, Readings DEF PrintSheet, PrinterType
    <3> QED
      BY <3>1, NumbersOfState
  <2> QED
    BY <2>1, <2>2, <2>3, <2>4 DEF PrinterNext
<1>2. Unmoved
  BY DEF PrinterNext, StartPrinting, PrintSheet, StopPrinting, Jam, Repair, PowerCycle
<1>3. Low' = Low
  BY <1>2 DEF Unmoved, Low
<1> QED
  BY <1>1, <1>2, <1>3, NumbersOfState DEF Unmoved, ReadingsInOrder

(* The accounter's steps keep the readings in order. *)
LEMMA AccounterKeepsOrder ==
  ASSUME TypeOK, ReadingsInOrder, AccounterNext
  PROVE  ReadingsInOrder'
<1> SUFFICES ASSUME faults'.power = 0
             PROVE  ReadingsInOrder'
  BY DEF ReadingsInOrder
<1>n. /\ conf.counter \in Nat /\ charged \in Nat /\ Low \in Nat /\ printer.counter \in Nat
      /\ handler.counter \in Nat \cup {None} /\ before \in Nat \cup {None}
      /\ after \in Nat \cup {None} /\ faults.power \in Nat /\ None \notin Nat
  BY NumbersOfState
<1>0. NewHandler.counter = None
  BY DEF NewHandler
<1>1. CASE BeginJob
  <2>1. faults.power = 0 /\ Low' = Low /\ handler'.counter = None /\ pc' \in BeforeJob
    BY <1>0, <1>1 DEF BeginJob, Ask, Low, BeforeJob
  <2> QED
    BY <1>1, <1>n, <2>1 DEF BeginJob, ReadingsInOrder, BeforeJob, AfterJob, SinceJob
<1>2. CASE Send
  <2>1. faults.power = 0 /\ Low' = Low /\ handler'.counter = None /\ pc' \in AfterJob /\ pc \in SinceJob
    BY <1>0, <1>2 DEF Send, Ask, Low, AfterJob, SinceJob
  <2>2. printer'.counter = printer.counter
    BY <1>2, Readings DEF Send, PrinterType
  <2> QED
    BY <1>2, <1>n, <2>1, <2>2 DEF Send, ReadingsInOrder, BeforeJob, AfterJob, SinceJob
<1>3. CASE WaitPrinting
  <2>1. PICK h \in Queried :
          /\ Query(h)
          /\ handler' \in {[h EXCEPT !.idle = 0],
                           [h EXCEPT !.first = IF @ = None THEN h.counter ELSE @]}
          /\ pc' \in AfterJob
    BY <1>3 DEF WaitPrinting, Restart, AfterJob
  <2>2. pc \in AfterJob /\ pc \notin BeforeJob /\ faults.power = 0
    BY <1>3, <2>1, QueriedCounter DEF WaitPrinting, AfterJob, BeforeJob
  <2>3. handler'.counter = h.counter
    BY <2>1, QueryType DEF HandlerType
  <2>4. Low' = Low /\ before' = before /\ pc' \notin BeforeJob /\ pc' # "size" /\ pc \in SinceJob
    BY <1>3, <2>1, <2>2 DEF WaitPrinting, Low, AfterJob, BeforeJob, SinceJob
  <2> QED
    BY <1>n, <2>1, <2>2, <2>3, <2>4, QueryKeepsOrder DEF ReadingsInOrder
<1>4. CASE WaitIdle
  <2>1. PICK h \in Queried :
          /\ Query(h)
          /\ Restart(h, IF Idle(h) /\ ~Settled(h) THEN h.idle + 1 ELSE 0)
          /\ IF Settled(h) THEN Return(h.counter) ELSE UNCHANGED <<pc, before, after>>
    BY <1>4 DEF WaitIdle
  <2>2. pc \in BeforeJob \cup AfterJob /\ faults.power = 0 /\ Low' = Low
    BY <1>4, <2>1, QueriedCounter DEF WaitIdle, AfterJob, BeforeJob, Low
  <2>3. handler'.counter = h.counter
    BY <2>1, QueryType DEF Restart, HandlerType
  <2>4. printer'.counter = printer.counter /\ h.counter \in Nat \cup {None}
    BY <2>1, <2>2, QueryKeepsOrder
  <2>5. CASE ~Settled(h)
    BY <1>n, <2>1, <2>2, <2>3, <2>4, <2>5, QueryKeepsOrder DEF ReadingsInOrder, AfterJob, BeforeJob, SinceJob
  <2>6. CASE Settled(h) /\ pc = "idle before"
    <3>1. pc' = "send" /\ before' = h.counter
      BY <2>1, <2>6 DEF Return
    <3> QED
      BY <1>n, <2>1, <2>2, <2>4, <2>6, <3>1, QueryKeepsOrder DEF ReadingsInOrder, AfterJob, BeforeJob, SinceJob
  <2>7. CASE Settled(h) /\ pc = "idle after"
    <3>1. pc' = "size" /\ after' = h.counter /\ before' = before
      BY <2>1, <2>7 DEF Return
    <3> QED
      BY <1>n, <2>1, <2>2, <2>4, <2>7, <3>1, QueryKeepsOrder DEF ReadingsInOrder, AfterJob, BeforeJob, SinceJob
  <2> QED
    BY <1>4, <2>5, <2>6, <2>7 DEF WaitIdle
<1>5. CASE DelayElapses
  <2>1. handler'.counter = handler.counter /\ Low' = Low
    BY <1>5, Readings DEF DelayElapses, HandlerType, Low
  <2> QED
    BY <1>5, <1>n, <2>1 DEF DelayElapses, ReadingsInOrder
<1>6. CASE AnswerLost \/ (CommandFails /\ pc' = "over")
  <2>1. faults'.power = faults.power /\ Low' = Low /\ pc' \in {"hung", "over"}
    BY <1>6, Readings DEF AnswerLost, CommandFails, FaultsType, Low
  <2> QED
    BY <1>6, <1>n, <2>1 DEF AnswerLost, CommandFails, ReadingsInOrder, BeforeJob, AfterJob, SinceJob
<1>7. CASE CommandAnswers
  <2>1. Low' = Low
    BY <1>7 DEF CommandAnswers, Low
  <2>2. CASE pc = "command before"
    <3>1. pc' = "send" /\ before' = printer.counter
      BY <1>7, <2>2 DEF CommandAnswers, Return
    <3>2. pc' \notin BeforeJob /\ pc' \notin AfterJob /\ pc' # "size" /\ printer' = printer /\ faults' = faults
      BY <1>7, <3>1 DEF CommandAnswers, BeforeJob, AfterJob
    <3> QED
      BY <1>n, <2>1, <3>1, <3>2 DEF ReadingsInOrder
  <2>3. CASE pc = "command after"
    <3>1. pc' = "size" /\ after' = printer.counter /\ before' = before
      BY <1>7, <2>3 DEF CommandAnswers, Return
    <3>2. pc' \notin BeforeJob /\ pc' \notin AfterJob /\ pc \in SinceJob /\ printer' = printer /\ faults' = faults
      BY <1>7, <2>3, <3>1 DEF CommandAnswers, BeforeJob, AfterJob, SinceJob
    <3> QED
      BY <1>n, <2>1, <3>1, <3>2 DEF ReadingsInOrder
  <2> QED
    BY <1>7, <2>2, <2>3 DEF CommandAnswers
<1>8. CASE CommandFails /\ pc' = pc
  <2>1. faults'.power = faults.power /\ Low' = Low
    BY <1>8, Readings DEF CommandFails, FaultsType, Low
  <2> QED
    BY <1>8, <1>n, <2>1 DEF CommandFails, ReadingsInOrder
<1>9. CASE Account
  <2>1. faults.power = 0 /\ pc = "size" /\ pc' = "over"
    BY <1>9 DEF Account
  <2>2. Low' <= printer.counter
    <3>1. CASE Missing(before) \/ Missing(after)
      <4>1. Low' = Low
        BY <1>9, <3>1 DEF Account, Low
      <4> QED
        BY <2>1, <4>1 DEF ReadingsInOrder
    <3>2. CASE ~Missing(before) /\ ~Missing(after)
      <4>1. before \in Nat /\ after \in Nat /\ Low <= before /\ before <= after /\ after <= printer.counter
        BY <1>n, <2>1, <3>2 DEF ReadingsInOrder, Missing, SinceJob
      <4>2. JobSize(before, after, last) = after - before
        BY <3>2, <4>1 DEF JobSize, Difference
      <4>3. conf' = conf /\ charged' = charged + (after - before)
        BY <1>9, <3>2, <4>2 DEF Account
      <4> QED
        BY <1>n, <4>1, <4>3 DEF Low
    <3> QED
      BY <3>1, <3>2
  <2> QED
    BY <1>9, <2>1, <2>2 DEF Account, ReadingsInOrder, BeforeJob, AfterJob, SinceJob
<1>10. CASE NextJob
  <2>1. Low' = Low /\ faults' = faults /\ printer' = printer /\ pc' = "start"
    BY <1>10 DEF NextJob, Low
  <2> QED
    BY <2>1 DEF ReadingsInOrder, BeforeJob, AfterJob, SinceJob
<1> QED
  BY <1>1, <1>2, <1>3, <1>4, <1>5, <1>6, <1>7, <1>8, <1>9, <1>10 DEF AccounterNext, CommandFails

(* The readings are in order in every state. *)
LEMMA ReadingsStayInOrder == Spec => []ReadingsInOrder
<1>1. Init => ReadingsInOrder
  <2> SUFFICES ASSUME Init
               PROVE  ReadingsInOrder
    OBVIOUS
  <2>1. conf.counter \in Nat
    BY PageCounterAssumption DEF Init, ConfType
  <2> QED
    BY <2>1 DEF Init, ReadingsInOrder, Low, BeforeJob, AfterJob, SinceJob
<1>2. TypeOK /\ ReadingsInOrder /\ [Next]_vars => ReadingsInOrder'
  <2> SUFFICES ASSUME TypeOK, ReadingsInOrder, [Next]_vars
               PROVE  ReadingsInOrder'
    OBVIOUS
  <2>1. CASE UNCHANGED vars
    BY <2>1 DEF vars, ReadingsInOrder, Low
  <2> QED
    BY <2>1, PrinterKeepsOrder, AccounterKeepsOrder DEF Next
<1> QED
  BY <1>1, <1>2, TypeCorrect, PTL DEF Spec

(* Whatever the printer says and whatever fails, no sheet is charged to    *)
(* two jobs by readings of a counter that never went back.                 *)
THEOREM ChargedOnce == Spec => []NoSheetChargedTwice
<1>1. TypeOK /\ ReadingsInOrder => NoSheetChargedTwice
  BY NumbersOfState DEF ReadingsInOrder, NoSheetChargedTwice, Low
<1> QED
  BY <1>1, ReadingsStayInOrder, TypeCorrect, PTL

-----------------------------------------------------------------------------
(* Sizes with a printer that can be trusted: exact, or ten pages off when   *)
(* it was switched off once.                                               *)

(* A printer that says what it does and begins in time, queries that are   *)
(* answered, jobs that are accepted; switched off once at most, and not    *)
(* before it counted ten pages.                                            *)
Reliable ==
  /\ ~conf.lies /\ ~conf.slow /\ conf.mask = {"Jammed"} /\ conf.counter > 0
  /\ faults.power = 0 \/ (faults.power = 1 /\ conf.counter >= 10)
  /\ conf.protocol = "PJL" => faults.query = 0
  /\ \A j \in JobIds : asked[j].action = "ALLOW"

(* The pages a switched off printer may have forgotten. *)
Slack == IF faults.power = 0 THEN 0 ELSE 9

(* The stages of each protocol. *)
ProtocolStages ==
  /\ pc \in {"command before", "command after"} => conf.protocol = "COMMAND"
  /\ pc \in {"idle before", "wait printing", "idle after"} => conf.protocol # "COMMAND"

(* A job whose data was not sent has printed nothing, and will not. *)
NotSent(j) == j > job \/ (j = job /\ pc \in BeforeJob \cup {"start", "send"})

SentFirst ==
  \A j \in JobIds : NotSent(j) => printed[j] = 0 /\ \A i \in DOMAIN printer.due : printer.due[i] # j

(* A job that prints has no size yet. *)
SizedLast ==
  /\ \A j \in JobIds : j > job \/ (j = job /\ pc # "over") => size[j] = None
  /\ \A i \in DOMAIN printer.due : size[printer.due[i]] = None

(* The printer has nothing to do when a counter was read, and between two  *)
(* jobs that waited for it.                                                *)
NothingDue ==
  pc \in {"send", "size"} \/ (conf.protocol # "COMMAND" /\ pc \in {"start", "idle before", "over"})
    => printer.due = <<>>

(* How far a reading is behind the sheets that came out since the first    *)
(* reading.                                                                *)
Behind(c) == (before + printed[job]) - c

(* What the printer counts since the first reading is what the job         *)
(* printed, but for what it forgot; the handler may remember it.           *)
Counted ==
  /\ printer.counter > 0 /\ (conf.counter >= 10 => printer.counter >= 10)
  /\ pc = "idle before" /\ handler.counter # None =>
       handler.counter - printer.counter \in 0 .. Slack
  /\ pc \in SinceJob =>
       /\ before \in Nat /\ before > 0 /\ Behind(printer.counter) \in 0 .. Slack
       /\ \A i \in DOMAIN printer.due : printer.due[i] = job
  /\ pc \in {"wait printing", "idle after"} /\ handler.counter # None =>
       handler.counter <= before + printed[job]
  /\ pc = "size" => after \in Nat /\ after > 0 /\ Behind(after) \in 0 .. Slack

(* A handler that heard of a status heard of the counter with it. *)
HeardBoth == handler.status # "none" => handler.counter # None

(* A printer that is waited for has begun, and was idle no more often than *)
(* the backend knows.                                                      *)
Begun ==
  pc \in {"wait printing", "idle after"} /\ printer.due # <<>> =>
    /\ pc = "idle after" \/ printed[job] > 0 \/ handler.late => printer.state # "idle"
    /\ pc = "idle after" => handler.idle <= printer.quiet

(* With sheets to come the printer was not switched off since they were    *)
(* sent, and the handler knows no larger counter than the printer.         *)
FirstRead ==
  pc = "wait printing" /\ printer.due # <<>> =>
    /\ handler.first # None => printer.counter - printed[job] <= handler.first
    /\ handler.counter # None => handler.counter <= printer.counter

AllNear ==
  \A j \in JobIds :
    size[j] # None => size[j] - printed[j] \in IF faults.power = 0 THEN {0} ELSE -9 .. 10

Tracking ==
  /\ ProtocolStages /\ SentFirst /\ SizedLast /\ NothingDue /\ Counted /\ HeardBoth
  /\ Begun /\ FirstRead /\ AllNear

(* The parts of the type invariant that the next lemmas use. *)
LEMMA TypesOfState ==
  ASSUME TypeOK
  PROVE  /\ Jobs \in Nat /\ JobIds = 1 .. Jobs /\ job \in JobIds /\ job \in Nat /\ None \notin Nat
         /\ printed \in [JobIds -> Nat] /\ size \in [JobIds -> Nat \cup {None}]
         /\ printer.due \in Seq(JobIds) /\ printer.quiet \in Nat /\ printer.counter \in Nat
         /\ handler.idle \in Nat /\ handler.first \in Nat \cup {None}
         /\ handler.counter \in Nat \cup {None} /\ printer.state \in {"idle", "printing", "jammed"}
         /\ before \in Nat \cup {None} /\ after \in Nat \cup {None}
         /\ pc \in Stages
<1>1. printer.quiet \in 0 .. Gap /\ Gap \in Nat
  BY PageCounterAssumption DEF TypeOK
<1> QED
  BY <1>1, PageCounterAssumption DEF TypeOK, JobIds

(* A difference of counters is no larger than the first of them. *)
LEMMA LessIsLess == \A m, n \in Nat : m - n <= m /\ m <= m
OBVIOUS

(* What the readings of a job in progress say. *)
LEMMA CountedFacts ==
  ASSUME Counted
  PROVE  /\ printer.counter > 0 /\ (conf.counter >= 10 => printer.counter >= 10)
         /\ pc \in SinceJob =>
              /\ before \in Nat /\ before > 0 /\ (before + printed[job]) - printer.counter \in 0 .. Slack
              /\ \A i \in DOMAIN printer.due : printer.due[i] = job
         /\ pc = "size" => after \in Nat /\ after > 0 /\ (before + printed[job]) - after \in 0 .. Slack
<1>1. /\ Behind(printer.counter) = (before + printed[job]) - printer.counter
      /\ Behind(after) = (before + printed[job]) - after
  BY DEF Behind
<1> QED
  BY <1>1 DEF Counted

(* A printer that is not reliable does not become so. *)
LEMMA ReliableSoFar ==
  ASSUME TypeOK, Next, Reliable'
  PROVE  /\ Reliable /\ conf' = conf /\ asked' = asked
         /\ (conf.protocol = "PJL" => faults'.query = 0)
         /\ PowerCycle => faults.power = 0 /\ faults'.power = 1 /\ conf.counter >= 10
         /\ ~PowerCycle => faults'.power = faults.power
<1>1. conf' = conf /\ asked' = asked
  BY DEF Next, PrinterNext, StartPrinting, PrintSheet, StopPrinting, Jam, Repair, PowerCycle, Unmoved,
         AccounterNext, BeginJob, Send, WaitPrinting, WaitIdle, DelayElapses, AnswerLost,
         CommandAnswers, CommandFails, Account, NextJob
<1>2. faults \in FaultsType
  BY Readings
<1>3. /\ PowerCycle => faults' = [faults EXCEPT !.power = @ + 1]
      /\ ~PowerCycle => \/ faults' = faults
                        \/ faults' = [faults EXCEPT !.jam = @ + 1]
                        \/ faults' = [faults EXCEPT !.query = @ + 1]
  BY DEF Next, PrinterNext, StartPrinting, PrintSheet, StopPrinting, Jam, Repair, PowerCycle,
         AccounterNext, BeginJob, Send, WaitPrinting, WaitIdle, Query, DelayElapses, AnswerLost,
         CommandAnswers, CommandFails, Account, NextJob
<1>4. /\ faults.power \in Nat /\ faults.query \in Nat
      /\ PowerCycle => faults'.power = faults.power + 1 /\ faults'.query = faults.query
      /\ ~PowerCycle => faults'.power = faults.power
      /\ faults'.query = 0 => faults.query = 0
  <2>1. CASE faults' = faults
    BY <1>2, <1>3, <2>1 DEF FaultsType
  <2>2. CASE faults' = [faults EXCEPT !.jam = @ + 1] /\ ~PowerCycle
    BY <1>2, <2>2 DEF FaultsType
  <2>3. CASE PowerCycle
    BY <1>2, <1>3, <2>3 DEF FaultsType
  <2>4. CASE faults' = [faults EXCEPT !.query = @ + 1] /\ ~PowerCycle
    BY <1>2, <2>4 DEF FaultsType
  <2> QED
    BY <1>3, <2>1, <2>2, <2>3, <2>4
<1>5. PowerCycle => faults.power = 0 /\ faults'.power = 1 /\ conf.counter >= 10
  BY <1>1, <1>4 DEF Reliable
<1>6. faults.power = 0 \/ (faults.power = 1 /\ conf.counter >= 10)
  BY <1>1, <1>4, <1>5 DEF Reliable
<1> QED
  BY <1>1, <1>4, <1>5, <1>6 DEF Reliable

(* What arithmetic needs to know of the slack. *)
LEMMA SlackFacts ==
  /\ Slack \in {0, 9} /\ (faults.power = 0 <=> Slack = 0)
  /\ faults'.power = faults.power => Slack' = Slack
  BY DEF Slack

(* Sizes stay as good as they were. *)
LEMMA SizesStayNear ==
  ASSUME TypeOK, AllNear, UNCHANGED size, faults'.power = faults.power,
         \A j \in JobIds : size[j] # None => printed'[j] = printed[j]
  PROVE  AllNear'
  BY DEF AllNear

(* A step of the printer that prints nothing. *)
LEMMA OtherPrinterSteps ==
  ASSUME TypeOK, Reliable, Tracking,
         StartPrinting \/ StopPrinting \/ Jam \/ Repair
  PROVE  Tracking'
<1>t. printer \in PrinterType
  BY Readings
<1>1. /\ printer'.due = printer.due /\ printer'.counter = printer.counter
      /\ printer.due # <<>> /\ printer.state # "idle" => printer'.state # "idle" /\ printer'.quiet = printer.quiet
  <2>1. CASE StartPrinting
    BY <1>t, <2>1 DEF StartPrinting, PrinterType
  <2>2. CASE StopPrinting
    BY <1>t, <2>2 DEF StopPrinting, PrinterType
  <2>3. CASE Jam
    BY <1>t, <2>3 DEF Jam, PrinterType
  <2>4. CASE Repair
    BY <1>t, <2>4 DEF Repair, PrinterType
  <2> QED
    BY <2>1, <2>2, <2>3, <2>4
<1>2. Unmoved /\ printed' = printed /\ faults'.power = faults.power
  BY Readings DEF StartPrinting, StopPrinting, Jam, Repair, FaultsType
<1>3. printer.due # <<>> /\ printer.state = "idle" => printer'.state # "idle"
  BY <1>t DEF StartPrinting, StopPrinting, Jam, Repair, PrinterType
<1>4. Begun'
  <2> SUFFICES ASSUME pc \in {"wait printing", "idle after"}, printer.due # <<>>,
                      pc = "idle after" \/ printed[job] > 0 \/ handler.late
               PROVE  /\ printer'.state # "idle"
                      /\ pc = "idle after" => handler.idle <= printer'.quiet
    BY <1>1, <1>2 DEF Begun, Unmoved
  <2>1. printer.state # "idle"
    BY DEF Tracking, Begun
  <2> QED
    BY <1>1, <2>1 DEF Tracking, Begun
<1>5. Counted' /\ FirstRead'
  BY <1>1, <1>2, SlackFacts DEF Unmoved, Tracking, Counted, Behind, FirstRead
<1>6. AllNear'
  BY <1>2 DEF Unmoved, Tracking, AllNear
<1> QED
  BY <1>1, <1>2, <1>4, <1>5, <1>6
  DEF Unmoved, Tracking, ProtocolStages, SentFirst, SizedLast, NothingDue, HeardBoth, NotSent

(* A sheet that comes out is counted for its job and by the printer. *)
LEMMA SheetKeepsTracking ==
  ASSUME TypeOK, Tracking, PrintSheet
  PROVE  Tracking'
<1>t. printer \in PrinterType
  BY Readings
<1>1. /\ printer.due \in Seq(JobIds) /\ printer.due # <<>> /\ printer.state = "printing"
      /\ printer'.counter = printer.counter + 1 /\ printer'.due = Tail(printer.due)
      /\ printer'.state = "printing" /\ printer'.quiet = printer.quiet
      /\ printed' = [printed EXCEPT ![Head(printer.due)] = @ + 1]
  BY <1>t DEF PrintSheet, PrinterType
<1>2. Unmoved /\ faults' = faults /\ Slack' = Slack
  BY DEF PrintSheet, Slack
<1>3. /\ 1 \in DOMAIN printer.due /\ Head(printer.due) = printer.due[1] /\ printer.due[1] \in JobIds
      /\ \A i \in DOMAIN printer'.due :
           i + 1 \in DOMAIN printer.due /\ printer'.due[i] = printer.due[i + 1]
  BY <1>1
<1>4. \A j \in JobIds : printed'[j] = IF j = printer.due[1] THEN printed[j] + 1 ELSE printed[j]
  BY <1>1, <1>3, TypesOfState
<1>5. SentFirst'
  <2> SUFFICES ASSUME NEW j \in JobIds, NotSent(j)
               PROVE  printed'[j] = 0 /\ \A i \in DOMAIN printer'.due : printer'.due[i] # j
    BY <1>2 DEF SentFirst, NotSent, Unmoved
  <2>1. printed[j] = 0 /\ \A i \in DOMAIN printer.due : printer.due[i] # j
    BY DEF Tracking, SentFirst
  <2> QED
    BY <1>3, <1>4, <2>1
<1>6. SizedLast'
  BY <1>2, <1>3 DEF Tracking, SizedLast, Unmoved
<1>7. NothingDue'
  BY <1>1, <1>2 DEF Tracking, NothingDue, Unmoved
<1>c. ASSUME pc \in SinceJob
      PROVE  printer.due[1] = job /\ printed'[job] = printed[job] + 1
  <2>1. printer.due[1] = job
    BY <1>3, <1>c DEF Tracking, Counted
  <2> QED
    BY <1>3, <1>4, <2>1
<1>n. /\ printer.counter \in Nat /\ printed[job] \in Nat /\ Slack \in Nat
      /\ handler.counter \in Nat \cup {None} /\ handler.first \in Nat \cup {None}
  BY TypesOfState, SlackFacts
<1>8. Counted' /\ FirstRead'
  <2>1. printer'.counter > 0 /\ (conf.counter >= 10 => printer'.counter >= 10)
    <3>1. printer.counter > 0 /\ (conf.counter >= 10 => printer.counter >= 10)
      BY DEF Tracking, Counted
    <3>2. printer'.counter = printer.counter + 1
      BY <1>1
    <3>3. conf.counter \in Nat /\ printer.counter \in Nat
      BY NumbersOfState
    <3> QED
      BY <3>1, <3>2, <3>3
  <2>2. pc # "size" /\ pc # "send" /\ pc # "idle before"
    BY <1>1 DEF Tracking, NothingDue, ProtocolStages
  <2>3. ASSUME pc \in SinceJob
        PROVE  /\ before \in Nat /\ before > 0
               /\ (before + printed'[job]) - printer'.counter \in 0 .. Slack
               /\ \A i \in DOMAIN printer'.due : printer'.due[i] = job
    <3>1. /\ before \in Nat /\ before > 0 /\ (before + printed[job]) - printer.counter \in 0 .. Slack
          /\ \A i \in DOMAIN printer.due : printer.due[i] = job
      BY <2>3, CountedFacts DEF Tracking
    <3>2. (before + printed'[job]) - printer'.counter = (before + printed[job]) - printer.counter
      <4>1. printed'[job] = printed[job] + 1
        BY <1>c, <2>3
      <4>2. printer'.counter = printer.counter + 1
        BY <1>1
      <4> QED
        BY <1>n, <3>1, <4>1, <4>2
    <3>3. \A i \in DOMAIN printer'.due : printer'.due[i] = job
      BY <1>3, <3>1
    <3> QED
      BY <3>1, <3>2, <3>3
  <2>4. ASSUME pc \in {"wait printing", "idle after"}, handler.counter # None
        PROVE  handler.counter <= before + printed'[job]
    <3>1. pc \in SinceJob
      BY <2>4 DEF SinceJob, AfterJob
    <3>2. handler.counter <= before + printed[job] /\ before \in Nat
      BY <2>4, <3>1 DEF Tracking, Counted
    <3>3. printed'[job] = printed[job] + 1
      BY <1>c, <3>1
    <3>4. handler.counter \in Nat /\ printed[job] \in Nat
      BY <1>n, <2>4
    <3> QED
      BY <3>2, <3>3, <3>4
  <2>5. ASSUME pc = "wait printing"
        PROVE  /\ handler.first # None => printer'.counter - printed'[job] <= handler.first
               /\ handler.counter # None => handler.counter <= printer'.counter
    <3>1. pc \in SinceJob
      BY <2>5 DEF SinceJob, AfterJob
    <3>2. /\ handler.first # None => printer.counter - printed[job] <= handler.first
          /\ handler.counter # None => handler.counter <= printer.counter
      BY <1>1, <2>5 DEF Tracking, FirstRead
    <3>3. printer'.counter - printed'[job] = printer.counter - printed[job]
          /\ printer'.counter = printer.counter + 1
      BY <1>1, <1>c, <1>n, <3>1
    <3> QED
      BY <1>n, <3>2, <3>3
  <2>6. /\ pc' = pc /\ job' = job /\ before' = before /\ after' = after
        /\ handler' = handler /\ conf' = conf
    BY <1>2 DEF Unmoved
  <2>7. Counted'
    <3>1. Behind(printer.counter)' = (before + printed'[job]) - printer'.counter
      BY <2>6 DEF Behind
    <3> QED
      BY <1>2, <2>1, <2>2, <2>3, <2>4, <2>6, <3>1 DEF Counted
  <2>8. FirstRead'
    BY <2>5, <2>6 DEF FirstRead
  <2> QED
    BY <2>7, <2>8
<1>9. Begun'
  BY <1>1, <1>2 DEF Tracking, Begun, Unmoved
<1>10. AllNear'
  <2>1. size[printer.due[1]] = None
    BY <1>3 DEF Tracking, SizedLast
  <2>2. \A j \in JobIds : size[j] # None => printed'[j] = printed[j]
    BY <1>4, <2>1
  <2> QED
    BY <1>2, <2>2, SizesStayNear DEF Tracking, Unmoved
<1> QED
  BY <1>2, <1>5, <1>6, <1>7, <1>8, <1>9, <1>10
  DEF Tracking, ProtocolStages, HeardBoth, Unmoved

(* A printer that is switched off forgets nine pages at most, and what it  *)
(* was about to print.                                                     *)
LEMMA PowerKeepsTracking ==
  ASSUME TypeOK, Tracking, PowerCycle,
         faults.power = 0, faults'.power = 1, conf.counter >= 10
  PROVE  Tracking'
<1> DEFINE c == printer.counter
           d == printer'.counter
<1>t. printer \in PrinterType
  BY Readings
<1>1. /\ printer'.due = <<>> /\ Unmoved /\ printed' = printed
      /\ d = (c \div 10) * 10
  BY <1>t DEF PowerCycle, PrinterType
<1>n. /\ c \in Nat /\ printed[job] \in Nat
      /\ handler.counter \in Nat \cup {None} /\ before \in Nat \cup {None}
  BY TypesOfState
<1>s. Slack = 0 /\ Slack' = 9 /\ 0 .. Slack = {0}
  BY DEF Slack
<1>2. d \in Nat /\ c - d \in 0 .. 9 /\ (c >= 10 => d >= 10)
  <2>1. d = (c \div 10) * 10 /\ c \in Nat
    BY <1>1, <1>n
  <2> HIDE DEF c, d
  <2> DEFINE q == c \div 10
             r == c % 10
  <2>2. q \in Nat /\ r \in 0 .. 9 /\ c = 10 * q + r
    BY <2>1
  <2> HIDE DEF q, r
  <2>3. d = q * 10
    BY <2>1 DEF q
  <2> QED
    BY <2>1, <2>2, <2>3
<1>3. /\ pc' = pc /\ job' = job /\ before' = before /\ after' = after
      /\ handler' = handler /\ conf' = conf /\ size' = size
  BY <1>1 DEF Unmoved
<1>4. Counted'
  <2> HIDE DEF c, d
  <2>0. c >= 10 /\ d >= 10 /\ d > 0
    <3>1. c >= 10
      BY CountedFacts DEF Tracking, c
    <3> QED
      BY <1>2, <3>1
  <2>1. ASSUME pc = "idle before", handler.counter # None
        PROVE  handler.counter - d \in 0 .. 9
    <3>1. handler.counter - c \in {0}
      BY <1>s, <2>1 DEF Tracking, Counted, c
    <3>2. handler.counter - c = 0
      BY <3>1
    <3>3. handler.counter \in Nat /\ c \in Nat
      BY <1>n, <2>1
    <3> QED
      BY <1>2, <3>2, <3>3
  <2>2. ASSUME pc \in SinceJob
        PROVE  before \in Nat /\ before > 0 /\ (before + printed[job]) - d \in 0 .. 9
    <3>1. before \in Nat /\ before > 0 /\ (before + printed[job]) - c \in {0}
      BY <1>s, <2>2, CountedFacts DEF Tracking, c
    <3>2. (before + printed[job]) - c = 0
      BY <3>1
    <3> QED
      BY <1>n, <1>2, <3>1, <3>2
  <2>3. ASSUME pc = "size"
        PROVE  after \in Nat /\ after > 0 /\ (before + printed[job]) - after \in 0 .. 9
    <3>1. after \in Nat /\ after > 0 /\ (before + printed[job]) - after \in {0}
      BY <1>s, <2>3, CountedFacts DEF Tracking
    <3>2. (before + printed[job]) - after = 0
      BY <3>1
    <3> QED
      BY <3>1, <3>2
  <2>4. pc \in {"wait printing", "idle after"} /\ handler.counter # None =>
          handler.counter <= before + printed[job]
    BY DEF Tracking, Counted
  <2>5. Behind(printer.counter)' = (before + printed[job]) - d
        /\ Behind(after)' = (before + printed[job]) - after
    BY <1>1, <1>3 DEF Behind, d
  <2>6. \A i \in DOMAIN printer'.due : printer'.due[i] = job
    BY <1>1
  <2>7. printer'.counter = d /\ printed' = printed
    BY <1>1 DEF d
  <2> QED
    BY <1>3, <1>s, <2>0, <2>1, <2>2, <2>3, <2>4, <2>5, <2>6, <2>7 DEF Counted
<1>5. AllNear'
  <2>1. \A j \in JobIds : size[j] # None => size[j] - printed[j] = 0
    BY DEF Tracking, AllNear
  <2>2. 0 \in -9 .. 10
    OBVIOUS
  <2> QED
    BY <1>1, <1>3, <2>1, <2>2 DEF AllNear
<1>6. SentFirst' /\ SizedLast' /\ NothingDue' /\ Begun' /\ FirstRead'
  <2>1. \A j \in JobIds : NotSent(j)' => NotSent(j)
    BY <1>3 DEF NotSent
  <2>2. SentFirst' /\ SizedLast'
    BY <1>1, <1>3, <2>1 DEF Tracking, SentFirst, SizedLast
  <2> QED
    BY <1>1, <2>2 DEF NothingDue, Begun, FirstRead
<1> QED
  BY <1>3, <1>4, <1>5, <1>6 DEF Tracking, ProtocolStages, HeardBoth

-----------------------------------------------------------------------------

(* The first query of a job keeps Tracking. *)
LEMMA BeginKeepsTracking ==
  ASSUME TypeOK, Tracking, BeginJob, faults'.power = faults.power
  PROVE  Tracking'
<1>1. /\ pc = "start" /\ pc' = IF conf.protocol = "COMMAND" THEN "command before" ELSE "idle before"
      /\ handler'.status = "none" /\ handler'.first = None /\ handler'.counter = None
      /\ UNCHANGED <<conf, printer, printed, job, size>>
  BY DEF BeginJob, Ask, NewHandler
<1>2. pc' \notin SinceJob /\ pc' \in BeforeJob
  BY <1>1 DEF SinceJob, AfterJob, BeforeJob
<1>3. \A j \in JobIds : NotSent(j)' => NotSent(j)
  BY <1>1 DEF NotSent
<1>4. NothingDue'
  BY <1>1 DEF Tracking, NothingDue
<1>5. SizedLast'
  BY <1>1 DEF Tracking, SizedLast
<1>6. SentFirst'
  BY <1>1, <1>3 DEF Tracking, SentFirst
<1>7. Counted'
  <2>1. pc' \notin {"wait printing", "idle after", "size"}
    BY <1>1
  <2> QED
    BY <1>1, <1>2, <2>1 DEF Tracking, Counted
<1> QED
  BY <1>1, <1>4, <1>5, <1>6, <1>7
  DEF Tracking, ProtocolStages, HeardBoth, Begun, FirstRead, AllNear

(* Sending the data, whose sheets are due from then on, keeps Tracking. *)
LEMMA SendKeepsTracking ==
  ASSUME TypeOK, Reliable, Tracking, Send, faults'.power = faults.power
  PROVE  Tracking'
<1> DEFINE n == asked[job].sheets
<1>t. printer \in PrinterType
  BY Readings
<1>1. /\ pc = "send" /\ pc \in SinceJob /\ printer.due = <<>>
      /\ UNCHANGED <<conf, printed, job, before, after, size>>
  BY DEF Send, Tracking, NothingDue, SinceJob
<1>2. /\ asked[job] \in Requests /\ n \in Nat /\ asked[job].action = "ALLOW"
      /\ ~asked[job].bytes => n = 0
  BY PageCounterAssumption DEF TypeOK, Reliable
<1>3. /\ printer'.due = printer.due \o [i \in 1 .. n |-> job]
      /\ printer'.counter = printer.counter
  BY <1>t DEF Send, PrinterType
<1>4. /\ \A i \in DOMAIN printer'.due : printer'.due[i] = job
      /\ n = 0 => printer'.due = <<>>
  <2>1. printer'.due = [i \in 1 .. n |-> job]
    BY <1>1, <1>2, <1>3
  <2> QED
    BY <1>2, <2>1
<1>5. /\ pc' = IF conf.protocol = "COMMAND" THEN "command after"
               ELSE IF asked[job].bytes THEN "wait printing" ELSE "idle after"
      /\ handler'.status = "none" /\ handler'.first = None /\ ~handler'.late
      /\ handler'.counter = None
  BY <1>2 DEF Send, Ask, NewHandler
<1>6. pc' \in SinceJob /\ pc' \in AfterJob /\ pc' \notin BeforeJob \cup {"start", "send", "over", "size"}
  BY <1>5 DEF SinceJob, AfterJob, BeforeJob
<1>7. printed[job] = 0 /\ size[job] = None /\ job \in JobIds
  BY <1>1, TypesOfState DEF Tracking, SentFirst, SizedLast, NotSent
<1>8. SentFirst'
  <2> SUFFICES ASSUME NEW j \in JobIds, j > job
               PROVE  printed'[j] = 0 /\ \A i \in DOMAIN printer'.due : printer'.due[i] # j
    BY <1>1, <1>6 DEF SentFirst, NotSent
  <2> QED
    BY <1>1, <1>4, TypesOfState DEF Tracking, SentFirst, NotSent
<1>9. SizedLast'
  BY <1>1, <1>4, <1>6, <1>7 DEF Tracking, SizedLast
<1>10. Counted'
  <2>1. /\ before \in Nat /\ before > 0 /\ Behind(printer.counter) \in 0 .. Slack
        /\ printer.counter > 0 /\ (conf.counter >= 10 => printer.counter >= 10)
    BY <1>1 DEF Tracking, Counted
  <2>2. Behind(printer.counter)' = Behind(printer.counter) /\ Slack' = Slack
    BY <1>1, <1>3, SlackFacts DEF Behind
  <2>3. pc' # "idle before" /\ pc' # "size"
    BY <1>5
  <2> QED
    BY <1>1, <1>3, <1>4, <1>5, <2>1, <2>2, <2>3 DEF Counted
<1>11. Begun'
  <2>1. pc' = "idle after" => printer'.due = <<>>
    BY <1>2, <1>4, <1>5
  <2>2. ~(printed'[job'] > 0) /\ ~handler'.late
    <3>1. ~(printed[job] > 0)
      BY <1>7, TypesOfState
    <3> QED
      BY <1>1, <1>5, <3>1
  <2> QED
    BY <2>1, <2>2 DEF Begun
<1>12. NothingDue'
  <2>1. pc' \notin {"start", "send", "over", "size", "idle before"}
    BY <1>6 DEF BeforeJob
  <2> QED
    BY <2>1 DEF NothingDue
<1> QED
  BY <1>1, <1>5, <1>8, <1>9, <1>10, <1>11, <1>12
  DEF Tracking, ProtocolStages, HeardBoth, FirstRead, AllNear
-----------------------------------------------------------------------------

Waiting == {"idle before", "wait printing", "idle after"}

(* No PJL query failed. *)
PJLAnswered == conf.protocol = "PJL" => faults.query = 0

(* What a reliable printer tells the backend that waits for it. *)
LEMMA AnswersOfState ==
  ASSUME TypeOK, Reliable, NEW a \in Answers
  PROVE  \/ printer.state = "idle" /\ a.status = "idle"
         \/ /\ printer.state = "jammed" /\ a.errors = {"Jammed"}
            /\ a.status = IF conf.protocol = "PJL" THEN "other" ELSE "idle"
         \/ printer.state = "printing" /\ a.status = "printing"
         \/ printer.state = "printing" /\ a.status = "idle" /\ a.quiet = printer.quiet + 1 /\ a.quiet \in 0 .. Gap
<1>1. CASE printer.state = "idle"
  BY <1>1 DEF Answers, Reply
<1>2. CASE printer.state = "jammed"
  <2> DEFINE s == IF conf.protocol = "PJL" THEN "other" ELSE "idle"
  <2>1. a \in {Reply(s, {"Jammed"}, printer.quiet)}
    BY <1>2 DEF Answers
  <2>2. a.status = s /\ a.errors = {"Jammed"}
    <3> HIDE DEF s
    <3> QED
      BY <2>1 DEF Reply
  <2> QED
    BY <1>2, <2>2
<1>3. CASE printer.state = "printing"
  <2>1. a \in {Reply("printing", {}, 0)} \cup {Reply("idle", {}, q) : q \in {printer.quiet + 1} \cap (0 .. Gap)}
    BY <1>3 DEF Answers, Reliable
  <2>2. CASE a = Reply("printing", {}, 0)
    BY <1>3, <2>2 DEF Reply
  <2>3. ASSUME NEW q \in {printer.quiet + 1} \cap (0 .. Gap), a = Reply("idle", {}, q)
        PROVE  a.status = "idle" /\ a.quiet = printer.quiet + 1 /\ a.quiet \in 0 .. Gap
    BY <2>3 DEF Reply
  <2> QED
    BY <1>3, <2>1, <2>2, <2>3
<1> QED
  BY <1>1, <1>2, <1>3, TypesOfState

(* The larger of a counter that may be missing and a number. *)
LEMMA LargerFacts ==
  ASSUME NEW a \in Nat \cup {None}, NEW b \in Nat
  PROVE  /\ Larger(a, b) \in Nat /\ Larger(a, b) >= b
         /\ Larger(a, b) = b \/ (a # None /\ Larger(a, b) = a)
         /\ (a # None => a <= b) => Larger(a, b) = b
<1>1. CASE a = None
  BY <1>1 DEF Larger
<1>2. CASE a # None
  <2>1. a \in Nat
    BY <1>2
  <2> QED
    BY <1>2, <2>1 DEF Larger
<1> QED
  BY <1>1, <1>2

(* What a reliable printer makes of the handler, and that an idle answer
   within a job is one of at most Gap. *)
LEMMA TrueAnswers ==
  ASSUME TypeOK, Reliable, Tracking, NEW h \in Queried, Query(h),
         PJLAnswered', conf' = conf,
         pc \in Waiting
  PROVE  /\ printer'.due = printer.due /\ printer'.counter = printer.counter /\ printer'.state = printer.state
         /\ h.first = handler.first /\ h.idle = handler.idle /\ (h.late => handler.late)
         /\ \/ h.counter = Larger(handler.counter, printer.counter)
            \/ h.counter = None /\ h.status = "none"
         /\ h.status = "printing" => printer.state = "printing"
         /\ Idle(h) /\ printer.state # "idle" /\ printer.due # <<>> =>
              printer'.quiet = printer.quiet + 1 /\ printer.quiet + 1 <= Gap
<1>1. conf.protocol \in {"SNMP", "PJL"}
  BY PageCounterAssumption DEF TypeOK, ConfType, Protocols, Tracking, ProtocolStages, Waiting
<1>2. /\ printer'.due = printer.due /\ printer'.counter = printer.counter /\ printer'.state = printer.state
      /\ h \in HandlerType /\ handler \in HandlerType /\ printer \in PrinterType /\ faults \in FaultsType
  BY QueryType, Readings
<1>3. ASSUME NEW a \in Answers, h = Heard(a), printer' = [printer EXCEPT !.quiet = a.quiet]
      PROVE  /\ h.first = handler.first /\ h.idle = handler.idle /\ h.late = handler.late
             /\ h.counter = Larger(handler.counter, printer.counter)
             /\ h.status = "printing" => printer.state = "printing"
             /\ Idle(h) /\ printer.state # "idle" =>
                  printer'.quiet = printer.quiet + 1 /\ printer.quiet + 1 <= Gap
  <2>1. /\ h.first = handler.first /\ h.idle = handler.idle /\ h.late = handler.late
        /\ h.counter = Larger(handler.counter, printer.counter)
        /\ h.status = a.status /\ h.errors = a.errors
    BY <1>2, <1>3 DEF Heard, HandlerType
  <2>3. h.status = "printing" => printer.state = "printing"
    BY <2>1, AnswersOfState
  <2>4. ASSUME Idle(h), printer.state # "idle"
        PROVE  printer'.quiet = printer.quiet + 1 /\ printer.quiet + 1 <= Gap
    <3>1. printer'.quiet = a.quiet
      BY <1>2, <1>3 DEF PrinterType
    <3>2. a.status = "idle"
      BY <2>1, <2>4 DEF Idle
    <3>3. conf.protocol = "SNMP" => a.errors \cap {"Jammed"} = {}
      BY <2>1, <2>4 DEF Idle, CheckIfError, Reliable
    <3>4. ~(printer.state = "jammed" /\ a.errors = {"Jammed"}
              /\ a.status = IF conf.protocol = "PJL" THEN "other" ELSE "idle")
      BY <1>1, <3>2, <3>3
    <3>5. a.quiet = printer.quiet + 1 /\ a.quiet \in 0 .. Gap
      BY <2>4, <3>2, <3>4, AnswersOfState
    <3> QED
      BY <3>1, <3>5, TypesOfState
  <2> QED
    BY <2>1, <2>3, <2>4
<1>4. ASSUME h = Unheard, faults' = [faults EXCEPT !.query = @ + 1]
      PROVE  /\ h.first = handler.first /\ h.idle = handler.idle /\ ~h.late
             /\ h.status = "none" /\ h.counter = None
  <2>1. conf.protocol = "SNMP"
    <3>1. faults'.query # 0
      BY <1>4, OneMoreFailure
    <3> QED
      BY <1>1, <3>1 DEF PJLAnswered
  <2> QED
    BY <1>4, <2>1 DEF Unheard, InitValues, NewHandler
<1>6. CASE \E a \in Answers : h = Heard(a) /\ printer' = [printer EXCEPT !.quiet = a.quiet]
  BY <1>2, <1>3, <1>6
<1>7. CASE h = Unheard /\ faults' = [faults EXCEPT !.query = @ + 1]
  BY <1>2, <1>4, <1>7 DEF Idle
<1> QED
  BY <1>6, <1>7 DEF Query

(* What does not change the printer's work keeps the parts about it.       *)
LEMMA SameWork ==
  ASSUME TypeOK, Tracking, UNCHANGED <<printed, job, size>>, printer'.due = printer.due,
         pc \in BeforeJob \cup {"start", "send"} \/ pc' \notin BeforeJob \cup {"start", "send"},
         pc # "over", faults'.power = faults.power
  PROVE  SentFirst' /\ SizedLast' /\ AllNear'
<1>1. \A j \in JobIds : NotSent(j)' => NotSent(j)
  BY DEF NotSent
<1>2. SentFirst'
  BY <1>1 DEF Tracking, SentFirst
<1>3. SizedLast'
  BY DEF Tracking, SizedLast
<1> QED
  BY <1>2, <1>3 DEF Tracking, AllNear

(* A query that waits for the printer to begin keeps Tracking. *)
LEMMA WaitPrintingKeepsTracking ==
  ASSUME TypeOK, Reliable, PJLAnswered', Tracking, WaitPrinting, faults'.power = faults.power
  PROVE  Tracking'
<1>1. /\ pc = "wait printing" /\ pc \in Waiting /\ pc \in SinceJob
      /\ UNCHANGED <<conf, printed, job, before, after, size>>
  BY DEF WaitPrinting, Waiting, SinceJob, AfterJob
<1>2. PICK h \in Queried :
        /\ Query(h)
        /\ \/ IsPrinting(h) /\ pc' = "idle after" /\ handler' = [h EXCEPT !.idle = 0]
           \/ /\ ~IsPrinting(h) /\ UNCHANGED pc
              /\ handler' = [h EXCEPT !.first = IF @ = None THEN h.counter ELSE @]
  BY DEF WaitPrinting, Restart
<1>3. /\ printer'.due = printer.due /\ printer'.counter = printer.counter /\ printer'.state = printer.state
      /\ h.first = handler.first /\ h.idle = handler.idle /\ (h.late => handler.late)
      /\ \/ h.counter = Larger(handler.counter, printer.counter)
         \/ h.counter = None /\ h.status = "none"
      /\ h.status = "printing" => printer.state = "printing"
  BY <1>1, <1>2, TrueAnswers
<1>4. h \in HandlerType /\ printer' \in PrinterType
  BY <1>2, QueryType
<1>5. /\ handler'.counter = h.counter /\ handler'.status = h.status /\ handler'.late = h.late
      /\ pc' = "idle after" => handler'.idle = 0
      /\ pc' # "idle after" =>
           handler'.first = (IF handler.first = None THEN h.counter ELSE handler.first)
  BY <1>1, <1>2, <1>3, <1>4 DEF HandlerType
<1>6. /\ pc' \in {"wait printing", "idle after"} /\ pc' \in SinceJob /\ pc' \notin BeforeJob \cup {"start", "send"}
      /\ pc # "over"
  BY <1>1, <1>2 DEF SinceJob, AfterJob, BeforeJob
<1>7. SentFirst' /\ SizedLast' /\ AllNear'
  BY <1>1, <1>3, <1>6, SameWork
<1>n. /\ printer.counter \in Nat /\ printed[job] \in Nat /\ None \notin Nat /\ Slack \in Nat
      /\ handler.counter \in Nat \cup {None} /\ handler.first \in Nat \cup {None}
  BY TypesOfState, SlackFacts
<1>8. /\ before \in Nat /\ before > 0 /\ Behind(printer.counter) \in 0 .. Slack
      /\ handler.counter # None => handler.counter <= before + printed[job]
  BY <1>1 DEF Tracking, Counted
<1>l. /\ Larger(handler.counter, printer.counter) \in Nat
      /\ \/ Larger(handler.counter, printer.counter) = printer.counter
         \/ handler.counter # None /\ Larger(handler.counter, printer.counter) = handler.counter
      /\ (handler.counter # None => handler.counter <= printer.counter) =>
           Larger(handler.counter, printer.counter) = printer.counter
  BY <1>n, LargerFacts
<1>9. ProtocolStages' /\ NothingDue' /\ HeardBoth'
  <2>1. HeardBoth'
    BY <1>3, <1>5, <1>l, <1>n DEF HeardBoth
  <2>2. ProtocolStages'
    BY <1>1, <1>6 DEF Tracking, ProtocolStages
  <2>3. NothingDue'
    BY <1>6 DEF NothingDue
  <2> QED
    BY <2>1, <2>2, <2>3
<1>10. Counted'
  <2>1. ASSUME h.counter # None
        PROVE  h.counter <= before + printed[job]
    <3>1. printer.counter <= before + printed[job]
      BY <1>8, <1>n DEF Behind
    <3>2. h.counter = printer.counter \/ (handler.counter # None /\ h.counter = handler.counter)
      BY <1>3, <1>l, <2>1
    <3> QED
      BY <1>8, <3>1, <3>2
  <2>2. Behind(printer.counter)' = Behind(printer.counter) /\ Slack' = Slack
    BY <1>1, <1>3, SlackFacts DEF Behind
  <2>3. pc' # "idle before" /\ pc' # "size"
    BY <1>6
  <2>4. /\ printer.counter > 0 /\ (conf.counter >= 10 => printer.counter >= 10)
        /\ \A i \in DOMAIN printer.due : printer.due[i] = job
    BY <1>1 DEF Tracking, Counted
  <2> QED
    BY <1>1, <1>3, <1>5, <1>8, <2>1, <2>2, <2>3, <2>4 DEF Counted
<1>f. ASSUME printer.due # <<>>, h.counter # None
      PROVE  h.counter = printer.counter
  BY <1>1, <1>3, <1>f, <1>l DEF Tracking, FirstRead
<1>11. FirstRead'
  <2> SUFFICES ASSUME pc' = "wait printing", printer.due # <<>>
               PROVE  /\ handler'.first # None => printer.counter - printed[job] <= handler'.first
                      /\ h.counter # None => h.counter <= printer.counter
    BY <1>1, <1>3, <1>5 DEF FirstRead
  <2>1. handler.first # None => printer.counter - printed[job] <= handler.first
    BY <1>1 DEF Tracking, FirstRead
  <2>2. handler'.first = IF handler.first = None THEN h.counter ELSE handler.first
    BY <1>5
  <2>n. printer.counter \in Nat /\ printed[job] \in Nat
    BY <1>n
  <2>3. printer.counter - printed[job] <= printer.counter /\ printer.counter <= printer.counter
    BY <2>n, LessIsLess
  <2>4. h.counter # None => h.counter = printer.counter /\ h.counter <= printer.counter
    BY <1>f, <2>3
  <2> QED
    BY <2>1, <2>2, <2>3, <2>4
<1>12. Begun'
  <2> SUFFICES ASSUME printer.due # <<>>
               PROVE  /\ pc' = "idle after" \/ printed[job] > 0 \/ handler'.late => printer.state # "idle"
                      /\ pc' = "idle after" => handler'.idle <= printer'.quiet
    BY <1>1, <1>3 DEF Begun
  <2>1. printed[job] > 0 \/ handler.late => printer.state # "idle"
    BY <1>1 DEF Tracking, Begun
  <2>2. IsPrinting(h) => printer.state # "idle"
    <3>1. CASE h.status = "printing"
      BY <1>3, <3>1
    <3>2. CASE h.counter # None /\ h.first # None /\ h.first < h.counter
      <4>1. printer.counter - printed[job] <= handler.first /\ handler.first < printer.counter
        BY <1>1, <1>3, <1>f, <3>2 DEF Tracking, FirstRead
      <4>2. handler.first \in Nat
        BY <1>3, <1>n, <3>2
      <4>5. printed[job] > 0
        BY <1>n, <4>1, <4>2
      <4> QED
        BY <2>1, <4>5
    <3>3. CASE h.late
      BY <1>3, <2>1, <3>3
    <3> QED
      BY <3>1, <3>2, <3>3 DEF IsPrinting
  <2>3. pc' = "idle after" => IsPrinting(h)
    BY <1>1, <1>2
  <2>4. handler'.late => handler.late
    BY <1>3, <1>5
  <2>5. pc' = "idle after" => handler'.idle <= printer'.quiet
    <3>1. printer'.quiet \in Nat
      <4>1. printer'.quiet \in 0 .. Gap /\ Gap \in Nat
        BY <1>4, PageCounterAssumption DEF PrinterType
      <4> QED
        BY <4>1
    <3>2. handler'.idle = 0 => handler'.idle <= printer'.quiet
      BY <3>1
    <3> QED
      BY <1>5, <3>2
  <2> QED
    BY <2>1, <2>2, <2>3, <2>4, <2>5
<1> QED
  BY <1>7, <1>9, <1>10, <1>11, <1>12 DEF Tracking

(* A query that waits for the printer to be idle: the last of Loops idle
   answers comes when nothing is due. *)
LEMMA WaitIdleKeepsTracking ==
  ASSUME TypeOK, Reliable, PJLAnswered', Tracking, WaitIdle, faults'.power = faults.power
  PROVE  Tracking'
<1>1. /\ pc \in {"idle before", "idle after"} /\ pc \in Waiting /\ pc # "over"
      /\ UNCHANGED <<conf, printed, job, size>>
  BY DEF WaitIdle, Waiting
<1>2. PICK h \in Queried :
        /\ Query(h)
        /\ handler' = [h EXCEPT !.idle = IF Idle(h) /\ ~Settled(h) THEN h.idle + 1 ELSE 0]
        /\ IF Settled(h) THEN Return(h.counter) ELSE UNCHANGED <<pc, before, after>>
  BY DEF WaitIdle, Restart
<1>3. /\ printer'.due = printer.due /\ printer'.counter = printer.counter /\ printer'.state = printer.state
      /\ h.first = handler.first /\ h.idle = handler.idle
      /\ \/ h.counter = Larger(handler.counter, printer.counter)
         \/ h.counter = None /\ h.status = "none"
      /\ Idle(h) /\ printer.state # "idle" /\ printer.due # <<>> =>
           printer'.quiet = printer.quiet + 1 /\ printer.quiet + 1 <= Gap
  BY <1>1, <1>2, TrueAnswers
<1>4. h \in HandlerType /\ printer' \in PrinterType
  BY <1>2, QueryType
<1>5. /\ handler'.counter = h.counter /\ handler'.status = h.status
      /\ handler'.idle = IF Idle(h) /\ ~Settled(h) THEN h.idle + 1 ELSE 0
  BY <1>2, <1>4 DEF HandlerType
<1>n. /\ printer.counter \in Nat /\ printed[job] \in Nat /\ None \notin Nat /\ Slack \in Nat
      /\ handler.counter \in Nat \cup {None} /\ Slack' = Slack
  BY TypesOfState, SlackFacts
<1>l. /\ Larger(handler.counter, printer.counter) \in Nat
      /\ Larger(handler.counter, printer.counter) >= printer.counter
      /\ \/ Larger(handler.counter, printer.counter) = printer.counter
         \/ handler.counter # None /\ Larger(handler.counter, printer.counter) = handler.counter
  BY <1>n, LargerFacts
<1>6. HeardBoth'
  BY <1>3, <1>5, <1>l, <1>n DEF HeardBoth
<1>7. /\ printer.counter > 0 /\ (conf.counter >= 10 => printer.counter >= 10)
  BY DEF Tracking, Counted
<1>h. h.counter # None =>
        /\ h.counter \in Nat /\ h.counter >= printer.counter
        /\ h.counter = printer.counter \/ (handler.counter # None /\ h.counter = handler.counter)
  BY <1>3, <1>l
<1>b. ASSUME pc = "idle before", h.counter # None
      PROVE  h.counter - printer.counter \in 0 .. Slack
  <2>1. CASE h.counter = printer.counter
    BY <1>n, <2>1
  <2>2. CASE handler.counter # None /\ h.counter = handler.counter
    BY <1>b, <2>2 DEF Tracking, Counted
  <2> QED
    BY <1>b, <1>h, <2>1, <2>2
<1>a. ASSUME pc = "idle after"
      PROVE  /\ before \in Nat /\ before > 0 /\ Behind(printer.counter) \in 0 .. Slack
             /\ h.counter # None => h.counter <= before + printed[job]
             /\ \A i \in DOMAIN printer.due : printer.due[i] = job
  <2>1. /\ before \in Nat /\ before > 0 /\ Behind(printer.counter) \in 0 .. Slack
        /\ handler.counter # None => handler.counter <= before + printed[job]
        /\ \A i \in DOMAIN printer.due : printer.due[i] = job
    BY <1>a DEF Tracking, Counted, SinceJob, AfterJob
  <2>2. printer.counter <= before + printed[job]
    BY <1>n, <2>1 DEF Behind
  <2> QED
    BY <1>h, <2>1, <2>2
<1>8. conf.protocol # "COMMAND"
  BY <1>1 DEF Tracking, ProtocolStages
<1>9. CASE ~Settled(h)
  <2>1. UNCHANGED <<pc, before, after>>
    BY <1>2, <1>9
  <2>2. SentFirst' /\ SizedLast' /\ AllNear'
    BY <1>1, <1>3, <2>1, SameWork
  <2>3. ProtocolStages' /\ NothingDue'
    BY <1>1, <1>3, <2>1 DEF Tracking, ProtocolStages, NothingDue
  <2>c. Counted'
    <3>1. Behind(printer.counter)' = Behind(printer.counter)
      BY <1>1, <1>3, <2>1 DEF Behind
    <3>2. pc' = pc /\ pc \notin {"wait printing", "size"}
      BY <1>1, <2>1
    <3>3. pc \in SinceJob => pc = "idle after"
      BY <1>1 DEF SinceJob, AfterJob
    <3> QED
      BY <1>1, <1>3, <1>5, <1>7, <1>n, <1>b, <1>a, <2>1, <3>1, <3>2, <3>3 DEF Counted
  <2>4. FirstRead'
    BY <1>1, <2>1 DEF FirstRead
  <2>5. Begun'
    <3>1. printer.due # <<>> /\ pc = "idle after" =>
            printer.state # "idle" /\ handler.idle <= printer.quiet
      BY DEF Tracking, Begun
    <3>2. handler.idle \in Nat /\ printer.quiet \in Nat /\ printer'.quiet \in 0 .. Gap /\ Gap \in Nat
      BY <1>4, TypesOfState, PageCounterAssumption DEF PrinterType
    <3>3. ASSUME handler'.idle = handler.idle + 1, printer'.quiet = printer.quiet + 1,
                 handler.idle <= printer.quiet
          PROVE  handler'.idle <= printer'.quiet
      BY <3>2, <3>3
    <3>4. ASSUME handler'.idle = 0
          PROVE  handler'.idle <= printer'.quiet
      BY <3>2, <3>4
    <3>5. printer.due # <<>> /\ pc = "idle after" => printer.state # "idle" /\ handler'.idle <= printer'.quiet
      BY <1>3, <1>5, <1>9, <3>1, <3>3, <3>4
    <3> QED
      BY <1>1, <1>3, <2>1, <3>5 DEF Begun
  <2> QED
    BY <1>6, <2>2, <2>3, <2>c, <2>4, <2>5 DEF Tracking
<1>10. CASE Settled(h)
  <2>1. Idle(h) /\ h.status = "idle" /\ h.counter # None
    BY <1>3, <1>10, <1>l, <1>n DEF Settled, Idle
  <2>2. printer.due = <<>>
    <3>1. CASE pc = "idle before"
      BY <1>8, <3>1 DEF Tracking, NothingDue
    <3>2. CASE pc = "idle after"
      <4> SUFFICES ASSUME printer.due # <<>>
                   PROVE  FALSE
        OBVIOUS
      <4>1. printer.state # "idle" /\ handler.idle <= printer.quiet
        BY <3>2 DEF Tracking, Begun
      <4>2. printer.quiet + 1 <= Gap
        BY <1>3, <2>1, <4>1
      <4>3. handler.idle + 1 >= Loops
        BY <1>3, <1>10, <3>2 DEF Settled
      <4>4. /\ Gap \in Nat /\ Loops \in Nat /\ Gap < Loops
            /\ handler.idle \in Nat /\ printer.quiet \in Nat
        BY TypesOfState, PageCounterAssumption
      <4>5. ~(handler.idle <= printer.quiet)
        BY <4>2, <4>3, <4>4
      <4> QED
        BY <4>1, <4>5
    <3> QED
      BY <1>1, <3>1, <3>2
  <2>3. pc' \in {"send", "size"} /\ pc' \in SinceJob
    BY <1>2, <1>10 DEF Return, SinceJob
  <2>4. pc = "idle before" => pc' = "send" /\ before' = h.counter
    BY <1>2, <1>10 DEF Return
  <2>5. pc = "idle after" => pc' = "size" /\ after' = h.counter /\ before' = before
    BY <1>2, <1>10 DEF Return
  <2>6. SentFirst' /\ SizedLast' /\ AllNear'
    <3>1. pc \in BeforeJob \cup {"start", "send"} \/ pc' \notin BeforeJob \cup {"start", "send"}
      BY <1>1, <2>5 DEF BeforeJob
    <3> QED
      BY <1>1, <1>3, <3>1, SameWork
  <2>7. ProtocolStages' /\ NothingDue' /\ FirstRead' /\ Begun'
    BY <1>3, <2>2, <2>3 DEF ProtocolStages, NothingDue, FirstRead, Begun
  <2>8. Counted'
    <3>1. /\ printer'.counter = printer.counter /\ printed'[job'] = printed[job] /\ conf' = conf
          /\ pc' \notin {"idle before", "wait printing", "idle after"}
      BY <1>1, <1>3, <2>3
    <3>d. \A i \in DOMAIN printer'.due : printer'.due[i] = job'
      BY <1>3, <2>2
    <3>b. /\ Behind(printer.counter)' = (before' + printed[job]) - printer.counter
          /\ Behind(after)' = (before' + printed[job]) - after'
      BY <3>1 DEF Behind
    <3>2. CASE pc = "idle before"
      <4>1. printed[job] = 0
        BY <3>2, TypesOfState DEF Tracking, SentFirst, NotSent, BeforeJob
      <4>2. before' \in Nat /\ before' > 0 /\ (before' + printed[job]) - printer.counter \in 0 .. Slack
        <5>1. h.counter \in Nat /\ h.counter > 0 /\ h.counter + 0 = h.counter
          BY <1>7, <1>h, <1>n, <2>1
        <5> QED
          BY <1>b, <2>1, <2>4, <3>2, <4>1, <5>1
      <4>3. pc' # "size"
        BY <2>4, <3>2
      <4> QED
        BY <1>7, <1>n, <3>1, <3>d, <3>b, <4>2, <4>3 DEF Counted
    <3>3. CASE pc = "idle after"
      <4>1. h.counter \in Nat /\ h.counter > 0 /\ (before + printed[job]) - h.counter \in 0 .. Slack
        <5>1. h.counter \in Nat /\ h.counter >= printer.counter /\ h.counter <= before + printed[job]
          BY <1>a, <1>h, <2>1, <3>3
        <5>2. before \in Nat /\ (before + printed[job]) - printer.counter \in 0 .. Slack
          BY <3>3, CountedFacts DEF Tracking, SinceJob, AfterJob
        <5> QED
          BY <1>7, <1>n, <5>1, <5>2
      <4>2. before' = before /\ after' = h.counter
        BY <2>5, <3>3
      <4>3. before \in Nat /\ before > 0 /\ (before + printed[job]) - printer.counter \in 0 .. Slack
        BY <3>3, CountedFacts DEF Tracking, SinceJob, AfterJob
      <4> QED
        BY <1>7, <1>n, <3>1, <3>d, <3>b, <4>1, <4>2, <4>3 DEF Counted
    <3> QED
      BY <1>1, <3>2, <3>3
  <2> QED
    BY <1>6, <2>6, <2>7, <2>8 DEF Tracking
<1> QED
  BY <1>9, <1>10

(* The external command answers when the printer has nothing to do. *)
LEMMA CommandKeepsTracking ==
  ASSUME TypeOK, Tracking, CommandAnswers, faults'.power = faults.power
  PROVE  Tracking'
<1>1. /\ pc # "over" /\ printer.due = <<>>
      /\ UNCHANGED <<conf, printer, printed, job, size, handler>>
  BY DEF CommandAnswers
<1>2. /\ pc = "command before" => pc' = "send" /\ before' = printer.counter
      /\ pc # "command before" => pc = "command after" /\ pc' = "size" /\ after' = printer.counter /\ before' = before
  BY DEF CommandAnswers, Return
<1>3. printer.counter > 0 /\ printer.counter \in Nat
  BY NumbersOfState DEF Tracking, Counted
<1>4. SentFirst' /\ SizedLast' /\ AllNear'
  <2>1. pc \in BeforeJob \cup {"start", "send"} \/ pc' \notin BeforeJob \cup {"start", "send"}
    BY <1>2 DEF BeforeJob
  <2> QED
    BY <1>1, <2>1, SameWork
<1>5. ProtocolStages' /\ NothingDue' /\ HeardBoth' /\ Begun' /\ FirstRead'
  BY <1>1, <1>2 DEF Tracking, ProtocolStages, NothingDue, HeardBoth, Begun, FirstRead
<1>n. /\ printed[job] \in Nat /\ Slack \in Nat /\ Slack' = Slack
      /\ (conf.counter >= 10 => printer.counter >= 10)
  BY TypesOfState, SlackFacts, CountedFacts DEF Tracking
<1>d. \A i \in DOMAIN printer.due : printer.due[i] = job
  BY <1>1
<1>7. pc' \notin {"idle before", "wait printing", "idle after"}
  BY <1>2
<1>b. /\ Behind(printer.counter)' = (before' + printed[job]) - printer.counter
      /\ Behind(after)' = (before' + printed[job]) - after'
  BY <1>1 DEF Behind
<1>8. Counted'
  <2>1. CASE pc = "command before"
    <3>1. printed[job] = 0
      BY <2>1, TypesOfState DEF Tracking, SentFirst, NotSent, BeforeJob
    <3>2. before' = printer.counter /\ pc' # "size"
      BY <1>2, <2>1
    <3>3. (printer.counter + printed[job]) - printer.counter \in 0 .. Slack
      BY <1>3, <1>n, <3>1
    <3> QED
      BY <1>1, <1>3, <1>n, <1>d, <1>b, <1>7, <3>2, <3>3 DEF Counted
  <2>2. CASE pc = "command after"
    <3>1. before \in Nat /\ before > 0 /\ (before + printed[job]) - printer.counter \in 0 .. Slack
      BY <2>2, CountedFacts DEF Tracking, SinceJob, AfterJob
    <3>2. before' = before /\ after' = printer.counter
      BY <1>2, <2>2
    <3> QED
      BY <1>1, <1>3, <1>n, <1>d, <1>b, <1>7, <3>1, <3>2 DEF Counted
  <2> QED
    BY <1>2, <2>1, <2>2
<1> QED
  BY <1>4, <1>5, <1>8 DEF Tracking

(* Failures and lost answers keep Tracking. *)
LEMMA FailureKeepsTracking ==
  ASSUME TypeOK, PJLAnswered', Tracking, CommandFails \/ AnswerLost, faults'.power = faults.power
  PROVE  Tracking'
<1>1. CASE CommandFails
  <2>1. /\ pc \in {"command before", "command after"} /\ pc # "over" /\ pc' \in {pc, "over"}
        /\ conf.protocol = "COMMAND"
        /\ UNCHANGED <<conf, printer, printed, job, before, after, size, handler>>
    BY <1>1 DEF CommandFails, Tracking, ProtocolStages
  <2>2. SentFirst' /\ SizedLast' /\ AllNear'
    <3>1. pc \in BeforeJob \cup {"start", "send"} \/ pc' \notin BeforeJob \cup {"start", "send"}
      BY <2>1 DEF BeforeJob
    <3> QED
      BY <2>1, <3>1, SameWork
  <2>3. pc' \in SinceJob => pc \in SinceJob /\ pc' # "size"
    BY <2>1 DEF SinceJob, AfterJob
  <2>4. Counted'
    <3>1. Behind(printer.counter)' = Behind(printer.counter) /\ Slack' = Slack
      BY <2>1, SlackFacts DEF Behind
    <3>2. pc' \notin {"idle before", "wait printing", "idle after", "size"}
      BY <2>1
    <3> QED
      BY <2>1, <2>3, <3>1, <3>2 DEF Tracking, Counted
  <2> QED
    BY <2>1, <2>2, <2>4 DEF Tracking, ProtocolStages, NothingDue, HeardBoth, Begun, FirstRead
<1>2. CASE AnswerLost
  <2>1. conf' = conf /\ conf.protocol = "PJL" /\ faults'.query # 0
    BY <1>2, OneMoreFailure DEF AnswerLost
  <2> QED
    BY <2>1 DEF PJLAnswered
<1> QED
  BY <1>1, <1>2

(* The end of noprintingmaxdelay keeps Tracking. *)
LEMMA DelayKeepsTracking ==
  ASSUME TypeOK, Reliable, Tracking, DelayElapses, faults'.power = faults.power
  PROVE  Tracking'
<1>1. /\ printer.due # <<>> => printer.state # "idle"
      /\ pc = "wait printing" /\ pc # "over" /\ pc \notin BeforeJob \cup {"start", "send"}
      /\ UNCHANGED <<conf, printer, printed, job, pc, before, after, size>>
  BY DEF DelayElapses, Reliable, BeforeJob
<1>2. handler'.counter = handler.counter /\ handler'.status = handler.status /\ handler'.first = handler.first
  BY Readings DEF DelayElapses, HandlerType
<1>3. SentFirst' /\ SizedLast' /\ AllNear'
  BY <1>1, SameWork
<1>4. Counted'
  BY <1>1, <1>2, SlackFacts DEF Tracking, Counted, Behind
<1> QED
  BY <1>1, <1>2, <1>3, <1>4 DEF Tracking, ProtocolStages, NothingDue, HeardBoth, Begun, FirstRead

(* The size that is computed is that of the sheets printed, but for what   *)
(* the printer forgot.                                                     *)
LEMMA AccountKeepsTracking ==
  ASSUME TypeOK, Tracking, Account, faults'.power = faults.power
  PROVE  Tracking'
<1>1. /\ pc = "size" /\ pc \in SinceJob /\ pc' = "over" /\ printer.due = <<>>
      /\ UNCHANGED <<conf, printer, printed, job, handler>>
      /\ size' = [size EXCEPT ![job] = JobSize(before, after, last)]
  BY DEF Account, Tracking, NothingDue, SinceJob
<1> DEFINE n == JobSize(before, after, last)
<1>2. /\ before \in Nat /\ before > 0 /\ after \in Nat /\ after > 0
      /\ (before + printed[job]) - after \in 0 .. Slack
      /\ printer.counter > 0 /\ (conf.counter >= 10 => printer.counter >= 10)
  BY <1>1, CountedFacts DEF Tracking
<1>3. /\ n - printed[job] \in -9 .. 10
      /\ faults.power = 0 => n - printed[job] = 0
  <2>1. printed[job] \in Nat /\ None \notin Nat /\ Slack \in {0, 9} /\ (faults.power = 0 => Slack = 0)
    BY TypesOfState, SlackFacts
  <2>2. n = IF after >= before THEN after - before ELSE IF after - before > -10 THEN after - before + 10 ELSE 1
    BY <1>2, <2>1 DEF JobSize, Difference, Missing
  <2>3. (before + printed[job]) - after \in 0 .. 9
    BY <1>2, <2>1
  <2>4. faults.power = 0 => (before + printed[job]) - after = 0
    BY <1>2, <2>1
  <2> HIDE DEF n
  <2>5. n - printed[job] \in -9 .. 10
    BY <1>2, <2>1, <2>2, <2>3
  <2>6. faults.power = 0 => n - printed[job] = 0
    BY <1>2, <2>1, <2>2, <2>4
  <2> QED
    BY <2>5, <2>6
<1>4. \A j \in JobIds : size'[j] = IF j = job THEN n ELSE size[j]
  BY <1>1, TypesOfState
<1>5. pc' \notin SinceJob
  BY <1>1 DEF SinceJob, AfterJob
<1>6. AllNear'
  <2> HIDE DEF n
  <2>1. n - printed[job] \in IF faults.power = 0 THEN {0} ELSE -9 .. 10
    BY <1>3
  <2> QED
    BY <1>1, <1>4, <2>1 DEF Tracking, AllNear
<1>7. SizedLast'
  <2>1. \A j \in JobIds : j > job => size'[j] = None
    <3>1. \A j \in JobIds : j > job => j # job
      BY TypesOfState
    <3> HIDE DEF n
    <3> QED
      BY <1>4, <3>1 DEF Tracking, SizedLast
  <2>2. \A i \in DOMAIN printer'.due : size'[printer'.due[i]] = None
    BY <1>1
  <2> QED
    BY <1>1, <2>1, <2>2 DEF SizedLast
<1>8. SentFirst'
  <2>1. \A j \in JobIds : NotSent(j)' => NotSent(j)
    BY <1>1 DEF NotSent, BeforeJob
  <2> QED
    BY <1>1, <2>1 DEF SentFirst, Tracking
<1>9. Counted'
  <2>1. pc' \notin {"idle before", "wait printing", "idle after", "size"}
    BY <1>1
  <2> QED
    BY <1>1, <1>2, <1>5, <2>1 DEF Counted
<1> QED
  BY <1>1, <1>6, <1>7, <1>8, <1>9 DEF Tracking, ProtocolStages, NothingDue, HeardBoth, Begun, FirstRead

(* The next job starts with nothing due. *)
LEMMA NextJobKeepsTracking ==
  ASSUME TypeOK, Tracking, NextJob, faults'.power = faults.power
  PROVE  Tracking'
<1>1. /\ pc = "over" /\ pc' = "start" /\ job' = job + 1
      /\ handler'.status = "none"
      /\ UNCHANGED <<conf, printer, printed, size>>
  BY DEF NextJob, NewHandler
<1>2. \A j \in JobIds : j > job' \/ j = job' => j > job
  BY <1>1, TypesOfState
<1>3. SentFirst'
  BY <1>1, <1>2 DEF Tracking, SentFirst, NotSent
<1>4. SizedLast'
  BY <1>1, <1>2 DEF Tracking, SizedLast
<1>5. pc' \notin SinceJob
  BY <1>1 DEF SinceJob, AfterJob
<1>6. Counted'
  <2>1. pc' \notin {"idle before", "wait printing", "idle after", "size"}
    BY <1>1
  <2> QED
    BY <1>1, <1>5, <2>1 DEF Tracking, Counted
<1> QED
  BY <1>1, <1>3, <1>4, <1>6 DEF Tracking, ProtocolStages, NothingDue, HeardBoth, Begun, FirstRead, AllNear

(* Every step keeps Tracking. *)
LEMMA StepKeepsTracking ==
  ASSUME TypeOK, Reliable', Tracking, Next
  PROVE  Tracking'
<1>1. /\ Reliable /\ PJLAnswered'
      /\ PowerCycle => faults.power = 0 /\ faults'.power = 1 /\ conf.counter >= 10
      /\ ~PowerCycle => faults'.power = faults.power
  BY ReliableSoFar DEF PJLAnswered
<1>2. CASE PowerCycle
  BY <1>1, <1>2, PowerKeepsTracking
<1>3. CASE PrinterNext /\ ~PowerCycle
  BY <1>1, <1>3, OtherPrinterSteps, SheetKeepsTracking DEF PrinterNext
<1>4. CASE AccounterNext /\ ~PowerCycle
  BY <1>1, <1>4, BeginKeepsTracking, SendKeepsTracking, WaitPrintingKeepsTracking, WaitIdleKeepsTracking,
     CommandKeepsTracking, FailureKeepsTracking, DelayKeepsTracking, AccountKeepsTracking,
     NextJobKeepsTracking DEF AccounterNext
<1> QED
  BY <1>2, <1>3, <1>4 DEF Next

(* With a reliable printer the readings track what it prints. *)
LEMMA ReliableIsTracked == Spec => [](Reliable => Tracking)
<1> DEFINE IInv == Reliable => Tracking
<1>1. Init => IInv
  <2> SUFFICES ASSUME Init, Reliable
               PROVE  Tracking
    OBVIOUS
  <2>1. /\ pc = "start" /\ printer.due = <<>> /\ printed = [j \in JobIds |-> 0] /\ size = [j \in JobIds |-> None]
        /\ handler.status = "none" /\ printer.counter = conf.counter
    BY DEF Init, NewHandler
  <2>2. pc \notin SinceJob /\ pc # "size"
    BY <2>1 DEF SinceJob, AfterJob
  <2>3. printer.counter > 0
    BY <2>1 DEF Reliable
  <2>4. Counted
    BY <2>1, <2>2, <2>3 DEF Counted
  <2> QED
    BY <2>1, <2>4
    DEF Tracking, ProtocolStages, SentFirst, SizedLast, NothingDue, HeardBoth, Begun, FirstRead, AllNear
<1>2. TypeOK /\ IInv /\ [Next]_vars => IInv'
  <2> SUFFICES ASSUME TypeOK, IInv, [Next]_vars, Reliable'
               PROVE  Tracking'
    OBVIOUS
  <2>1. CASE UNCHANGED vars
    <3>1. Reliable /\ Tracking
      BY <2>1 DEF vars, Reliable
    <3> QED
      BY <2>1, <3>1
      DEF vars, Tracking, ProtocolStages, SentFirst, SizedLast, NothingDue, Counted, Behind, Slack, HeardBoth,
          Begun, FirstRead, AllNear, NotSent
  <2>2. CASE Next
    BY <2>2, ReliableSoFar, StepKeepsTracking
  <2> QED
    BY <2>1, <2>2
<1> QED
  BY <1>1, <1>2, TypeCorrect, PTL DEF Spec

(* With a printer that tells the truth and is not switched off, and with   *)
(* queries that are answered, every job is charged the sheets it printed.  *)
THEOREM SizesAreExact == Spec => []ExactSize
<1>1. TypeOK /\ (Reliable => Tracking) => ExactSize
  <2> SUFFICES ASSUME TypeOK, Reliable => Tracking, Accurate, NEW j \in JobIds, size[j] # None
               PROVE  size[j] = printed[j]
    BY DEF ExactSize
  <2>1. Tracking /\ faults.power = 0
    BY DEF Reliable, Accurate
  <2>2. size[j] - printed[j] = 0
    BY <2>1 DEF Tracking, AllNear
  <2> QED
    BY <2>2, TypesOfState
<1> QED
  BY <1>1, ReliableIsTracked, TypeCorrect, PTL

(* When that printer is switched off once, a job is charged nine sheets    *)
(* less or ten sheets more than it printed, at worst.                      *)
THEOREM SizesAreNear == Spec => []ErrorBounded
<1>1. TypeOK /\ (Reliable => Tracking) => ErrorBounded
  <2> SUFFICES ASSUME TypeOK, Reliable => Tracking,
                      ~conf.lies, ~conf.slow, conf.mask = {"Jammed"}, conf.counter >= 10,
                      faults.power <= 1, conf.protocol = "PJL" => faults.query = 0,
                      \A i \in JobIds : asked[i].action = "ALLOW",
                      NEW j \in JobIds, size[j] # None
               PROVE  size[j] - printed[j] \in -9 .. 10
    BY DEF ErrorBounded
  <2>1. Tracking
    <3>1. faults.power = 0 \/ faults.power = 1
      BY NumbersOfState
    <3>2. conf.counter > 0
      BY NumbersOfState
    <3> QED
      BY <3>1, <3>2 DEF Reliable
  <2>2. size[j] - printed[j] = 0 \/ size[j] - printed[j] \in -9 .. 10
    BY <2>1 DEF Tracking, AllNear
  <2>3. 0 \in -9 .. 10
    OBVIOUS
  <2> QED
    BY <2>2, <2>3
<1> QED
  BY <1>1, ReliableIsTracked, TypeCorrect, PTL

=============================================================================
