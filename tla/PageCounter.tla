----------------------------- MODULE PageCounter ------------------------------
(***************************************************************************)
(* Hardware accounting: the jobs of one printer, one after the other (its  *)
(* lock is held), read the printer's own page counter before and after     *)
(* they are sent, by SNMP, by PJL or with an external command.  The        *)
(* printer works on its own: it starts late, stops between two sheets,     *)
(* jams, loses counts when it is switched off, does not answer.            *)
(***************************************************************************)
EXTENDS Integers, Sequences

CONSTANTS
  Jobs,            (* number of jobs                                       *)
  Requests,        (* [action, bytes, sheets] of a job                     *)
  Confs,           (* configurations and printers                          *)
  Loops,           (* statusstabilizationloops                             *)
  Gap,             (* idle answers in a row within a job                   *)
  MaxFaults,       (* bound: failed queries, jams and losses of power      *)
  None

Protocols == {"SNMP", "PJL", "COMMAND"}

ConfType ==
  [protocol : Protocols,
   skip     : BOOLEAN,     \* skipinitialwait
   limited  : BOOLEAN,     \* noprintingmaxdelay is not 0
   retry    : BOOLEAN,     \* onaccountererror is CONTINUE
   mask     : SUBSET {"Jammed"}, \* snmperrormask
   lies     : BOOLEAN,     \* the printer never says it is printing
   slow     : BOOLEAN,     \* it may start later than noprintingmaxdelay
   counter  : Nat,         \* its page counter at the start
   previous : Nat \cup {None}] \* the counter in the history, if there is one

ASSUME PageCounterAssumption ==
  /\ Jobs \in Nat \ {0} /\ Loops \in Nat \ {0} /\ Gap \in Nat /\ Gap < Loops
  /\ MaxFaults \in Nat
  /\ Requests \subseteq [action : {"ALLOW", "WARN"}, bytes : BOOLEAN, sheets : Nat]
  /\ \A r \in Requests : r.sheets > 0 => r.bytes
  /\ Confs \subseteq ConfType
  /\ None \notin Nat

VARIABLES
  conf,
  printer,   (* its counter, what it reports, the sheets of each job to    *)
             (* come, idle answers in a row while it prints                *)
  printed,   (* sheets that came out, for each job                         *)
  job,       (* the current job                                            *)
  asked,     (* action and data of each job                                *)
  pc,
  handler,   (* the object that asks the printer                           *)
  before, after,  (* counterbefore, counterafter                           *)
  last,      (* PrinterPageCounter of the printer's last job               *)
  size,      (* sizes of the jobs that are over                            *)
  faults,
  charged    (* sheets charged by differences of two readings              *)

vars == <<conf, printer, printed, job, asked, pc, handler, before, after, last,
          size, faults, charged>>

JobIds == 1 .. Jobs
NewHandler ==
  [counter |-> None, status |-> "none", errors |-> None, idle |-> 0,
   first |-> None, late |-> FALSE]

NoFaults == [query |-> 0, jam |-> 0, power |-> 0]
FaultCount == faults.query + faults.jam + faults.power

Init ==
  /\ conf \in Confs
  /\ printer = [counter |-> conf.counter, state |-> "idle", due |-> <<>>, quiet |-> 0]
  /\ printed = [j \in JobIds |-> 0]
  /\ job = 1
  /\ asked \in [JobIds -> Requests]
  /\ pc = "start"
  /\ handler = NewHandler
  /\ before = None /\ after = None
  /\ last = conf.previous
  /\ size = [j \in JobIds |-> None]
  /\ faults = NoFaults
  /\ charged = 0

-----------------------------------------------------------------------------
(* The printer.                                                            *)

Unmoved == UNCHANGED <<conf, job, asked, pc, handler, before, after, last, size, charged>>

StartPrinting ==
  /\ printer.state = "idle" /\ printer.due # <<>>
  /\ printer' = [printer EXCEPT !.state = "printing", !.quiet = 0]
  /\ UNCHANGED <<printed, faults>> /\ Unmoved

PrintSheet ==
  /\ printer.state = "printing" /\ printer.due # <<>>
  /\ printer' = [printer EXCEPT !.counter = @ + 1, !.due = Tail(@)]
  /\ printed' = [printed EXCEPT ![Head(printer.due)] = @ + 1]
  /\ UNCHANGED faults /\ Unmoved

StopPrinting ==
  /\ printer.state = "printing" /\ printer.due = <<>>
  /\ printer' = [printer EXCEPT !.state = "idle"]
  /\ UNCHANGED <<printed, faults>> /\ Unmoved

Jam ==
  /\ FaultCount < MaxFaults
  /\ printer.state = "printing" \/ printer.due # <<>>
  /\ printer' = [printer EXCEPT !.state = "jammed"]
  /\ faults' = [faults EXCEPT !.jam = @ + 1]
  /\ UNCHANGED printed /\ Unmoved

Repair ==
  /\ printer.state = "jammed"
  /\ printer' = [printer EXCEPT !.state = "printing"]
  /\ UNCHANGED <<printed, faults>> /\ Unmoved

(* The counter is saved every ten pages (HP), and the data is lost.        *)
PowerCycle ==
  /\ FaultCount < MaxFaults
  /\ printer' = [printer EXCEPT !.counter = (@ \div 10) * 10, !.state = "idle", !.due = <<>>, !.quiet = 0]
  /\ faults' = [faults EXCEPT !.power = @ + 1]
  /\ UNCHANGED printed /\ Unmoved

PrinterNext == StartPrinting \/ PrintSheet \/ StopPrinting \/ Jam \/ Repair \/ PowerCycle

(* What it may answer, and how many idle answers within a job this makes. *)
Reply(status, errors, quiet) == [status |-> status, errors |-> errors, quiet |-> quiet]

Answers ==
  CASE printer.state = "idle"   -> {Reply("idle", {}, 0)}
    [] printer.state = "jammed" ->
         {Reply(IF conf.protocol = "PJL" THEN "other" ELSE "idle", {"Jammed"}, printer.quiet)}
    [] printer.state = "printing" /\ conf.lies -> {Reply("idle", {}, 0)}
    [] OTHER -> {Reply("printing", {}, 0)}
                  \cup {Reply("idle", {}, q) : q \in {printer.quiet + 1} \cap (0 .. Gap)}

-----------------------------------------------------------------------------
(* One query.  The counter a handler holds never goes back.                *)

Larger(a, b) == IF a = None THEN b ELSE IF a > b THEN a ELSE b

Heard(a) ==
  [handler EXCEPT !.counter = Larger(@, printer.counter), !.status = a.status, !.errors = a.errors]

(* A failed SNMP query forgets all values and starts the delay again ...   *)
InitValues == [NewHandler EXCEPT !.idle = handler.idle, !.first = handler.first]

(* ... a failed PJL query leaves them as they were.                        *)
Unheard == IF conf.protocol = "SNMP" THEN InitValues ELSE handler

(* retrieveSNMPValues, retrievePJLValues: the handler becomes h. *)
Query(h) ==
  \/ \E a \in Answers :
       /\ h = Heard(a)
       /\ printer' = [printer EXCEPT !.quiet = a.quiet]
       /\ UNCHANGED faults
  \/ /\ FaultCount < MaxFaults
     /\ h = Unheard
     /\ faults' = [faults EXCEPT !.query = @ + 1]
     /\ UNCHANGED printer

(* What a query may make of the handler. *)
Queried == {Heard(a) : a \in Answers} \cup {Unheard}

(* An error the printer reports and the mask holds, or no answer. *)
CheckIfError(errors) == errors = None \/ errors \cap conf.mask # {}

(* Idle, for the handler of each protocol. *)
Idle(h) == h.status = "idle" /\ (conf.protocol = "SNMP" => ~CheckIfError(h.errors))

-----------------------------------------------------------------------------
(* The accounter.                                                          *)

Ask(stage) ==
  /\ handler' = NewHandler
  /\ pc' = IF conf.protocol = "COMMAND"
           THEN IF stage = "before" THEN "command before" ELSE "command after"
           ELSE IF stage = "before" THEN "idle before"
           ELSE IF asked[job].action = "ALLOW" /\ asked[job].bytes THEN "wait printing" ELSE "idle after"

BeginJob ==
  /\ pc = "start"
  /\ Ask("before")
  /\ UNCHANGED <<conf, printer, printed, job, asked, before, after, last, size, faults, charged>>

(* The data goes to the printer, and the phase becomes AFTER.              *)
Send ==
  /\ pc = "send"
  /\ printer' = [printer EXCEPT !.due = @ \o [i \in 1 .. asked[job].sheets |-> job]]
  /\ Ask("after")
  /\ UNCHANGED <<conf, printed, job, asked, before, after, last, size, faults, charged>>

(* A counter was read. *)
Return(counter) ==
  IF pc \in {"idle before", "command before"}
  THEN pc' = "send" /\ before' = counter /\ UNCHANGED after
  ELSE pc' = "size" /\ after' = counter /\ UNCHANGED before

Restart(h, idle) == handler' = [h EXCEPT !.idle = idle]

(* More than noprintingmaxdelay seconds without a sign of printing. *)
DelayElapses ==
  /\ pc = "wait printing" /\ conf.limited /\ ~handler.late
  /\ conf.slow \/ printer.state # "idle" \/ printer.due = <<>>
  /\ handler' = [handler EXCEPT !.late = TRUE]
  /\ UNCHANGED <<conf, printer, printed, job, asked, pc, before, after, last, size, faults, charged>>

(* A mistake: the delay is not looked at. *)
NeverGivesUp(h) ==
  \/ h.status = "printing"
  \/ h.counter # None /\ h.first # None /\ h.first < h.counter

IsPrinting(h) ==
  \/ h.status = "printing"
  \/ h.counter # None /\ h.first # None /\ h.first < h.counter   \* it lies
  \/ h.counter # None /\ h.first # None /\ h.late /\ Idle(h)     \* it will not, or has

WaitPrinting ==
  /\ pc = "wait printing"
  /\ \E h \in Queried :
       /\ Query(h)
       /\ IF IsPrinting(h)
          THEN pc' = "idle after" /\ Restart(h, 0)
          ELSE /\ handler' = [h EXCEPT !.first = IF @ = None THEN h.counter ELSE @]
               /\ UNCHANGED pc
  /\ UNCHANGED <<conf, printed, job, asked, before, after, last, size, charged>>

(* A mistake: one idle answer is enough. *)
SettledAtOnce(h) == Idle(h)

(* The idle status is stable, or need not be. *)
Settled(h) ==
  /\ Idle(h)
  /\ \/ h.counter # None /\ conf.skip /\ pc = "idle before"
     \/ h.idle + 1 >= Loops

WaitIdle ==
  /\ pc \in {"idle before", "idle after"}
  /\ \E h \in Queried :
       /\ Query(h)
       /\ Restart(h, IF Idle(h) /\ ~Settled(h) THEN h.idle + 1 ELSE 0)
       /\ IF Settled(h) THEN Return(h.counter) ELSE UNCHANGED <<pc, before, after>>
  /\ UNCHANGED <<conf, printed, job, asked, last, size, charged>>

(* The external command waits for the printer and writes its counter ...   *)
CommandAnswers ==
  /\ pc \in {"command before", "command after"}
  /\ printer.state = "idle" /\ printer.due = <<>>
  /\ Return(printer.counter)
  /\ UNCHANGED <<conf, printer, printed, job, asked, handler, last, size, faults, charged>>

(* ... or no number: it is launched again, or the backend dies.            *)
CommandFails ==
  /\ pc \in {"command before", "command after"}
  /\ FaultCount < MaxFaults
  /\ faults' = [faults EXCEPT !.query = @ + 1]
  /\ pc' = IF conf.retry THEN pc ELSE "over"
  /\ UNCHANGED <<conf, printer, printed, job, asked, handler, before, after, last, size, charged>>

(* retrievePJLValues waits for the answer to a query it does not repeat.   *)
AnswerLost ==
  /\ conf.protocol = "PJL" /\ pc \in {"wait printing", "idle before", "idle after"}
  /\ FaultCount < MaxFaults
  /\ faults' = [faults EXCEPT !.query = @ + 1]
  /\ pc' = "hung"
  /\ UNCHANGED <<conf, printer, printed, job, asked, handler, before, after, last, size, charged>>

-----------------------------------------------------------------------------
(* getJobSize.                                                             *)

Missing(c) == c \in {None, 0}
Value(c)   == IF c = None THEN 0 ELSE c

(* Mistakes: both readings counted in, a counter taken to restart at zero, *)
(* no care of a counter that went back.                                    *)
BothIncluded(b, a) == IF a >= b THEN a - b + 1 ELSE IF a - b > -10 THEN a - b + 10 ELSE 1
FromZero(b, a)     == IF a >= b THEN a - b ELSE a
Unguarded(b, a)    == a - b

Difference(b, a) ==
  IF a >= b THEN a - b ELSE IF a - b > -10 THEN a - b + 10 ELSE 1

(* With a missing reading the one of the last job takes its place, and the *)
(* smaller one counts as the one before.                                   *)
SizeFromHistory(b, a, l) ==
  LET b1 == IF Missing(b) THEN Value(l) ELSE b
      a1 == IF Missing(a) THEN Value(l) ELSE a
  IN IF Missing(a1) \/ Missing(b1) \/ a1 = b1 THEN 1
     ELSE IF a1 > b1 THEN a1 - b1 ELSE b1 - a1

JobSize(b, a, l) ==
  IF Missing(b) \/ Missing(a)
  THEN IF l = None THEN 1 ELSE SizeFromHistory(b, a, l)
  ELSE Difference(b, a)

(* The size is computed and goes to the history with the last reading.     *)
Account ==
  /\ pc = "size"
  /\ size' = [size EXCEPT ![job] = JobSize(before, after, last)]
  /\ charged' = IF Missing(before) \/ Missing(after) THEN charged
                ELSE charged + JobSize(before, after, last)
  /\ last' = Value(after)
  /\ pc' = "over"
  /\ UNCHANGED <<conf, printer, printed, job, asked, handler, before, after, faults>>

NextJob ==
  /\ pc = "over" /\ job < Jobs
  /\ job' = job + 1
  /\ pc' = "start"
  /\ before' = None /\ after' = None /\ handler' = NewHandler
  /\ UNCHANGED <<conf, printer, printed, asked, last, size, faults, charged>>

AccounterNext ==
  \/ BeginJob \/ Send \/ WaitPrinting \/ WaitIdle \/ DelayElapses
  \/ AnswerLost \/ CommandAnswers \/ CommandFails \/ Account \/ NextJob

Next == PrinterNext \/ AccounterNext

Spec == Init /\ [][Next]_vars

(* The printer goes on with its work, and someone repairs it; the backend  *)
(* goes on asking.                                                         *)
Fairness ==
  /\ WF_vars(StartPrinting) /\ WF_vars(PrintSheet) /\ WF_vars(StopPrinting) /\ WF_vars(Repair)
  /\ WF_vars(BeginJob) /\ WF_vars(Send) /\ WF_vars(Account) /\ WF_vars(NextJob)
  /\ WF_vars(WaitPrinting) /\ WF_vars(WaitIdle) /\ WF_vars(DelayElapses)
  /\ WF_vars(CommandAnswers)

FairSpec == Spec /\ Fairness

-----------------------------------------------------------------------------
(* Properties.                                                             *)

(* Types. *)
Stages ==
  {"start", "idle before", "command before", "send", "wait printing", "idle after",
   "command after", "size", "over", "hung"}

TypeOK ==
  /\ conf \in Confs
  /\ printer \in [counter : Nat, state : {"idle", "printing", "jammed"},
                  due : Seq(JobIds), quiet : 0 .. Gap]
  /\ printed \in [JobIds -> Nat]
  /\ job \in JobIds /\ asked \in [JobIds -> Requests]
  /\ pc \in Stages
  /\ handler \in [counter : Nat \cup {None}, status : {"none", "idle", "printing", "other"},
                  errors : {None, {}, {"Jammed"}}, idle : Nat, first : Nat \cup {None}, late : BOOLEAN]
  /\ before \in Nat \cup {None} /\ after \in Nat \cup {None} /\ last \in Nat \cup {None}
  /\ size \in [JobIds -> Nat \cup {None}]
  /\ faults \in [query : Nat, jam : Nat, power : Nat]
  /\ charged \in Nat

(* A printer that says what it does, begins in time and keeps its counter, *)
(* queries that are answered (a failed SNMP query is no answer, a failed   *)
(* PJL query repeats the last one), and no job accepted with a warning.    *)
Accurate ==
  /\ ~conf.lies /\ ~conf.slow /\ conf.mask = {"Jammed"} /\ conf.counter > 0
  /\ faults.power = 0
  /\ conf.protocol = "PJL" => faults.query = 0
  /\ \A j \in JobIds : asked[j].action = "ALLOW"

(* Then every job is charged the sheets it printed, however long the       *)
(* printer took, paused or was jammed, and whatever the jobs before it did.*)
ExactSize ==
  Accurate => \A j \in JobIds : size[j] # None => size[j] = printed[j]

(* Whatever the printer says and whatever failed, no sheet is charged to   *)
(* two jobs by readings of its counter, as long as this one does not go    *)
(* back.                                                                   *)
NoSheetChargedTwice ==
  faults.power = 0 => charged <= printer.counter - conf.counter

(* A printer that was switched off once during the jobs costs or saves a   *)
(* job ten pages at most (the comment at hardware.py:90).                  *)
ErrorBounded ==
  (~conf.lies /\ ~conf.slow /\ conf.mask = {"Jammed"} /\ conf.counter >= 10
     /\ faults.power <= 1
     /\ (conf.protocol = "PJL" => faults.query = 0)
     /\ \A j \in JobIds : asked[j].action = "ALLOW")
  => \A j \in JobIds : size[j] # None => size[j] - printed[j] \in -9 .. 10

(* The wait for the printer ends, and with it the lock on the printer, if  *)
(* noprintingmaxdelay limits it, and no PJL answer is lost.                *)
EveryJobEnds ==
  conf.limited => <>(pc = "hung" \/ (pc = "over" /\ job = Jobs))

(* conf/pykota.conf.sample:712: the printer is idle when the next job      *)
(* starts, since the end of the preceding one was waited for (a printer    *)
(* that tells the truth, starts in time and is always reachable).          *)
PrecedingJobIsOver ==
  (~conf.lies /\ ~conf.slow /\ FaultCount = 0 /\ pc = "size") => printer.due = <<>>

=============================================================================
