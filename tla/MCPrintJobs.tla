---------------------------- MODULE MCPrintJobs ----------------------------
(***************************************************************************)
(* Instances of PrintJobs for TLC.  Each scenario is a handful of jobs, a  *)
(* topology and a set of configurations; the configuration files pick one  *)
(* scenario each.                                                          *)
(***************************************************************************)
EXTENDS PrintJobs, TLC

CONSTANTS j1, j2, j3, u1, u2, p1, p2, g1, d1, d2, c1

(* A job of the given user, printer, precomputed size and checksum. *)
Job(u, p, n, md5) == [user |-> u, printer |-> p, size |-> n, sum |-> md5,
                      code |-> None, empty |-> FALSE]
WithCode(job) == [job EXCEPT !.code = c1]

(* The defaults of the configuration, and what a scenario changes in them. *)
Plain == [accounter |-> "software", policy |-> "DENY", enforcement |-> "LAXIST",
          onbackenderror |-> {"NOCHARGE"}, retry |-> 1, accountbanner |-> "NONE",
          maxdenybanners |-> 1, avoidduplicates |-> "NO", cancelledbanners |-> TRUE,
          denyduplicates |-> "NO", unknowncode |-> "CREATE", passthrough |-> FALSE,
          trustlimit |-> NoLimit, trustvalue |-> NoLimit]
Strict   == [Plain EXCEPT !.enforcement = "STRICT"]
Hardware == [Plain EXCEPT !.accounter = "hardware", !.onbackenderror = {"CHARGE"}]

Unlimited == [soft |-> NoLimit, hard |-> NoLimit, max |-> NoLimit]
NoLimits  == [u \in Users |-> [p \in Printers |-> Unlimited]]
Tight     == [u \in Users |-> [p \in Printers |-> [soft |-> 1, hard |-> 3, max |-> 2]]]

Everyone  == [p \in Printers |-> Users]
NoGroups  == [p \in Printers |-> {}]
OneDevice == [p \in Printers |-> d1]
AnySize   == [p \in Printers |-> 0]
OneCredit == [p \in Printers |-> 1]
Free      == [p \in Printers |-> 0]
Penniless == [u \in Users |-> 0]
ByQuota   == [u \in Users |-> [limitby |-> "quota", overcharge |-> 1]]
ByBalance == [u \in Users |-> [limitby |-> "balance", overcharge |-> 1]]
NoQuota   == [u \in Users |-> [limitby |-> "noquota", overcharge |-> 1]]

-----------------------------------------------------------------------------
(* Two devices: one user sends jobs to two printers of the same group, with *)
(* credits for one of them only.                                           *)

TwoDevices_Ticket    == j1 :> Job(u1, p1, 2, 0) @@ j2 :> WithCode(Job(u1, p2, 1, 1))
TwoDevices_DeviceOf  == p1 :> d1 @@ p2 :> d2 @@ g1 :> d2
TwoDevices_Ancestors == p1 :> {g1} @@ p2 :> {g1} @@ g1 :> {}
TwoDevices_Balance   == u1 :> 4
TwoDevices_Confs     == {Strict, [Strict EXCEPT !.onbackenderror = {"CHARGE"}, !.unknowncode = "DENY"],
                         [Plain EXCEPT !.accountbanner = "BOTH"]}
TwoDevices_JobFee    == p1 :> 0 @@ p2 :> 1 @@ g1 :> 0

-----------------------------------------------------------------------------
(* One queue: an user sends the same file again and again, with small      *)
(* limits, deny banners and billing codes.                                 *)

OneQueue_Ticket == j1 :> Job(u1, p1, 1, 0) @@ j2 :> WithCode(Job(u1, p1, 2, 0))
                   @@ j3 :> Job(u1, p1, 1, 0)
OneQueue_Confs  ==
  {Strict,
   [Strict EXCEPT !.denyduplicates = "YES", !.accountbanner = "STARTING", !.maxdenybanners = 2],
   [Plain EXCEPT !.denyduplicates = "COMMAND", !.accountbanner = "ENDING", !.unknowncode = "DENY"],
   [Plain EXCEPT !.avoidduplicates = "DELAY", !.policy = "EXTERNAL", !.accountbanner = "BOTH"]}

-----------------------------------------------------------------------------
(* Policies: two queues of the same device, users without a quota entry,   *)
(* real backends that fail and are retried, jobs that are empty, cancelled *)
(* or killed at any time, hardware and software accounters.                *)

Policies_Ticket == j1 :> Job(u1, p1, 1, 0) @@ j2 :> Job(u2, p2, 1, 1)
                   @@ j3 :> [Job(u2, p1, 1, 2) EXCEPT !.empty = TRUE]
Policies_Registered == p1 :> {u2} @@ p2 :> {u2}
Policies_Confs  == {[Plain EXCEPT !.policy = "EXTERNAL", !.retry = 2], [Plain EXCEPT !.policy = "ALLOW"],
                    [Plain EXCEPT !.retry = 2, !.passthrough = TRUE],
                    [Hardware EXCEPT !.accountbanner = "BOTH"]}

=============================================================================
