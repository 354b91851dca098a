---------------------------- MODULE MCDemoProcess ----------------------------
(***************************************************************************)
(* Instances of DemoProcess for TLC.                                       *)
(***************************************************************************)
EXTENDS DemoProcess

Api(dev, prefer, memoryOnly, fed, asked) ==
  [kind |-> "api", dev |-> dev, feeder |-> memoryOnly, prefer |-> prefer,
   memoryOnly |-> memoryOnly, rto |-> TRUE, fed |-> fed, asked |-> asked]

Scheduler(prefer) ==
  [kind |-> "scheduler", dev |-> FALSE, feeder |-> FALSE, prefer |-> prefer,
   memoryOnly |-> FALSE, rto |-> TRUE, fed |-> FALSE, asked |-> FALSE]

\* The quick start with a database, for a unit it feeds and for one it does not, and without
\* a database; an API worker in production that prefers demo memory; the stand-alone scheduler
\* with and without demo memory.
Processes ==
  {Api(TRUE, FALSE, FALSE, TRUE, FALSE), Api(TRUE, FALSE, FALSE, FALSE, FALSE),
   Api(FALSE, TRUE, TRUE, TRUE, TRUE), Api(FALSE, TRUE, FALSE, FALSE, TRUE),
   Scheduler(TRUE), Scheduler(FALSE)}

\* The quick start with a database, and with users.
QuickStart == {Api(TRUE, FALSE, FALSE, TRUE, TRUE)}

Always == 1 .. MaxVersion
=============================================================================
