----------------------------- MODULE Deployment -----------------------------
(***************************************************************************)
(* The whole system as src/run.sh starts it: the four programs get         *)
(* connected as Connect says and talk to each other as PirSession says,    *)
(* each as soon as its own connections are made, while others may still be *)
(* sleeping, generating a database or connecting.                          *)
(*                                                                         *)
(* A connection exists from the moment connect() returned, so that bytes   *)
(* can be sent to a program that has not accepted it yet.  A program whose *)
(* connect() was refused exits, which for its peers is the end of file of  *)
(* a program that died.  Nobody is killed from outside here: MaxCrashes of *)
(* PirSession is 0.                                                        *)
(***************************************************************************)
EXTENDS Connect, PirSession

deployVars == <<setupVars, vars>>

DeployInit == SetupInit /\ Init

\* Time passes, or p makes the next call of its set-up.
PassTime == Tick /\ UNCHANGED vars

SetUp(p) ==
  /\ Listen(p) \/ Accept(p) \/ Connect(p) \/ FallAsleep(p)
  /\ UNCHANGED vars

\* The constructor calls exit(1): the program is gone for everybody.
Exit(p) ==
  /\ Refused(p)
  /\ status' = [status EXCEPT ![p] = "died"]
  /\ UNCHANGED <<todo, channel, sizes, accept, verdict, counted, crashes>>

\* main() goes on when the constructor and connect_to_client have returned.
Talk(p) ==
  /\ Connected(p)
  /\ Step(p)
  /\ UNCHANGED setupVars

DeployStep(p) == SetUp(p) \/ Exit(p) \/ Talk(p)

DeployNext == PassTime \/ \E p \in Process : DeployStep(p)

DeploySpec == DeployInit /\ [][DeployNext]_deployVars

\* Time goes on, and the operating system runs every program.
DeployFairness == /\ WF_deployVars(PassTime)
                  /\ \A p \in Process : WF_deployVars(DeployStep(p))
DeployFairSpec == DeploySpec /\ DeployFairness
-----------------------------------------------------------------------------
Ended(p) == status[p] = "ended"

(***************************************************************************)
(* However late anybody was, the client gives a verdict, and a server      *)
(* believes to have read one, only after every connection between any two  *)
(* of the four programs was made and accepted: the dealer's keys came from *)
(* the dealer, none was made up at the end of file of a program that was   *)
(* refused.                                                                *)
(***************************************************************************)
VerdictOnlyTogether ==
  verdict # Unread \/ (\E p \in Server : accept[p] # Unread)
    => \A p \in Process : Connected(p)

(***************************************************************************)
(* Nobody finishes alone: when one program has returned from main(), none  *)
(* was refused and none has died of an end of file or a broken pipe, now   *)
(* or later.                                                               *)
(***************************************************************************)
AllOrNothing ==
  (\E p \in Process : Ended(p)) => \A p \in Process : status[p] # "died"

(***************************************************************************)
(* If calls and databases are in time, all four programs return, the       *)
(* client with a verdict both servers have read.                           *)
(***************************************************************************)
Completes ==
  InTime => <>(/\ \A p \in Process : Ended(p)
               /\ \A p \in Server : accept[p] = verdict
               /\ verdict # Unread)

(***************************************************************************)
(* If somebody was refused, the client never comes out of its constructor: *)
(* it waits for a connection nobody will make, because no accept() has a   *)
(* timeout, and has to be stopped by hand.                                 *)
(***************************************************************************)
ClientLeftWaiting ==
  [](exited # {} => [](status["c"] = "running" /\ ~Connected("c")))
=============================================================================
