------------------------------- MODULE Connect -------------------------------
(***************************************************************************)
(* How the four programs come to be connected: the constructors of Server, *)
(* ServerTrusted and Client and connect_to_client, started by src/run.sh.  *)
(* Nobody retries: a connect() that finds nobody listening ends its        *)
(* program, so that everything rests on the sleep() calls.                 *)
(*                                                                         *)
(* Time passes in ticks, the same for all programs.  A call that can       *)
(* return does so within pace.lag ticks.                                   *)
(***************************************************************************)
EXTENDS Integers, Sequences

CONSTANTS
  Second,   \* ticks in a second
  Lags,     \* ticks by which a call that could return may be late
  GenTimes  \* ticks a server may need to generate its database

ASSUME ConnectAssumption ==
  /\ Second \in Nat \ {0}
  /\ Lags \subseteq Nat /\ Lags # {}
  /\ GenTimes \subseteq Nat /\ GenTimes # {}

Program == {"p0", "p1", "p2", "c"}

VARIABLES
  calls,      \* calls[p]: the calls p has still to make to be connected
  rest,       \* rest[p]: ticks p still sleeps, or has still to be started
  slack,      \* slack[p]: ticks for which its next call could have returned
  listening,  \* listening[p]: ports on which p listens
  queued,     \* ports with a connection nobody has accepted yet
  exited,     \* programs that called exit(1)
  pace        \* how late calls may be, and how long the servers' databases
              \* take, in this start of the programs

setupVars == <<calls, rest, slack, listening, queued, exited, pace>>
-----------------------------------------------------------------------------
(***************************************************************************)
(* The calls of the programs.  A listening socket is opened after the      *)
(* connection before it was accepted.                                      *)
(***************************************************************************)
Await(port) == <<[do |-> "listen", arg |-> port], [do |-> "accept", arg |-> port]>>
Reach(port) == <<[do |-> "connect", arg |-> port]>>
Sleep(s)    == <<[do |-> "sleep", arg |-> s * Second]>>

ServerNew(ports) == Await(ports[1]) \o Await(ports[2])

TrustedNew(ports) ==
  Reach(ports[1]) \o Sleep(1) \o Reach(ports[2]) \o Sleep(1)
  \o Reach(ports[3]) \o Sleep(1) \o Reach(ports[4])

\* Variant: the constructor leaves out the dealer's second connection.
ClientNewButLast(ports) ==
  Await(ports[1]) \o Await(ports[2]) \o Await(ports[3])
  \o Await(ports[4]) \o Await(ports[5])

ClientNew(ports) ==
  Await(ports[1]) \o Await(ports[2]) \o Await(ports[3])
  \o Await(ports[4]) \o Await(ports[5]) \o Await(ports[6])

\* Variant: no server waits for the other.
ServerToClientAtOnce(id, ports) == Reach(ports[1]) \o Sleep(1) \o Reach(ports[2])

ServerToClient(id, ports) ==
  (IF id # 0 THEN Sleep(3) ELSE <<>>) \o Reach(ports[1]) \o Sleep(1) \o Reach(ports[2])

TrustedToClient(ports) == Sleep(15) \o Reach(ports[1]) \o Sleep(1) \o Reach(ports[2])

CallsOf(p) ==
  CASE p = "p0" -> ServerNew(<<2000, 2001>>) \o ServerToClient(0, <<4000, 4001>>)
    [] p = "p1" -> ServerNew(<<3000, 3001>>) \o ServerToClient(1, <<6000, 6001>>)
    [] p = "p2" -> TrustedNew(<<2000, 2001, 3000, 3001>>) \o TrustedToClient(<<8000, 8001>>)
    [] p = "c"  -> ClientNew(<<4000, 4001, 6000, 6001, 8000, 8001>>)

\* run.sh: the client, a second later p0, three later p1, three later p2.  A
\* server generates its database before it listens.
Generating  == {"p0", "p1"}
StartsAt(p) == CASE p = "c" -> 0 [] p = "p0" -> Second
                 [] p = "p1" -> 4 * Second [] p = "p2" -> 7 * Second

SetupInit ==
  /\ calls = [p \in Program |-> CallsOf(p)]
  /\ pace \in [lag : Lags, gen : [Generating -> GenTimes]]
  /\ rest = [p \in Program |->
               StartsAt(p) + IF p \in Generating THEN pace.gen[p] ELSE 0]
  /\ slack = [p \in Program |-> 0]
  /\ listening = [p \in Program |-> {}]
  /\ queued = {}
  /\ exited = {}
-----------------------------------------------------------------------------
Next1(p) == Head(calls[p])
Awake(p) == p \notin exited /\ rest[p] = 0 /\ calls[p] # <<>>

Makes(p, call) == Awake(p) /\ Next1(p).do = call

\* p's call returns.
Returns(p) ==
  /\ calls' = [calls EXCEPT ![p] = Tail(@)]
  /\ slack' = [slack EXCEPT ![p] = 0]

Listen(p) ==
  /\ Makes(p, "listen")
  /\ listening' = [listening EXCEPT ![p] = @ \cup {Next1(p).arg}]
  /\ Returns(p)
  /\ UNCHANGED <<rest, queued, exited, pace>>

\* Variant: accept() fails, and its result is not looked at.
AcceptNobody(p) ==
  /\ Makes(p, "accept")
  /\ queued' = queued \ {Next1(p).arg}
  /\ Returns(p)
  /\ UNCHANGED <<rest, listening, exited, pace>>

Accept(p) ==
  /\ Makes(p, "accept")
  /\ Next1(p).arg \in queued
  /\ queued' = queued \ {Next1(p).arg}
  /\ Returns(p)
  /\ UNCHANGED <<rest, listening, exited, pace>>

Listener(port) == \E q \in Program : port \in listening[q]

\* Variant: connect() does not wait for an answer.
ConnectUnheard(p) ==
  /\ Makes(p, "connect")
  /\ queued' = queued \cup {Next1(p).arg}
  /\ Returns(p)
  /\ UNCHANGED <<rest, listening, exited, pace>>

\* connect() succeeds as soon as the port is listened on: the connection waits
\* in the listener's queue.
Connect(p) ==
  /\ Makes(p, "connect")
  /\ Listener(Next1(p).arg)
  /\ queued' = queued \cup {Next1(p).arg}
  /\ Returns(p)
  /\ UNCHANGED <<rest, listening, exited, pace>>

\* Otherwise the program exits, and its listening sockets are closed.
Refused(p) ==
  /\ Makes(p, "connect")
  /\ ~Listener(Next1(p).arg)
  /\ exited' = exited \cup {p}
  /\ listening' = [listening EXCEPT ![p] = {}]
  /\ slack' = [slack EXCEPT ![p] = 0]
  /\ UNCHANGED <<calls, rest, queued, pace>>

FallAsleep(p) ==
  /\ Makes(p, "sleep")
  /\ rest' = [rest EXCEPT ![p] = Next1(p).arg]
  /\ Returns(p)
  /\ UNCHANGED <<listening, queued, exited, pace>>

\* Only an accept() with an empty queue blocks.
Ready(p) == Awake(p) /\ (Next1(p).do = "accept" => Next1(p).arg \in queued)

Tick ==
  /\ \E p \in Program : p \notin exited /\ (rest[p] > 0 \/ Ready(p))
  /\ \A p \in Program : Ready(p) => slack[p] < pace.lag
  /\ rest' = [p \in Program |-> IF rest[p] > 0 THEN rest[p] - 1 ELSE 0]
  /\ slack' = [p \in Program |-> IF Ready(p) THEN slack[p] + 1 ELSE 0]
  /\ UNCHANGED <<calls, listening, queued, exited, pace>>

SetupStep(p) == Listen(p) \/ Accept(p) \/ Connect(p) \/ Refused(p) \/ FallAsleep(p)

SetupNext == Tick \/ \E p \in Program : SetupStep(p)

SetupSpec == SetupInit /\ [][SetupNext]_setupVars
-----------------------------------------------------------------------------
Connected(p) == p \notin exited /\ calls[p] = <<>>

(***************************************************************************)
(* Types; nobody is later than may be, and no connection waits at a port   *)
(* on which nobody listens, also after programs have exited.               *)
(***************************************************************************)
SetupTypeOK ==
  /\ \A p \in Program : \E n \in 0 .. Len(CallsOf(p)) :
       calls[p] = SubSeq(CallsOf(p), n + 1, Len(CallsOf(p)))
  /\ rest \in [Program -> Nat]
  /\ slack \in [Program -> 0 .. pace.lag]
  /\ \A port \in queued : Listener(port)
  /\ exited \subseteq Program

(***************************************************************************)
(* When the sleeps suffice: two calls in a row take less than a second and *)
(* a server's database is generated in less than five seconds, a call's    *)
(* lateness included.  Deployment shows that all get connected then.       *)
(***************************************************************************)
InTime == /\ 2 * pace.lag < Second
          /\ \A p \in Generating : pace.gen[p] < 5 * Second - pace.lag

(***************************************************************************)
(* However late anybody is, the client leaves its constructor, and the     *)
(* protocol can complete, only if nobody was refused anywhere: its last    *)
(* accept implies all the connections between the other programs.          *)
(***************************************************************************)
OnlyTogether == Connected("c") => \A p \in Program : calls[p] = <<>> /\ p \notin exited
=============================================================================
