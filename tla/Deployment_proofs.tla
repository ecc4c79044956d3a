-------------------------- MODULE Deployment_proofs --------------------------
(***************************************************************************)
(* Proofs about Connect, PirSession and Deployment, for every lateness of  *)
(* the calls, every size of the buffers and every time at which a program  *)
(* dies.                                                                   *)
(***************************************************************************)
EXTENDS Deployment, NumberLemmas, SequenceTheorems, TLAPS

(***************************************************************************)
(* What is left of a sequence after its first n elements.                  *)
(***************************************************************************)
LEMMA SuffixFacts ==
  ASSUME NEW S, NEW s \in Seq(S), NEW n \in 0 .. Len(s), NEW t, t = SubSeq(s, n + 1, Len(s))
  PROVE  /\ t \in Seq(S) /\ Len(t) = Len(s) - n
         /\ t = <<>> <=> n = Len(s)
         /\ n < Len(s) => Head(t) = s[n + 1] /\ Tail(t) = SubSeq(s, (n + 1) + 1, Len(s))
<1> DEFINE m == n + 1
<1>1. Len(s) \in Nat /\ m \in 1 .. Len(s) + 1 /\ \A i \in m .. Len(s) : s[i] \in S
  BY ElementOfSeq
<1>2. /\ SubSeq(s, m, Len(s)) \in Seq(S)
      /\ Len(SubSeq(s, m, Len(s))) = IF m <= Len(s) THEN Len(s) - m + 1 ELSE 0
  <2> HIDE DEF m
  <2>1. QED
    BY <1>1, SubSeqProperties
<1>3. t \in Seq(S) /\ Len(t) = Len(s) - n
  BY <1>1, <1>2
<1>4. t = <<>> <=> n = Len(s)
  <2>1. t = <<>> <=> Len(t) = 0
    BY <1>3, EmptySeq
  <2>2. QED
    BY <2>1, <1>1, <1>3
<1>5. ASSUME n < Len(s)
      PROVE  Head(t) = s[n + 1] /\ Tail(t) = SubSeq(s, (n + 1) + 1, Len(s))
  <2>1. m \in 1 .. Len(s) /\ Len(s) \in m .. Len(s)
    BY <1>1, <1>5
  <2> HIDE DEF m
  <2>2. Head(SubSeq(s, m, Len(s))) = s[m] /\ Tail(SubSeq(s, m, Len(s))) = SubSeq(s, m + 1, Len(s))
    BY <2>1, HeadTailOfSubSeq
  <2>3. QED
    BY <2>2 DEF m
<1>6. QED
  BY <1>3, <1>4, <1>5
-----------------------------------------------------------------------------
(***************************************************************************)
(* The ten ports: who accepts and who connects there, at which call.       *)
(***************************************************************************)
Port == {2000, 2001, 3000, 3001, 4000, 4001, 6000, 6001, 8000, 8001}

Acceptor(port) ==
  IF port \in {2000, 2001} THEN "p0" ELSE IF port \in {3000, 3001} THEN "p1" ELSE "c"
AcceptAt(port) ==
  IF port \in {2000, 3000, 4000} THEN 2 ELSE IF port \in {2001, 3001, 4001} THEN 4
  ELSE IF port = 6000 THEN 6 ELSE IF port = 6001 THEN 8 ELSE IF port = 8000 THEN 10 ELSE 12
Connector(port) ==
  IF port \in {4000, 4001} THEN "p0" ELSE IF port \in {6000, 6001} THEN "p1" ELSE "p2"
ConnectAt(port) ==
  IF port = 2000 THEN 1 ELSE IF port = 2001 THEN 3 ELSE IF port \in {3000, 4000} THEN 5
  ELSE IF port = 6000 THEN 6 ELSE IF port \in {3001, 4001} THEN 7 ELSE IF port = 6001 THEN 8
  ELSE IF port = 8000 THEN 9 ELSE 11

MakeCall(call, arg) == [do |-> call, arg |-> arg]

ACall == [do : {"listen", "accept", "connect", "sleep"}, arg : Nat]

LEMMA P0Calls ==
  LET s == CallsOf("p0") IN
  /\ s \in Seq(ACall) /\ Len(s) = 7
  /\ s[1] = MakeCall("listen", 2000) /\ s[2] = MakeCall("accept", 2000)
  /\ s[3] = MakeCall("listen", 2001) /\ s[4] = MakeCall("accept", 2001)
  /\ s[5] = MakeCall("connect", 4000) /\ s[6] = MakeCall("sleep", 1 * Second)
  /\ s[7] = MakeCall("connect", 4001)
<1>1. CallsOf("p0") \in Seq(ACall) /\ Len(CallsOf("p0")) = 7
  BY ConnectAssumption DEF CallsOf, ServerNew, Await, ServerToClient, Reach, Sleep, ACall
<1>2. QED
  BY <1>1 DEF CallsOf, ServerNew, Await, ServerToClient, Reach, Sleep, MakeCall

LEMMA P1Calls ==
  LET s == CallsOf("p1") IN
  /\ s \in Seq(ACall) /\ Len(s) = 8
  /\ s[1] = MakeCall("listen", 3000) /\ s[2] = MakeCall("accept", 3000)
  /\ s[3] = MakeCall("listen", 3001) /\ s[4] = MakeCall("accept", 3001)
  /\ s[5] = MakeCall("sleep", 3 * Second) /\ s[6] = MakeCall("connect", 6000)
  /\ s[7] = MakeCall("sleep", 1 * Second) /\ s[8] = MakeCall("connect", 6001)
<1>1. CallsOf("p1") \in Seq(ACall) /\ Len(CallsOf("p1")) = 8
  BY ConnectAssumption DEF CallsOf, ServerNew, Await, ServerToClient, Reach, Sleep, ACall
<1>2. QED
  BY <1>1 DEF CallsOf, ServerNew, Await, ServerToClient, Reach, Sleep, MakeCall

LEMMA P2Calls ==
  LET s == CallsOf("p2") IN
  /\ s \in Seq(ACall) /\ Len(s) = 11
  /\ s[1] = MakeCall("connect", 2000) /\ s[2] = MakeCall("sleep", 1 * Second)
  /\ s[3] = MakeCall("connect", 2001) /\ s[4] = MakeCall("sleep", 1 * Second)
  /\ s[5] = MakeCall("connect", 3000) /\ s[6] = MakeCall("sleep", 1 * Second)
  /\ s[7] = MakeCall("connect", 3001) /\ s[8] = MakeCall("sleep", 15 * Second)
  /\ s[9] = MakeCall("connect", 8000) /\ s[10] = MakeCall("sleep", 1 * Second)
  /\ s[11] = MakeCall("connect", 8001)
<1>1. CallsOf("p2") \in Seq(ACall) /\ Len(CallsOf("p2")) = 11
  BY ConnectAssumption DEF CallsOf, TrustedNew, TrustedToClient, Reach, Sleep, ACall
<1>2. QED
  BY <1>1 DEF CallsOf, TrustedNew, TrustedToClient, Reach, Sleep, MakeCall

\* What CallsOf chooses.
ByProgram(p, s0, s1, s2, sc) ==
  CASE p = "p0" -> s0 [] p = "p1" -> s1 [] p = "p2" -> s2 [] p = "c" -> sc

LEMMA ClientIs == CallsOf("c") = ClientNew(<<4000, 4001, 6000, 6001, 8000, 8001>>)
<1>1. \A p, s0, s1, s2, sc : p = "c" => ByProgram(p, s0, s1, s2, sc) = sc
  BY Zenon DEF ByProgram
<1>2. CallsOf("c") =
        ByProgram("c", ServerNew(<<2000, 2001>>) \o ServerToClient(0, <<4000, 4001>>),
                  ServerNew(<<3000, 3001>>) \o ServerToClient(1, <<6000, 6001>>),
                  TrustedNew(<<2000, 2001, 3000, 3001>>) \o TrustedToClient(<<8000, 8001>>),
                  ClientNew(<<4000, 4001, 6000, 6001, 8000, 8001>>))
  BY DEF CallsOf, ByProgram
<1>3. QED
  BY <1>1, <1>2, SMT

LEMMA ClientCalls ==
  LET s == CallsOf("c") IN
  /\ s \in Seq(ACall) /\ Len(s) = 12
  /\ s[1] = MakeCall("listen", 4000) /\ s[2] = MakeCall("accept", 4000)
  /\ s[3] = MakeCall("listen", 4001) /\ s[4] = MakeCall("accept", 4001)
  /\ s[5] = MakeCall("listen", 6000) /\ s[6] = MakeCall("accept", 6000)
  /\ s[7] = MakeCall("listen", 6001) /\ s[8] = MakeCall("accept", 6001)
  /\ s[9] = MakeCall("listen", 8000) /\ s[10] = MakeCall("accept", 8000)
  /\ s[11] = MakeCall("listen", 8001) /\ s[12] = MakeCall("accept", 8001)
<1> DEFINE t == ClientNew(<<4000, 4001, 6000, 6001, 8000, 8001>>)
<1>1. t \in Seq(ACall) /\ Len(t) = 12
  BY DEF ClientNew, Await, ACall
<1>2. /\ t[1] = MakeCall("listen", 4000) /\ t[2] = MakeCall("accept", 4000)
      /\ t[3] = MakeCall("listen", 4001) /\ t[4] = MakeCall("accept", 4001)
      /\ t[5] = MakeCall("listen", 6000) /\ t[6] = MakeCall("accept", 6000)
      /\ t[7] = MakeCall("listen", 6001) /\ t[8] = MakeCall("accept", 6001)
      /\ t[9] = MakeCall("listen", 8000) /\ t[10] = MakeCall("accept", 8000)
      /\ t[11] = MakeCall("listen", 8001) /\ t[12] = MakeCall("accept", 8001)
  BY DEF ClientNew, Await, MakeCall
<1> DEFINE Fits(u) == /\ u \in Seq(ACall) /\ Len(u) = 12
                      /\ u[1] = MakeCall("listen", 4000) /\ u[2] = MakeCall("accept", 4000)
                      /\ u[3] = MakeCall("listen", 4001) /\ u[4] = MakeCall("accept", 4001)
                      /\ u[5] = MakeCall("listen", 6000) /\ u[6] = MakeCall("accept", 6000)
                      /\ u[7] = MakeCall("listen", 6001) /\ u[8] = MakeCall("accept", 6001)
                      /\ u[9] = MakeCall("listen", 8000) /\ u[10] = MakeCall("accept", 8000)
                      /\ u[11] = MakeCall("listen", 8001) /\ u[12] = MakeCall("accept", 8001)
<1>3. Fits(t)
  BY <1>1, <1>2
<1> HIDE DEF t, Fits
<1>4. CallsOf("c") = t
  BY ClientIs DEF t
<1>5. Fits(CallsOf("c"))
  BY <1>3, <1>4
<1>6. QED
  BY <1>5 DEF Fits

\* Each port's entries in the tables.
LEMMA PortTable ==
  ASSUME NEW port \in Port
  PROVE  /\ Acceptor(port) \in Program /\ Connector(port) \in Program
         /\ AcceptAt(port) \in 2 .. 12 /\ ConnectAt(port) \in 1 .. 11
         /\ \A other \in Port : Acceptor(other) = Connector(port) => AcceptAt(other) < ConnectAt(port)
  BY DEF Port, Acceptor, Connector, AcceptAt, ConnectAt, Program

\* The calls of each port.
LEMMA PortCalls ==
  ASSUME NEW port \in Port
  PROVE  /\ AcceptAt(port) <= Len(CallsOf(Acceptor(port)))
         /\ ConnectAt(port) <= Len(CallsOf(Connector(port)))
         /\ CallsOf(Acceptor(port))[AcceptAt(port)] = MakeCall("accept", port)
         /\ CallsOf(Connector(port))[ConnectAt(port)] = MakeCall("connect", port)
<1>0. port = 2000 \/ port = 2001 \/ port = 3000 \/ port = 3001 \/ port = 4000
      \/ port = 4001 \/ port = 6000 \/ port = 6001 \/ port = 8000 \/ port = 8001
  BY DEF Port
<1>1. CASE port = 2000
  <2>1. /\ Acceptor(2000) = "p0" /\ AcceptAt(2000) = 2
        /\ Connector(2000) = "p2" /\ ConnectAt(2000) = 1
    BY DEF Acceptor, AcceptAt, Connector, ConnectAt
  <2>2. /\ AcceptAt(port) <= Len(CallsOf(Acceptor(port)))
        /\ CallsOf(Acceptor(port))[AcceptAt(port)] = MakeCall("accept", port)
    BY <1>1, <2>1, P0Calls
  <2>3. /\ ConnectAt(port) <= Len(CallsOf(Connector(port)))
        /\ CallsOf(Connector(port))[ConnectAt(port)] = MakeCall("connect", port)
    BY <1>1, <2>1, P2Calls
  <2>4. QED
    BY <2>2, <2>3
<1>2. CASE port = 2001
  <2>1. /\ Acceptor(2001) = "p0" /\ AcceptAt(2001) = 4
        /\ Connector(2001) = "p2" /\ ConnectAt(2001) = 3
    BY DEF Acceptor, AcceptAt, Connector, ConnectAt
  <2>2. /\ AcceptAt(port) <= Len(CallsOf(Acceptor(port)))
        /\ CallsOf(Acceptor(port))[AcceptAt(port)] = MakeCall("accept", port)
    BY <1>2, <2>1, P0Calls
  <2>3. /\ ConnectAt(port) <= Len(CallsOf(Connector(port)))
        /\ CallsOf(Connector(port))[ConnectAt(port)] = MakeCall("connect", port)
    BY <1>2, <2>1, P2Calls
  <2>4. QED
    BY <2>2, <2>3
<1>3. CASE port = 3000
  <2>1. /\ Acceptor(3000) = "p1" /\ AcceptAt(3000) = 2
        /\ Connector(3000) = "p2" /\ ConnectAt(3000) = 5
    BY DEF Acceptor, AcceptAt, Connector, ConnectAt
  <2>2. /\ AcceptAt(port) <= Len(CallsOf(Acceptor(port)))
        /\ CallsOf(Acceptor(port))[AcceptAt(port)] = MakeCall("accept", port)
    BY <1>3, <2>1, P1Calls
  <2>3. /\ ConnectAt(port) <= Len(CallsOf(Connector(port)))
        /\ CallsOf(Connector(port))[ConnectAt(port)] = MakeCall("connect", port)
    BY <1>3, <2>1, P2Calls
  <2>4. QED
    BY <2>2, <2>3
<1>4. CASE port = 3001
  <2>1. /\ Acceptor(3001) = "p1" /\ AcceptAt(3001) = 4
        /\ Connector(3001) = "p2" /\ ConnectAt(3001) = 7
    BY DEF Acceptor, AcceptAt, Connector, ConnectAt
  <2>2. /\ AcceptAt(port) <= Len(CallsOf(Acceptor(port)))
        /\ CallsOf(Acceptor(port))[AcceptAt(port)] = MakeCall("accept", port)
    BY <1>4, <2>1, P1Calls
  <2>3. /\ ConnectAt(port) <= Len(CallsOf(Connector(port)))
        /\ CallsOf(Connector(port))[ConnectAt(port)] = MakeCall("connect", port)
    BY <1>4, <2>1, P2Calls
  <2>4. QED
    BY <2>2, <2>3
<1>5. CASE port = 4000
  <2>1. /\ Acceptor(4000) = "c" /\ AcceptAt(4000) = 2
        /\ Connector(4000) = "p0" /\ ConnectAt(4000) = 5
    BY DEF Acceptor, AcceptAt, Connector, ConnectAt
  <2>2. /\ AcceptAt(port) <= Len(CallsOf(Acceptor(port)))
        /\ CallsOf(Acceptor(port))[AcceptAt(port)] = MakeCall("accept", port)
    BY <1>5, <2>1, ClientCalls
  <2>3. /\ ConnectAt(port) <= Len(CallsOf(Connector(port)))
        /\ CallsOf(Connector(port))[ConnectAt(port)] = MakeCall("connect", port)
    BY <1>5, <2>1, P0Calls
  <2>4. QED
    BY <2>2, <2>3
<1>6. CASE port = 4001
  <2>1. /\ Acceptor(4001) = "c" /\ AcceptAt(4001) = 4
        /\ Connector(4001) = "p0" /\ ConnectAt(4001) = 7
    BY DEF Acceptor, AcceptAt, Connector, ConnectAt
  <2>2. /\ AcceptAt(port) <= Len(CallsOf(Acceptor(port)))
        /\ CallsOf(Acceptor(port))[AcceptAt(port)] = MakeCall("accept", port)
    BY <1>6, <2>1, ClientCalls
  <2>3. /\ ConnectAt(port) <= Len(CallsOf(Connector(port)))
        /\ CallsOf(Connector(port))[ConnectAt(port)] = MakeCall("connect", port)
    BY <1>6, <2>1, P0Calls
  <2>4. QED
    BY <2>2, <2>3
<1>7. CASE port = 6000
  <2>1. /\ Acceptor(6000) = "c" /\ AcceptAt(6000) = 6
        /\ Connector(6000) = "p1" /\ ConnectAt(6000) = 6
    BY DEF Acceptor, AcceptAt, Connector, ConnectAt
  <2>2. /\ AcceptAt(port) <= Len(CallsOf(Acceptor(port)))
        /\ CallsOf(Acceptor(port))[AcceptAt(port)] = MakeCall("accept", port)
    BY <1>7, <2>1, ClientCalls
  <2>3. /\ ConnectAt(port) <= Len(CallsOf(Connector(port)))
        /\ CallsOf(Connector(port))[ConnectAt(port)] = MakeCall("connect", port)
    BY <1>7, <2>1, P1Calls
  <2>4. QED
    BY <2>2, <2>3
<1>8. CASE port = 6001
  <2>1. /\ Acceptor(6001) = "c" /\ AcceptAt(6001) = 8
        /\ Connector(6001) = "p1" /\ ConnectAt(6001) = 8
    BY DEF Acceptor, AcceptAt, Connector, ConnectAt
  <2>2. /\ AcceptAt(port) <= Len(CallsOf(Acceptor(port)))
        /\ CallsOf(Acceptor(port))[AcceptAt(port)] = MakeCall("accept", port)
    BY <1>8, <2>1, ClientCalls
  <2>3. /\ ConnectAt(port) <= Len(CallsOf(Connector(port)))
        /\ CallsOf(Connector(port))[ConnectAt(port)] = MakeCall("connect", port)
    BY <1>8, <2>1, P1Calls
  <2>4. QED
    BY <2>2, <2>3
<1>9. CASE port = 8000
  <2>1. /\ Acceptor(8000) = "c" /\ AcceptAt(8000) = 10
        /\ Connector(8000) = "p2" /\ ConnectAt(8000) = 9
    BY DEF Acceptor, AcceptAt, Connector, ConnectAt
  <2>2. /\ AcceptAt(port) <= Len(CallsOf(Acceptor(port)))
        /\ CallsOf(Acceptor(port))[AcceptAt(port)] = MakeCall("accept", port)
    BY <1>9, <2>1, ClientCalls
  <2>3. /\ ConnectAt(port) <= Len(CallsOf(Connector(port)))
        /\ CallsOf(Connector(port))[ConnectAt(port)] = MakeCall("connect", port)
    BY <1>9, <2>1, P2Calls
  <2>4. QED
    BY <2>2, <2>3
<1>10. CASE port = 8001
  <2>1. /\ Acceptor(8001) = "c" /\ AcceptAt(8001) = 12
        /\ Connector(8001) = "p2" /\ ConnectAt(8001) = 11
    BY DEF Acceptor, AcceptAt, Connector, ConnectAt
  <2>2. /\ AcceptAt(port) <= Len(CallsOf(Acceptor(port)))
        /\ CallsOf(Acceptor(port))[AcceptAt(port)] = MakeCall("accept", port)
    BY <1>10, <2>1, ClientCalls
  <2>3. /\ ConnectAt(port) <= Len(CallsOf(Connector(port)))
        /\ CallsOf(Connector(port))[ConnectAt(port)] = MakeCall("connect", port)
    BY <1>10, <2>1, P2Calls
  <2>4. QED
    BY <2>2, <2>3
<1>11. QED
  BY <1>0, <1>1, <1>2, <1>3, <1>4, <1>5, <1>6, <1>7, <1>8, <1>9, <1>10

\* The port of each call.
CallFits(p, i, call) ==
  /\ call \in ACall
  /\ call.do = "listen" => call.arg \in Port /\ Acceptor(call.arg) = p /\ AcceptAt(call.arg) = i + 1
  /\ call.do = "accept" => call.arg \in Port /\ Acceptor(call.arg) = p /\ AcceptAt(call.arg) = i
  /\ call.do = "connect" => call.arg \in Port /\ Connector(call.arg) = p /\ ConnectAt(call.arg) = i

LEMMA PortFits ==
  /\ \A port \in Port : CallFits(Acceptor(port), AcceptAt(port), MakeCall("accept", port))
  /\ \A port \in Port : CallFits(Connector(port), ConnectAt(port), MakeCall("connect", port))
  /\ \A port \in Port : \A i : AcceptAt(port) = i + 1 => CallFits(Acceptor(port), i, MakeCall("listen", port))
  /\ \A s \in Nat : \A p, i : CallFits(p, i, MakeCall("sleep", s))
<1>1. Port \subseteq Nat
  BY DEF Port
<1>2. QED
  BY <1>1 DEF CallFits, MakeCall, ACall

LEMMA CallPorts ==
  ASSUME NEW p \in Program, NEW i \in 1 .. Len(CallsOf(p))
  PROVE  CallFits(p, i, CallsOf(p)[i])
<1>0. Port \subseteq Nat /\ 1 * Second \in Nat /\ 3 * Second \in Nat /\ 15 * Second \in Nat
  BY ConnectAssumption DEF Port
<1>1. ASSUME p = "p0"
      PROVE  CallFits(p, i, CallsOf(p)[i])
  <2> DEFINE s == CallsOf("p0")
  <2>1. /\ {2000, 2001, 4000, 4001} \subseteq Port
        /\ Acceptor(2000) = "p0" /\ AcceptAt(2000) = 2
        /\ Acceptor(2001) = "p0" /\ AcceptAt(2001) = 4
        /\ Connector(4000) = "p0" /\ ConnectAt(4000) = 5
        /\ Connector(4001) = "p0" /\ ConnectAt(4001) = 7
    BY DEF Port, Acceptor, AcceptAt, Connector, ConnectAt
  <2>2. /\ CallFits("p0", 1, MakeCall("listen", 2000))
        /\ CallFits("p0", 2, MakeCall("accept", 2000))
        /\ CallFits("p0", 3, MakeCall("listen", 2001))
        /\ CallFits("p0", 4, MakeCall("accept", 2001))
        /\ CallFits("p0", 5, MakeCall("connect", 4000))
        /\ CallFits("p0", 6, MakeCall("sleep", 1 * Second))
        /\ CallFits("p0", 7, MakeCall("connect", 4001))
    BY <1>0, <2>1, PortFits
  <2>3. i = 1 \/ i = 2 \/ i = 3 \/ i = 4 \/ i = 5 \/ i = 6 \/ i = 7
    <3>1. Len(CallsOf(p)) = 7
      BY <1>1, P0Calls
    <3>2. i \in 1 .. 7
      BY <3>1
    <3>3. QED
      BY <3>2
  <2>4. /\ s[1] = MakeCall("listen", 2000)
        /\ s[2] = MakeCall("accept", 2000)
        /\ s[3] = MakeCall("listen", 2001)
        /\ s[4] = MakeCall("accept", 2001)
        /\ s[5] = MakeCall("connect", 4000)
        /\ s[6] = MakeCall("sleep", 1 * Second)
        /\ s[7] = MakeCall("connect", 4001)
    BY P0Calls
  <2> HIDE DEF s
  <2>5. /\ CallFits("p0", 1, s[1]) /\ CallFits("p0", 2, s[2]) /\ CallFits("p0", 3, s[3])
        /\ CallFits("p0", 4, s[4]) /\ CallFits("p0", 5, s[5]) /\ CallFits("p0", 6, s[6])
        /\ CallFits("p0", 7, s[7])
    BY <2>2, <2>4
  <2>6. CallFits("p0", i, s[i])
    BY <2>3, <2>5
  <2>7. QED
    BY <1>1, <2>6 DEF s
<1>2. ASSUME p = "p1"
      PROVE  CallFits(p, i, CallsOf(p)[i])
  <2> DEFINE s == CallsOf("p1")
  <2>1. /\ {3000, 3001, 6000, 6001} \subseteq Port
        /\ Acceptor(3000) = "p1" /\ AcceptAt(3000) = 2
        /\ Acceptor(3001) = "p1" /\ AcceptAt(3001) = 4
        /\ Connector(6000) = "p1" /\ ConnectAt(6000) = 6
        /\ Connector(6001) = "p1" /\ ConnectAt(6001) = 8
    BY DEF Port, Acceptor, AcceptAt, Connector, ConnectAt
  <2>2. /\ CallFits("p1", 1, MakeCall("listen", 3000))
        /\ CallFits("p1", 2, MakeCall("accept", 3000))
        /\ CallFits("p1", 3, MakeCall("listen", 3001))
        /\ CallFits("p1", 4, MakeCall("accept", 3001))
        /\ CallFits("p1", 5, MakeCall("sleep", 3 * Second))
        /\ CallFits("p1", 6, MakeCall("connect", 6000))
        /\ CallFits("p1", 7, MakeCall("sleep", 1 * Second))
        /\ CallFits("p1", 8, MakeCall("connect", 6001))
    BY <1>0, <2>1, PortFits
  <2>3. i = 1 \/ i = 2 \/ i = 3 \/ i = 4 \/ i = 5 \/ i = 6 \/ i = 7
        \/ i = 8
    <3>1. Len(CallsOf(p)) = 8
      BY <1>2, P1Calls
    <3>2. i \in 1 .. 8
      BY <3>1
    <3>3. QED
      BY <3>2
  <2>4. /\ s[1] = MakeCall("listen", 3000)
        /\ s[2] = MakeCall("accept", 3000)
        /\ s[3] = MakeCall("listen", 3001)
        /\ s[4] = MakeCall("accept", 3001)
        /\ s[5] = MakeCall("sleep", 3 * Second)
        /\ s[6] = MakeCall("connect", 6000)
        /\ s[7] = MakeCall("sleep", 1 * Second)
        /\ s[8] = MakeCall("connect", 6001)
    BY P1Calls
  <2> HIDE DEF s
  <2>5. /\ CallFits("p1", 1, s[1]) /\ CallFits("p1", 2, s[2]) /\ CallFits("p1", 3, s[3])
        /\ CallFits("p1", 4, s[4]) /\ CallFits("p1", 5, s[5]) /\ CallFits("p1", 6, s[6])
        /\ CallFits("p1", 7, s[7]) /\ CallFits("p1", 8, s[8])
    BY <2>2, <2>4
  <2>6. CallFits("p1", i, s[i])
    BY <2>3, <2>5
  <2>7. QED
    BY <1>2, <2>6 DEF s
<1>3. ASSUME p = "p2"
      PROVE  CallFits(p, i, CallsOf(p)[i])
  <2> DEFINE s == CallsOf("p2")
  <2>1. /\ {2000, 2001, 3000, 3001, 8000, 8001} \subseteq Port
        /\ Connector(2000) = "p2" /\ ConnectAt(2000) = 1
        /\ Connector(2001) = "p2" /\ ConnectAt(2001) = 3
        /\ Connector(3000) = "p2" /\ ConnectAt(3000) = 5
        /\ Connector(3001) = "p2" /\ ConnectAt(3001) = 7
        /\ Connector(8000) = "p2" /\ ConnectAt(8000) = 9
        /\ Connector(8001) = "p2" /\ ConnectAt(8001) = 11
    BY DEF Port, Acceptor, AcceptAt, Connector, ConnectAt
  <2>2. /\ CallFits("p2", 1, MakeCall("connect", 2000))
        /\ CallFits("p2", 3, MakeCall("connect", 2001))
        /\ CallFits("p2", 5, MakeCall("connect", 3000))
        /\ CallFits("p2", 7, MakeCall("connect", 3001))
        /\ CallFits("p2", 9, MakeCall("connect", 8000))
        /\ CallFits("p2", 11, MakeCall("connect", 8001))
    BY <2>1, PortFits
  <2>2b. /\ CallFits("p2", 2, MakeCall("sleep", 1 * Second))
         /\ CallFits("p2", 4, MakeCall("sleep", 1 * Second))
         /\ CallFits("p2", 6, MakeCall("sleep", 1 * Second))
         /\ CallFits("p2", 8, MakeCall("sleep", 15 * Second))
         /\ CallFits("p2", 10, MakeCall("sleep", 1 * Second))
    BY <1>0, PortFits
  <2>3. i = 1 \/ i = 2 \/ i = 3 \/ i = 4 \/ i = 5 \/ i = 6 \/ i = 7
        \/ i = 8 \/ i = 9 \/ i = 10 \/ i = 11
    <3>1. Len(CallsOf(p)) = 11
      BY <1>3, P2Calls
    <3>2. i \in 1 .. 11
      BY <3>1
    <3>3. QED
      BY <3>2
  <2>4. /\ s[1] = MakeCall("connect", 2000)
        /\ s[2] = MakeCall("sleep", 1 * Second)
        /\ s[3] = MakeCall("connect", 2001)
        /\ s[4] = MakeCall("sleep", 1 * Second)
        /\ s[5] = MakeCall("connect", 3000)
        /\ s[6] = MakeCall("sleep", 1 * Second)
        /\ s[7] = MakeCall("connect", 3001)
        /\ s[8] = MakeCall("sleep", 15 * Second)
        /\ s[9] = MakeCall("connect", 8000)
        /\ s[10] = MakeCall("sleep", 1 * Second)
        /\ s[11] = MakeCall("connect", 8001)
    BY P2Calls
  <2> HIDE DEF s
  <2>5. /\ CallFits("p2", 1, s[1]) /\ CallFits("p2", 2, s[2]) /\ CallFits("p2", 3, s[3])
        /\ CallFits("p2", 4, s[4]) /\ CallFits("p2", 5, s[5]) /\ CallFits("p2", 6, s[6])
        /\ CallFits("p2", 7, s[7]) /\ CallFits("p2", 8, s[8]) /\ CallFits("p2", 9, s[9])
        /\ CallFits("p2", 10, s[10]) /\ CallFits("p2", 11, s[11])
    BY <2>2, <2>2b, <2>4
  <2>6. CallFits("p2", i, s[i])
    BY <2>3, <2>5
  <2>7. QED
    BY <1>3, <2>6 DEF s
<1>4. ASSUME p = "c"
      PROVE  CallFits(p, i, CallsOf(p)[i])
  <2> DEFINE s == CallsOf("c")
  <2>1. /\ {4000, 4001, 6000, 6001, 8000, 8001} \subseteq Port
        /\ Acceptor(4000) = "c" /\ AcceptAt(4000) = 2
        /\ Acceptor(4001) = "c" /\ AcceptAt(4001) = 4
        /\ Acceptor(6000) = "c" /\ AcceptAt(6000) = 6
        /\ Acceptor(6001) = "c" /\ AcceptAt(6001) = 8
        /\ Acceptor(8000) = "c" /\ AcceptAt(8000) = 10
        /\ Acceptor(8001) = "c" /\ AcceptAt(8001) = 12
    BY DEF Port, Acceptor, AcceptAt, Connector, ConnectAt
  <2>2. /\ CallFits("c", 2, MakeCall("accept", 4000))
        /\ CallFits("c", 4, MakeCall("accept", 4001))
        /\ CallFits("c", 6, MakeCall("accept", 6000))
        /\ CallFits("c", 8, MakeCall("accept", 6001))
        /\ CallFits("c", 10, MakeCall("accept", 8000))
        /\ CallFits("c", 12, MakeCall("accept", 8001))
    BY <2>1, PortFits
  <2>2b. /\ CallFits("c", 1, MakeCall("listen", 4000))
         /\ CallFits("c", 3, MakeCall("listen", 4001))
         /\ CallFits("c", 5, MakeCall("listen", 6000))
         /\ CallFits("c", 7, MakeCall("listen", 6001))
         /\ CallFits("c", 9, MakeCall("listen", 8000))
         /\ CallFits("c", 11, MakeCall("listen", 8001))
    <3>1. \A port \in Port : \A i0 : Acceptor(port) = "c" /\ AcceptAt(port) = i0 + 1
                                     => CallFits("c", i0, MakeCall("listen", port))
      BY PortFits
    <3>2. QED
      BY <2>1, <3>1
  <2>3. i = 1 \/ i = 2 \/ i = 3 \/ i = 4 \/ i = 5 \/ i = 6 \/ i = 7
        \/ i = 8 \/ i = 9 \/ i = 10 \/ i = 11 \/ i = 12
    <3>1. Len(CallsOf(p)) = 12
      BY <1>4, ClientCalls
    <3>2. i \in 1 .. 12
      BY <3>1
    <3>3. QED
      BY <3>2
  <2>4. /\ s[1] = MakeCall("listen", 4000)
        /\ s[2] = MakeCall("accept", 4000)
        /\ s[3] = MakeCall("listen", 4001)
        /\ s[4] = MakeCall("accept", 4001)
        /\ s[5] = MakeCall("listen", 6000)
        /\ s[6] = MakeCall("accept", 6000)
        /\ s[7] = MakeCall("listen", 6001)
        /\ s[8] = MakeCall("accept", 6001)
        /\ s[9] = MakeCall("listen", 8000)
        /\ s[10] = MakeCall("accept", 8000)
        /\ s[11] = MakeCall("listen", 8001)
        /\ s[12] = MakeCall("accept", 8001)
    BY ClientCalls
  <2> HIDE DEF s
  <2>5. /\ CallFits("c", 1, s[1]) /\ CallFits("c", 2, s[2]) /\ CallFits("c", 3, s[3])
        /\ CallFits("c", 4, s[4]) /\ CallFits("c", 5, s[5]) /\ CallFits("c", 6, s[6])
        /\ CallFits("c", 7, s[7]) /\ CallFits("c", 8, s[8]) /\ CallFits("c", 9, s[9])
        /\ CallFits("c", 10, s[10]) /\ CallFits("c", 11, s[11]) /\ CallFits("c", 12, s[12])
    BY <2>2, <2>2b, <2>4
  <2>6. CallFits("c", i, s[i])
    BY <2>3, <2>5
  <2>7. QED
    BY <1>4, <2>6 DEF s
<1>5. QED
  BY <1>1, <1>2, <1>3, <1>4 DEF Program
-----------------------------------------------------------------------------
(***************************************************************************)
(* The invariant of the set-up: each program has made its first Made(p)    *)
(* calls; a connection that waits, or was accepted, was made by its        *)
(* connector, which never runs ahead of the ports it accepts at itself.    *)
(***************************************************************************)
Made(p) == Len(CallsOf(p)) - Len(calls[p])

CallsLeft ==
  \A p \in Program : /\ Made(p) \in 0 .. Len(CallsOf(p))
                     /\ calls[p] = SubSeq(CallsOf(p), Made(p) + 1, Len(CallsOf(p)))

SetupTypes ==
  /\ calls \in [Program -> Seq(ACall)]
  /\ rest \in [Program -> Nat]
  /\ pace.lag \in Nat
  /\ slack \in [Program -> 0 .. pace.lag]
  /\ queued \subseteq Port
  /\ listening \in [Program -> SUBSET Port]
  /\ \A q \in Program : \A port \in listening[q] : Acceptor(port) = q
  /\ exited \subseteq Program
  /\ \A p \in exited : calls[p] # <<>>

ConnectedFirst ==
  \A port \in Port :
    port \in queued \/ Made(Acceptor(port)) >= AcceptAt(port)
      => Made(Connector(port)) >= ConnectAt(port)

QueuedHeard ==
  \A port \in queued : /\ Made(Acceptor(port)) < AcceptAt(port)
                       /\ port \in listening[Acceptor(port)]

SetupInv == CallsLeft /\ SetupTypes /\ ConnectedFirst /\ QueuedHeard

\* The calls of any program.
LEMMA CallsTyped ==
  ASSUME NEW p \in Program
  PROVE  CallsOf(p) \in Seq(ACall) /\ Len(CallsOf(p)) \in Nat
<1>1. CallsOf(p) \in Seq(ACall)
  <2>1. CallsOf("p0") \in Seq(ACall) /\ CallsOf("p1") \in Seq(ACall)
    BY P0Calls, P1Calls
  <2>2. CallsOf("p2") \in Seq(ACall) /\ CallsOf("c") \in Seq(ACall)
    BY P2Calls, ClientCalls
  <2>3. QED
    BY <2>1, <2>2 DEF Program
<1>2. QED
  BY <1>1, LenProperties

\* What a call that returns does to the calls left.
LEMMA ReturnFacts ==
  ASSUME SetupInv, NEW p \in Program, calls[p] # <<>>
  PROVE  /\ Made(p) \in 0 .. Len(CallsOf(p)) - 1
         /\ Next1(p) = CallsOf(p)[Made(p) + 1]
         /\ CallFits(p, Made(p) + 1, Next1(p))
         /\ \A port \in Port : Acceptor(port) = p /\ AcceptAt(port) = Made(p) + 1
                                 => Next1(p).do = "accept" /\ Next1(p).arg = port
         /\ \A port \in Port : Connector(port) = p /\ ConnectAt(port) = Made(p) + 1
                                 => Next1(p).do = "connect" /\ Next1(p).arg = port
         /\ calls' = [calls EXCEPT ![p] = Tail(@)] =>
              /\ CallsLeft' /\ calls' \in [Program -> Seq(ACall)]
              /\ Made(p)' = Made(p) + 1
              /\ \A q \in Program : q # p => Made(q)' = Made(q) /\ calls'[q] = calls[q]
<1> DEFINE n == Made(p)
           s == CallsOf(p)
           t == calls[p]
<1>1. s \in Seq(ACall) /\ Len(s) \in Nat
  BY CallsTyped
<1>2. n \in 0 .. Len(s) /\ t = SubSeq(s, n + 1, Len(s))
  BY DEF SetupInv, CallsLeft
<1>3. /\ t \in Seq(ACall) /\ Len(t) = Len(s) - n /\ n < Len(s)
      /\ Head(t) = s[n + 1] /\ Tail(t) = SubSeq(s, (n + 1) + 1, Len(s))
  <2> HIDE DEF n, s, t
  <2>1. t # <<>>
    BY DEF t
  <2>2. QED
    BY <1>1, <1>2, <2>1, SuffixFacts
<1>4. n \in 0 .. Len(s) - 1 /\ Next1(p) = s[n + 1]
  <2> HIDE DEF n, s
  <2>1. QED
    BY <1>1, <1>2, <1>3 DEF Next1
<1>5. CallFits(p, n + 1, Next1(p))
  <2>1. n + 1 \in 1 .. Len(s)
    <3> HIDE DEF n, s
    <3>1. QED
      BY <1>1, <1>4
  <2>2. QED
    BY <1>4, <2>1, CallPorts
<1>6. ASSUME NEW port \in Port, Acceptor(port) = p, AcceptAt(port) = n + 1
      PROVE  Next1(p).do = "accept" /\ Next1(p).arg = port
  <2>1. Next1(p) = MakeCall("accept", port)
    <3> HIDE DEF n, s
    <3>1. QED
      BY <1>4, <1>6, PortCalls DEF s
  <2>2. QED
    BY <2>1 DEF MakeCall
<1>6b. ASSUME NEW port \in Port, Connector(port) = p, ConnectAt(port) = n + 1
       PROVE  Next1(p).do = "connect" /\ Next1(p).arg = port
  <2>1. Next1(p) = MakeCall("connect", port)
    <3> HIDE DEF n, s
    <3>1. QED
      BY <1>4, <1>6b, PortCalls DEF s
  <2>2. QED
    BY <2>1 DEF MakeCall
<1>7. ASSUME calls' = [calls EXCEPT ![p] = Tail(@)]
      PROVE  /\ CallsLeft' /\ calls' \in [Program -> Seq(ACall)]
             /\ Made(p)' = Made(p) + 1
             /\ \A q \in Program : q # p => Made(q)' = Made(q) /\ calls'[q] = calls[q]
  <2> DEFINE u == Tail(t)
  <2>1. calls \in [Program -> Seq(ACall)]
    BY DEF SetupInv, SetupTypes
  <2>2. u \in Seq(ACall) /\ Len(u) = Len(s) - (n + 1)
    <3> HIDE DEF n, s
    <3>1. Len(Tail(t)) = Len(t) - 1 /\ Tail(t) \in Seq(ACall)
      <4>1. t # <<>>
        OBVIOUS
      <4> HIDE DEF t
      <4>2. QED
        BY <1>3, <4>1, HeadTailProperties
    <3>2. QED
      BY <1>1, <1>2, <1>3, <3>1
  <2>3. calls'[p] = u /\ \A q \in Program : q # p => calls'[q] = calls[q]
    BY <1>7, <2>1
  <2>4. calls' \in [Program -> Seq(ACall)]
    <3>1. calls' = [calls EXCEPT ![p] = u]
      BY <1>7
    <3> HIDE DEF u
    <3>2. QED
      BY <2>1, <2>2, <3>1
  <2>5. Made(p)' = n + 1
    <3>1. Made(p)' = Len(s) - Len(u)
      BY <2>3 DEF Made
    <3> HIDE DEF n, s, u
    <3>2. QED
      BY <1>1, <1>4, <2>2, <3>1
  <2>6. \A q \in Program : q # p => Made(q)' = Made(q)
    BY <2>3 DEF Made
  <2>7. CallsLeft'
    <3>1. ASSUME NEW q \in Program
          PROVE  /\ Made(q)' \in 0 .. Len(CallsOf(q))
                 /\ calls'[q] = SubSeq(CallsOf(q), Made(q)' + 1, Len(CallsOf(q)))
      <4>1. CASE q = p
        <5>1. calls'[p] = SubSeq(s, (n + 1) + 1, Len(s)) /\ n + 1 \in 0 .. Len(s)
          <6>1. calls'[p] = SubSeq(s, (n + 1) + 1, Len(s))
            BY <1>3, <2>3
          <6> HIDE DEF n, s
          <6>2. QED
            BY <1>1, <1>4, <6>1
        <5> HIDE DEF n
        <5>2. QED
          BY <4>1, <2>5, <5>1
      <4>2. CASE q # p
        BY <4>2, <2>3, <2>6 DEF SetupInv, CallsLeft
      <4>3. QED
        BY <4>1, <4>2
    <3>2. QED
      BY <3>1 DEF CallsLeft
  <2>8. QED
    BY <2>3, <2>4, <2>5, <2>6, <2>7
<1>8. QED
  BY <1>4, <1>5, <1>6, <1>6b, <1>7

\* The parts about ports survive a call that is no accept and queues nothing.
LEMMA PortsKept ==
  ASSUME SetupInv, NEW p \in Program, calls[p] # <<>>, Next1(p).do # "accept",
         calls' = [calls EXCEPT ![p] = Tail(@)], queued' = queued,
         \A q \in Program : listening[q] \subseteq listening'[q]
  PROVE  ConnectedFirst' /\ QueuedHeard'
<1>1. ASSUME NEW port \in Port
      PROVE  /\ Made(Acceptor(port)) \in Nat /\ Made(Connector(port)) \in Nat
             /\ AcceptAt(port) \in Nat /\ ConnectAt(port) \in Nat
             /\ Acceptor(port) \in Program
             /\ Made(Connector(port))' \in {Made(Connector(port)), Made(Connector(port)) + 1}
             /\ Made(Acceptor(port))' \in {Made(Acceptor(port)), Made(Acceptor(port)) + 1}
             /\ AcceptAt(port) = Made(Acceptor(port)) + 1
                  => Made(Acceptor(port))' = Made(Acceptor(port))
  <2>1. Acceptor(port) \in Program /\ Connector(port) \in Program
        /\ AcceptAt(port) \in Nat /\ ConnectAt(port) \in Nat
    BY PortTable
  <2>2. \A q \in Program : Made(q) \in Nat
    BY CallsTyped DEF SetupInv, CallsLeft
  <2>3. \A q \in Program : Made(q)' \in {Made(q), Made(q) + 1} /\ (q # p => Made(q)' = Made(q))
    BY ReturnFacts
  <2>4. Acceptor(port) = p => AcceptAt(port) # Made(p) + 1
    BY ReturnFacts
  <2>5. QED
    BY <2>1, <2>2, <2>3, <2>4
<1>2. ConnectedFirst'
  <2>1. ASSUME NEW port \in Port, port \in queued' \/ Made(Acceptor(port))' >= AcceptAt(port)
        PROVE  Made(Connector(port))' >= ConnectAt(port)
    <3>1. port \in queued \/ Made(Acceptor(port)) >= AcceptAt(port)
      BY <1>1, <2>1
    <3>2. Made(Connector(port)) >= ConnectAt(port)
      BY <3>1 DEF SetupInv, ConnectedFirst
    <3>3. QED
      BY <1>1, <3>2
  <2>2. QED
    BY <2>1 DEF ConnectedFirst
<1>3. QueuedHeard'
  <2>1. ASSUME NEW port \in queued'
        PROVE  /\ Made(Acceptor(port))' < AcceptAt(port)
               /\ port \in listening'[Acceptor(port)]
    <3>1. /\ port \in Port /\ Made(Acceptor(port)) < AcceptAt(port)
          /\ port \in listening[Acceptor(port)]
      BY <2>1 DEF SetupInv, SetupTypes, QueuedHeard
    <3>2. QED
      BY <1>1, <3>1
  <2>2. QED
    BY <2>1 DEF QueuedHeard
<1>4. QED
  BY <1>2, <1>3

LEMMA ListenKeeps ==
  ASSUME SetupInv, NEW p \in Program, Listen(p)
  PROVE  SetupInv'
<1>1. /\ calls[p] # <<>> /\ Next1(p).do = "listen"
      /\ calls' = [calls EXCEPT ![p] = Tail(@)] /\ slack' = [slack EXCEPT ![p] = 0]
      /\ listening' = [listening EXCEPT ![p] = @ \cup {Next1(p).arg}]
      /\ rest' = rest /\ queued' = queued /\ exited' = exited /\ pace' = pace
      /\ p \notin exited
  BY DEF Listen, Makes, Awake, Returns
<1>2. /\ Next1(p).arg \in Port /\ Acceptor(Next1(p).arg) = p
      /\ CallsLeft' /\ calls' \in [Program -> Seq(ACall)]
      /\ \A q \in Program : q # p => calls'[q] = calls[q]
  BY <1>1, ReturnFacts DEF CallFits
<1>3. SetupTypes'
  BY <1>1, <1>2 DEF SetupInv, SetupTypes
<1>4. \A q \in Program : listening[q] \subseteq listening'[q]
  BY <1>1 DEF SetupInv, SetupTypes
<1>5. ConnectedFirst' /\ QueuedHeard'
  BY <1>1, <1>4, PortsKept
<1>6. QED
  BY <1>2, <1>3, <1>5 DEF SetupInv

LEMMA FallAsleepKeeps ==
  ASSUME SetupInv, NEW p \in Program, FallAsleep(p)
  PROVE  SetupInv'
<1>1. /\ calls[p] # <<>> /\ Next1(p).do = "sleep"
      /\ calls' = [calls EXCEPT ![p] = Tail(@)] /\ slack' = [slack EXCEPT ![p] = 0]
      /\ rest' = [rest EXCEPT ![p] = Next1(p).arg]
      /\ listening' = listening /\ queued' = queued /\ exited' = exited /\ pace' = pace
      /\ p \notin exited
  BY DEF FallAsleep, Makes, Awake, Returns
<1>2. /\ Next1(p).arg \in Nat
      /\ CallsLeft' /\ calls' \in [Program -> Seq(ACall)]
      /\ \A q \in Program : q # p => calls'[q] = calls[q]
  BY <1>1, ReturnFacts DEF CallFits, ACall
<1>3. SetupTypes'
  BY <1>1, <1>2 DEF SetupInv, SetupTypes
<1>5. ConnectedFirst' /\ QueuedHeard'
  BY <1>1, PortsKept
<1>6. QED
  BY <1>2, <1>3, <1>5 DEF SetupInv

\* Who calls connect at a port has not connected there yet.
LEMMA ConnectKeeps ==
  ASSUME SetupInv, NEW p \in Program, Connect(p)
  PROVE  SetupInv'
<1> DEFINE port == Next1(p).arg
<1>1. /\ calls[p] # <<>> /\ Next1(p).do = "connect"
      /\ calls' = [calls EXCEPT ![p] = Tail(@)] /\ slack' = [slack EXCEPT ![p] = 0]
      /\ Listener(port) /\ queued' = queued \cup {port}
      /\ listening' = listening /\ rest' = rest /\ exited' = exited /\ pace' = pace
      /\ p \notin exited
  BY DEF Connect, Makes, Awake, Returns
<1>2. /\ port \in Port /\ Connector(port) = p /\ ConnectAt(port) = Made(p) + 1
      /\ CallsLeft' /\ calls' \in [Program -> Seq(ACall)]
      /\ Made(p) \in 0 .. Len(CallsOf(p)) - 1 /\ Made(p)' = Made(p) + 1
      /\ \A q \in Program : q # p => calls'[q] = calls[q] /\ Made(q)' = Made(q)
      /\ \A other \in Port : Acceptor(other) = p => AcceptAt(other) # Made(p) + 1
  BY <1>1, ReturnFacts DEF CallFits
<1>3. SetupTypes'
  BY <1>1, <1>2 DEF SetupInv, SetupTypes
<1>4. \A q \in Program : Made(q) \in Nat
  BY CallsTyped DEF SetupInv, CallsLeft
<1>5. port \in listening[Acceptor(port)]
  BY <1>1 DEF Listener, SetupInv, SetupTypes
<1>6. /\ Acceptor(port) \in Program /\ Acceptor(port) # p /\ AcceptAt(port) \in Nat
      /\ Made(Acceptor(port)) < AcceptAt(port)
  <2>1. /\ Acceptor(port) \in Program /\ AcceptAt(port) \in Nat
        /\ Acceptor(port) = p => AcceptAt(port) < ConnectAt(port)
    <3>1. port \in Port /\ Connector(port) = p
      BY <1>2
    <3> HIDE DEF port
    <3>2. AcceptAt(port) \in 2 .. 12
      BY <3>1, PortTable
    <3>3. QED
      BY <3>1, <3>2, PortTable
  <2>2. ~(Made(Acceptor(port)) >= AcceptAt(port))
    <3>1. Made(Acceptor(port)) >= AcceptAt(port) => Made(p) >= Made(p) + 1
      BY <1>2 DEF SetupInv, ConnectedFirst
    <3>2. Made(p) \in Nat
      BY <1>4
    <3>3. QED
      BY <3>1, <3>2
  <2>3. Made(Acceptor(port)) < AcceptAt(port)
    BY <1>4, <2>1, <2>2
  <2>4. Acceptor(port) # p
    <3>1. \A other \in Port : Acceptor(other) # Connector(other)
      BY DEF Port, Acceptor, Connector
    <3>2. port \in Port /\ Connector(port) = p
      BY <1>2
    <3> HIDE DEF port
    <3>3. QED
      BY <3>1, <3>2
  <2>5. QED
    BY <2>1, <2>3, <2>4
<1> HIDE DEF port
<1>7. ConnectedFirst'
  <2>1. ASSUME NEW other \in Port, other \in queued' \/ Made(Acceptor(other))' >= AcceptAt(other)
        PROVE  Made(Connector(other))' >= ConnectAt(other)
    <3>1. /\ Acceptor(other) \in Program /\ Connector(other) \in Program
          /\ AcceptAt(other) \in Nat /\ ConnectAt(other) \in Nat
      BY PortTable
    <3>2. CASE other = port
      BY <1>2, <1>4, <3>1, <3>2
    <3>3. CASE other # port
      <4>1. other \in queued \/ Made(Acceptor(other)) >= AcceptAt(other)
        <5>1. CASE other \in queued'
          BY <1>1, <3>3, <5>1
        <5>2. CASE Made(Acceptor(other))' >= AcceptAt(other)
          BY <1>2, <1>4, <3>1, <5>2
        <5>3. QED
          BY <2>1, <5>1, <5>2
      <4>2. Made(Connector(other)) >= ConnectAt(other)
        BY <4>1 DEF SetupInv, ConnectedFirst
      <4>3. QED
        BY <1>2, <1>4, <3>1, <4>2
    <3>4. QED
      BY <3>2, <3>3
  <2>2. QED
    BY <2>1 DEF ConnectedFirst
<1>8. QueuedHeard'
  <2>1. ASSUME NEW other \in queued'
        PROVE  /\ Made(Acceptor(other))' < AcceptAt(other)
               /\ other \in listening'[Acceptor(other)]
    <3>1. CASE other = port
      BY <1>1, <1>2, <1>5, <1>6, <3>1
    <3>2. CASE other # port
      <4>1. /\ other \in Port /\ Made(Acceptor(other)) < AcceptAt(other)
            /\ other \in listening[Acceptor(other)]
        BY <1>1, <2>1, <3>2 DEF SetupInv, SetupTypes, QueuedHeard
      <4>2. Acceptor(other) \in Program /\ AcceptAt(other) \in Nat
        BY <4>1, PortTable
      <4>3. Made(Acceptor(other))' < AcceptAt(other)
        BY <1>2, <1>4, <4>1, <4>2
      <4>4. QED
        BY <1>1, <4>1, <4>3
    <3>3. QED
      BY <3>1, <3>2
  <2>2. QED
    BY <2>1 DEF QueuedHeard
<1>9. QED
  BY <1>2, <1>3, <1>7, <1>8 DEF SetupInv

LEMMA AcceptKeeps ==
  ASSUME SetupInv, NEW p \in Program, Accept(p)
  PROVE  SetupInv'
<1> DEFINE port == Next1(p).arg
<1>1. /\ calls[p] # <<>> /\ Next1(p).do = "accept"
      /\ calls' = [calls EXCEPT ![p] = Tail(@)] /\ slack' = [slack EXCEPT ![p] = 0]
      /\ port \in queued /\ queued' = queued \ {port}
      /\ listening' = listening /\ rest' = rest /\ exited' = exited /\ pace' = pace
      /\ p \notin exited
  BY DEF Accept, Makes, Awake, Returns
<1>2. /\ port \in Port /\ Acceptor(port) = p /\ AcceptAt(port) = Made(p) + 1
      /\ CallsLeft' /\ calls' \in [Program -> Seq(ACall)]
      /\ Made(p)' = Made(p) + 1
      /\ \A q \in Program : q # p => calls'[q] = calls[q] /\ Made(q)' = Made(q)
      /\ \A other \in Port : Acceptor(other) = p /\ AcceptAt(other) = Made(p) + 1 => other = port
  BY <1>1, ReturnFacts DEF CallFits
<1>3. SetupTypes'
  BY <1>1, <1>2 DEF SetupInv, SetupTypes
<1>4. \A q \in Program : Made(q) \in Nat
  BY CallsTyped DEF SetupInv, CallsLeft
<1> HIDE DEF port
<1>5. ConnectedFirst'
  <2>1. ASSUME NEW other \in Port, other \in queued' \/ Made(Acceptor(other))' >= AcceptAt(other)
        PROVE  Made(Connector(other))' >= ConnectAt(other)
    <3>1. /\ Acceptor(other) \in Program /\ Connector(other) \in Program
          /\ AcceptAt(other) \in Nat /\ ConnectAt(other) \in Nat
      BY PortTable
    <3>2. other \in queued \/ Made(Acceptor(other)) >= AcceptAt(other)
      <4>1. CASE other = port
        BY <1>1, <4>1
      <4>2. CASE other # port /\ other \in queued'
        BY <1>1, <4>2
      <4>3. CASE other # port /\ Made(Acceptor(other))' >= AcceptAt(other)
        <5>1. CASE Acceptor(other) = p
          <6>1. Made(p) \in Nat /\ AcceptAt(other) # Made(p) + 1 /\ Made(p) + 1 >= AcceptAt(other)
            BY <1>2, <1>4, <4>3, <5>1
          <6>2. Made(p) >= AcceptAt(other)
            BY <3>1, <6>1
          <6>3. QED
            BY <5>1, <6>2
        <5>2. CASE Acceptor(other) # p
          BY <1>2, <3>1, <4>3, <5>2
        <5>3. QED
          BY <5>1, <5>2
      <4>4. QED
        BY <2>1, <4>1, <4>2, <4>3
    <3>3. Made(Connector(other)) >= ConnectAt(other)
      BY <3>2 DEF SetupInv, ConnectedFirst
    <3>4. /\ Made(Connector(other)) \in Nat /\ ConnectAt(other) \in Nat
          /\ Made(Connector(other))' \in {Made(Connector(other)), Made(Connector(other)) + 1}
      BY <1>2, <1>4, <3>1
    <3>5. QED
      BY <3>3, <3>4
  <2>2. QED
    BY <2>1 DEF ConnectedFirst
<1>6. QueuedHeard'
  <2>1. ASSUME NEW other \in queued'
        PROVE  /\ Made(Acceptor(other))' < AcceptAt(other)
               /\ other \in listening'[Acceptor(other)]
    <3>1. /\ other \in Port /\ other # port /\ Made(Acceptor(other)) < AcceptAt(other)
          /\ other \in listening[Acceptor(other)]
      BY <1>1, <2>1 DEF SetupInv, SetupTypes, QueuedHeard
    <3>2. Acceptor(other) \in Program /\ AcceptAt(other) \in Nat
      BY <3>1, PortTable
    <3>3. Made(Acceptor(other))' < AcceptAt(other)
      BY <1>2, <1>4, <3>1, <3>2
    <3>4. QED
      BY <1>1, <3>1, <3>3
  <2>2. QED
    BY <2>1 DEF QueuedHeard
<1>7. QED
  BY <1>2, <1>3, <1>5, <1>6 DEF SetupInv

\* A refused program has accepted all that was queued at its ports.
LEMMA RefusedKeeps ==
  ASSUME SetupInv, NEW p \in Program, Refused(p)
  PROVE  SetupInv'
<1>1. /\ calls[p] # <<>> /\ Next1(p).do = "connect"
      /\ exited' = exited \cup {p} /\ listening' = [listening EXCEPT ![p] = {}]
      /\ slack' = [slack EXCEPT ![p] = 0]
      /\ calls' = calls /\ rest' = rest /\ queued' = queued /\ pace' = pace
  BY DEF Refused, Makes, Awake
<1>2. SetupTypes'
  BY <1>1 DEF SetupInv, SetupTypes
<1>3. CallsLeft' /\ ConnectedFirst' /\ \A q : Made(q)' = Made(q)
  BY <1>1 DEF SetupInv, CallsLeft, ConnectedFirst, Made
<1>4. QueuedHeard'
  <2>1. ASSUME NEW port \in queued
        PROVE  Acceptor(port) # p
    <3> DEFINE at == Next1(p).arg
    <3>1. /\ port \in Port /\ at \in Port /\ Connector(at) = p /\ ConnectAt(at) = Made(p) + 1
      BY <1>1, ReturnFacts DEF CallFits, SetupInv, SetupTypes
    <3>2. Acceptor(port) = p => AcceptAt(port) < Made(p) + 1
      BY <3>1, PortTable
    <3>3. Made(Acceptor(port)) < AcceptAt(port)
      BY DEF SetupInv, QueuedHeard
    <3>4. Made(p) \in Nat /\ AcceptAt(port) \in Nat
      <4>1. Len(CallsOf(p)) \in Nat /\ Made(p) \in 0 .. Len(CallsOf(p))
        BY CallsTyped DEF SetupInv, CallsLeft
      <4>2. AcceptAt(port) \in 2 .. 12
        BY <3>1, PortTable
      <4>3. QED
        BY <4>1, <4>2
    <3>5. QED
      BY <3>2, <3>3, <3>4
  <2>2. ASSUME NEW port \in queued
        PROVE  /\ Made(Acceptor(port))' < AcceptAt(port)
               /\ port \in listening'[Acceptor(port)]
    <3>1. port \in Port /\ Acceptor(port) \in Program
      BY PortTable DEF SetupInv, SetupTypes
    <3>2. Made(Acceptor(port)) < AcceptAt(port) /\ port \in listening[Acceptor(port)]
      BY DEF SetupInv, QueuedHeard
    <3>3. listening'[Acceptor(port)] = listening[Acceptor(port)]
      BY <1>1, <2>1, <3>1 DEF SetupInv, SetupTypes
    <3>4. QED
      BY <1>3, <3>2, <3>3
  <2>3. QED
    BY <1>1, <2>2 DEF QueuedHeard
<1>5. QED
  BY <1>2, <1>3, <1>4 DEF SetupInv

LEMMA TickKeeps ==
  ASSUME SetupInv, Tick
  PROVE  SetupInv'
<1>1. /\ calls' = calls /\ listening' = listening /\ queued' = queued
      /\ exited' = exited /\ pace' = pace
  BY DEF Tick
<1>2. CallsLeft' /\ ConnectedFirst' /\ QueuedHeard'
  BY <1>1 DEF SetupInv, CallsLeft, ConnectedFirst, QueuedHeard, Made
<1>3. rest' \in [Program -> Nat]
  BY DEF Tick, SetupInv, SetupTypes
<1>4. slack' \in [Program -> 0 .. pace.lag]
  <2>1. pace.lag \in Nat /\ slack \in [Program -> 0 .. pace.lag]
    BY DEF SetupInv, SetupTypes
  <2>2. /\ \A p \in Program : Ready(p) => slack[p] < pace.lag
        /\ slack' = [p \in Program |-> IF Ready(p) THEN slack[p] + 1 ELSE 0]
    BY DEF Tick
  <2>3. ASSUME NEW p \in Program
        PROVE  (IF Ready(p) THEN slack[p] + 1 ELSE 0) \in 0 .. pace.lag
    BY <2>1, <2>2
  <2>4. QED
    BY <2>2, <2>3
<1>5. QED
  BY <1>1, <1>2, <1>3, <1>4 DEF SetupInv, SetupTypes

LEMMA SetupInitially ==
  ASSUME SetupInit
  PROVE  SetupInv
<1> USE DEF SetupInit
<1>1. ASSUME NEW p \in Program
      PROVE  /\ calls[p] = CallsOf(p) /\ Made(p) = 0
             /\ Made(p) \in 0 .. Len(CallsOf(p))
             /\ CallsOf(p) = SubSeq(CallsOf(p), 1, Len(CallsOf(p)))
  <2> DEFINE s == CallsOf(p)
  <2>1. s \in Seq(ACall) /\ Len(s) \in Nat
    BY CallsTyped
  <2>2. calls[p] = s
    OBVIOUS
  <2>3. Made(p) = Len(s) - Len(s)
    BY <2>2 DEF Made
  <2> HIDE DEF s
  <2>4. s = SubSeq(s, 1, Len(s))
    BY <2>1, SubSeqProperties
  <2>5. Made(p) = 0 /\ Made(p) \in 0 .. Len(s)
    BY <2>1, <2>3
  <2>6. QED
    BY <2>2, <2>4, <2>5 DEF s
<1>2. CallsLeft
  <2>1. ASSUME NEW p \in Program
        PROVE  calls[p] = SubSeq(CallsOf(p), Made(p) + 1, Len(CallsOf(p)))
    <3>1. Made(p) + 1 = 1
      BY <1>1
    <3>2. QED
      BY <1>1, <3>1
  <2>2. QED
    BY <1>1, <2>1 DEF CallsLeft
<1>3. SetupTypes
  <2>1. calls \in [Program -> Seq(ACall)]
    BY CallsTyped
  <2>2. pace.lag \in Nat /\ pace.gen \in [Generating -> Nat]
    BY ConnectAssumption
  <2>3. ASSUME NEW p \in Program
        PROVE  StartsAt(p) + (IF p \in Generating THEN pace.gen[p] ELSE 0) \in Nat
    <3>1. StartsAt(p) \in Nat
      BY ConnectAssumption DEF StartsAt, Program
    <3>2. QED
      BY <2>2, <3>1
  <2>4. rest \in [Program -> Nat]
    BY <2>3
  <2>5. QED
    BY <2>1, <2>2, <2>4 DEF SetupTypes
<1>4. ConnectedFirst
  <2>1. ASSUME NEW port \in Port
        PROVE  Made(Acceptor(port)) = 0 /\ AcceptAt(port) >= 2
    <3>1. Acceptor(port) \in Program /\ AcceptAt(port) \in 2 .. 12
      BY PortTable
    <3>2. QED
      BY <1>1, <3>1
  <2>2. queued = {}
    OBVIOUS
  <2> HIDE DEF SetupInit
  <2>3. \A port \in Port : ~(Made(Acceptor(port)) >= AcceptAt(port))
    <3>1. ASSUME NEW port \in Port
          PROVE  ~(Made(Acceptor(port)) >= AcceptAt(port))
      <4>1. AcceptAt(port) \in 2 .. 12 /\ Made(Acceptor(port)) = 0
        BY <2>1, PortTable
      <4>2. QED
        BY <4>1
    <3>2. QED
      BY <3>1
  <2>4. QED
    BY <2>2, <2>3 DEF ConnectedFirst
<1>5. QED
  BY <1>2, <1>3, <1>4 DEF SetupInv, QueuedHeard

LEMMA SetupStepKeeps ==
  ASSUME SetupInv, [SetupNext]_setupVars
  PROVE  SetupInv'
<1>1. CASE Tick
  BY <1>1, TickKeeps
<1>2. ASSUME NEW p \in Program, SetupStep(p)
      PROVE  SetupInv'
  BY <1>2, ListenKeeps, AcceptKeeps, ConnectKeeps, RefusedKeeps, FallAsleepKeeps DEF SetupStep
<1>3. CASE UNCHANGED setupVars
  BY <1>3 DEF setupVars, SetupInv, CallsLeft, SetupTypes, ConnectedFirst, QueuedHeard, Made
<1>4. QED
  BY <1>1, <1>2, <1>3 DEF SetupNext

\* Who has made all calls.
LEMMA DoneMade ==
  ASSUME SetupInv, NEW p \in Program
  PROVE  /\ Made(p) \in 0 .. Len(CallsOf(p)) /\ Len(CallsOf(p)) \in Nat
         /\ calls[p] = <<>> <=> Made(p) = Len(CallsOf(p))
<1>1. /\ Made(p) \in 0 .. Len(CallsOf(p)) /\ Len(CallsOf(p)) \in Nat
      /\ CallsOf(p) \in Seq(ACall)
      /\ calls[p] = SubSeq(CallsOf(p), Made(p) + 1, Len(CallsOf(p)))
  BY CallsTyped DEF SetupInv, CallsLeft
<1> DEFINE s == CallsOf(p)
           n == Made(p)
           t == calls[p]
<1>2. s \in Seq(ACall) /\ n \in 0 .. Len(s) /\ t = SubSeq(s, n + 1, Len(s))
  BY <1>1
<1> HIDE DEF s, n, t
<1>3. t = <<>> <=> n = Len(s)
  <2>1. t \in Seq(ACall) /\ Len(t) = Len(s) - n
    BY <1>2, SuffixFacts
  <2>2. t = <<>> <=> Len(t) = 0
    BY <2>1, EmptySeq
  <2>3. QED
    BY <1>1, <1>2, <2>1, <2>2 DEF s
<1>4. QED
  BY <1>1, <1>3 DEF s, n, t

\* What the client's last accept tells of everybody else.
LEMMA TogetherFacts ==
  ASSUME SetupInv, Connected("c")
  PROVE  \A p \in Program : calls[p] = <<>> /\ p \notin exited
<1>1. \A p \in Program : /\ Made(p) \in 0 .. Len(CallsOf(p)) /\ Len(CallsOf(p)) \in Nat
                         /\ calls[p] = <<>> <=> Made(p) = Len(CallsOf(p))
  BY DoneMade
<1>2. Made("c") = 12
  <2>1. calls["c"] = <<>> /\ "c" \in Program
    BY DEF Connected, Program
  <2>2. Made("c") = Len(CallsOf("c"))
    BY <1>1, <2>1
  <2>3. Len(CallsOf("c")) = 12
    BY ClientCalls
  <2>4. QED
    BY <2>2, <2>3
<1>3. \A port \in {4001, 6001, 8001} : Made(Connector(port)) >= ConnectAt(port)
  <2>1. ASSUME NEW port \in {4001, 6001, 8001}
        PROVE  port \in Port /\ Acceptor(port) = "c" /\ AcceptAt(port) \in 0 .. 12
    BY DEF Port, Acceptor, AcceptAt
  <2>2. QED
    BY <1>2, <2>1 DEF SetupInv, ConnectedFirst
<1>4. Made("p0") >= 7 /\ Made("p1") >= 8 /\ Made("p2") >= 11
  BY <1>3 DEF Connector, ConnectAt
<1>5. /\ Len(CallsOf("p0")) = 7 /\ Len(CallsOf("p1")) = 8
      /\ Len(CallsOf("p2")) = 11 /\ Len(CallsOf("c")) = 12
  BY P0Calls, P1Calls, P2Calls, ClientCalls
<1>6. \A p \in Program : Made(p) = Len(CallsOf(p))
  <2>1. Made("p0") = 7 /\ Made("p1") = 8 /\ Made("p2") = 11
    <3>1. Made("p0") \in 0 .. 7 /\ Made("p1") \in 0 .. 8 /\ Made("p2") \in 0 .. 11
      BY <1>1, <1>5 DEF Program
    <3>2. QED
      BY <1>4, <3>1
  <2>2. QED
    BY <1>2, <1>5, <2>1 DEF Program
<1>7. \A p \in Program : calls[p] = <<>>
  BY <1>1, <1>6
<1>8. QED
  BY <1>7 DEF SetupInv, SetupTypes

(***************************************************************************)
(* A program listens only when it has accepted the connection before, so   *)
(* that who got a connection knows how far its acceptor has come; and the  *)
(* client makes no connection that could be refused.                       *)
(***************************************************************************)
Answered ==
  /\ \A q \in Program : \A port \in listening[q] : Made(q) + 1 >= AcceptAt(port)
  /\ \A port \in Port : Made(Connector(port)) >= ConnectAt(port)
                          => Made(Acceptor(port)) + 1 >= AcceptAt(port)
  /\ "c" \notin exited

LEMMA AnsweredFirst ==
  ASSUME SetupInit
  PROVE  Answered
<1>1. SetupInv /\ exited = {} /\ \A q \in Program : listening[q] = {} /\ calls[q] = CallsOf(q)
  BY SetupInitially DEF SetupInit
<1>2. \A q \in Program : Made(q) = 0
  <2>1. \A q \in Program : Len(CallsOf(q)) \in Nat
    BY CallsTyped
  <2>2. QED
    BY <1>1, <2>1 DEF Made
<1>3. ASSUME NEW port \in Port
      PROVE  ~(Made(Connector(port)) >= ConnectAt(port))
  <2>1. Connector(port) \in Program /\ ConnectAt(port) \in 1 .. 11
    BY PortTable
  <2>2. QED
    BY <1>2, <2>1
<1>4. QED
  BY <1>1, <1>3 DEF Answered

\* A step by which nobody loses a call made, and no new port or connection.
LEMMA AnsweredMore ==
  ASSUME Answered, SetupInv, SetupInv',
         \A q \in Program : Made(q)' >= Made(q),
         \A q \in Program : \A port \in listening'[q] :
           port \in listening[q] \/ Made(q)' + 1 >= AcceptAt(port),
         \A port \in Port : Made(Connector(port))' >= ConnectAt(port) =>
           \/ Made(Connector(port)) >= ConnectAt(port)
           \/ Made(Acceptor(port)) + 1 >= AcceptAt(port),
         "c" \notin exited'
  PROVE  Answered'
<1>1. \A q \in Program : Made(q) \in Nat /\ Made(q)' \in Nat
  <2>1. \A q \in Program : Len(CallsOf(q)) \in Nat
    BY CallsTyped
  <2>2. \A q \in Program : Made(q) \in 0 .. Len(CallsOf(q)) /\ Made(q)' \in 0 .. Len(CallsOf(q))
    BY DEF SetupInv, CallsLeft
  <2>3. QED
    BY <2>1, <2>2
<1>2. \A port \in Port : /\ Acceptor(port) \in Program /\ Connector(port) \in Program
                         /\ AcceptAt(port) \in Nat /\ ConnectAt(port) \in Nat
  BY PortTable
<1>3. ASSUME NEW q \in Program, NEW port \in listening'[q]
      PROVE  Made(q)' + 1 >= AcceptAt(port)
  <2>1. CASE port \in listening[q]
    <3>1. Made(q) + 1 >= AcceptAt(port) /\ port \in Port
      BY <2>1 DEF Answered, SetupInv, SetupTypes
    <3>2. QED
      BY <1>1, <1>2, <3>1
  <2>2. QED
    BY <1>3, <2>1
<1>4. ASSUME NEW port \in Port, Made(Connector(port))' >= ConnectAt(port)
      PROVE  Made(Acceptor(port))' + 1 >= AcceptAt(port)
  <2>1. Made(Acceptor(port)) + 1 >= AcceptAt(port)
    BY <1>4 DEF Answered
  <2>2. QED
    BY <1>1, <1>2, <2>1
<1>5. QED
  BY <1>3, <1>4 DEF Answered

\* Nothing but a call that returned.
LEMMA AnsweredReturn ==
  ASSUME Answered, SetupInv, SetupInv', NEW p \in Program, calls[p] # <<>>,
         calls' = [calls EXCEPT ![p] = Tail(@)], exited' = exited
  PROVE  /\ \A q \in Program : Made(q)' >= Made(q)
         /\ Next1(p).do # "connect" =>
              \A port \in Port : Made(Connector(port))' >= ConnectAt(port)
                                   => Made(Connector(port)) >= ConnectAt(port)
         /\ \A port \in Port : port # Next1(p).arg /\ Made(Connector(port))' >= ConnectAt(port)
                                   => Made(Connector(port)) >= ConnectAt(port)
<1>1. \A q \in Program : Made(q) \in Nat
  BY CallsTyped DEF SetupInv, CallsLeft
<1>2. /\ Made(p)' = Made(p) + 1 /\ \A q \in Program : q # p => Made(q)' = Made(q)
      /\ \A port \in Port : Connector(port) = p /\ ConnectAt(port) = Made(p) + 1
                              => Next1(p).do = "connect" /\ Next1(p).arg = port
  BY ReturnFacts
<1>3. ASSUME NEW port \in Port, Made(Connector(port))' >= ConnectAt(port),
             ~(Made(Connector(port)) >= ConnectAt(port))
      PROVE  Next1(p).do = "connect" /\ Next1(p).arg = port
  <2>1. Connector(port) \in Program /\ ConnectAt(port) \in Nat
    BY PortTable
  <2>2. Connector(port) = p
    BY <1>2, <1>3, <2>1
  <2>3. Made(p) + 1 = ConnectAt(port)
    <3>1. Made(p) + 1 >= ConnectAt(port) /\ ~(Made(p) >= ConnectAt(port)) /\ Made(p) \in Nat
      BY <1>1, <1>2, <1>3, <2>2
    <3>2. QED
      BY <2>1, <3>1
  <2>4. QED
    BY <1>2, <2>2, <2>3
<1>4. QED
  BY <1>1, <1>2, <1>3

LEMMA AnsweredKeeps ==
  ASSUME SetupInv, Answered, [SetupNext]_setupVars
  PROVE  Answered'
<1>0. SetupInv'
  BY SetupStepKeeps
<1>1. \A q \in Program : Made(q) \in Nat
  BY CallsTyped DEF SetupInv, CallsLeft
<1>2. CASE calls' = calls /\ listening' = listening /\ exited' = exited
  BY <1>2 DEF Answered, Made
<1>3. ASSUME NEW p \in Program, Listen(p)
      PROVE  Answered'
  <2>1. /\ calls[p] # <<>> /\ Next1(p).do = "listen"
        /\ calls' = [calls EXCEPT ![p] = Tail(@)] /\ exited' = exited
        /\ listening' = [listening EXCEPT ![p] = @ \cup {Next1(p).arg}]
    BY <1>3 DEF Listen, Makes, Awake, Returns
  <2>2. /\ Next1(p).arg \in Port /\ AcceptAt(Next1(p).arg) = (Made(p) + 1) + 1
        /\ Made(p)' = Made(p) + 1
    BY <2>1, ReturnFacts DEF CallFits
  <2>3. /\ \A q \in Program : Made(q)' >= Made(q)
        /\ \A port \in Port : Made(Connector(port))' >= ConnectAt(port)
                                => Made(Connector(port)) >= ConnectAt(port)
    BY <1>0, <2>1, AnsweredReturn
  <2>4. ASSUME NEW q \in Program, NEW port \in listening'[q], port \notin listening[q]
        PROVE  Made(q)' + 1 >= AcceptAt(port)
    <3>1. q = p /\ port = Next1(p).arg
      BY <2>1, <2>4 DEF SetupInv, SetupTypes
    <3>2. QED
      BY <1>1, <2>2, <3>1
  <2>5. QED
    BY <1>0, <2>1, <2>3, <2>4, AnsweredMore DEF Answered
<1>4. ASSUME NEW p \in Program, Accept(p) \/ FallAsleep(p)
      PROVE  Answered'
  <2>1. /\ calls[p] # <<>> /\ Next1(p).do # "connect"
        /\ calls' = [calls EXCEPT ![p] = Tail(@)] /\ exited' = exited
        /\ listening' = listening
    BY <1>4 DEF Accept, FallAsleep, Makes, Awake, Returns
  <2>2. /\ \A q \in Program : Made(q)' >= Made(q)
        /\ \A port \in Port : Made(Connector(port))' >= ConnectAt(port)
                                => Made(Connector(port)) >= ConnectAt(port)
    BY <1>0, <2>1, AnsweredReturn
  <2>3. QED
    BY <1>0, <2>1, <2>2, AnsweredMore DEF Answered
<1>5. ASSUME NEW p \in Program, Connect(p)
      PROVE  Answered'
  <2>1. /\ calls[p] # <<>> /\ Next1(p).do = "connect" /\ Listener(Next1(p).arg)
        /\ calls' = [calls EXCEPT ![p] = Tail(@)] /\ exited' = exited
        /\ listening' = listening
    BY <1>5 DEF Connect, Makes, Awake, Returns
  <2>2. /\ \A q \in Program : Made(q)' >= Made(q)
        /\ \A port \in Port : port # Next1(p).arg /\ Made(Connector(port))' >= ConnectAt(port)
                                => Made(Connector(port)) >= ConnectAt(port)
    BY <1>0, <2>1, AnsweredReturn
  <2>3. Made(Acceptor(Next1(p).arg)) + 1 >= AcceptAt(Next1(p).arg)
    BY <2>1 DEF Listener, Answered, SetupInv, SetupTypes
  <2>4. QED
    BY <1>0, <2>1, <2>2, <2>3, AnsweredMore DEF Answered
<1>6. ASSUME NEW p \in Program, Refused(p)
      PROVE  Answered'
  <2>1. /\ calls[p] # <<>> /\ Next1(p).do = "connect" /\ calls' = calls
        /\ exited' = exited \cup {p} /\ listening' = [listening EXCEPT ![p] = {}]
    BY <1>6 DEF Refused, Makes, Awake
  <2>2. Connector(Next1(p).arg) = p /\ Next1(p).arg \in Port
    BY <2>1, ReturnFacts DEF CallFits
  <2>3. p # "c"
    <3>1. \A port \in Port : Connector(port) # "c"
      BY DEF Port, Connector
    <3>2. QED
      BY <2>2, <3>1
  <2>4. \A q \in Program : listening'[q] \subseteq listening[q]
    BY <2>1 DEF SetupInv, SetupTypes
  <2>5. \A q : Made(q)' = Made(q)
    BY <2>1 DEF Made
  <2>6. QED
    BY <2>1, <2>3, <2>4, <2>5 DEF Answered
<1>7. QED
  <2>1. CASE UNCHANGED setupVars
    BY <1>2, <2>1 DEF setupVars
  <2>2. CASE Tick
    BY <1>2, <2>2 DEF Tick
  <2>3. QED
    BY <1>3, <1>4, <1>5, <1>6, <2>1, <2>2 DEF SetupNext, SetupStep

\* The dealer connects to the client last: the servers have done so before.
LEMMA DealerLast ==
  ASSUME SetupInv, Answered, Connected("p2")
  PROVE  exited = {}
<1>1. Made("p2") = 11
  <2>1. "p2" \in Program /\ calls["p2"] = <<>>
    BY DEF Connected, Program
  <2>2. Made("p2") = Len(CallsOf("p2"))
    BY <2>1, DoneMade
  <2>3. Len(CallsOf("p2")) = 11
    BY P2Calls
  <2>4. QED
    BY <2>2, <2>3
<1>2. Made("c") \in Nat /\ Made("c") + 1 >= 12
  <2>1. /\ 8001 \in Port /\ Connector(8001) = "p2" /\ ConnectAt(8001) = 11
        /\ Acceptor(8001) = "c" /\ AcceptAt(8001) = 12
    BY DEF Port, Connector, ConnectAt, Acceptor, AcceptAt
  <2>2. Made("c") + 1 >= 12
    BY <1>1, <2>1 DEF Answered
  <2>3. Made("c") \in Nat
    BY CallsTyped DEF SetupInv, CallsLeft, Program
  <2>4. QED
    BY <2>2, <2>3
<1>3. Made("p0") >= 7 /\ Made("p1") >= 8
  <2>1. /\ {4001, 6001} \subseteq Port /\ Acceptor(4001) = "c" /\ AcceptAt(4001) = 4
        /\ Acceptor(6001) = "c" /\ AcceptAt(6001) = 8
        /\ Connector(4001) = "p0" /\ ConnectAt(4001) = 7
        /\ Connector(6001) = "p1" /\ ConnectAt(6001) = 8
    BY DEF Port, Acceptor, AcceptAt, Connector, ConnectAt
  <2>2. Made("c") >= 4 /\ Made("c") >= 8
    BY <1>2
  <2>3. QED
    BY <2>1, <2>2 DEF SetupInv, ConnectedFirst
<1>4. calls["p0"] = <<>> /\ calls["p1"] = <<>>
  <2>1. /\ Made("p0") \in 0 .. Len(CallsOf("p0")) /\ Made("p1") \in 0 .. Len(CallsOf("p1"))
        /\ calls["p0"] = <<>> <=> Made("p0") = Len(CallsOf("p0"))
        /\ calls["p1"] = <<>> <=> Made("p1") = Len(CallsOf("p1"))
    BY DoneMade DEF Program
  <2>2. Len(CallsOf("p0")) = 7 /\ Len(CallsOf("p1")) = 8
    BY P0Calls, P1Calls
  <2>3. Made("p0") \in 0 .. 7 /\ Made("p1") \in 0 .. 8
    BY <2>1, <2>2
  <2>4. Made("p0") = 7 /\ Made("p1") = 8
    BY <1>3, <2>3
  <2>5. QED
    BY <2>1, <2>2, <2>4
<1>5. \A p \in Program : p \notin exited
  <2>1. \A p \in exited : p \in Program /\ calls[p] # <<>>
    BY DEF SetupInv, SetupTypes
  <2>2. "c" \notin exited /\ "p2" \notin exited
    BY DEF Answered, Connected
  <2>3. QED
    BY <1>4, <2>1, <2>2 DEF Program
<1>6. QED
  BY <1>5 DEF SetupInv, SetupTypes

(***************************************************************************)
(* Whatever the lateness: each program has made an initial part of the     *)
(* calls of its constructor and connect_to_client, no call is later than   *)
(* may be, and nothing waits at a port on which nobody listens.            *)
(***************************************************************************)
THEOREM SetupTypeCorrect == SetupSpec => []SetupTypeOK
<1>1. SetupInv => SetupTypeOK
  <2> SUFFICES ASSUME SetupInv PROVE SetupTypeOK
    OBVIOUS
  <2>1. \A port \in queued : Listener(port)
    <3>1. ASSUME NEW port \in queued
          PROVE  Acceptor(port) \in Program /\ port \in listening[Acceptor(port)]
      BY PortTable DEF SetupInv, SetupTypes, QueuedHeard
    <3>2. QED
      BY <3>1 DEF Listener
  <2>2. QED
    BY <2>1 DEF SetupInv, CallsLeft, SetupTypes, SetupTypeOK
<1>2. QED
  BY <1>1, SetupInitially, SetupStepKeeps, PTL DEF SetupSpec

(***************************************************************************)
(* Whatever the lateness, the client leaves its constructor only if nobody *)
(* was refused and all have made all their connections.                    *)
(***************************************************************************)
THEOREM OnlyTogetherCorrect == SetupSpec => []OnlyTogether
<1>1. SetupInv => OnlyTogether
  BY TogetherFacts DEF OnlyTogether
<1>2. QED
  BY <1>1, SetupInitially, SetupStepKeeps, PTL DEF SetupSpec

(***************************************************************************)
(* Joining short sequences that are written out.                           *)
(***************************************************************************)
LEMMA JoinIs ==
  ASSUME NEW S, NEW s \in Seq(S), NEW t \in Seq(S), NEW u \in Seq(S),
         Len(u) = Len(s) + Len(t), \A i \in 1 .. Len(s) : u[i] = s[i],
         \A i \in 1 .. Len(t) : u[Len(s) + i] = t[i]
  PROVE  s \o t = u
<1> DEFINE v == s \o t
<1>1. /\ v \in Seq(S) /\ Len(v) = Len(s) + Len(t)
      /\ \A i \in 1 .. Len(s) + Len(t) : v[i] = IF i <= Len(s) THEN s[i] ELSE t[i - Len(s)]
  BY ConcatProperties
<1>2. Len(s) \in Nat /\ Len(t) \in Nat
  BY LenProperties
<1> HIDE DEF v
<1>3. ASSUME NEW i \in 1 .. Len(v)
      PROVE  v[i] = u[i]
  <2>1. CASE i <= Len(s)
    BY <1>1, <1>2, <2>1
  <2>2. CASE ~(i <= Len(s))
    <3> DEFINE j == i - Len(s)
    <3>1. j \in 1 .. Len(t) /\ i = Len(s) + j /\ v[i] = t[j]
      BY <1>1, <1>2, <2>2
    <3> HIDE DEF j
    <3>2. QED
      BY <3>1
  <2>3. QED
    BY <2>1, <2>2
<1>4. v = u
  BY <1>1, <1>3, SeqEqual
<1>5. QED
  BY <1>4 DEF v

LEMMA JoinTuples ==
  /\ \A a, b : <<a>> \o <<b>> = <<a, b>>
  /\ \A a, b, c : <<a, b>> \o <<c>> = <<a, b, c>>
  /\ \A a, b, c, d : <<a, b, c>> \o <<d>> = <<a, b, c, d>>
  /\ \A a, b, c, d, e : <<a, b, c, d>> \o <<e>> = <<a, b, c, d, e>>
  /\ \A a, b, c, d, e, f : <<a, b, c, d, e>> \o <<f>> = <<a, b, c, d, e, f>>
  /\ \A a, b, c : <<a>> \o <<b, c>> = <<a, b, c>>
  /\ \A a, b, c, d : <<a>> \o <<b, c, d>> = <<a, b, c, d>>
  /\ \A a, b, c, d : <<a, b>> \o <<c, d>> = <<a, b, c, d>>
  /\ \A a, b, c, d, e : <<a, b, c>> \o <<d, e>> = <<a, b, c, d, e>>
  /\ \A a, b, c, d, e, f : <<a, b, c, d>> \o <<e, f>> = <<a, b, c, d, e, f>>
  /\ \A a, b, c, d, e, f, g : <<a, b, c, d, e>> \o <<f, g>> = <<a, b, c, d, e, f, g>>
  /\ \A a, b, c, d, e, f, g, h : <<a, b>> \o <<c, d, e, f, g, h>> = <<a, b, c, d, e, f, g, h>>
  /\ \A a : <<a>> \o <<>> = <<a>>
  /\ \A a, b : <<a, b>> \o <<>> = <<a, b>>
<1>1. ASSUME NEW a, NEW b
      PROVE  <<a>> \o <<b>> = <<a, b>>
  <2> DEFINE S == {a, b}
             s == <<a>>
             t == <<b>>
             u == <<a, b>>
  <2>1. s \in Seq(S) /\ t \in Seq(S) /\ u \in Seq(S)
    OBVIOUS
  <2>2. /\ Len(s) = 1 /\ Len(t) = 1 /\ Len(u) = 1 + 1
        /\ \A i \in 1 .. 1 : u[i] = s[i]
        /\ \A i \in 1 .. 1 : u[1 + i] = t[i]
    OBVIOUS
  <2> HIDE DEF S, s, t, u
  <2>3. /\ Len(u) = Len(s) + Len(t) /\ \A i \in 1 .. Len(s) : u[i] = s[i]
        /\ \A i \in 1 .. Len(t) : u[Len(s) + i] = t[i]
    BY <2>2
  <2>4. s \o t = u
    BY <2>1, <2>3, JoinIs
  <2>5. QED
    BY <2>4 DEF s, t, u
<1>2. ASSUME NEW a, NEW b, NEW c
      PROVE  <<a, b>> \o <<c>> = <<a, b, c>>
  <2> DEFINE S == {a, b, c}
             s == <<a, b>>
             t == <<c>>
             u == <<a, b, c>>
  <2>1. s \in Seq(S) /\ t \in Seq(S) /\ u \in Seq(S)
    OBVIOUS
  <2>2. /\ Len(s) = 2 /\ Len(t) = 1 /\ Len(u) = 2 + 1
        /\ \A i \in 1 .. 2 : u[i] = s[i]
        /\ \A i \in 1 .. 1 : u[2 + i] = t[i]
    OBVIOUS
  <2> HIDE DEF S, s, t, u
  <2>3. /\ Len(u) = Len(s) + Len(t) /\ \A i \in 1 .. Len(s) : u[i] = s[i]
        /\ \A i \in 1 .. Len(t) : u[Len(s) + i] = t[i]
    BY <2>2
  <2>4. s \o t = u
    BY <2>1, <2>3, JoinIs
  <2>5. QED
    BY <2>4 DEF s, t, u
<1>3. ASSUME NEW a, NEW b, NEW c, NEW d
      PROVE  <<a, b, c>> \o <<d>> = <<a, b, c, d>>
  <2> DEFINE S == {a, b, c, d}
             s == <<a, b, c>>
             t == <<d>>
             u == <<a, b, c, d>>
  <2>1. s \in Seq(S) /\ t \in Seq(S) /\ u \in Seq(S)
    OBVIOUS
  <2>2. /\ Len(s) = 3 /\ Len(t) = 1 /\ Len(u) = 3 + 1
        /\ \A i \in 1 .. 3 : u[i] = s[i]
        /\ \A i \in 1 .. 1 : u[3 + i] = t[i]
    OBVIOUS
  <2> HIDE DEF S, s, t, u
  <2>3. /\ Len(u) = Len(s) + Len(t) /\ \A i \in 1 .. Len(s) : u[i] = s[i]
        /\ \A i \in 1 .. Len(t) : u[Len(s) + i] = t[i]
    BY <2>2
  <2>4. s \o t = u
    BY <2>1, <2>3, JoinIs
  <2>5. QED
    BY <2>4 DEF s, t, u
<1>4. ASSUME NEW a, NEW b, NEW c, NEW d, NEW e
      PROVE  <<a, b, c, d>> \o <<e>> = <<a, b, c, d, e>>
  <2> DEFINE S == {a, b, c, d, e}
             s == <<a, b, c, d>>
             t == <<e>>
             u == <<a, b, c, d, e>>
  <2>1. s \in Seq(S) /\ t \in Seq(S) /\ u \in Seq(S)
    OBVIOUS
  <2>2. /\ Len(s) = 4 /\ Len(t) = 1 /\ Len(u) = 4 + 1
        /\ \A i \in 1 .. 4 : u[i] = s[i]
        /\ \A i \in 1 .. 1 : u[4 + i] = t[i]
    OBVIOUS
  <2> HIDE DEF S, s, t, u
  <2>3. /\ Len(u) = Len(s) + Len(t) /\ \A i \in 1 .. Len(s) : u[i] = s[i]
        /\ \A i \in 1 .. Len(t) : u[Len(s) + i] = t[i]
    BY <2>2
  <2>4. s \o t = u
    BY <2>1, <2>3, JoinIs
  <2>5. QED
    BY <2>4 DEF s, t, u
<1>5. ASSUME NEW a, NEW b, NEW c, NEW d, NEW e, NEW f
      PROVE  <<a, b, c, d, e>> \o <<f>> = <<a, b, c, d, e, f>>
  <2> DEFINE S == {a, b, c, d, e, f}
             s == <<a, b, c, d, e>>
             t == <<f>>
             u == <<a, b, c, d, e, f>>
  <2>1. s \in Seq(S) /\ t \in Seq(S) /\ u \in Seq(S)
    OBVIOUS
  <2>2. /\ Len(s) = 5 /\ Len(t) = 1 /\ Len(u) = 5 + 1
        /\ \A i \in 1 .. 5 : u[i] = s[i]
        /\ \A i \in 1 .. 1 : u[5 + i] = t[i]
    OBVIOUS
  <2> HIDE DEF S, s, t, u
  <2>3. /\ Len(u) = Len(s) + Len(t) /\ \A i \in 1 .. Len(s) : u[i] = s[i]
        /\ \A i \in 1 .. Len(t) : u[Len(s) + i] = t[i]
    BY <2>2
  <2>4. s \o t = u
    BY <2>1, <2>3, JoinIs
  <2>5. QED
    BY <2>4 DEF s, t, u
<1>6. ASSUME NEW a, NEW b, NEW c
      PROVE  <<a>> \o <<b, c>> = <<a, b, c>>
  <2> DEFINE S == {a, b, c}
             s == <<a>>
             t == <<b, c>>
             u == <<a, b, c>>
  <2>1. s \in Seq(S) /\ t \in Seq(S) /\ u \in Seq(S)
    OBVIOUS
  <2>2. /\ Len(s) = 1 /\ Len(t) = 2 /\ Len(u) = 1 + 2
        /\ \A i \in 1 .. 1 : u[i] = s[i]
        /\ \A i \in 1 .. 2 : u[1 + i] = t[i]
    OBVIOUS
  <2> HIDE DEF S, s, t, u
  <2>3. /\ Len(u) = Len(s) + Len(t) /\ \A i \in 1 .. Len(s) : u[i] = s[i]
        /\ \A i \in 1 .. Len(t) : u[Len(s) + i] = t[i]
    BY <2>2
  <2>4. s \o t = u
    BY <2>1, <2>3, JoinIs
  <2>5. QED
    BY <2>4 DEF s, t, u
<1>7. ASSUME NEW a, NEW b, NEW c, NEW d
      PROVE  <<a>> \o <<b, c, d>> = <<a, b, c, d>>
  <2> DEFINE S == {a, b, c, d}
             s == <<a>>
             t == <<b, c, d>>
             u == <<a, b, c, d>>
  <2>1. s \in Seq(S) /\ t \in Seq(S) /\ u \in Seq(S)
    OBVIOUS
  <2>2. /\ Len(s) = 1 /\ Len(t) = 3 /\ Len(u) = 1 + 3
        /\ \A i \in 1 .. 1 : u[i] = s[i]
        /\ \A i \in 1 .. 3 : u[1 + i] = t[i]
    OBVIOUS
  <2> HIDE DEF S, s, t, u
  <2>3. /\ Len(u) = Len(s) + Len(t) /\ \A i \in 1 .. Len(s) : u[i] = s[i]
        /\ \A i \in 1 .. Len(t) : u[Len(s) + i] = t[i]
    BY <2>2
  <2>4. s \o t = u
    BY <2>1, <2>3, JoinIs
  <2>5. QED
    BY <2>4 DEF s, t, u
<1>8. ASSUME NEW a, NEW b, NEW c, NEW d
      PROVE  <<a, b>> \o <<c, d>> = <<a, b, c, d>>
  <2> DEFINE S == {a, b, c, d}
             s == <<a, b>>
             t == <<c, d>>
             u == <<a, b, c, d>>
  <2>1. s \in Seq(S) /\ t \in Seq(S) /\ u \in Seq(S)
    OBVIOUS
  <2>2. /\ Len(s) = 2 /\ Len(t) = 2 /\ Len(u) = 2 + 2
        /\ \A i \in 1 .. 2 : u[i] = s[i]
        /\ \A i \in 1 .. 2 : u[2 + i] = t[i]
    OBVIOUS
  <2> HIDE DEF S, s, t, u
  <2>3. /\ Len(u) = Len(s) + Len(t) /\ \A i \in 1 .. Len(s) : u[i] = s[i]
        /\ \A i \in 1 .. Len(t) : u[Len(s) + i] = t[i]
    BY <2>2
  <2>4. s \o t = u
    BY <2>1, <2>3, JoinIs
  <2>5. QED
    BY <2>4 DEF s, t, u
<1>9. ASSUME NEW a, NEW b, NEW c, NEW d, NEW e
      PROVE  <<a, b, c>> \o <<d, e>> = <<a, b, c, d, e>>
  <2> DEFINE S == {a, b, c, d, e}
             s == <<a, b, c>>
             t == <<d, e>>
             u == <<a, b, c, d, e>>
  <2>1. s \in Seq(S) /\ t \in Seq(S) /\ u \in Seq(S)
    OBVIOUS
  <2>2. /\ Len(s) = 3 /\ Len(t) = 2 /\ Len(u) = 3 + 2
        /\ \A i \in 1 .. 3 : u[i] = s[i]
        /\ \A i \in 1 .. 2 : u[3 + i] = t[i]
    OBVIOUS
  <2> HIDE DEF S, s, t, u
  <2>3. /\ Len(u) = Len(s) + Len(t) /\ \A i \in 1 .. Len(s) : u[i] = s[i]
        /\ \A i \in 1 .. Len(t) : u[Len(s) + i] = t[i]
    BY <2>2
  <2>4. s \o t = u
    BY <2>1, <2>3, JoinIs
  <2>5. QED
    BY <2>4 DEF s, t, u
<1>10. ASSUME NEW a, NEW b, NEW c, NEW d, NEW e, NEW f
      PROVE  <<a, b, c, d>> \o <<e, f>> = <<a, b, c, d, e, f>>
  <2> DEFINE S == {a, b, c, d, e, f}
             s == <<a, b, c, d>>
             t == <<e, f>>
             u == <<a, b, c, d, e, f>>
  <2>1. s \in Seq(S) /\ t \in Seq(S) /\ u \in Seq(S)
    OBVIOUS
  <2>2. /\ Len(s) = 4 /\ Len(t) = 2 /\ Len(u) = 4 + 2
        /\ \A i \in 1 .. 4 : u[i] = s[i]
        /\ \A i \in 1 .. 2 : u[4 + i] = t[i]
    OBVIOUS
  <2> HIDE DEF S, s, t, u
  <2>3. /\ Len(u) = Len(s) + Len(t) /\ \A i \in 1 .. Len(s) : u[i] = s[i]
        /\ \A i \in 1 .. Len(t) : u[Len(s) + i] = t[i]
    BY <2>2
  <2>4. s \o t = u
    BY <2>1, <2>3, JoinIs
  <2>5. QED
    BY <2>4 DEF s, t, u
<1>11. ASSUME NEW a, NEW b, NEW c, NEW d, NEW e, NEW f, NEW g
      PROVE  <<a, b, c, d, e>> \o <<f, g>> = <<a, b, c, d, e, f, g>>
  <2> DEFINE S == {a, b, c, d, e, f, g}
             s == <<a, b, c, d, e>>
             t == <<f, g>>
             u == <<a, b, c, d, e, f, g>>
  <2>1. s \in Seq(S) /\ t \in Seq(S) /\ u \in Seq(S)
    OBVIOUS
  <2>2. /\ Len(s) = 5 /\ Len(t) = 2 /\ Len(u) = 5 + 2
        /\ \A i \in 1 .. 5 : u[i] = s[i]
        /\ \A i \in 1 .. 2 : u[5 + i] = t[i]
    OBVIOUS
  <2> HIDE DEF S, s, t, u
  <2>3. /\ Len(u) = Len(s) + Len(t) /\ \A i \in 1 .. Len(s) : u[i] = s[i]
        /\ \A i \in 1 .. Len(t) : u[Len(s) + i] = t[i]
    BY <2>2
  <2>4. s \o t = u
    BY <2>1, <2>3, JoinIs
  <2>5. QED
    BY <2>4 DEF s, t, u
<1>12. ASSUME NEW a, NEW b, NEW c, NEW d, NEW e, NEW f, NEW g, NEW h
      PROVE  <<a, b>> \o <<c, d, e, f, g, h>> = <<a, b, c, d, e, f, g, h>>
  <2> DEFINE S == {a, b, c, d, e, f, g, h}
             s == <<a, b>>
             t == <<c, d, e, f, g, h>>
             u == <<a, b, c, d, e, f, g, h>>
  <2>1. s \in Seq(S) /\ t \in Seq(S) /\ u \in Seq(S)
    OBVIOUS
  <2>2. /\ Len(s) = 2 /\ Len(t) = 6 /\ Len(u) = 2 + 6
        /\ \A i \in 1 .. 2 : u[i] = s[i]
        /\ \A i \in 1 .. 6 : u[2 + i] = t[i]
    OBVIOUS
  <2> HIDE DEF S, s, t, u
  <2>3. /\ Len(u) = Len(s) + Len(t) /\ \A i \in 1 .. Len(s) : u[i] = s[i]
        /\ \A i \in 1 .. Len(t) : u[Len(s) + i] = t[i]
    BY <2>2
  <2>4. s \o t = u
    BY <2>1, <2>3, JoinIs
  <2>5. QED
    BY <2>4 DEF s, t, u
<1>13. ASSUME NEW a
      PROVE  <<a>> \o <<>> = <<a>>
  BY SeqEqual
<1>14. ASSUME NEW a, NEW b
      PROVE  <<a, b>> \o <<>> = <<a, b>>
  BY SeqEqual
<1>15. QED
  BY <1>1, <1>2, <1>3, <1>4, <1>5, <1>6, <1>7, <1>8, <1>9, <1>10, <1>11, <1>12, <1>13, <1>14

-----------------------------------------------------------------------------
(***************************************************************************)
(* The sections of the streams, as the receivers ask for them: what their  *)
(* last field is called, and that they have a size.                        *)
(***************************************************************************)
KeySec       == RecvKey[1].section
KeyRest(n)   == RecvKeyRest(n)[1].section
TimeSec      == <<Int32("kgtime")>>
TempSec      == <<Byte("temp")>>
PackSec      == RecvPack("p0")[1].section
PackRest(n)  == RecvPackRest("p0", n)[1].section
Pack2Sec     == RecvPack2[1].section
Pack2Rest(n) == RecvPack2Rest(n)[1].section
AcceptSec    == <<Byte("accept")>>
RotatedSec(n) == <<Ge("rotated", n)>>
OSec         == Repeat(<<Ge("o", Bitlength)>>, Blocks)
HatoSec      == Repeat(<<Ge("hato", Bitlength)>>, Blocks)

Name ==
  {"index", "payload", "height", "Bout", "s", "t", "sigma", "tau0", "tau1", "gamma0",
   "gamma1", "size", "zs0", "zs1", "zt0", "zt1", "T", "W0", "W1", "index0", "index1",
   "payload0", "payload1", "zs00", "zs01", "zt00", "zt01", "zs10", "zs11", "zt10",
   "zt11", "T0", "T1", "W00", "W01", "W10", "W11", "o", "hato", "kgtime", "temp",
   "accept", "rotated"}

Field == [field : Name, bytes : Nat]

LEMMA NamesAre ==
  /\ "index" \in Name /\ "payload" \in Name /\ "height" \in Name /\ "Bout" \in Name
  /\ "s" \in Name /\ "t" \in Name /\ "sigma" \in Name /\ "tau0" \in Name
  /\ "tau1" \in Name /\ "gamma0" \in Name /\ "gamma1" \in Name /\ "size" \in Name
  /\ "zs0" \in Name /\ "zs1" \in Name /\ "zt0" \in Name /\ "zt1" \in Name
  /\ "T" \in Name /\ "W0" \in Name /\ "W1" \in Name /\ "index0" \in Name
  /\ "index1" \in Name /\ "payload0" \in Name /\ "payload1" \in Name /\ "zs00" \in Name
  /\ "zs01" \in Name /\ "zt00" \in Name /\ "zt01" \in Name /\ "zs10" \in Name
  /\ "zs11" \in Name /\ "zt10" \in Name /\ "zt11" \in Name /\ "T0" \in Name
  /\ "T1" \in Name /\ "W00" \in Name /\ "W01" \in Name /\ "W10" \in Name
  /\ "W11" \in Name /\ "o" \in Name /\ "hato" \in Name /\ "kgtime" \in Name
  /\ "temp" \in Name /\ "accept" \in Name /\ "rotated" \in Name
  BY DEF Name

LEMMA FieldType ==
  /\ \A f \in Name : \A bits : Ge(f, bits) \in Field
  /\ \A f \in Name : {Block(f), Byte(f), Int32(f), SizeT(f)} \subseteq Field
<1>1. \A bits : GeBytes(bits) \in Nat
  BY DEF GeBytes
<1>2. QED
  BY <1>1 DEF Ge, Block, Byte, Int32, SizeT, Field

LEMMA RepeatFacts ==
  ASSUME NEW fields \in Seq(Field), Len(fields) \in {1, 3, 4}, NEW n \in Nat
  PROVE  /\ Repeat(fields, n) \in Seq(Field) /\ Len(Repeat(fields, n)) = n * Len(fields)
         /\ \A k \in 1 .. n * Len(fields) : \E i \in 1 .. Len(fields) : Repeat(fields, n)[k] = fields[i]
<1> DEFINE m == n * Len(fields)
           r == [k \in 1 .. m |-> fields[((k - 1) % Len(fields)) + 1]]
<1>1. m \in Nat
  OBVIOUS
<1>2. Repeat(fields, n) = r
  BY DEF Repeat
<1> HIDE DEF m
<1>3. ASSUME NEW k \in 1 .. m
      PROVE  ((k - 1) % Len(fields)) + 1 \in 1 .. Len(fields)
  <2>1. k - 1 \in Nat
    BY <1>1
  <2>2. CASE Len(fields) = 1
    BY <2>1, <2>2
  <2>3. CASE Len(fields) = 3
    BY <2>1, <2>3
  <2>4. CASE Len(fields) = 4
    BY <2>1, <2>4
  <2>5. QED
    BY <2>2, <2>3, <2>4
<1>4. \A i \in 1 .. Len(fields) : fields[i] \in Field
  BY ElementOfSeq
<1>5. r \in [1 .. m -> Field]
  BY <1>3, <1>4
<1>6. r \in Seq(Field) /\ Len(r) = m
  BY <1>1, <1>5, LenProperties, SeqDef
<1>7. \A k \in 1 .. m : \E i \in 1 .. Len(fields) : r[k] = fields[i]
  BY <1>3
<1> HIDE DEF r
<1>8. QED
  BY <1>2, <1>6, <1>7 DEF m

LEMMA JoinFacts ==
  ASSUME NEW s \in Seq(Field), NEW t \in Seq(Field)
  PROVE  /\ s \o t \in Seq(Field)
         /\ t # <<>> => s \o t # <<>> /\ Deciding(s \o t) = Deciding(t)
<1> DEFINE u == s \o t
<1>1. /\ u \in Seq(Field) /\ Len(u) = Len(s) + Len(t)
      /\ \A i \in 1 .. Len(s) + Len(t) : u[i] = IF i <= Len(s) THEN s[i] ELSE t[i - Len(s)]
  BY ConcatProperties
<1>2. Len(s) \in Nat /\ Len(t) \in Nat
  BY LenProperties
<1> HIDE DEF u
<1>3. ASSUME t # <<>>
      PROVE  u # <<>> /\ Deciding(u) = Deciding(t)
  <2>1. Len(t) # 0
    BY <1>3, EmptySeq
  <2>2. u[Len(u)] = t[Len(t)]
    BY <1>1, <1>2, <2>1
  <2>3. u # <<>>
    <3>1. Len(u) # 0
      BY <1>1, <1>2, <2>1
    <3>2. QED
      BY <3>1
  <2>4. QED
    BY <2>2, <2>3 DEF Deciding
<1>4. QED
  BY <1>1, <1>3 DEF u

LEMMA ShortSections ==
  /\ \A s \in {KeySec, PackSec, Pack2Sec, TimeSec, TempSec, AcceptSec} : s \in Seq(Field)
  /\ \A n : RotatedSec(n) \in Seq(Field) /\ Deciding(RotatedSec(n)) = "rotated"
  /\ Deciding(KeySec) = "height" /\ Deciding(PackSec) = "size" /\ Deciding(Pack2Sec) = "size"
  /\ Deciding(TimeSec) = "kgtime" /\ Deciding(TempSec) = "temp" /\ Deciding(AcceptSec) = "accept"
<1>1. KeySec = <<Ge("index", Bin), Ge("payload", Bitlength), Int32("height")>>
  BY DEF KeySec, RecvKey, Recv
<1>2. PackSec = <<Ge("index", Bin), Ge("payload", Bitlength), SizeT("size")>>
  BY DEF PackSec, RecvPack, Recv
<1>3. Pack2Sec = <<Ge("index0", Bin), Ge("index1", Bin),
                   Ge("payload0", Bitlength), Ge("payload1", Bitlength), SizeT("size")>>
  BY DEF Pack2Sec, RecvPack2, Recv
<1>4. \A a, b, c \in Field : <<a, b, c>> \in Seq(Field) /\ Deciding(<<a, b, c>>) = c.field
  BY DEF Deciding
<1>5. \A a \in Field : <<a>> \in Seq(Field) /\ Deciding(<<a>>) = a.field
  BY DEF Deciding
<1>6. \A f \in Name : /\ Int32(f) \in Field /\ Int32(f).field = f
                        /\ SizeT(f) \in Field /\ SizeT(f).field = f
                        /\ Byte(f) \in Field /\ Byte(f).field = f
                        /\ \A bits : Ge(f, bits) \in Field /\ Ge(f, bits).field = f
  <2>1. \A f : /\ Int32(f).field = f /\ SizeT(f).field = f /\ Byte(f).field = f
               /\ \A bits : Ge(f, bits).field = f
    BY DEF Int32, SizeT, Byte, Ge
  <2>2. QED
    BY <2>1, FieldType
<1>7. KeySec \in Seq(Field) /\ Deciding(KeySec) = "height"
  BY <1>1, <1>4, <1>6, NamesAre
<1>8. PackSec \in Seq(Field) /\ Deciding(PackSec) = "size"
  BY <1>2, <1>4, <1>6, NamesAre
<1>9. Pack2Sec \in Seq(Field) /\ Deciding(Pack2Sec) = "size"
  <2>1. Pack2Sec \in Seq(Field)
    BY <1>3, <1>6, NamesAre
  <2>2. Deciding(Pack2Sec) = "size"
    BY <1>3, <1>6, NamesAre DEF Deciding
  <2>3. QED
    BY <2>1, <2>2
<1>10. /\ TimeSec \in Seq(Field) /\ Deciding(TimeSec) = "kgtime"
       /\ TempSec \in Seq(Field) /\ Deciding(TempSec) = "temp"
       /\ AcceptSec \in Seq(Field) /\ Deciding(AcceptSec) = "accept"
  BY <1>5, <1>6, NamesAre DEF TimeSec, TempSec, AcceptSec
<1>11. \A n : RotatedSec(n) \in Seq(Field) /\ Deciding(RotatedSec(n)) = "rotated"
  BY <1>5, <1>6, NamesAre DEF RotatedSec
<1>12. QED
  BY <1>7, <1>8, <1>9, <1>10, <1>11

LEMMA LongSections ==
  ASSUME NEW n \in Nat
  PROVE  /\ \A s \in {KeyRest(n), PackRest(n), Pack2Rest(n)} : s \in Seq(Field) /\ Deciding(s) = "gamma1"
         /\ OSec \in Seq(Field) /\ Deciding(OSec) = "o"
         /\ HatoSec \in Seq(Field) /\ Deciding(HatoSec) = "hato"
<1>1. \A s, t \in Seq(Field) : s \o t \in Seq(Field)
  BY JoinFacts
<1>2. \A s, t \in Seq(Field) : t # <<>> => Deciding(s \o t) = Deciding(t)
  BY JoinFacts
<1>3. \A f \in Seq(Field) : Len(f) \in {1, 3, 4} => Repeat(f, n) \in Seq(Field)
  BY RepeatFacts
<1>4. /\ \A a \in Field : <<a>> \in Seq(Field) /\ Len(<<a>>) = 1
      /\ \A a, b, c \in Field : <<a, b, c>> \in Seq(Field) /\ Len(<<a, b, c>>) = 3
      /\ \A a, b, c, d \in Field : <<a, b, c, d>> \in Seq(Field) /\ Len(<<a, b, c, d>>) = 4
  OBVIOUS
<1>5. \A f \in Name : /\ Int32(f) \in Field /\ Block(f) \in Field /\ Byte(f) \in Field
                        /\ \A bits : Ge(f, bits) \in Field /\ Ge(f, bits).field = f
  <2>1. \A f : \A bits : Ge(f, bits).field = f
    BY DEF Ge
  <2>2. QED
    BY <2>1, FieldType
<1>6. /\ \A f \in Name : Repeat(<<Block(f)>>, n) \in Seq(Field) /\ Repeat(<<Byte(f)>>, n) \in Seq(Field)
      /\ \A f, g, h \in Name : Repeat(<<Block(f), Byte(g), Byte(h)>>, n) \in Seq(Field)
      /\ \A f, g, h, i \in Name : Repeat(<<Block(f), Block(g), Byte(h), Byte(i)>>, n) \in Seq(Field)
  BY <1>3, <1>4, <1>5
<1>7. KeyRest(n) \in Seq(Field) /\ Deciding(KeyRest(n)) = "gamma1"
  <2> DEFINE e == <<Ge("gamma0", Bitlength), Ge("gamma1", Bitlength)>>
             s == <<Int32("Bout"), Block("s"), Byte("t")>> \o Repeat(<<Block("sigma")>>, n)
                  \o Repeat(<<Byte("tau0")>>, n) \o Repeat(<<Byte("tau1")>>, n)
  <2>1. e \in Seq(Field) /\ e # <<>> /\ Deciding(e) = "gamma1"
    <3>1. e \in Seq(Field)
      BY <1>5, NamesAre
    <3>2. e # <<>>
      OBVIOUS
    <3>3. Deciding(e) = "gamma1"
      BY <1>5, NamesAre DEF Deciding
    <3>4. QED
      BY <3>1, <3>2, <3>3
  <2>2. s \in Seq(Field)
    BY <1>1, <1>4, <1>5, <1>6, NamesAre
  <2>3. KeyRest(n) = s \o e
    BY DEF KeyRest, RecvKeyRest, Recv
  <2> HIDE DEF s, e
  <2>4. QED
    BY <1>1, <1>2, <2>1, <2>2, <2>3
<1>8. PackRest(n) \in Seq(Field) /\ Deciding(PackRest(n)) = "gamma1"
  <2> DEFINE e == <<Int32("T"), Ge("W0", Bitlength), Ge("W1", Bitlength),
                    Ge("gamma0", Bitlength), Ge("gamma1", Bitlength)>>
             s == Repeat(<<Block("zs0")>>, n) \o Repeat(<<Block("zs1")>>, n)
                  \o Repeat(<<Byte("zt0")>>, n) \o Repeat(<<Byte("zt1")>>, n)
                  \o Repeat(<<Block("sigma"), Byte("tau0"), Byte("tau1")>>, n)
  <2>1. e \in Seq(Field) /\ e # <<>> /\ Deciding(e) = "gamma1"
    <3>1. e \in Seq(Field)
      BY <1>5, NamesAre
    <3>2. e # <<>>
      OBVIOUS
    <3>3. Deciding(e) = "gamma1"
      BY <1>5, NamesAre DEF Deciding
    <3>4. QED
      BY <3>1, <3>2, <3>3
  <2>2. s \in Seq(Field)
    BY <1>1, <1>6, NamesAre
  <2>3. PackRest(n) = s \o e
    BY DEF PackRest, RecvPackRest, Recv
  <2> HIDE DEF s, e
  <2>4. QED
    BY <1>1, <1>2, <2>1, <2>2, <2>3
<1>9. Pack2Rest(n) \in Seq(Field) /\ Deciding(Pack2Rest(n)) = "gamma1"
  <2> DEFINE e == <<Int32("T0"), Int32("T1"), Ge("W00", Bitlength), Ge("W01", Bitlength),
                    Ge("W10", Bitlength), Ge("W11", Bitlength),
                    Ge("gamma0", Bitlength), Ge("gamma1", Bitlength)>>
             s == Repeat(<<Block("zs00"), Block("zs01"), Byte("zt00"), Byte("zt01")>>, n)
                  \o Repeat(<<Block("zs10"), Block("zs11"), Byte("zt10"), Byte("zt11")>>, n)
                  \o Repeat(<<Block("sigma"), Byte("tau0"), Byte("tau1")>>, n)
  <2>1. e \in Seq(Field) /\ e # <<>> /\ Deciding(e) = "gamma1"
    <3>1. e \in Seq(Field)
      BY <1>5, NamesAre
    <3>2. e # <<>>
      OBVIOUS
    <3>3. Deciding(e) = "gamma1"
      BY <1>5, NamesAre DEF Deciding
    <3>4. QED
      BY <3>1, <3>2, <3>3
  <2>2. s \in Seq(Field)
    BY <1>1, <1>6, NamesAre
  <2>3. Pack2Rest(n) = s \o e
    BY DEF Pack2Rest, RecvPack2Rest, Recv
  <2> HIDE DEF s, e
  <2>4. QED
    BY <1>1, <1>2, <2>1, <2>2, <2>3
<1>10. ASSUME NEW f \in Name
       PROVE  LET s == Repeat(<<Ge(f, Bitlength)>>, Blocks) IN s \in Seq(Field) /\ Deciding(s) = f
  <2> DEFINE s == Repeat(<<Ge(f, Bitlength)>>, Blocks)
             b == <<Ge(f, Bitlength)>>
  <2>1. Blocks \in Nat /\ Blocks >= 1
    BY SessionAssumption
  <2>2. b \in Seq(Field) /\ Len(b) = 1 /\ b[1].field = f
    BY <1>5
  <2> HIDE DEF b
  <2>3. /\ Repeat(b, Blocks) \in Seq(Field) /\ Len(Repeat(b, Blocks)) = Blocks * Len(b)
        /\ \A k \in 1 .. Blocks * Len(b) : \E i \in 1 .. Len(b) : Repeat(b, Blocks)[k] = b[i]
    BY <2>1, <2>2, RepeatFacts
  <2>4. Repeat(b, Blocks)[Len(Repeat(b, Blocks))] = b[1]
    BY <2>1, <2>2, <2>3
  <2>5. Deciding(Repeat(b, Blocks)) = f
    BY <2>2, <2>4 DEF Deciding
  <2>6. QED
    BY <2>3, <2>5 DEF b
<1>11. QED
  BY <1>7, <1>8, <1>9, <1>10, NamesAre DEF OSec, HatoSec

LEMMA BytesType ==
  ASSUME NEW section \in Seq(Field)
  PROVE  Bytes(section) \in Nat
<1> DEFINE L == Len(section)
           X == Nat
           g == [i \in Nat |-> [x \in X |-> IF i < L THEN x + section[i + 1].bytes ELSE x]]
           Eq(r) == r = [k \in 0 .. L |-> IF k = 0 THEN 0 ELSE r[k - 1] + section[k].bytes]
           upTo == CHOOSE r : Eq(r)
<1>1. L \in Nat /\ \A k \in 1 .. L : section[k].bytes \in Nat
  <2>1. \A k \in 1 .. L : section[k] \in Field
    BY ElementOfSeq
  <2>2. QED
    BY <2>1, LenProperties DEF Field
<1>2. g \in [Nat -> [X -> X]]
  <2>1. ASSUME NEW i \in Nat, NEW x \in X
        PROVE  (IF i < L THEN x + section[i + 1].bytes ELSE x) \in X
    <3>1. i < L => i + 1 \in 1 .. L
      BY <1>1
    <3>2. QED
      BY <1>1, <3>1
  <2>2. QED
    BY <2>1
<1>3. \E f \in [0 .. L -> X] : f[0] = 0 /\ \A i \in 0 .. L - 1 : f[i + 1] = g[i][f[i]]
  <2> HIDE DEF L, g
  <2>1. 0 \in X
    OBVIOUS
  <2> DEFINE z == 0
  <2>2. z \in X
    OBVIOUS
  <2> HIDE DEF X, z
  <2>3. \A n \in Nat : \E f \in [0 .. n -> X] : Follows(f, n, z, g)
    BY <1>2, <2>2, RecursionExists
  <2>4. \E f \in [0 .. L -> X] : Follows(f, L, z, g)
    BY <1>1, <2>3
  <2>5. QED
    BY <2>4 DEF z, Follows
<1>4. PICK f \in [0 .. L -> X] : f[0] = 0 /\ \A i \in 0 .. L - 1 : f[i + 1] = g[i][f[i]]
  BY <1>3
<1>5. Eq(f)
  <2>1. ASSUME NEW k \in 0 .. L
        PROVE  f[k] = IF k = 0 THEN 0 ELSE f[k - 1] + section[k].bytes
    <3>1. CASE k = 0
      BY <1>4, <3>1
    <3>2. CASE k # 0
      <4>0. k - 1 \in 0 .. L - 1 /\ (k - 1) + 1 = k /\ k - 1 \in Nat /\ k - 1 < L
        BY <1>1, <3>2
      <4>1. k - 1 \in 0 .. L - 1 /\ (k - 1) + 1 = k /\ k - 1 \in Nat /\ k - 1 < L /\ f[k - 1] \in X
        BY <4>0
      <4>2. f[k] = g[k - 1][f[k - 1]]
        BY <1>4, <4>1
      <4>3. QED
        BY <3>2, <4>1, <4>2
    <3>3. QED
      BY <3>1, <3>2
  <2>2. f = [k \in 0 .. L |-> f[k]]
    OBVIOUS
  <2>3. QED
    BY <2>1, <2>2
<1>6. Eq(upTo)
  <2> HIDE DEF Eq
  <2>1. QED
    BY <1>5 DEF upTo
<1> HIDE DEF upTo
<1> DEFINE S == {k \in Nat : k <= L => upTo[k] \in Nat}
<1>7. 0 \in S
  BY <1>1, <1>6
<1>8. ASSUME NEW k \in Nat, k \in S PROVE k + 1 \in S
  <2> SUFFICES ASSUME k + 1 <= L PROVE upTo[k + 1] \in Nat
    OBVIOUS
  <2>1. k + 1 \in 0 .. L /\ k + 1 # 0 /\ (k + 1) - 1 = k /\ k <= L /\ k + 1 \in 1 .. L
    BY <1>1
  <2>2. upTo[k] \in Nat
    BY <1>8, <2>1
  <2>3. upTo[k + 1] = upTo[k] + section[k + 1].bytes
    BY <1>6, <2>1
  <2>4. QED
    BY <1>1, <2>1, <2>2, <2>3
<1> HIDE DEF S
<1>9. \A k \in Nat : k \in S
  BY <1>7, <1>8, SetInduction
<1>10. upTo[L] \in Nat
  BY <1>1, <1>9 DEF S
<1>11. QED
  BY <1>10 DEF Bytes, upTo
-----------------------------------------------------------------------------
(***************************************************************************)
(* The programs, call by call.                                             *)
(***************************************************************************)
SendRec(to, section, v) == [do |-> "send", peer |-> to, section |-> section, val |-> v]
RecvRec(from, section)  == [do |-> "recv", peer |-> from, section |-> section, val |-> 0]
CheckRec                == [do |-> "check", peer |-> "c", section |-> <<>>, val |-> 0]

StartBy(p, a, b, c) == CASE p = "p2" -> a [] p \in Server -> b [] p = "c" -> c

AfterBy(p, q, field, a, b, c, d, e) ==
  CASE field = "height"               -> a
    [] field = "size" /\ q \in Server -> b
    [] field = "size" /\ q = "p2"     -> c
    [] field = "accept"               -> d
    [] OTHER                          -> e

LEMMA ChoiceFacts ==
  /\ \A a, b, c : StartBy("p2", a, b, c) = a
  /\ \A p \in Server : \A a, b, c : StartBy(p, a, b, c) = b
  /\ \A a, b, c : StartBy("c", a, b, c) = c
  /\ \A p, q, a, b, c, d, e : AfterBy(p, q, "height", a, b, c, d, e) = a
  /\ \A p, q, a, b, c, d, e : q \in Server => AfterBy(p, q, "size", a, b, c, d, e) = b
  /\ \A p, a, b, c, d, e : AfterBy(p, "p2", "size", a, b, c, d, e) = c
  /\ \A p, q, a, b, c, d, e : AfterBy(p, q, "accept", a, b, c, d, e) = d
  /\ \A p, q, f, a, b, c, d, e :
       f \notin {"height", "size", "accept"} => AfterBy(p, q, f, a, b, c, d, e) = e
<1>1. /\ \A a, b, c : StartBy("p2", a, b, c) = a
      /\ \A p \in Server : \A a, b, c : StartBy(p, a, b, c) = b
      /\ \A a, b, c : StartBy("c", a, b, c) = c
  BY DEF StartBy, Server
<1>2. \A p, q, f, a, b, c, d, e : f = "height" => AfterBy(p, q, f, a, b, c, d, e) = a
  BY Zenon DEF AfterBy
<1>3. \A p, q, f, a, b, c, d, e :
        f = "size" /\ q \in Server => AfterBy(p, q, f, a, b, c, d, e) = b
  BY DEF AfterBy, Server
<1>4. \A p, q, f, a, b, c, d, e :
        f = "size" /\ q = "p2" => AfterBy(p, q, f, a, b, c, d, e) = c
  BY DEF AfterBy, Server
<1>5. \A p, q, f, a, b, c, d, e : f = "accept" => AfterBy(p, q, f, a, b, c, d, e) = d
  BY DEF AfterBy
<1>6. \A p, q, f, a, b, c, d, e :
        f \notin {"height", "size", "accept"} => AfterBy(p, q, f, a, b, c, d, e) = e
  BY DEF AfterBy
<1>7. QED
  BY <1>1, <1>2, <1>3, <1>4, <1>5, <1>6

LEMMA SectionCalls ==
  /\ \A p : DealTo(p) = <<SendRec(p, KeySec, Bin), SendRec(p, KeyRest(Bin), 0)>>
  /\ \A n : SendPack(n) = <<SendRec("c", PackSec, n), SendRec("c", PackRest(n), 0)>>
  /\ SendPack2 = <<SendRec("c", Pack2Sec, Bin), SendRec("c", Pack2Rest(Bin), 0)>>
  /\ SendAnswer = <<SendRec("c", OSec, 0), SendRec("c", HatoSec, 0)>>
  /\ RecvKey = <<RecvRec("p2", KeySec)>>
  /\ \A n : RecvKeyRest(n) = <<RecvRec("p2", KeyRest(n))>>
  /\ \A p : RecvPack(p) = <<RecvRec(p, PackSec)>>
  /\ \A p, n : RecvPackRest(p, n) = <<RecvRec(p, PackRest(n))>>
  /\ RecvPack2 = <<RecvRec("p2", Pack2Sec)>>
  /\ \A n : RecvPack2Rest(n) = <<RecvRec("p2", Pack2Rest(n))>>
  /\ \A p : RecvAnswer(p) = <<RecvRec(p, OSec), RecvRec(p, HatoSec)>>
<1>1. \A a, b : <<a>> \o <<b>> = <<a, b>>
  BY JoinTuples
<1>2. /\ RecvKey = <<RecvRec("p2", KeySec)>>
      /\ \A p : RecvPack(p) = <<RecvRec(p, PackSec)>>
      /\ RecvPack2 = <<RecvRec("p2", Pack2Sec)>>
  BY DEF RecvKey, RecvPack, RecvPack2, KeySec, PackSec, Pack2Sec, Recv, RecvRec
<1>3. \A n : RecvKeyRest(n) = <<RecvRec("p2", KeyRest(n))>>
  BY DEF RecvKeyRest, KeyRest, Recv, RecvRec
<1>4. \A p, n : RecvPackRest(p, n) = <<RecvRec(p, PackRest(n))>>
  BY DEF RecvPackRest, PackRest, Recv, RecvRec
<1>5. \A n : RecvPack2Rest(n) = <<RecvRec("p2", Pack2Rest(n))>>
  BY DEF RecvPack2Rest, Pack2Rest, Recv, RecvRec
<1>6. \A p : DealTo(p) = <<SendRec(p, KeySec, Bin), SendRec(p, KeyRest(Bin), 0)>>
  <2>1. ASSUME NEW p
        PROVE  DealTo(p) = Send(p, KeySec, Bin) \o Send(p, KeyRest(Bin), 0)
    BY DEF DealTo, KeySec, KeyRest, RecvKey, RecvKeyRest, Recv
  <2>2. QED
    BY <1>1, <2>1 DEF Send, SendRec
<1>7. \A n : SendPack(n) = <<SendRec("c", PackSec, n), SendRec("c", PackRest(n), 0)>>
  <2>1. ASSUME NEW n
        PROVE  SendPack(n) = Send("c", PackSec, n) \o Send("c", PackRest(n), 0)
    BY DEF SendPack, PackSec, PackRest, RecvPack, RecvPackRest, Recv
  <2>2. QED
    BY <1>1, <2>1 DEF Send, SendRec
<1>8. SendPack2 = <<SendRec("c", Pack2Sec, Bin), SendRec("c", Pack2Rest(Bin), 0)>>
  <2>1. SendPack2 = Send("c", Pack2Sec, Bin) \o Send("c", Pack2Rest(Bin), 0)
    BY DEF SendPack2, Pack2Sec, Pack2Rest, RecvPack2, RecvPack2Rest, Recv
  <2>2. QED
    BY <1>1, <2>1 DEF Send, SendRec
<1>9. SendAnswer = <<SendRec("c", OSec, 0), SendRec("c", HatoSec, 0)>>
  BY <1>1 DEF SendAnswer, OSec, HatoSec, Send, SendRec
<1>10. \A p : RecvAnswer(p) = <<RecvRec(p, OSec), RecvRec(p, HatoSec)>>
  BY <1>1 DEF RecvAnswer, OSec, HatoSec, Recv, RecvRec
<1>11. QED
  BY <1>2, <1>3, <1>4, <1>5, <1>6, <1>7, <1>8, <1>9, <1>10

LEMMA ProgramTexts ==
  /\ Start("p2") = <<SendRec("p0", KeySec, Bin), SendRec("p0", KeyRest(Bin), 0),
                     SendRec("p0", TimeSec, 0),
                     SendRec("p1", KeySec, Bin), SendRec("p1", KeyRest(Bin), 0),
                     SendRec("c", Pack2Sec, Bin), SendRec("c", Pack2Rest(Bin), 0)>>
  /\ \A p \in Server : Start(p) = <<RecvRec("p2", KeySec)>>
  /\ Start("c") = <<RecvRec("p0", TempSec), RecvRec("p1", TempSec), RecvRec("p0", PackSec),
                    RecvRec("p1", PackSec), RecvRec("p2", Pack2Sec), CheckRec>>
  /\ \A n : Offline("p0", n) =
       <<RecvRec("p2", KeyRest(n)), RecvRec("p2", TimeSec), SendRec("c", TempSec, 0),
         SendRec("c", PackSec, n), SendRec("c", PackRest(n), 0), RecvRec("c", AcceptSec)>>
  /\ \A n : Offline("p1", n) =
       <<RecvRec("p2", KeyRest(n)), SendRec("c", TempSec, 0),
         SendRec("c", PackSec, n), SendRec("c", PackRest(n), 0), RecvRec("c", AcceptSec)>>
  /\ \A n : Online(n) =
       <<RecvRec("c", RotatedSec(n)), SendRec("c", OSec, 0), SendRec("c", HatoSec, 0)>>
<1>1. Start("p2") = <<SendRec("p0", KeySec, Bin), SendRec("p0", KeyRest(Bin), 0),
                      SendRec("p0", TimeSec, 0),
                      SendRec("p1", KeySec, Bin), SendRec("p1", KeyRest(Bin), 0),
                      SendRec("c", Pack2Sec, Bin), SendRec("c", Pack2Rest(Bin), 0)>>
  <2>1. Start("p2") = DealTo("p0") \o Send("p0", TimeSec, 0) \o DealTo("p1") \o SendPack2
    <3> DEFINE x == DealTo("p0") \o Send("p0", TimeSec, 0) \o DealTo("p1") \o SendPack2
               y == Recv("p0", <<Byte("temp")>>) \o Recv("p1", <<Byte("temp")>>)
                    \o RecvPack("p0") \o RecvPack("p1") \o RecvPack2 \o CheckCall
    <3>1. Start("p2") = StartBy("p2", x, RecvKey, y)
      BY DEF Start, StartBy, TimeSec
    <3> HIDE DEF x, y
    <3>2. Start("p2") = x
      BY <3>1, ChoiceFacts
    <3>3. QED
      BY <3>2 DEF x
  <2> DEFINE a == SendRec("p0", KeySec, Bin)
             b == SendRec("p0", KeyRest(Bin), 0)
             d == SendRec("p0", TimeSec, 0)
             e == SendRec("p1", KeySec, Bin)
             f == SendRec("p1", KeyRest(Bin), 0)
             g == SendRec("c", Pack2Sec, Bin)
             h == SendRec("c", Pack2Rest(Bin), 0)
  <2>2. Send("p0", TimeSec, 0) = <<d>>
    BY DEF Send, SendRec
  <2>3. DealTo("p0") = <<a, b>> /\ DealTo("p1") = <<e, f>> /\ SendPack2 = <<g, h>>
    BY SectionCalls
  <2> HIDE DEF a, b, d, e, f, g, h
  <2>4. Start("p2") = <<a, b>> \o <<d>> \o <<e, f>> \o <<g, h>>
    BY <2>1, <2>2, <2>3
  <2>5. <<a, b>> \o <<d>> = <<a, b, d>>
    BY JoinTuples
  <2>6. <<a, b, d>> \o <<e, f>> = <<a, b, d, e, f>>
    BY JoinTuples
  <2>7. <<a, b, d, e, f>> \o <<g, h>> = <<a, b, d, e, f, g, h>>
    BY JoinTuples
  <2>8. QED
    BY <2>4, <2>5, <2>6, <2>7 DEF a, b, d, e, f, g, h
<1>2. ASSUME NEW p \in Server
      PROVE  Start(p) = <<RecvRec("p2", KeySec)>>
  <2> DEFINE x == DealTo("p0") \o Send("p0", <<Int32("kgtime")>>, 0) \o DealTo("p1") \o SendPack2
             y == Recv("p0", <<Byte("temp")>>) \o Recv("p1", <<Byte("temp")>>)
                  \o RecvPack("p0") \o RecvPack("p1") \o RecvPack2 \o CheckCall
  <2>1. Start(p) = StartBy(p, x, RecvKey, y)
    BY DEF Start, StartBy
  <2> HIDE DEF x, y
  <2>2. Start(p) = RecvKey
    BY <2>1, ChoiceFacts
  <2>3. QED
    BY <2>2, SectionCalls
<1>3. Start("c") = <<RecvRec("p0", TempSec), RecvRec("p1", TempSec), RecvRec("p0", PackSec),
                     RecvRec("p1", PackSec), RecvRec("p2", Pack2Sec), CheckRec>>
  <2>1. Start("c") = Recv("p0", TempSec) \o Recv("p1", TempSec)
                     \o RecvPack("p0") \o RecvPack("p1") \o RecvPack2 \o CheckCall
    <3> DEFINE x == DealTo("p0") \o Send("p0", <<Int32("kgtime")>>, 0) \o DealTo("p1") \o SendPack2
               y == Recv("p0", TempSec) \o Recv("p1", TempSec)
                    \o RecvPack("p0") \o RecvPack("p1") \o RecvPack2 \o CheckCall
    <3>1. Start("c") = StartBy("c", x, RecvKey, y)
      BY DEF Start, StartBy, TempSec
    <3> HIDE DEF x, y
    <3>2. Start("c") = y
      BY <3>1, ChoiceFacts
    <3>3. QED
      BY <3>2 DEF y
  <2>2. /\ Recv("p0", TempSec) = <<RecvRec("p0", TempSec)>>
        /\ Recv("p1", TempSec) = <<RecvRec("p1", TempSec)>> /\ CheckCall = <<CheckRec>>
    BY DEF Recv, RecvRec, CheckCall, CheckRec
  <2> DEFINE a == RecvRec("p0", TempSec)
             b == RecvRec("p1", TempSec)
             d == RecvRec("p0", PackSec)
             e == RecvRec("p1", PackSec)
             f == RecvRec("p2", Pack2Sec)
             g == CheckRec
  <2>3. /\ Recv("p0", TempSec) = <<a>> /\ Recv("p1", TempSec) = <<b>> /\ CheckCall = <<g>>
        /\ RecvPack("p0") = <<d>> /\ RecvPack("p1") = <<e>> /\ RecvPack2 = <<f>>
    BY <2>2, SectionCalls
  <2> HIDE DEF a, b, d, e, f, g
  <2>4. Start("c") = <<a>> \o <<b>> \o <<d>> \o <<e>> \o <<f>> \o <<g>>
    BY <2>1, <2>3
  <2>5. <<a>> \o <<b>> = <<a, b>> /\ <<a, b>> \o <<d>> = <<a, b, d>>
    BY JoinTuples
  <2>6. <<a, b, d>> \o <<e>> = <<a, b, d, e>> /\ <<a, b, d, e>> \o <<f>> = <<a, b, d, e, f>>
    BY JoinTuples
  <2>7. <<a, b, d, e, f>> \o <<g>> = <<a, b, d, e, f, g>>
    BY JoinTuples
  <2>8. QED
    BY <2>4, <2>5, <2>6, <2>7 DEF a, b, d, e, f, g
<1>4. ASSUME NEW n
      PROVE  Offline("p0", n) =
               <<RecvRec("p2", KeyRest(n)), RecvRec("p2", TimeSec), SendRec("c", TempSec, 0),
                 SendRec("c", PackSec, n), SendRec("c", PackRest(n), 0), RecvRec("c", AcceptSec)>>
  <2>1. Offline("p0", n) = RecvKeyRest(n) \o Recv("p2", TimeSec) \o Send("c", TempSec, 0)
                           \o SendPack(n) \o Recv("c", AcceptSec)
    BY DEF Offline, TimeSec, TempSec, AcceptSec
  <2>2. /\ Recv("p2", TimeSec) = <<RecvRec("p2", TimeSec)>>
        /\ Send("c", TempSec, 0) = <<SendRec("c", TempSec, 0)>>
        /\ Recv("c", AcceptSec) = <<RecvRec("c", AcceptSec)>>
    BY DEF Recv, RecvRec, Send, SendRec
  <2> DEFINE a == RecvRec("p2", KeyRest(n))
             b == RecvRec("p2", TimeSec)
             d == SendRec("c", TempSec, 0)
             e == SendRec("c", PackSec, n)
             f == SendRec("c", PackRest(n), 0)
             g == RecvRec("c", AcceptSec)
  <2>3. Offline("p0", n) = <<a>> \o <<b>> \o <<d>> \o <<e, f>> \o <<g>>
    BY <2>1, <2>2, SectionCalls
  <2> HIDE DEF a, b, d, e, f, g
  <2>4. <<a>> \o <<b>> = <<a, b>> /\ <<a, b>> \o <<d>> = <<a, b, d>>
    BY JoinTuples
  <2>5. <<a, b, d>> \o <<e, f>> = <<a, b, d, e, f>>
    BY JoinTuples
  <2>6. <<a, b, d, e, f>> \o <<g>> = <<a, b, d, e, f, g>>
    BY JoinTuples
  <2>7. QED
    BY <2>3, <2>4, <2>5, <2>6 DEF a, b, d, e, f, g
<1>5. ASSUME NEW n
      PROVE  Offline("p1", n) =
               <<RecvRec("p2", KeyRest(n)), SendRec("c", TempSec, 0),
                 SendRec("c", PackSec, n), SendRec("c", PackRest(n), 0), RecvRec("c", AcceptSec)>>
  <2>1. Offline("p1", n) = RecvKeyRest(n) \o <<>> \o Send("c", TempSec, 0)
                           \o SendPack(n) \o Recv("c", AcceptSec)
    BY DEF Offline, TempSec, AcceptSec
  <2>2. /\ Send("c", TempSec, 0) = <<SendRec("c", TempSec, 0)>>
        /\ Recv("c", AcceptSec) = <<RecvRec("c", AcceptSec)>>
    BY DEF Recv, RecvRec, Send, SendRec
  <2> DEFINE a == RecvRec("p2", KeyRest(n))
             d == SendRec("c", TempSec, 0)
             e == SendRec("c", PackSec, n)
             f == SendRec("c", PackRest(n), 0)
             g == RecvRec("c", AcceptSec)
  <2>3. Offline("p1", n) = <<a>> \o <<>> \o <<d>> \o <<e, f>> \o <<g>>
    BY <2>1, <2>2, SectionCalls
  <2> HIDE DEF a, d, e, f, g
  <2>4. <<a>> \o <<>> = <<a>> /\ <<a>> \o <<d>> = <<a, d>>
    BY JoinTuples
  <2>5. <<a, d>> \o <<e, f>> = <<a, d, e, f>>
    BY JoinTuples
  <2>6. <<a, d, e, f>> \o <<g>> = <<a, d, e, f, g>>
    BY JoinTuples
  <2>7. QED
    BY <2>3, <2>4, <2>5, <2>6 DEF a, d, e, f, g
<1>6. ASSUME NEW n
      PROVE  Online(n) =
               <<RecvRec("c", RotatedSec(n)), SendRec("c", OSec, 0), SendRec("c", HatoSec, 0)>>
  <2>1. Online(n) = <<RecvRec("c", RotatedSec(n))>> \o SendAnswer
    BY DEF Online, RotatedSec, Recv, RecvRec
  <2>2. QED
    BY <2>1, SectionCalls, JoinTuples
<1>7. QED
  BY <1>1, <1>2, <1>3, <1>4, <1>5, <1>6

LEMMA DecidedTexts ==
  LET n == sizes[<<"p2", "c">>] IN
  /\ Decided(0) = <<SendRec("p0", AcceptSec, 0), SendRec("p1", AcceptSec, 0)>>
  /\ Decided(1) = <<SendRec("p0", AcceptSec, 1), SendRec("p1", AcceptSec, 1),
                    SendRec("p0", RotatedSec(n), 0), SendRec("p1", RotatedSec(n), 0),
                    RecvRec("p0", OSec), RecvRec("p0", HatoSec),
                    RecvRec("p1", OSec), RecvRec("p1", HatoSec)>>
<1> DEFINE n == sizes[<<"p2", "c">>]
<1>1. \A q, v : Send(q, AcceptSec, v) = <<SendRec(q, AcceptSec, v)>>
  BY DEF Send, SendRec
<1>2. \A q : Send(q, RotatedSec(n), 0) = <<SendRec(q, RotatedSec(n), 0)>>
  BY DEF Send, SendRec
<1>3. Decided(0) = Send("p0", AcceptSec, 0) \o Send("p1", AcceptSec, 0) \o <<>>
  BY DEF Decided, AcceptSec
<1>4. Decided(1) = Send("p0", AcceptSec, 1) \o Send("p1", AcceptSec, 1)
                   \o (Send("p0", RotatedSec(n), 0) \o Send("p1", RotatedSec(n), 0)
                       \o RecvAnswer("p0") \o RecvAnswer("p1"))
  BY DEF Decided, AcceptSec, RotatedSec
<1> HIDE DEF n
<1>5. Decided(0) = <<SendRec("p0", AcceptSec, 0), SendRec("p1", AcceptSec, 0)>>
  <2> DEFINE a == SendRec("p0", AcceptSec, 0)
             b == SendRec("p1", AcceptSec, 0)
  <2>1. Decided(0) = <<a>> \o <<b>> \o <<>>
    BY <1>1, <1>3
  <2> HIDE DEF a, b
  <2>2. <<a>> \o <<b>> = <<a, b>> /\ <<a, b>> \o <<>> = <<a, b>>
    BY JoinTuples
  <2>3. QED
    BY <2>1, <2>2 DEF a, b
<1>6. Decided(1) = <<SendRec("p0", AcceptSec, 1), SendRec("p1", AcceptSec, 1),
                    SendRec("p0", RotatedSec(n), 0), SendRec("p1", RotatedSec(n), 0),
                    RecvRec("p0", OSec), RecvRec("p0", HatoSec),
                    RecvRec("p1", OSec), RecvRec("p1", HatoSec)>>
  <2> DEFINE a == SendRec("p0", AcceptSec, 1)
             b == SendRec("p1", AcceptSec, 1)
             d == SendRec("p0", RotatedSec(n), 0)
             e == SendRec("p1", RotatedSec(n), 0)
             f == RecvRec("p0", OSec)
             g == RecvRec("p0", HatoSec)
             h == RecvRec("p1", OSec)
             i == RecvRec("p1", HatoSec)
  <2>1. RecvAnswer("p0") = <<f, g>> /\ RecvAnswer("p1") = <<h, i>>
    BY SectionCalls
  <2>2. Decided(1) = <<a>> \o <<b>> \o (<<d>> \o <<e>> \o <<f, g>> \o <<h, i>>)
    BY <1>1, <1>2, <1>4, <2>1
  <2> HIDE DEF a, b, d, e, f, g, h, i
  <2>3. <<a>> \o <<b>> = <<a, b>> /\ <<d>> \o <<e>> = <<d, e>>
    BY JoinTuples
  <2>4. <<d, e>> \o <<f, g>> = <<d, e, f, g>>
    BY JoinTuples
  <2>5. <<d, e, f, g>> \o <<h, i>> = <<d, e, f, g, h, i>>
    BY JoinTuples
  <2>6. <<a, b>> \o <<d, e, f, g, h, i>> = <<a, b, d, e, f, g, h, i>>
    BY JoinTuples
  <2>7. QED
    BY <2>2, <2>3, <2>4, <2>5, <2>6 DEF a, b, d, e, f, g, h, i
<1>7. QED
  BY <1>5, <1>6 DEF n

AfterCase(p, q, f, v) ==
  /\ f = "height" => After(p, q, f, v) = Offline(p, v)
  /\ f = "size" /\ q \in Server => After(p, q, f, v) = RecvPackRest(q, v)
  /\ f = "size" /\ q = "p2" => After(p, q, f, v) = RecvPack2Rest(v)
  /\ f = "accept" => After(p, q, f, v) = IF v # 0 THEN Online(sizes[<<"p2", p>>]) ELSE <<>>
  /\ f \notin {"height", "size", "accept"} => After(p, q, f, v) = <<>>

LEMMA AfterCases ==
  ASSUME NEW p, NEW q, NEW f, NEW v
  PROVE  AfterCase(p, q, f, v)
<1> DEFINE a == Offline(p, v)
           b == RecvPackRest(q, v)
           c == RecvPack2Rest(v)
           d == IF v # 0 THEN Online(sizes[<<"p2", p>>]) ELSE <<>>
           e == <<>>
<1>1. After(p, q, f, v) = AfterBy(p, q, f, a, b, c, d, e)
  BY DEF After, AfterBy
<1> HIDE DEF a, b, c, d, e
<1>2. /\ f = "height" => After(p, q, f, v) = a
      /\ f = "size" /\ q \in Server => After(p, q, f, v) = b
      /\ f = "size" /\ q = "p2" => After(p, q, f, v) = c
      /\ f = "accept" => After(p, q, f, v) = d
      /\ f \notin {"height", "size", "accept"} => After(p, q, f, v) = e
  BY <1>1, ChoiceFacts
<1>3. QED
  BY <1>2 DEF a, b, c, d, e, AfterCase

LEMMA AfterHeight ==
  ASSUME NEW p, NEW q, NEW v
  PROVE  After(p, q, "height", v) = Offline(p, v)
<1>1. AfterCase(p, q, "height", v)
  BY AfterCases
<1>2. QED
  BY <1>1 DEF AfterCase

LEMMA AfterSize ==
  ASSUME NEW p, NEW q, NEW v
  PROVE  /\ q \in Server => After(p, q, "size", v) = <<RecvRec(q, PackRest(v))>>
         /\ q = "p2" => After(p, q, "size", v) = <<RecvRec("p2", Pack2Rest(v))>>
<1>1. AfterCase(p, q, "size", v)
  BY AfterCases
<1>2. /\ q \in Server => After(p, q, "size", v) = RecvPackRest(q, v)
      /\ q = "p2" => After(p, q, "size", v) = RecvPack2Rest(v)
  BY <1>1 DEF AfterCase
<1>3. QED
  BY <1>2, SectionCalls

LEMMA AfterAccept ==
  ASSUME NEW p, NEW q, NEW v
  PROVE  /\ v = 0 => After(p, q, "accept", v) = <<>>
         /\ v # 0 => After(p, q, "accept", v) = Online(sizes[<<"p2", p>>])
<1>1. AfterCase(p, q, "accept", v)
  BY AfterCases
<1>2. QED
  BY <1>1 DEF AfterCase

LEMMA AfterOther ==
  ASSUME NEW p, NEW q, NEW v, NEW f, f \notin {"height", "size", "accept"}
  PROVE  After(p, q, f, v) = <<>>
<1>1. AfterCase(p, q, f, v)
  BY AfterCases
<1>2. QED
  BY <1>1 DEF AfterCase

-----------------------------------------------------------------------------
(***************************************************************************)
(* The sections of a connection are numbered.  n is the count that their   *)
(* length depends on, x the value that section KeyIndex carries.           *)
(***************************************************************************)
Pair(a, b) == \/ a = "p2" /\ b \in {"p0", "p1", "c"}
              \/ a \in Server /\ b = "c"
              \/ a = "c" /\ b \in Server

Section(a, b, i, n) ==
  IF a = "p2" /\ b = "c" THEN IF i = 1 THEN Pack2Sec ELSE Pack2Rest(n)
  ELSE IF a = "p2" THEN IF i = 1 THEN KeySec ELSE IF i = 2 THEN KeyRest(n) ELSE TimeSec
  ELSE IF a = "c" THEN IF i = 1 THEN AcceptSec ELSE RotatedSec(n)
  ELSE IF i = 1 THEN TempSec ELSE IF i = 2 THEN PackSec ELSE IF i = 3 THEN PackRest(n)
  ELSE IF i = 4 THEN OSec ELSE HatoSec

KeyIndex(a) == IF a \in Server THEN 2 ELSE 1

Val(a, i, x) == IF i = KeyIndex(a) THEN x ELSE 0

Message(a, b, i, n, x) == [section |-> Section(a, b, i, n), val |-> Val(a, i, x)]
SendAt(a, b, i, n, x)  == SendRec(b, Section(a, b, i, n), Val(a, i, x))
RecvAt(a, b, i, n)     == RecvRec(a, Section(a, b, i, n))

(***************************************************************************)
(* The calls a program has still to make at point k: t.                    *)
(***************************************************************************)

DealerTodo(t, k) ==
  /\ k = 1 => t =
      <<SendAt("p2", "p0", 1, Bin, Bin), SendAt("p2", "p0", 2, Bin, Bin),
        SendAt("p2", "p0", 3, Bin, Bin), SendAt("p2", "p1", 1, Bin, Bin),
        SendAt("p2", "p1", 2, Bin, Bin), SendAt("p2", "c", 1, Bin, Bin),
        SendAt("p2", "c", 2, Bin, Bin)>>
  /\ k = 2 => t =
      <<SendAt("p2", "p0", 2, Bin, Bin), SendAt("p2", "p0", 3, Bin, Bin),
        SendAt("p2", "p1", 1, Bin, Bin), SendAt("p2", "p1", 2, Bin, Bin),
        SendAt("p2", "c", 1, Bin, Bin), SendAt("p2", "c", 2, Bin, Bin)>>
  /\ k = 3 => t =
      <<SendAt("p2", "p0", 3, Bin, Bin), SendAt("p2", "p1", 1, Bin, Bin),
        SendAt("p2", "p1", 2, Bin, Bin), SendAt("p2", "c", 1, Bin, Bin),
        SendAt("p2", "c", 2, Bin, Bin)>>
  /\ k = 4 => t =
      <<SendAt("p2", "p1", 1, Bin, Bin), SendAt("p2", "p1", 2, Bin, Bin),
        SendAt("p2", "c", 1, Bin, Bin), SendAt("p2", "c", 2, Bin, Bin)>>
  /\ k = 5 => t =
      <<SendAt("p2", "p1", 2, Bin, Bin), SendAt("p2", "c", 1, Bin, Bin),
        SendAt("p2", "c", 2, Bin, Bin)>>
  /\ k = 6 => t = <<SendAt("p2", "c", 1, Bin, Bin), SendAt("p2", "c", 2, Bin, Bin)>>
  /\ k = 7 => t = <<SendAt("p2", "c", 2, Bin, Bin)>>
  /\ k = 8 => t = <<>>

ServerTodo(t, p, k, n) ==
  /\ k = 1 => t = <<RecvAt("p2", p, 1, n)>>
  /\ k = 2 /\ p = "p0" => t =
      <<RecvAt("p2", p, 2, n), RecvAt("p2", p, 3, n), SendAt(p, "c", 1, n, n),
        SendAt(p, "c", 2, n, n), SendAt(p, "c", 3, n, n), RecvAt("c", p, 1, n)>>
  /\ k = 2 /\ p = "p1" => t =
      <<RecvAt("p2", p, 2, n), SendAt(p, "c", 1, n, n), SendAt(p, "c", 2, n, n),
        SendAt(p, "c", 3, n, n), RecvAt("c", p, 1, n)>>
  /\ k = 3 => t =
      <<RecvAt("p2", p, 3, n), SendAt(p, "c", 1, n, n), SendAt(p, "c", 2, n, n),
        SendAt(p, "c", 3, n, n), RecvAt("c", p, 1, n)>>
  /\ k = 4 => t =
      <<SendAt(p, "c", 1, n, n), SendAt(p, "c", 2, n, n), SendAt(p, "c", 3, n, n),
        RecvAt("c", p, 1, n)>>
  /\ k = 5 => t = <<SendAt(p, "c", 2, n, n), SendAt(p, "c", 3, n, n), RecvAt("c", p, 1, n)>>
  /\ k = 6 => t = <<SendAt(p, "c", 3, n, n), RecvAt("c", p, 1, n)>>
  /\ k = 7 => t = <<RecvAt("c", p, 1, n)>>
  /\ k = 8 => t = <<RecvAt("c", p, 2, n), SendAt(p, "c", 4, n, n), SendAt(p, "c", 5, n, n)>>
  /\ k = 9 => t = <<SendAt(p, "c", 4, n, n), SendAt(p, "c", 5, n, n)>>
  /\ k = 10 => t = <<SendAt(p, "c", 5, n, n)>>
  /\ k \in {11, 12} => t = <<>>

ClientTodo(t, k, x, y, z, v) ==
  /\ k = 1 => t =
      <<RecvAt("p0", "c", 1, x), RecvAt("p1", "c", 1, y), RecvAt("p0", "c", 2, x),
        RecvAt("p1", "c", 2, y), RecvAt("p2", "c", 1, z), CheckRec>>
  /\ k = 2 => t =
      <<RecvAt("p1", "c", 1, y), RecvAt("p0", "c", 2, x), RecvAt("p1", "c", 2, y),
        RecvAt("p2", "c", 1, z), CheckRec>>
  /\ k = 3 => t =
      <<RecvAt("p0", "c", 2, x), RecvAt("p1", "c", 2, y), RecvAt("p2", "c", 1, z),
        CheckRec>>
  /\ k = 4 => t =
      <<RecvAt("p0", "c", 3, x), RecvAt("p1", "c", 2, y), RecvAt("p2", "c", 1, z),
        CheckRec>>
  /\ k = 5 => t = <<RecvAt("p1", "c", 2, y), RecvAt("p2", "c", 1, z), CheckRec>>
  /\ k = 6 => t = <<RecvAt("p1", "c", 3, y), RecvAt("p2", "c", 1, z), CheckRec>>
  /\ k = 7 => t = <<RecvAt("p2", "c", 1, z), CheckRec>>
  /\ k = 8 => t = <<RecvAt("p2", "c", 2, z), CheckRec>>
  /\ k = 9 => t = <<CheckRec>>
  /\ k = 10 /\ v = 0 => t = <<SendAt("c", "p0", 1, z, v), SendAt("c", "p1", 1, z, v)>>
  /\ k = 11 /\ v = 0 => t = <<SendAt("c", "p1", 1, z, v)>>
  /\ k = 10 /\ v = 1 => t =
      <<SendAt("c", "p0", 1, z, v), SendAt("c", "p1", 1, z, v), SendAt("c", "p0", 2, z, v),
        SendAt("c", "p1", 2, z, v), RecvAt("p0", "c", 4, x), RecvAt("p0", "c", 5, x),
        RecvAt("p1", "c", 4, y), RecvAt("p1", "c", 5, y)>>
  /\ k = 11 /\ v = 1 => t =
      <<SendAt("c", "p1", 1, z, v), SendAt("c", "p0", 2, z, v), SendAt("c", "p1", 2, z, v),
        RecvAt("p0", "c", 4, x), RecvAt("p0", "c", 5, x), RecvAt("p1", "c", 4, y),
        RecvAt("p1", "c", 5, y)>>
  /\ k = 12 => t =
      <<SendAt("c", "p0", 2, z, v), SendAt("c", "p1", 2, z, v), RecvAt("p0", "c", 4, x),
        RecvAt("p0", "c", 5, x), RecvAt("p1", "c", 4, y), RecvAt("p1", "c", 5, y)>>
  /\ k = 13 => t =
      <<SendAt("c", "p1", 2, z, v), RecvAt("p0", "c", 4, x), RecvAt("p0", "c", 5, x),
        RecvAt("p1", "c", 4, y), RecvAt("p1", "c", 5, y)>>
  /\ k = 14 => t =
      <<RecvAt("p0", "c", 4, x), RecvAt("p0", "c", 5, x), RecvAt("p1", "c", 4, y),
        RecvAt("p1", "c", 5, y)>>
  /\ k = 15 => t =
      <<RecvAt("p0", "c", 5, x), RecvAt("p1", "c", 4, y), RecvAt("p1", "c", 5, y)>>
  /\ k = 16 => t = <<RecvAt("p1", "c", 4, y), RecvAt("p1", "c", 5, y)>>
  /\ k = 17 => t = <<RecvAt("p1", "c", 5, y)>>
  /\ k \in {18, 19} => t = <<>>

(***************************************************************************)
(* How many sections a program has sent to b, or read from a, at point k.  *)
(***************************************************************************)
DealerSent(b, k) ==
  IF b = "p0" THEN IF k <= 4 THEN k - 1 ELSE 3
  ELSE IF b = "p1" THEN IF k <= 4 THEN 0 ELSE IF k = 5 THEN 1 ELSE 2
  ELSE IF b = "c" THEN IF k <= 6 THEN 0 ELSE k - 6 ELSE 0

ServerSent(b, k) ==
  IF b # "c" \/ k <= 4 THEN 0 ELSE IF k <= 7 THEN k - 4
  ELSE IF k <= 9 \/ k = 12 THEN 3 ELSE k - 6

ServerRead(a, p, k) ==
  IF a = "p2" THEN IF p = "p0" THEN IF k <= 4 THEN k - 1 ELSE 3
                   ELSE IF k <= 2 THEN k - 1 ELSE 2
  ELSE IF a # "c" \/ k <= 7 THEN 0 ELSE IF k = 8 \/ k = 12 THEN 1 ELSE 2

ClientSent(b, k) ==
  IF b = "p0" THEN IF k <= 10 THEN 0 ELSE IF k \in {11, 12, 19} THEN 1 ELSE 2
  ELSE IF b = "p1" THEN IF k <= 11 THEN 0 ELSE IF k \in {12, 13, 19} THEN 1 ELSE 2
  ELSE 0

ClientRead(a, k) ==
  IF a = "p2" THEN IF k <= 7 THEN 0 ELSE IF k = 8 THEN 1 ELSE 2
  ELSE IF a = "p0" THEN IF k = 1 THEN 0 ELSE IF k <= 3 THEN 1 ELSE IF k = 4 THEN 2
                        ELSE IF k <= 14 \/ k = 19 THEN 3 ELSE IF k = 15 THEN 4 ELSE 5
  ELSE IF a = "p1" THEN IF k <= 2 THEN 0 ELSE IF k <= 5 THEN 1 ELSE IF k = 6 THEN 2
                        ELSE IF k <= 16 \/ k = 19 THEN 3 ELSE IF k = 17 THEN 4 ELSE 5
  ELSE 0

Sent(a, b, k) == IF a = "p2" THEN DealerSent(b, k)
                 ELSE IF a = "c" THEN ClientSent(b, k) ELSE ServerSent(b, k)

Read(a, b, k) == IF b = "p2" THEN 0
                 ELSE IF b = "c" THEN ClientRead(a, k) ELSE ServerRead(a, b, k)

(***************************************************************************)
(* A step from point k to point k2 that sends section i to q, or reads it  *)
(* from q.                                                                 *)
(***************************************************************************)
Says(p, k, k2, q, i) ==
  /\ Pair(p, q) /\ i = Sent(p, q, k) + 1 /\ i \in Nat \ {0}
  /\ \A b \in Process : Sent(p, b, k2) = IF b = q THEN i ELSE Sent(p, b, k)
  /\ \A b \in Process : Read(b, p, k2) = Read(b, p, k)

Hears(p, k, k2, q, i) ==
  /\ Pair(q, p) /\ i = Read(q, p, k) + 1 /\ i \in Nat \ {0}
  /\ \A b \in Process : Read(b, p, k2) = IF b = q THEN i ELSE Read(b, p, k)
  /\ \A b \in Process : Sent(p, b, k2) = Sent(p, b, k)

LEMMA DealerSends ==
  ASSUME NEW t, NEW k, k \in 1 .. 8, DealerTodo(t, k)
  PROVE  /\ k = 8 => t = <<>>
         /\ k # 8 => \E q, i : /\ Says("p2", k, k + 1, q, i) /\ t # <<>>
                               /\ Head(t) = SendAt("p2", q, i, Bin, Bin)
                               /\ DealerTodo(Tail(t), k + 1)
<1>1. CASE k = 1
  <2>1. t = <<SendAt("p2", "p0", 1, Bin, Bin), SendAt("p2", "p0", 2, Bin, Bin),
              SendAt("p2", "p0", 3, Bin, Bin), SendAt("p2", "p1", 1, Bin, Bin),
              SendAt("p2", "p1", 2, Bin, Bin), SendAt("p2", "c", 1, Bin, Bin),
              SendAt("p2", "c", 2, Bin, Bin)>>
    BY <1>1 DEF DealerTodo
  <2>2. t # <<>> /\ Head(t) = SendAt("p2", "p0", 1, Bin, Bin)
    BY <2>1
  <2>3. Tail(t) = <<SendAt("p2", "p0", 2, Bin, Bin), SendAt("p2", "p0", 3, Bin, Bin),
                    SendAt("p2", "p1", 1, Bin, Bin), SendAt("p2", "p1", 2, Bin, Bin),
                    SendAt("p2", "c", 1, Bin, Bin), SendAt("p2", "c", 2, Bin, Bin)>>
    BY <2>1
  <2>4. DealerTodo(Tail(t), 2)
    BY <2>3 DEF DealerTodo
  <2>5. Says("p2", 1, 2, "p0", 1)
    BY <1>1 DEF Says, Pair, Sent, Read, DealerSent, Process, Server
  <2>6. QED
    BY <1>1, <2>2, <2>4, <2>5
<1>2. CASE k = 2
  <2>1. t = <<SendAt("p2", "p0", 2, Bin, Bin), SendAt("p2", "p0", 3, Bin, Bin),
              SendAt("p2", "p1", 1, Bin, Bin), SendAt("p2", "p1", 2, Bin, Bin),
              SendAt("p2", "c", 1, Bin, Bin), SendAt("p2", "c", 2, Bin, Bin)>>
    BY <1>2 DEF DealerTodo
  <2>2. t # <<>> /\ Head(t) = SendAt("p2", "p0", 2, Bin, Bin)
    BY <2>1
  <2>3. Tail(t) = <<SendAt("p2", "p0", 3, Bin, Bin), SendAt("p2", "p1", 1, Bin, Bin),
                    SendAt("p2", "p1", 2, Bin, Bin), SendAt("p2", "c", 1, Bin, Bin),
                    SendAt("p2", "c", 2, Bin, Bin)>>
    BY <2>1
  <2>4. DealerTodo(Tail(t), 3)
    BY <2>3 DEF DealerTodo
  <2>5. Says("p2", 2, 3, "p0", 2)
    BY <1>2 DEF Says, Pair, Sent, Read, DealerSent, Process, Server
  <2>6. QED
    BY <1>2, <2>2, <2>4, <2>5
<1>3. CASE k = 3
  <2>1. t = <<SendAt("p2", "p0", 3, Bin, Bin), SendAt("p2", "p1", 1, Bin, Bin),
              SendAt("p2", "p1", 2, Bin, Bin), SendAt("p2", "c", 1, Bin, Bin),
              SendAt("p2", "c", 2, Bin, Bin)>>
    BY <1>3 DEF DealerTodo
  <2>2. t # <<>> /\ Head(t) = SendAt("p2", "p0", 3, Bin, Bin)
    BY <2>1
  <2>3. Tail(t) = <<SendAt("p2", "p1", 1, Bin, Bin), SendAt("p2", "p1", 2, Bin, Bin),
                    SendAt("p2", "c", 1, Bin, Bin), SendAt("p2", "c", 2, Bin, Bin)>>
    BY <2>1
  <2>4. DealerTodo(Tail(t), 4)
    BY <2>3 DEF DealerTodo
  <2>5. Says("p2", 3, 4, "p0", 3)
    BY <1>3 DEF Says, Pair, Sent, Read, DealerSent, Process, Server
  <2>6. QED
    BY <1>3, <2>2, <2>4, <2>5
<1>4. CASE k = 4
  <2>1. t = <<SendAt("p2", "p1", 1, Bin, Bin), SendAt("p2", "p1", 2, Bin, Bin),
              SendAt("p2", "c", 1, Bin, Bin), SendAt("p2", "c", 2, Bin, Bin)>>
    BY <1>4 DEF DealerTodo
  <2>2. t # <<>> /\ Head(t) = SendAt("p2", "p1", 1, Bin, Bin)
    BY <2>1
  <2>3. Tail(t) = <<SendAt("p2", "p1", 2, Bin, Bin), SendAt("p2", "c", 1, Bin, Bin),
                    SendAt("p2", "c", 2, Bin, Bin)>>
    BY <2>1
  <2>4. DealerTodo(Tail(t), 5)
    BY <2>3 DEF DealerTodo
  <2>5. Says("p2", 4, 5, "p1", 1)
    BY <1>4 DEF Says, Pair, Sent, Read, DealerSent, Process, Server
  <2>6. QED
    BY <1>4, <2>2, <2>4, <2>5
<1>5. CASE k = 5
  <2>1. t = <<SendAt("p2", "p1", 2, Bin, Bin), SendAt("p2", "c", 1, Bin, Bin),
              SendAt("p2", "c", 2, Bin, Bin)>>
    BY <1>5 DEF DealerTodo
  <2>2. t # <<>> /\ Head(t) = SendAt("p2", "p1", 2, Bin, Bin)
    BY <2>1
  <2>3. Tail(t) = <<SendAt("p2", "c", 1, Bin, Bin), SendAt("p2", "c", 2, Bin, Bin)>>
    BY <2>1
  <2>4. DealerTodo(Tail(t), 6)
    BY <2>3 DEF DealerTodo
  <2>5. Says("p2", 5, 6, "p1", 2)
    BY <1>5 DEF Says, Pair, Sent, Read, DealerSent, Process, Server
  <2>6. QED
    BY <1>5, <2>2, <2>4, <2>5
<1>6. CASE k = 6
  <2>1. t = <<SendAt("p2", "c", 1, Bin, Bin), SendAt("p2", "c", 2, Bin, Bin)>>
    BY <1>6 DEF DealerTodo
  <2>2. t # <<>> /\ Head(t) = SendAt("p2", "c", 1, Bin, Bin)
    BY <2>1
  <2>3. Tail(t) = <<SendAt("p2", "c", 2, Bin, Bin)>>
    BY <2>1
  <2>4. DealerTodo(Tail(t), 7)
    BY <2>3 DEF DealerTodo
  <2>5. Says("p2", 6, 7, "c", 1)
    BY <1>6 DEF Says, Pair, Sent, Read, DealerSent, Process, Server
  <2>6. QED
    BY <1>6, <2>2, <2>4, <2>5
<1>7. CASE k = 7
  <2>1. t = <<SendAt("p2", "c", 2, Bin, Bin)>>
    BY <1>7 DEF DealerTodo
  <2>2. t # <<>> /\ Head(t) = SendAt("p2", "c", 2, Bin, Bin)
    BY <2>1
  <2>3. Tail(t) = <<>>
    BY <2>1
  <2>4. DealerTodo(Tail(t), 8)
    BY <2>3 DEF DealerTodo
  <2>5. Says("p2", 7, 8, "c", 2)
    BY <1>7 DEF Says, Pair, Sent, Read, DealerSent, Process, Server
  <2>6. QED
    BY <1>7, <2>2, <2>4, <2>5
<1>8. CASE k = 8
  BY <1>8 DEF DealerTodo
<1>9. QED
  BY <1>1, <1>2, <1>3, <1>4, <1>5, <1>6, <1>7, <1>8

LEMMA ServerSends ==
  ASSUME NEW t, NEW p, NEW k, NEW n, p \in Server, k \in {4, 5, 6, 9, 10},
         ServerTodo(t, p, k, n)
  PROVE  \E i : /\ Says(p, k, k + 1, "c", i) /\ t # <<>>
                /\ Head(t) = SendAt(p, "c", i, n, n) /\ ServerTodo(Tail(t), p, k + 1, n)
<1>1. CASE k = 4
  <2>1. t = <<SendAt(p, "c", 1, n, n), SendAt(p, "c", 2, n, n), SendAt(p, "c", 3, n, n),
              RecvAt("c", p, 1, n)>>
    BY <1>1 DEF ServerTodo
  <2>2. t # <<>> /\ Head(t) = SendAt(p, "c", 1, n, n)
    BY <2>1
  <2>3. Tail(t) = <<SendAt(p, "c", 2, n, n), SendAt(p, "c", 3, n, n), RecvAt("c", p, 1, n)>>
    BY <2>1
  <2>4. ServerTodo(Tail(t), p, 5, n)
    BY <2>3 DEF ServerTodo
  <2>5. Says(p, 4, 5, "c", 1)
    BY <1>1 DEF Says, Pair, Sent, Read, ServerSent, ServerRead, Process, Server
  <2>6. QED
    BY <1>1, <2>2, <2>4, <2>5
<1>2. CASE k = 5
  <2>1. t = <<SendAt(p, "c", 2, n, n), SendAt(p, "c", 3, n, n), RecvAt("c", p, 1, n)>>
    BY <1>2 DEF ServerTodo
  <2>2. t # <<>> /\ Head(t) = SendAt(p, "c", 2, n, n)
    BY <2>1
  <2>3. Tail(t) = <<SendAt(p, "c", 3, n, n), RecvAt("c", p, 1, n)>>
    BY <2>1
  <2>4. ServerTodo(Tail(t), p, 6, n)
    BY <2>3 DEF ServerTodo
  <2>5. Says(p, 5, 6, "c", 2)
    BY <1>2 DEF Says, Pair, Sent, Read, ServerSent, ServerRead, Process, Server
  <2>6. QED
    BY <1>2, <2>2, <2>4, <2>5
<1>3. CASE k = 6
  <2>1. t = <<SendAt(p, "c", 3, n, n), RecvAt("c", p, 1, n)>>
    BY <1>3 DEF ServerTodo
  <2>2. t # <<>> /\ Head(t) = SendAt(p, "c", 3, n, n)
    BY <2>1
  <2>3. Tail(t) = <<RecvAt("c", p, 1, n)>>
    BY <2>1
  <2>4. ServerTodo(Tail(t), p, 7, n)
    BY <2>3 DEF ServerTodo
  <2>5. Says(p, 6, 7, "c", 3)
    BY <1>3 DEF Says, Pair, Sent, Read, ServerSent, ServerRead, Process, Server
  <2>6. QED
    BY <1>3, <2>2, <2>4, <2>5
<1>4. CASE k = 9
  <2>1. t = <<SendAt(p, "c", 4, n, n), SendAt(p, "c", 5, n, n)>>
    BY <1>4 DEF ServerTodo
  <2>2. t # <<>> /\ Head(t) = SendAt(p, "c", 4, n, n)
    BY <2>1
  <2>3. Tail(t) = <<SendAt(p, "c", 5, n, n)>>
    BY <2>1
  <2>4. ServerTodo(Tail(t), p, 10, n)
    BY <2>3 DEF ServerTodo
  <2>5. Says(p, 9, 10, "c", 4)
    BY <1>4 DEF Says, Pair, Sent, Read, ServerSent, ServerRead, Process, Server
  <2>6. QED
    BY <1>4, <2>2, <2>4, <2>5
<1>5. CASE k = 10
  <2>1. t = <<SendAt(p, "c", 5, n, n)>>
    BY <1>5 DEF ServerTodo
  <2>2. t # <<>> /\ Head(t) = SendAt(p, "c", 5, n, n)
    BY <2>1
  <2>3. Tail(t) = <<>>
    BY <2>1
  <2>4. ServerTodo(Tail(t), p, 11, n)
    BY <2>3 DEF ServerTodo
  <2>5. Says(p, 10, 11, "c", 5)
    BY <1>5 DEF Says, Pair, Sent, Read, ServerSent, ServerRead, Process, Server
  <2>6. QED
    BY <1>5, <2>2, <2>4, <2>5
<1>6. QED
  BY <1>1, <1>2, <1>3, <1>4, <1>5

LEMMA ServerReads ==
  ASSUME NEW t, NEW p, NEW k, NEW n, p \in Server, k \in {2, 3, 8},
         ServerTodo(t, p, k, n), p = "p1" => k # 3
  PROVE  \E q, i, k2 : /\ Hears(p, k, k2, q, i) /\ t # <<>> /\ i # KeyIndex(q)
                       /\ Head(t) = RecvAt(q, p, i, n) /\ ServerTodo(Tail(t), p, k2, n)
                       /\ k \in {2, 3} => k2 \in 3 .. 4 /\ (p = "p1" => k2 # 3)
                       /\ k = 8 => k2 = 9
<1>1. CASE k = 2 /\ p = "p0"
  <2>1. t = <<RecvAt("p2", p, 2, n), RecvAt("p2", p, 3, n), SendAt(p, "c", 1, n, n),
              SendAt(p, "c", 2, n, n), SendAt(p, "c", 3, n, n), RecvAt("c", p, 1, n)>>
    BY <1>1 DEF ServerTodo
  <2>2. t # <<>> /\ Head(t) = RecvAt("p2", p, 2, n)
    BY <2>1
  <2>3. Tail(t) = <<RecvAt("p2", p, 3, n), SendAt(p, "c", 1, n, n),
                    SendAt(p, "c", 2, n, n), SendAt(p, "c", 3, n, n), RecvAt("c", p, 1, n)>>
    BY <2>1
  <2>4. ServerTodo(Tail(t), p, 3, n)
    BY <2>3, <1>1 DEF ServerTodo
  <2>5. Hears(p, 2, 3, "p2", 2)
    BY <1>1 DEF Hears, Pair, Sent, Read, ServerSent, ServerRead, Process, Server
  <2>6. 2 # KeyIndex("p2")
    BY DEF KeyIndex, Server
  <2>7. QED
    BY <1>1, <2>2, <2>4, <2>5, <2>6
<1>2. CASE k = 2 /\ p = "p1"
  <2>1. t = <<RecvAt("p2", p, 2, n), SendAt(p, "c", 1, n, n), SendAt(p, "c", 2, n, n),
              SendAt(p, "c", 3, n, n), RecvAt("c", p, 1, n)>>
    BY <1>2 DEF ServerTodo
  <2>2. t # <<>> /\ Head(t) = RecvAt("p2", p, 2, n)
    BY <2>1
  <2>3. Tail(t) = <<SendAt(p, "c", 1, n, n), SendAt(p, "c", 2, n, n),
                    SendAt(p, "c", 3, n, n), RecvAt("c", p, 1, n)>>
    BY <2>1
  <2>4. ServerTodo(Tail(t), p, 4, n)
    BY <2>3, <1>2 DEF ServerTodo
  <2>5. Hears(p, 2, 4, "p2", 2)
    BY <1>2 DEF Hears, Pair, Sent, Read, ServerSent, ServerRead, Process, Server
  <2>6. 2 # KeyIndex("p2")
    BY DEF KeyIndex, Server
  <2>7. QED
    BY <1>2, <2>2, <2>4, <2>5, <2>6
<1>3. CASE k = 3 /\ p = "p0"
  <2>1. t = <<RecvAt("p2", p, 3, n), SendAt(p, "c", 1, n, n), SendAt(p, "c", 2, n, n),
              SendAt(p, "c", 3, n, n), RecvAt("c", p, 1, n)>>
    BY <1>3 DEF ServerTodo
  <2>2. t # <<>> /\ Head(t) = RecvAt("p2", p, 3, n)
    BY <2>1
  <2>3. Tail(t) = <<SendAt(p, "c", 1, n, n), SendAt(p, "c", 2, n, n),
                    SendAt(p, "c", 3, n, n), RecvAt("c", p, 1, n)>>
    BY <2>1
  <2>4. ServerTodo(Tail(t), p, 4, n)
    BY <2>3, <1>3 DEF ServerTodo
  <2>5. Hears(p, 3, 4, "p2", 3)
    BY <1>3 DEF Hears, Pair, Sent, Read, ServerSent, ServerRead, Process, Server
  <2>6. 3 # KeyIndex("p2")
    BY DEF KeyIndex, Server
  <2>7. QED
    BY <1>3, <2>2, <2>4, <2>5, <2>6
<1>4. CASE k = 8
  <2>1. t = <<RecvAt("c", p, 2, n), SendAt(p, "c", 4, n, n), SendAt(p, "c", 5, n, n)>>
    BY <1>4 DEF ServerTodo
  <2>2. t # <<>> /\ Head(t) = RecvAt("c", p, 2, n)
    BY <2>1
  <2>3. Tail(t) = <<SendAt(p, "c", 4, n, n), SendAt(p, "c", 5, n, n)>>
    BY <2>1
  <2>4. ServerTodo(Tail(t), p, 9, n)
    BY <2>3, <1>4 DEF ServerTodo
  <2>5. Hears(p, 8, 9, "c", 2)
    BY <1>4 DEF Hears, Pair, Sent, Read, ServerSent, ServerRead, Process, Server
  <2>6. 2 # KeyIndex("c")
    BY DEF KeyIndex, Server
  <2>7. QED
    BY <1>4, <2>2, <2>4, <2>5, <2>6
<1>5. QED
  BY <1>1, <1>2, <1>3, <1>4 DEF Server

LEMMA ClientSends ==
  ASSUME NEW t, NEW k, NEW x, NEW y, NEW z, NEW v, k \in {10, 11, 12, 13},
         v \in {0, 1}, ClientTodo(t, k, x, y, z, v), k >= 12 => v = 1
  PROVE  \E q, i, k2 : /\ Says("c", k, k2, q, i) /\ t # <<>>
                       /\ Head(t) = SendAt("c", q, i, z, v) /\ ClientTodo(Tail(t), k2, x, y, z, v)
                       /\ k2 = IF k = 11 /\ v = 0 THEN 19 ELSE k + 1
<1>1. CASE k = 10 /\ v = 0
  <2>1. t = <<SendAt("c", "p0", 1, z, v), SendAt("c", "p1", 1, z, v)>>
    BY <1>1 DEF ClientTodo
  <2>2. t # <<>> /\ Head(t) = SendAt("c", "p0", 1, z, v)
    BY <2>1
  <2>3. Tail(t) = <<SendAt("c", "p1", 1, z, v)>>
    BY <2>1
  <2>4. ClientTodo(Tail(t), 11, x, y, z, v)
    BY <2>3, <1>1 DEF ClientTodo
  <2>5. Says("c", 10, 11, "p0", 1)
    BY <1>1 DEF Says, Pair, Sent, Read, ClientSent, ClientRead, Process, Server
  <2>6. QED
    BY <1>1, <2>2, <2>4, <2>5
<1>2. CASE k = 11 /\ v = 0
  <2>1. t = <<SendAt("c", "p1", 1, z, v)>>
    BY <1>2 DEF ClientTodo
  <2>2. t # <<>> /\ Head(t) = SendAt("c", "p1", 1, z, v)
    BY <2>1
  <2>3. Tail(t) = <<>>
    BY <2>1
  <2>4. ClientTodo(Tail(t), 19, x, y, z, v)
    BY <2>3, <1>2 DEF ClientTodo
  <2>5. Says("c", 11, 19, "p1", 1)
    BY <1>2 DEF Says, Pair, Sent, Read, ClientSent, ClientRead, Process, Server
  <2>6. QED
    BY <1>2, <2>2, <2>4, <2>5
<1>3. CASE k = 10 /\ v = 1
  <2>1. t = <<SendAt("c", "p0", 1, z, v), SendAt("c", "p1", 1, z, v),
              SendAt("c", "p0", 2, z, v), SendAt("c", "p1", 2, z, v),
              RecvAt("p0", "c", 4, x), RecvAt("p0", "c", 5, x), RecvAt("p1", "c", 4, y),
              RecvAt("p1", "c", 5, y)>>
    BY <1>3 DEF ClientTodo
  <2>2. t # <<>> /\ Head(t) = SendAt("c", "p0", 1, z, v)
    BY <2>1
  <2>3. Tail(t) = <<SendAt("c", "p1", 1, z, v), SendAt("c", "p0", 2, z, v),
                    SendAt("c", "p1", 2, z, v), RecvAt("p0", "c", 4, x),
                    RecvAt("p0", "c", 5, x), RecvAt("p1", "c", 4, y),
                    RecvAt("p1", "c", 5, y)>>
    BY <2>1
  <2>4. ClientTodo(Tail(t), 11, x, y, z, v)
    BY <2>3, <1>3 DEF ClientTodo
  <2>5. Says("c", 10, 11, "p0", 1)
    BY <1>3 DEF Says, Pair, Sent, Read, ClientSent, ClientRead, Process, Server
  <2>6. QED
    BY <1>3, <2>2, <2>4, <2>5
<1>4. CASE k = 11 /\ v = 1
  <2>1. t = <<SendAt("c", "p1", 1, z, v), SendAt("c", "p0", 2, z, v),
              SendAt("c", "p1", 2, z, v), RecvAt("p0", "c", 4, x), RecvAt("p0", "c", 5, x),
              RecvAt("p1", "c", 4, y), RecvAt("p1", "c", 5, y)>>
    BY <1>4 DEF ClientTodo
  <2>2. t # <<>> /\ Head(t) = SendAt("c", "p1", 1, z, v)
    BY <2>1
  <2>3. Tail(t) = <<SendAt("c", "p0", 2, z, v), SendAt("c", "p1", 2, z, v),
                    RecvAt("p0", "c", 4, x), RecvAt("p0", "c", 5, x),
                    RecvAt("p1", "c", 4, y), RecvAt("p1", "c", 5, y)>>
    BY <2>1
  <2>4. ClientTodo(Tail(t), 12, x, y, z, v)
    BY <2>3, <1>4 DEF ClientTodo
  <2>5. Says("c", 11, 12, "p1", 1)
    BY <1>4 DEF Says, Pair, Sent, Read, ClientSent, ClientRead, Process, Server
  <2>6. QED
    BY <1>4, <2>2, <2>4, <2>5
<1>5. CASE k = 12
  <2>1. t = <<SendAt("c", "p0", 2, z, v), SendAt("c", "p1", 2, z, v),
              RecvAt("p0", "c", 4, x), RecvAt("p0", "c", 5, x), RecvAt("p1", "c", 4, y),
              RecvAt("p1", "c", 5, y)>>
    BY <1>5 DEF ClientTodo
  <2>2. t # <<>> /\ Head(t) = SendAt("c", "p0", 2, z, v)
    BY <2>1
  <2>3. Tail(t) = <<SendAt("c", "p1", 2, z, v), RecvAt("p0", "c", 4, x),
                    RecvAt("p0", "c", 5, x), RecvAt("p1", "c", 4, y),
                    RecvAt("p1", "c", 5, y)>>
    BY <2>1
  <2>4. ClientTodo(Tail(t), 13, x, y, z, v)
    BY <2>3, <1>5 DEF ClientTodo
  <2>5. Says("c", 12, 13, "p0", 2)
    BY <1>5 DEF Says, Pair, Sent, Read, ClientSent, ClientRead, Process, Server
  <2>6. QED
    BY <1>5, <2>2, <2>4, <2>5
<1>6. CASE k = 13
  <2>1. t = <<SendAt("c", "p1", 2, z, v), RecvAt("p0", "c", 4, x), RecvAt("p0", "c", 5, x),
              RecvAt("p1", "c", 4, y), RecvAt("p1", "c", 5, y)>>
    BY <1>6 DEF ClientTodo
  <2>2. t # <<>> /\ Head(t) = SendAt("c", "p1", 2, z, v)
    BY <2>1
  <2>3. Tail(t) = <<RecvAt("p0", "c", 4, x), RecvAt("p0", "c", 5, x),
                    RecvAt("p1", "c", 4, y), RecvAt("p1", "c", 5, y)>>
    BY <2>1
  <2>4. ClientTodo(Tail(t), 14, x, y, z, v)
    BY <2>3, <1>6 DEF ClientTodo
  <2>5. Says("c", 13, 14, "p1", 2)
    BY <1>6 DEF Says, Pair, Sent, Read, ClientSent, ClientRead, Process, Server
  <2>6. QED
    BY <1>6, <2>2, <2>4, <2>5
<1>7. QED
  BY <1>1, <1>2, <1>3, <1>4, <1>5, <1>6

\* Where the client reads what decides nothing.
PlainReads == {1, 2, 4, 6, 8, 14, 15, 16, 17}

\* What the client counts with when it reads from q.
OneOf(q, x, y, z) == IF q = "p0" THEN x ELSE IF q = "p1" THEN y ELSE z

ClientHears(t, k, x, y, z, v, q, i) ==
  /\ Hears("c", k, k + 1, q, i) /\ t # <<>> /\ i # KeyIndex(q)
  /\ Head(t) = RecvAt(q, "c", i, OneOf(q, x, y, z))
  /\ ClientTodo(Tail(t), k + 1, x, y, z, v)

LEMMA ClientReads ==
  ASSUME NEW t, NEW k, NEW x, NEW y, NEW z, NEW v,
         k \in PlainReads, ClientTodo(t, k, x, y, z, v)
  PROVE  \E q, i : ClientHears(t, k, x, y, z, v, q, i)
<1>1. CASE k = 1
  <2>1. t = <<RecvAt("p0", "c", 1, x), RecvAt("p1", "c", 1, y), RecvAt("p0", "c", 2, x),
              RecvAt("p1", "c", 2, y), RecvAt("p2", "c", 1, z), CheckRec>>
    BY <1>1 DEF ClientTodo
  <2>2. t # <<>> /\ Head(t) = RecvAt("p0", "c", 1, x)
    BY <2>1
  <2>3. Tail(t) = <<RecvAt("p1", "c", 1, y), RecvAt("p0", "c", 2, x),
                    RecvAt("p1", "c", 2, y), RecvAt("p2", "c", 1, z), CheckRec>>
    BY <2>1
  <2>4. ClientTodo(Tail(t), 2, x, y, z, v)
    BY <2>3 DEF ClientTodo
  <2>5. Hears("c", 1, 2, "p0", 1)
    BY <1>1 DEF Hears, Pair, Sent, Read, ClientSent, ClientRead, Process, Server
  <2>6. 1 # KeyIndex("p0")
    BY DEF KeyIndex, Server
  <2>7. OneOf("p0", x, y, z) = x
    BY DEF OneOf
  <2>8. QED
    BY <1>1, <2>2, <2>4, <2>5, <2>6, <2>7 DEF ClientHears
<1>2. CASE k = 2
  <2>1. t = <<RecvAt("p1", "c", 1, y), RecvAt("p0", "c", 2, x), RecvAt("p1", "c", 2, y),
              RecvAt("p2", "c", 1, z), CheckRec>>
    BY <1>2 DEF ClientTodo
  <2>2. t # <<>> /\ Head(t) = RecvAt("p1", "c", 1, y)
    BY <2>1
  <2>3. Tail(t) = <<RecvAt("p0", "c", 2, x), RecvAt("p1", "c", 2, y),
                    RecvAt("p2", "c", 1, z), CheckRec>>
    BY <2>1
  <2>4. ClientTodo(Tail(t), 3, x, y, z, v)
    BY <2>3 DEF ClientTodo
  <2>5. Hears("c", 2, 3, "p1", 1)
    BY <1>2 DEF Hears, Pair, Sent, Read, ClientSent, ClientRead, Process, Server
  <2>6. 1 # KeyIndex("p1")
    BY DEF KeyIndex, Server
  <2>7. OneOf("p1", x, y, z) = y
    BY DEF OneOf
  <2>8. QED
    BY <1>2, <2>2, <2>4, <2>5, <2>6, <2>7 DEF ClientHears
<1>3. CASE k = 4
  <2>1. t = <<RecvAt("p0", "c", 3, x), RecvAt("p1", "c", 2, y), RecvAt("p2", "c", 1, z),
              CheckRec>>
    BY <1>3 DEF ClientTodo
  <2>2. t # <<>> /\ Head(t) = RecvAt("p0", "c", 3, x)
    BY <2>1
  <2>3. Tail(t) = <<RecvAt("p1", "c", 2, y), RecvAt("p2", "c", 1, z), CheckRec>>
    BY <2>1
  <2>4. ClientTodo(Tail(t), 5, x, y, z, v)
    BY <2>3 DEF ClientTodo
  <2>5. Hears("c", 4, 5, "p0", 3)
    BY <1>3 DEF Hears, Pair, Sent, Read, ClientSent, ClientRead, Process, Server
  <2>6. 3 # KeyIndex("p0")
    BY DEF KeyIndex, Server
  <2>7. OneOf("p0", x, y, z) = x
    BY DEF OneOf
  <2>8. QED
    BY <1>3, <2>2, <2>4, <2>5, <2>6, <2>7 DEF ClientHears
<1>4. CASE k = 6
  <2>1. t = <<RecvAt("p1", "c", 3, y), RecvAt("p2", "c", 1, z), CheckRec>>
    BY <1>4 DEF ClientTodo
  <2>2. t # <<>> /\ Head(t) = RecvAt("p1", "c", 3, y)
    BY <2>1
  <2>3. Tail(t) = <<RecvAt("p2", "c", 1, z), CheckRec>>
    BY <2>1
  <2>4. ClientTodo(Tail(t), 7, x, y, z, v)
    BY <2>3 DEF ClientTodo
  <2>5. Hears("c", 6, 7, "p1", 3)
    BY <1>4 DEF Hears, Pair, Sent, Read, ClientSent, ClientRead, Process, Server
  <2>6. 3 # KeyIndex("p1")
    BY DEF KeyIndex, Server
  <2>7. OneOf("p1", x, y, z) = y
    BY DEF OneOf
  <2>8. QED
    BY <1>4, <2>2, <2>4, <2>5, <2>6, <2>7 DEF ClientHears
<1>5. CASE k = 8
  <2>1. t = <<RecvAt("p2", "c", 2, z), CheckRec>>
    BY <1>5 DEF ClientTodo
  <2>2. t # <<>> /\ Head(t) = RecvAt("p2", "c", 2, z)
    BY <2>1
  <2>3. Tail(t) = <<CheckRec>>
    BY <2>1
  <2>4. ClientTodo(Tail(t), 9, x, y, z, v)
    BY <2>3 DEF ClientTodo
  <2>5. Hears("c", 8, 9, "p2", 2)
    BY <1>5 DEF Hears, Pair, Sent, Read, ClientSent, ClientRead, Process, Server
  <2>6. 2 # KeyIndex("p2")
    BY DEF KeyIndex, Server
  <2>7. OneOf("p2", x, y, z) = z
    BY DEF OneOf
  <2>8. QED
    BY <1>5, <2>2, <2>4, <2>5, <2>6, <2>7 DEF ClientHears
<1>6. CASE k = 14
  <2>1. t = <<RecvAt("p0", "c", 4, x), RecvAt("p0", "c", 5, x), RecvAt("p1", "c", 4, y),
              RecvAt("p1", "c", 5, y)>>
    BY <1>6 DEF ClientTodo
  <2>2. t # <<>> /\ Head(t) = RecvAt("p0", "c", 4, x)
    BY <2>1
  <2>3. Tail(t) = <<RecvAt("p0", "c", 5, x), RecvAt("p1", "c", 4, y),
                    RecvAt("p1", "c", 5, y)>>
    BY <2>1
  <2>4. ClientTodo(Tail(t), 15, x, y, z, v)
    BY <2>3 DEF ClientTodo
  <2>5. Hears("c", 14, 15, "p0", 4)
    BY <1>6 DEF Hears, Pair, Sent, Read, ClientSent, ClientRead, Process, Server
  <2>6. 4 # KeyIndex("p0")
    BY DEF KeyIndex, Server
  <2>7. OneOf("p0", x, y, z) = x
    BY DEF OneOf
  <2>8. QED
    BY <1>6, <2>2, <2>4, <2>5, <2>6, <2>7 DEF ClientHears
<1>7. CASE k = 15
  <2>1. t = <<RecvAt("p0", "c", 5, x), RecvAt("p1", "c", 4, y), RecvAt("p1", "c", 5, y)>>
    BY <1>7 DEF ClientTodo
  <2>2. t # <<>> /\ Head(t) = RecvAt("p0", "c", 5, x)
    BY <2>1
  <2>3. Tail(t) = <<RecvAt("p1", "c", 4, y), RecvAt("p1", "c", 5, y)>>
    BY <2>1
  <2>4. ClientTodo(Tail(t), 16, x, y, z, v)
    BY <2>3 DEF ClientTodo
  <2>5. Hears("c", 15, 16, "p0", 5)
    BY <1>7 DEF Hears, Pair, Sent, Read, ClientSent, ClientRead, Process, Server
  <2>6. 5 # KeyIndex("p0")
    BY DEF KeyIndex, Server
  <2>7. OneOf("p0", x, y, z) = x
    BY DEF OneOf
  <2>8. QED
    BY <1>7, <2>2, <2>4, <2>5, <2>6, <2>7 DEF ClientHears
<1>8. CASE k = 16
  <2>1. t = <<RecvAt("p1", "c", 4, y), RecvAt("p1", "c", 5, y)>>
    BY <1>8 DEF ClientTodo
  <2>2. t # <<>> /\ Head(t) = RecvAt("p1", "c", 4, y)
    BY <2>1
  <2>3. Tail(t) = <<RecvAt("p1", "c", 5, y)>>
    BY <2>1
  <2>4. ClientTodo(Tail(t), 17, x, y, z, v)
    BY <2>3 DEF ClientTodo
  <2>5. Hears("c", 16, 17, "p1", 4)
    BY <1>8 DEF Hears, Pair, Sent, Read, ClientSent, ClientRead, Process, Server
  <2>6. 4 # KeyIndex("p1")
    BY DEF KeyIndex, Server
  <2>7. OneOf("p1", x, y, z) = y
    BY DEF OneOf
  <2>8. QED
    BY <1>8, <2>2, <2>4, <2>5, <2>6, <2>7 DEF ClientHears
<1>9. CASE k = 17
  <2>1. t = <<RecvAt("p1", "c", 5, y)>>
    BY <1>9 DEF ClientTodo
  <2>2. t # <<>> /\ Head(t) = RecvAt("p1", "c", 5, y)
    BY <2>1
  <2>3. Tail(t) = <<>>
    BY <2>1
  <2>4. ClientTodo(Tail(t), 18, x, y, z, v)
    BY <2>3 DEF ClientTodo
  <2>5. Hears("c", 17, 18, "p1", 5)
    BY <1>9 DEF Hears, Pair, Sent, Read, ClientSent, ClientRead, Process, Server
  <2>6. 5 # KeyIndex("p1")
    BY DEF KeyIndex, Server
  <2>7. OneOf("p1", x, y, z) = y
    BY DEF OneOf
  <2>8. QED
    BY <1>9, <2>2, <2>4, <2>5, <2>6, <2>7 DEF ClientHears
<1>10. QED
  BY <1>1, <1>2, <1>3, <1>4, <1>5, <1>6, <1>7, <1>8, <1>9 DEF PlainReads

LEMMA CallNames ==
  ASSUME NEW p, NEW n, NEW x, p \in Server
  PROVE  /\ RecvAt("p2", p, 1, n) = RecvRec("p2", KeySec)
         /\ RecvAt("p2", p, 2, n) = RecvRec("p2", KeyRest(n))
         /\ RecvAt("p2", p, 3, n) = RecvRec("p2", TimeSec)
         /\ SendAt(p, "c", 1, n, x) = SendRec("c", TempSec, 0)
         /\ SendAt(p, "c", 2, n, x) = SendRec("c", PackSec, x)
         /\ SendAt(p, "c", 3, n, x) = SendRec("c", PackRest(n), 0)
         /\ SendAt(p, "c", 4, n, x) = SendRec("c", OSec, 0)
         /\ SendAt(p, "c", 5, n, x) = SendRec("c", HatoSec, 0)
         /\ RecvAt("c", p, 1, n) = RecvRec("c", AcceptSec)
         /\ RecvAt("c", p, 2, n) = RecvRec("c", RotatedSec(n))
         /\ RecvAt(p, "c", 1, n) = RecvRec(p, TempSec)
         /\ RecvAt(p, "c", 2, n) = RecvRec(p, PackSec)
         /\ RecvAt(p, "c", 3, n) = RecvRec(p, PackRest(n))
         /\ RecvAt(p, "c", 4, n) = RecvRec(p, OSec)
         /\ RecvAt(p, "c", 5, n) = RecvRec(p, HatoSec)
         /\ SendAt("c", p, 1, n, x) = SendRec(p, AcceptSec, x)
         /\ SendAt("c", p, 2, n, x) = SendRec(p, RotatedSec(n), 0)
         /\ SendAt("p2", p, 1, n, x) = SendRec(p, KeySec, x)
         /\ SendAt("p2", p, 2, n, x) = SendRec(p, KeyRest(n), 0)
         /\ SendAt("p2", p, 3, n, x) = SendRec(p, TimeSec, 0)
         /\ RecvAt("p2", "c", 1, n) = RecvRec("p2", Pack2Sec)
         /\ RecvAt("p2", "c", 2, n) = RecvRec("p2", Pack2Rest(n))
         /\ SendAt("p2", "c", 1, n, x) = SendRec("c", Pack2Sec, x)
         /\ SendAt("p2", "c", 2, n, x) = SendRec("c", Pack2Rest(n), 0)
<1>1. \A i : /\ Section("p2", p, i, n) = IF i = 1 THEN KeySec ELSE IF i = 2 THEN KeyRest(n) ELSE TimeSec
             /\ Section("p2", "c", i, n) = IF i = 1 THEN Pack2Sec ELSE Pack2Rest(n)
             /\ Section("c", p, i, n) = IF i = 1 THEN AcceptSec ELSE RotatedSec(n)
             /\ Section(p, "c", i, n) = IF i = 1 THEN TempSec ELSE IF i = 2 THEN PackSec
                                        ELSE IF i = 3 THEN PackRest(n) ELSE IF i = 4 THEN OSec ELSE HatoSec
  BY DEF Section, Server
<1>2. /\ \A i : Val("p2", i, x) = IF i = 1 THEN x ELSE 0
      /\ \A i : Val("c", i, x) = IF i = 1 THEN x ELSE 0
      /\ \A i : Val(p, i, x) = IF i = 2 THEN x ELSE 0
  BY DEF Val, KeyIndex, Server
<1>3. \A a, b, i : RecvAt(a, b, i, n) = RecvRec(a, Section(a, b, i, n))
  BY DEF RecvAt
<1>4. \A a, b, i : SendAt(a, b, i, n, x) = SendRec(b, Section(a, b, i, n), Val(a, i, x))
  BY DEF SendAt
<1>5. QED
  BY <1>1, <1>2, <1>3, <1>4

\* Joining with the empty sequence.
LEMMA JoinNone ==
  /\ \A a, b, c : <<a, b, c>> \o <<>> = <<a, b, c>>
  /\ \A a, b, c, d, e : <<a, b, c, d, e>> \o <<>> = <<a, b, c, d, e>>
  /\ \A a, b, c, d, e, f : <<a, b, c, d, e, f>> \o <<>> = <<a, b, c, d, e, f>>
  /\ \A a, b, c, d, e, f, g, h : <<a, b, c, d, e, f, g, h>> \o <<>> = <<a, b, c, d, e, f, g, h>>
<1>1. \A S : \A s \in Seq(S) : s \o <<>> = s
  BY ConcatEmptySeq
<1>2. ASSUME NEW a, NEW b, NEW c
      PROVE  <<a, b, c>> \o <<>> = <<a, b, c>>
  <2>1. <<a, b, c>> \in Seq({a, b, c})
    OBVIOUS
  <2>2. QED
    BY <1>1, <2>1
<1>3. ASSUME NEW a, NEW b, NEW c, NEW d, NEW e
      PROVE  <<a, b, c, d, e>> \o <<>> = <<a, b, c, d, e>>
  <2>1. <<a, b, c, d, e>> \in Seq({a, b, c, d, e})
    OBVIOUS
  <2>2. QED
    BY <1>1, <2>1
<1>4. ASSUME NEW a, NEW b, NEW c, NEW d, NEW e, NEW f
      PROVE  <<a, b, c, d, e, f>> \o <<>> = <<a, b, c, d, e, f>>
  <2>1. <<a, b, c, d, e, f>> \in Seq({a, b, c, d, e, f})
    OBVIOUS
  <2>2. QED
    BY <1>1, <2>1
<1>5. ASSUME NEW a, NEW b, NEW c, NEW d, NEW e, NEW f, NEW g, NEW h
      PROVE  <<a, b, c, d, e, f, g, h>> \o <<>> = <<a, b, c, d, e, f, g, h>>
  <2>1. <<a, b, c, d, e, f, g, h>> \in Seq({a, b, c, d, e, f, g, h})
    OBVIOUS
  <2>2. QED
    BY <1>1, <2>1
<1>6. QED
  BY <1>2, <1>3, <1>4, <1>5

LEMMA StartPoints ==
  /\ DealerTodo(Start("p2"), 1)
  /\ \A p \in Server : \A n : ServerTodo(Start(p), p, 1, n)
  /\ \A x, y, z, v : ClientTodo(Start("c"), 1, x, y, z, v)
  /\ \A a, b \in Process : Sent(a, b, 1) = 0 /\ Read(a, b, 1) = 0
<1>1. DealerTodo(Start("p2"), 1)
  <2>1. /\ SendAt("p2", "p0", 1, Bin, Bin) = SendRec("p0", KeySec, Bin)
        /\ SendAt("p2", "p0", 2, Bin, Bin) = SendRec("p0", KeyRest(Bin), 0)
        /\ SendAt("p2", "p0", 3, Bin, Bin) = SendRec("p0", TimeSec, 0)
    BY CallNames DEF Server
  <2>2. /\ SendAt("p2", "p1", 1, Bin, Bin) = SendRec("p1", KeySec, Bin)
        /\ SendAt("p2", "p1", 2, Bin, Bin) = SendRec("p1", KeyRest(Bin), 0)
        /\ SendAt("p2", "c", 1, Bin, Bin) = SendRec("c", Pack2Sec, Bin)
        /\ SendAt("p2", "c", 2, Bin, Bin) = SendRec("c", Pack2Rest(Bin), 0)
    BY CallNames DEF Server
  <2>3. QED
    BY <2>1, <2>2, ProgramTexts DEF DealerTodo
<1>2. ASSUME NEW p \in Server, NEW n
      PROVE  ServerTodo(Start(p), p, 1, n)
  <2>1. RecvAt("p2", p, 1, n) = RecvRec("p2", KeySec)
    BY CallNames
  <2>2. QED
    BY <2>1, ProgramTexts DEF ServerTodo
<1>3. ASSUME NEW x, NEW y, NEW z, NEW v
      PROVE  ClientTodo(Start("c"), 1, x, y, z, v)
  <2>1. \A p \in Server : \A n : /\ RecvAt(p, "c", 1, n) = RecvRec(p, TempSec)
                                 /\ RecvAt(p, "c", 2, n) = RecvRec(p, PackSec)
                                 /\ RecvAt("p2", "c", 1, n) = RecvRec("p2", Pack2Sec)
    BY CallNames
  <2>2. /\ RecvAt("p0", "c", 1, x) = RecvRec("p0", TempSec) /\ RecvAt("p1", "c", 1, y) = RecvRec("p1", TempSec)
        /\ RecvAt("p0", "c", 2, x) = RecvRec("p0", PackSec) /\ RecvAt("p1", "c", 2, y) = RecvRec("p1", PackSec)
        /\ RecvAt("p2", "c", 1, z) = RecvRec("p2", Pack2Sec)
    BY <2>1 DEF Server
  <2>3. QED
    BY <2>2, ProgramTexts DEF ClientTodo
<1>4. ASSUME NEW a \in Process, NEW b \in Process
      PROVE  Sent(a, b, 1) = 0 /\ Read(a, b, 1) = 0
  BY DEF Sent, Read, DealerSent, ClientSent, ServerSent, ClientRead, ServerRead, Process, Server
<1>5. QED
  BY <1>1, <1>2, <1>3, <1>4

LEMMA ServerHeight ==
  ASSUME NEW t, NEW p, NEW n, p \in Server, ServerTodo(t, p, 1, n)
  PROVE  /\ t # <<>> /\ Head(t) = RecvAt("p2", p, 1, n) /\ Hears(p, 1, 2, "p2", 1)
         /\ \A v : ServerTodo(After(p, "p2", "height", v) \o Tail(t), p, 2, v)
<1>1. t # <<>> /\ Head(t) = RecvAt("p2", p, 1, n) /\ Tail(t) = <<>>
  <2>1. t = <<RecvAt("p2", p, 1, n)>>
    BY DEF ServerTodo
  <2>2. QED
    BY <2>1
<1>2. Hears(p, 1, 2, "p2", 1)
  BY DEF Hears, Pair, Sent, Read, ServerSent, ServerRead, Process, Server
<1>3. ASSUME NEW v
      PROVE  ServerTodo(After(p, "p2", "height", v) \o Tail(t), p, 2, v)
  <2>1. After(p, "p2", "height", v) = Offline(p, v)
    BY AfterHeight
  <2>2. /\ RecvAt("p2", p, 2, v) = RecvRec("p2", KeyRest(v))
        /\ RecvAt("p2", p, 3, v) = RecvRec("p2", TimeSec)
        /\ SendAt(p, "c", 1, v, v) = SendRec("c", TempSec, 0)
        /\ SendAt(p, "c", 2, v, v) = SendRec("c", PackSec, v)
        /\ SendAt(p, "c", 3, v, v) = SendRec("c", PackRest(v), 0)
        /\ RecvAt("c", p, 1, v) = RecvRec("c", AcceptSec)
    BY CallNames
  <2> DEFINE a == RecvAt("p2", p, 2, v)
             b == RecvAt("p2", p, 3, v)
             d == SendAt(p, "c", 1, v, v)
             e == SendAt(p, "c", 2, v, v)
             f == SendAt(p, "c", 3, v, v)
             g == RecvAt("c", p, 1, v)
  <2>3. CASE p = "p0"
    <3>1. Offline(p, v) = <<a, b, d, e, f, g>>
      BY <2>2, <2>3, ProgramTexts
    <3> HIDE DEF a, b, d, e, f, g
    <3>2. Offline(p, v) \o <<>> = <<a, b, d, e, f, g>>
      BY <3>1, JoinNone
    <3>3. After(p, "p2", "height", v) \o Tail(t) = <<a, b, d, e, f, g>>
      BY <1>1, <2>1, <3>2
    <3>4. QED
      BY <2>3, <3>3 DEF ServerTodo, a, b, d, e, f, g
  <2>4. CASE p = "p1"
    <3>1. Offline(p, v) = <<a, d, e, f, g>>
      BY <2>2, <2>4, ProgramTexts
    <3> HIDE DEF a, b, d, e, f, g
    <3>2. Offline(p, v) \o <<>> = <<a, d, e, f, g>>
      BY <3>1, JoinNone
    <3>3. After(p, "p2", "height", v) \o Tail(t) = <<a, d, e, f, g>>
      BY <1>1, <2>1, <3>2
    <3>4. QED
      BY <2>4, <3>3 DEF ServerTodo, a, b, d, e, f, g
  <2>5. QED
    BY <2>3, <2>4 DEF Server
<1>4. QED
  BY <1>1, <1>2, <1>3

LEMMA ServerAccept ==
  ASSUME NEW t, NEW p, NEW n, p \in Server, ServerTodo(t, p, 7, n),
         n = sizes[<<"p2", p>>]
  PROVE  /\ t # <<>> /\ Head(t) = RecvAt("c", p, 1, n)
         /\ Hears(p, 7, 8, "c", 1) /\ Hears(p, 7, 12, "c", 1)
         /\ ServerTodo(After(p, "c", "accept", 1) \o Tail(t), p, 8, n)
         /\ ServerTodo(After(p, "c", "accept", 0) \o Tail(t), p, 12, n)
<1>1. t # <<>> /\ Head(t) = RecvAt("c", p, 1, n) /\ Tail(t) = <<>>
  <2>1. t = <<RecvAt("c", p, 1, n)>>
    BY DEF ServerTodo
  <2>2. QED
    BY <2>1
<1>2. Hears(p, 7, 8, "c", 1) /\ Hears(p, 7, 12, "c", 1)
  BY DEF Hears, Pair, Sent, Read, ServerSent, ServerRead, Process, Server
<1>3. ServerTodo(After(p, "c", "accept", 0) \o Tail(t), p, 12, n)
  <2>1. After(p, "c", "accept", 0) = <<>>
    BY AfterAccept
  <2>2. After(p, "c", "accept", 0) \o Tail(t) = <<>>
    BY <1>1, <2>1
  <2>3. QED
    BY <2>2 DEF ServerTodo
<1>4. ServerTodo(After(p, "c", "accept", 1) \o Tail(t), p, 8, n)
  <2>1. After(p, "c", "accept", 1) = Online(n)
    BY AfterAccept
  <2>2. /\ RecvAt("c", p, 2, n) = RecvRec("c", RotatedSec(n))
        /\ SendAt(p, "c", 4, n, n) = SendRec("c", OSec, 0)
        /\ SendAt(p, "c", 5, n, n) = SendRec("c", HatoSec, 0)
    BY CallNames
  <2> DEFINE a == RecvAt("c", p, 2, n)
             b == SendAt(p, "c", 4, n, n)
             d == SendAt(p, "c", 5, n, n)
  <2>3. Online(n) = <<a, b, d>>
    BY <2>2, ProgramTexts
  <2> HIDE DEF a, b, d
  <2>4. After(p, "c", "accept", 1) \o Tail(t) = <<a, b, d>>
    BY <1>1, <2>1, <2>3, JoinNone
  <2>5. QED
    BY <2>4 DEF ServerTodo, a, b, d
<1>5. QED
  BY <1>1, <1>2, <1>3, <1>4

LEMMA ClientSize ==
  ASSUME NEW t, NEW k, NEW x, NEW y, NEW z, NEW vd, NEW q, k \in {3, 5, 7},
         ClientTodo(t, k, x, y, z, vd),
         q = IF k = 3 THEN "p0" ELSE IF k = 5 THEN "p1" ELSE "p2"
  PROVE  /\ t # <<>> /\ Hears("c", k, k + 1, q, KeyIndex(q))
         /\ Head(t) = RecvAt(q, "c", KeyIndex(q), IF k = 3 THEN x ELSE IF k = 5 THEN y ELSE z)
         /\ \A v : ClientTodo(After("c", q, "size", v) \o Tail(t), k + 1,
                              IF k = 3 THEN v ELSE x, IF k = 5 THEN v ELSE y, IF k = 7 THEN v ELSE z, vd)
<1>1. CASE k = 3
  <2>1. t = <<RecvAt("p0", "c", 2, x), RecvAt("p1", "c", 2, y), RecvAt("p2", "c", 1, z), CheckRec>>
    BY <1>1 DEF ClientTodo
  <2>2. t # <<>> /\ Head(t) = RecvAt("p0", "c", 2, x)
    BY <2>1
  <2>3. Tail(t) = <<RecvAt("p1", "c", 2, y), RecvAt("p2", "c", 1, z), CheckRec>>
    BY <2>1
  <2>4. Hears("c", 3, 4, "p0", 2) /\ KeyIndex("p0") = 2
    BY DEF Hears, Pair, Sent, Read, ClientSent, ClientRead, Process, Server, KeyIndex
  <2>5. ASSUME NEW v
        PROVE  ClientTodo(After("c", "p0", "size", v) \o Tail(t), 4, v, y, z, vd)
    <3> DEFINE a == RecvAt("p0", "c", 3, v)
               b == RecvAt("p1", "c", 2, y)
               d == RecvAt("p2", "c", 1, z)
               e == CheckRec
    <3>1. After("c", "p0", "size", v) = <<a>>
      BY AfterSize, CallNames DEF Server
    <3>2. Tail(t) = <<b, d, e>>
      BY <2>3
    <3> HIDE DEF a, b, d, e
    <3>3. <<a>> \o <<b, d, e>> = <<a, b, d, e>>
      BY JoinTuples
    <3>4. After("c", "p0", "size", v) \o Tail(t) = <<a, b, d, e>>
      BY <3>1, <3>2, <3>3
    <3>5. QED
      BY <3>4 DEF ClientTodo, a, b, d, e
  <2>6. q = "p0" /\ k + 1 = 4
    BY <1>1
  <2>7. QED
    BY <1>1, <2>2, <2>4, <2>5, <2>6
<1>2. CASE k = 5
  <2>1. t = <<RecvAt("p1", "c", 2, y), RecvAt("p2", "c", 1, z), CheckRec>>
    BY <1>2 DEF ClientTodo
  <2>2. t # <<>> /\ Head(t) = RecvAt("p1", "c", 2, y)
    BY <2>1
  <2>3. Tail(t) = <<RecvAt("p2", "c", 1, z), CheckRec>>
    BY <2>1
  <2>4. Hears("c", 5, 6, "p1", 2) /\ KeyIndex("p1") = 2
    BY DEF Hears, Pair, Sent, Read, ClientSent, ClientRead, Process, Server, KeyIndex
  <2>5. ASSUME NEW v
        PROVE  ClientTodo(After("c", "p1", "size", v) \o Tail(t), 6, x, v, z, vd)
    <3> DEFINE a == RecvAt("p1", "c", 3, v)
               d == RecvAt("p2", "c", 1, z)
               e == CheckRec
    <3>1. After("c", "p1", "size", v) = <<a>>
      BY AfterSize, CallNames DEF Server
    <3>2. Tail(t) = <<d, e>>
      BY <2>3
    <3> HIDE DEF a, d, e
    <3>3. <<a>> \o <<d, e>> = <<a, d, e>>
      BY JoinTuples
    <3>4. After("c", "p1", "size", v) \o Tail(t) = <<a, d, e>>
      BY <3>1, <3>2, <3>3
    <3>5. QED
      BY <3>4 DEF ClientTodo, a, d, e
  <2>6. q = "p1" /\ k + 1 = 6
    BY <1>2
  <2>7. QED
    BY <1>2, <2>2, <2>4, <2>5, <2>6
<1>3. CASE k = 7
  <2>1. t = <<RecvAt("p2", "c", 1, z), CheckRec>>
    BY <1>3 DEF ClientTodo
  <2>2. t # <<>> /\ Head(t) = RecvAt("p2", "c", 1, z)
    BY <2>1
  <2>3. Tail(t) = <<CheckRec>>
    BY <2>1
  <2>4. Hears("c", 7, 8, "p2", 1) /\ KeyIndex("p2") = 1
    BY DEF Hears, Pair, Sent, Read, ClientSent, ClientRead, Process, Server, KeyIndex
  <2>5. ASSUME NEW v
        PROVE  ClientTodo(After("c", "p2", "size", v) \o Tail(t), 8, x, y, v, vd)
    <3> DEFINE a == RecvAt("p2", "c", 2, v)
               e == CheckRec
    <3>1. After("c", "p2", "size", v) = <<a>>
      BY AfterSize, CallNames DEF Server
    <3>2. Tail(t) = <<e>>
      BY <2>3
    <3> HIDE DEF a, e
    <3>3. <<a>> \o <<e>> = <<a, e>>
      BY JoinTuples
    <3>4. After("c", "p2", "size", v) \o Tail(t) = <<a, e>>
      BY <3>1, <3>2, <3>3
    <3>5. QED
      BY <3>4 DEF ClientTodo, a, e
  <2>6. q = "p2" /\ k + 1 = 8
    BY <1>3
  <2>7. QED
    BY <1>3, <2>2, <2>4, <2>5, <2>6
<1>4. QED
  BY <1>1, <1>2, <1>3

LEMMA ClientChecks ==
  ASSUME NEW t, NEW x, NEW y, NEW z, NEW v, ClientTodo(t, 9, x, y, z, v),
         z = sizes[<<"p2", "c">>]
  PROVE  /\ t = <<CheckRec>>
         /\ \A w \in {0, 1} : ClientTodo(Decided(w) \o Tail(t), 10, x, y, z, w)
         /\ \A b \in Process : Sent("c", b, 10) = Sent("c", b, 9) /\ Read(b, "c", 10) = Read(b, "c", 9)
<1>1. t = <<CheckRec>>
  BY DEF ClientTodo
<1>2. Tail(t) = <<>>
  BY <1>1
<1>3. \A b \in Process : Sent("c", b, 10) = Sent("c", b, 9) /\ Read(b, "c", 10) = Read(b, "c", 9)
  BY DEF Sent, Read, ClientSent, ClientRead, Process, Server
<1>4. ClientTodo(Decided(0) \o Tail(t), 10, x, y, z, 0)
  <2> DEFINE a == SendAt("c", "p0", 1, z, 0)
             b == SendAt("c", "p1", 1, z, 0)
  <2>1. a = SendRec("p0", AcceptSec, 0) /\ b = SendRec("p1", AcceptSec, 0)
    BY CallNames DEF Server
  <2>2. Decided(0) = <<a, b>>
    BY <2>1, DecidedTexts
  <2> HIDE DEF a, b
  <2>3. <<a, b>> \o <<>> = <<a, b>>
    BY JoinTuples
  <2>4. Decided(0) \o Tail(t) = <<a, b>>
    BY <1>2, <2>2, <2>3
  <2>5. QED
    BY <2>4 DEF ClientTodo, a, b
<1>5. ClientTodo(Decided(1) \o Tail(t), 10, x, y, z, 1)
  <2> DEFINE a == SendAt("c", "p0", 1, z, 1)
             b == SendAt("c", "p1", 1, z, 1)
             d == SendAt("c", "p0", 2, z, 1)
             e == SendAt("c", "p1", 2, z, 1)
             f == RecvAt("p0", "c", 4, x)
             g == RecvAt("p0", "c", 5, x)
             h == RecvAt("p1", "c", 4, y)
             i == RecvAt("p1", "c", 5, y)
  <2>1. /\ a = SendRec("p0", AcceptSec, 1) /\ b = SendRec("p1", AcceptSec, 1)
        /\ d = SendRec("p0", RotatedSec(z), 0) /\ e = SendRec("p1", RotatedSec(z), 0)
    BY CallNames DEF Server
  <2>2. /\ f = RecvRec("p0", OSec) /\ g = RecvRec("p0", HatoSec)
        /\ h = RecvRec("p1", OSec) /\ i = RecvRec("p1", HatoSec)
    BY CallNames DEF Server
  <2>3. Decided(1) = <<a, b, d, e, f, g, h, i>>
    BY <2>1, <2>2, DecidedTexts
  <2> HIDE DEF a, b, d, e, f, g, h, i
  <2>4. Decided(1) \o Tail(t) = <<a, b, d, e, f, g, h, i>>
    BY <1>2, <2>3, JoinNone
  <2>5. QED
    BY <2>4 DEF ClientTodo, a, b, d, e, f, g, h, i
<1>6. QED
  BY <1>1, <1>3, <1>4, <1>5

LEMMA SectionFacts ==
  ASSUME NEW a, NEW b, NEW i, NEW n, Pair(a, b), i \in Nat \ {0}, n \in Nat
  PROVE  /\ Section(a, b, i, n) \in Seq(Field)
         /\ a = "p2" /\ b \in Server /\ i = 1 => Deciding(Section(a, b, i, n)) = "height"
         /\ a = "p2" /\ b = "c" /\ i = 1 => Deciding(Section(a, b, i, n)) = "size"
         /\ a \in Server /\ i = 2 => Deciding(Section(a, b, i, n)) = "size"
         /\ a = "c" /\ i = 1 => Deciding(Section(a, b, i, n)) = "accept"
         /\ i # KeyIndex(a) => Deciding(Section(a, b, i, n)) \notin {"height", "size", "accept"}
         /\ i <= KeyIndex(a) => \A m : Section(a, b, i, n) = Section(a, b, i, m)
<1>0. /\ KeyRest(n) \in Seq(Field) /\ Deciding(KeyRest(n)) = "gamma1"
      /\ PackRest(n) \in Seq(Field) /\ Deciding(PackRest(n)) = "gamma1"
      /\ Pack2Rest(n) \in Seq(Field) /\ Deciding(Pack2Rest(n)) = "gamma1"
      /\ OSec \in Seq(Field) /\ Deciding(OSec) = "o"
      /\ HatoSec \in Seq(Field) /\ Deciding(HatoSec) = "hato"
  BY LongSections
<1>1. CASE a = "p2" /\ b \in Server
  <2>1. \A m : Section(a, b, i, m) = IF i = 1 THEN KeySec ELSE IF i = 2 THEN KeyRest(m) ELSE TimeSec
    BY <1>1 DEF Section, Server
  <2>2. KeyIndex(a) = 1
    BY <1>1 DEF KeyIndex, Server
  <2>3. QED
    BY <1>1, <2>1, <2>2, <1>0, ShortSections DEF Server
<1>2. CASE a = "p2" /\ b = "c"
  <2>1. \A m : Section(a, b, i, m) = IF i = 1 THEN Pack2Sec ELSE Pack2Rest(m)
    BY <1>2 DEF Section, Server
  <2>2. KeyIndex(a) = 1
    BY <1>2 DEF KeyIndex, Server
  <2>3. QED
    BY <1>2, <2>1, <2>2, <1>0, ShortSections DEF Server
<1>3. CASE a = "c"
  <2>1. \A m : Section(a, b, i, m) = IF i = 1 THEN AcceptSec ELSE RotatedSec(m)
    BY <1>3 DEF Section, Server
  <2>2. KeyIndex(a) = 1
    BY <1>3 DEF KeyIndex, Server
  <2>3. QED
    BY <1>3, <2>1, <2>2, ShortSections DEF Server
<1>4. CASE a \in Server
  <2>1. \A m : Section(a, b, i, m) = IF i = 1 THEN TempSec ELSE IF i = 2 THEN PackSec
                                     ELSE IF i = 3 THEN PackRest(m) ELSE IF i = 4 THEN OSec ELSE HatoSec
    BY <1>4 DEF Section, Server
  <2>2. KeyIndex(a) = 2
    BY <1>4 DEF KeyIndex, Server
  <2>3. QED
    BY <1>4, <2>1, <2>2, <1>0, ShortSections DEF Server
<1>5. QED
  BY <1>1, <1>2, <1>3, <1>4 DEF Pair, Server

-----------------------------------------------------------------------------
(***************************************************************************)
(* The invariant.  pc[p] is the point at which program p is.  Count(a) is  *)
(* what a counts with when it sends, Carried(a) the value its section      *)
(* KeyIndex carries, Heard(a, b) what b keeps of it, Asked(a, b) what b    *)
(* counts with when it reads from a.                                       *)
(***************************************************************************)
CallRec == [do : {"send", "recv", "check"}, peer : Process, section : Seq(Field), val : Nat]
Packet  == [section : Seq(Field), val : Nat]

Count(a)    == IF a = "p2" THEN Bin ELSE sizes[<<"p2", a>>]
Carried(a)  == IF a = "c" THEN verdict ELSE Count(a)
Heard(a, b) == IF a = "c" THEN accept[b] ELSE sizes[<<a, b>>]
Asked(a, b) == IF a = "c" THEN sizes[<<"p2", b>>] ELSE sizes[<<a, b>>]

TodoAt(t, p, k, sz, vd) ==
  /\ p = "p2" => DealerTodo(t, k)
  /\ p \in Server => ServerTodo(t, p, k, sz[<<"p2", p>>])
  /\ p = "c" => ClientTodo(t, k, sz[<<"p0", "c">>], sz[<<"p1", "c">>], sz[<<"p2", "c">>], vd)

\* The points that go with what the program has read or found.
PointOK(p, k, acc, vd) ==
  /\ p = "p2" => k \in 1 .. 8
  /\ p \in Server => /\ k \in 1 .. 12 /\ (p = "p1" => k # 3) /\ (k <= 7 <=> acc[p] = Unread)
                     /\ (k \in 8 .. 11 => acc[p] = 1) /\ (k = 12 => acc[p] = 0)
  /\ p = "c" => /\ k \in 1 .. 19 /\ (k <= 9 <=> vd = Unread) /\ (k \in 10 .. 11 => vd \in {0, 1})
                /\ (k \in 12 .. 18 => vd = 1) /\ (k = 19 => vd = 0)

SessionTypes ==
  /\ todo \in [Process -> Seq(CallRec)]
  /\ channel \in [Link -> Seq(Packet)] /\ \A l \in Link : Len(channel[l]) <= Capacity
  /\ status \in [Process -> {"running", "ended", "died"}]
  /\ sizes \in [Link -> 0 .. MaxCount]
  /\ accept \in [Server -> {0, 1, Unread}]
  /\ verdict \in {0, 1, Unread}
  /\ counted \in [Process -> [sent : Nat, received : Nat]]
  /\ crashes \in 0 .. MaxCrashes

AtPoints(pc) ==
  \A p \in Process : /\ TodoAt(todo[p], p, pc[p], sizes, verdict)
                     /\ PointOK(p, pc[p], accept, verdict)

EndedDone == \A p \in Process : status[p] = "ended" => todo[p] = <<>>

VerdictMatches == verdict = 1 => SizesMatch

\* A server the client has told has its verdict; one it has not told has made
\* something up, if anything, after the client died.
AcceptTold(pc) ==
  \A p \in Server :
    accept[p] # Unread => IF Sent("c", p, pc["c"]) >= 1 THEN accept[p] = verdict
                          ELSE status["c"] = "died"

\* What the client counts with is what the server counted with.
Gone == \E p \in Process : status[p] = "died"

SizesAgree(pc) ==
  \A p \in Server : Read(p, "c", pc["c"]) >= 2 =>
    \/ Gone /\ status[p] # "running"
    \/ Sent(p, "c", pc[p]) >= 2 /\ sizes[<<p, "c">>] = sizes[<<"p2", p>>]

\* The connection holds the sections sent and not yet read, in their order.
Aligned(ch, a, b, s, r, n, x) ==
  /\ r <= s /\ Len(ch) = s - r
  /\ \A i \in 1 .. Len(ch) : ch[i] = Message(a, b, r + i, n, x)

LinkGood(a, b, s, r) ==
  /\ Aligned(channel[<<a, b>>], a, b, s, r, Count(a), Carried(a))
  /\ r >= KeyIndex(a) => Heard(a, b) = Carried(a)

\* Once a process has died, what is sent to one that is gone is lost, and a
\* reader may read on at the end of a file.
LinkOK(a, b, s, r) ==
  \/ LinkGood(a, b, s, r)
  \/ Gone /\ status[b] # "running"
  \/ Gone /\ s < r /\ channel[<<a, b>>] = <<>> /\ status[a] # "running"

LinksOK(pc) ==
  \A a, b \in Process : Pair(a, b) => LinkOK(a, b, Sent(a, b, pc[a]), Read(a, b, pc[b]))

\* The bytes of the sections 1 .. s of a stream, and what p has counted at
\* point k.
Width(a, b, i, n)    == Bytes(Section(a, b, i, n))
Upto(a, b, s, n, i)  == IF s >= i THEN Width(a, b, i, n) ELSE 0
Stream(a, b, s, n)   == Upto(a, b, s, n, 1) + Upto(a, b, s, n, 2) + Upto(a, b, s, n, 3)
                        + Upto(a, b, s, n, 4) + Upto(a, b, s, n, 5)
SentTo(p, b, k)      == Stream(p, b, Sent(p, b, k), Count(p))
ReadFrom(a, p, k)    == Stream(a, p, Read(a, p, k), Asked(a, p))

Tallied(pc) ==
  \A p \in Process :
    /\ counted[p].sent = SentTo(p, "p0", pc[p]) + SentTo(p, "p1", pc[p])
                         + SentTo(p, "p2", pc[p]) + SentTo(p, "c", pc[p])
    /\ counted[p].received = ReadFrom("p0", p, pc[p]) + ReadFrom("p1", p, pc[p])
                             + ReadFrom("p2", p, pc[p]) + ReadFrom("c", p, pc[p])

SInv(pc) ==
  /\ pc \in [Process -> Nat]
  /\ SessionTypes
  /\ AtPoints(pc)
  /\ EndedDone
  /\ VerdictMatches
  /\ SizesAgree(pc)
  /\ AcceptTold(pc)
  /\ LinksOK(pc)
  /\ Tallied(pc)

LEMMA PairFacts ==
  /\ \A a, b : Pair(a, b) <=> <<a, b>> \in Link
  /\ \A a, b : Pair(a, b) => a \in Process /\ b \in Process /\ a # b
  /\ \A l \in Link : \E a, b : Pair(a, b) /\ l = <<a, b>>
  BY DEF Pair, Link, Process, Server

LEMMA RecordFacts ==
  /\ \A q, s, v : /\ SendRec(q, s, v).do = "send" /\ SendRec(q, s, v).peer = q
                  /\ SendRec(q, s, v).section = s /\ SendRec(q, s, v).val = v
  /\ \A q, s : /\ RecvRec(q, s).do = "recv" /\ RecvRec(q, s).peer = q
               /\ RecvRec(q, s).section = s
  /\ CheckRec.do = "check"
  /\ \A a, b, i, n, x : /\ SendAt(a, b, i, n, x).do = "send" /\ SendAt(a, b, i, n, x).peer = b
                        /\ SendAt(a, b, i, n, x).section = Section(a, b, i, n)
                        /\ SendAt(a, b, i, n, x).val = Val(a, i, x)
                        /\ Message(a, b, i, n, x).section = Section(a, b, i, n)
                        /\ Message(a, b, i, n, x).val = Val(a, i, x)
  /\ \A a, b, i, n : /\ RecvAt(a, b, i, n).do = "recv" /\ RecvAt(a, b, i, n).peer = a
                     /\ RecvAt(a, b, i, n).section = Section(a, b, i, n)
<1>1. /\ \A q, s, v : /\ SendRec(q, s, v).do = "send" /\ SendRec(q, s, v).peer = q
                      /\ SendRec(q, s, v).section = s /\ SendRec(q, s, v).val = v
      /\ \A q, s : /\ RecvRec(q, s).do = "recv" /\ RecvRec(q, s).peer = q
                   /\ RecvRec(q, s).section = s
  BY DEF SendRec, RecvRec
<1>2. CheckRec.do = "check"
  BY DEF CheckRec
<1>3. \A a, b, i, n, x : /\ SendAt(a, b, i, n, x).do = "send" /\ SendAt(a, b, i, n, x).peer = b
                         /\ SendAt(a, b, i, n, x).section = Section(a, b, i, n)
                         /\ SendAt(a, b, i, n, x).val = Val(a, i, x)
  BY <1>1 DEF SendAt
<1>4. \A a, b, i, n, x : /\ Message(a, b, i, n, x).section = Section(a, b, i, n)
                         /\ Message(a, b, i, n, x).val = Val(a, i, x)
  BY DEF Message
<1>5. \A a, b, i, n : /\ RecvAt(a, b, i, n).do = "recv" /\ RecvAt(a, b, i, n).peer = a
                      /\ RecvAt(a, b, i, n).section = Section(a, b, i, n)
  BY <1>1 DEF RecvAt
<1>6. QED
  BY <1>1, <1>2, <1>3, <1>4, <1>5

LEMMA AppendAligned ==
  ASSUME NEW ch \in Seq(Packet), NEW a, NEW b, NEW s \in Nat, NEW r \in Nat, NEW n, NEW x,
         Aligned(ch, a, b, s, r, n, x), NEW m \in Packet, m = Message(a, b, s + 1, n, x)
  PROVE  /\ Append(ch, m) \in Seq(Packet) /\ Len(Append(ch, m)) = Len(ch) + 1
         /\ Aligned(Append(ch, m), a, b, s + 1, r, n, x)
<1>1. Len(ch) \in Nat /\ Len(ch) = s - r /\ r <= s
  BY LenProperties DEF Aligned
<1>2. /\ Append(ch, m) \in Seq(Packet) /\ Len(Append(ch, m)) = Len(ch) + 1
      /\ \A i \in 1 .. Len(ch) : Append(ch, m)[i] = ch[i]
      /\ Append(ch, m)[Len(ch) + 1] = m
  BY AppendProperties
<1>3. ASSUME NEW i \in 1 .. Len(ch) + 1
      PROVE  Append(ch, m)[i] = Message(a, b, r + i, n, x)
  <2>1. CASE i \in 1 .. Len(ch)
    BY <1>2, <2>1 DEF Aligned
  <2>2. CASE i = Len(ch) + 1
    <3>1. r + i = s + 1
      BY <1>1, <2>2
    <3>2. QED
      BY <1>2, <2>2, <3>1
  <2>3. QED
    BY <1>1, <2>1, <2>2
<1>4. Aligned(Append(ch, m), a, b, s + 1, r, n, x)
  BY <1>1, <1>2, <1>3 DEF Aligned
<1>5. QED
  BY <1>2, <1>4

LEMMA TailAligned ==
  ASSUME NEW ch \in Seq(Packet), NEW a, NEW b, NEW s \in Nat, NEW r \in Nat, NEW n, NEW x,
         Aligned(ch, a, b, s, r, n, x), ch # <<>>
  PROVE  /\ Tail(ch) \in Seq(Packet) /\ Len(Tail(ch)) <= Len(ch) /\ r + 1 <= s
         /\ Head(ch) = Message(a, b, r + 1, n, x)
         /\ Aligned(Tail(ch), a, b, s, r + 1, n, x)
<1>1. Len(ch) \in Nat /\ Len(ch) = s - r /\ r <= s
  BY LenProperties DEF Aligned
<1>2. Len(ch) # 0
  BY EmptySeq
<1>3. /\ Tail(ch) \in Seq(Packet) /\ Len(Tail(ch)) = Len(ch) - 1
      /\ \A i \in 1 .. Len(Tail(ch)) : Tail(ch)[i] = ch[i + 1]
      /\ Head(ch) = ch[1]
  BY HeadTailProperties
<1>4. Head(ch) = Message(a, b, r + 1, n, x)
  BY <1>1, <1>2, <1>3 DEF Aligned
<1>5. ASSUME NEW i \in 1 .. Len(Tail(ch))
      PROVE  Tail(ch)[i] = Message(a, b, (r + 1) + i, n, x)
  <2>1. i + 1 \in 1 .. Len(ch) /\ r + (i + 1) = (r + 1) + i
    BY <1>1, <1>3
  <2>2. Tail(ch)[i] = ch[i + 1]
    BY <1>3
  <2>3. ch[i + 1] = Message(a, b, r + (i + 1), n, x)
    BY <2>1 DEF Aligned
  <2>4. QED
    BY <2>1, <2>2, <2>3
<1>6. QED
  BY <1>1, <1>2, <1>3, <1>4, <1>5 DEF Aligned

(***************************************************************************)
(* The next call of a program, and the point it leads to.                  *)
(***************************************************************************)
SendsNext(p, k0, q, i, k) ==
  /\ Says(p, k0, k, q, i)
  /\ Head(todo[p]) = SendAt(p, q, i, Count(p), Carried(p))
  /\ TodoAt(Tail(todo[p]), p, k, sizes, verdict)
  /\ PointOK(p, k, accept, verdict)

LEMMA SendMoves ==
  ASSUME NEW p, NEW k0, p \in Process, TodoAt(todo[p], p, k0, sizes, verdict),
         PointOK(p, k0, accept, verdict), todo[p] # <<>>, Head(todo[p]).do = "send"
  PROVE  \E q, i, k : k \in Nat /\ SendsNext(p, k0, q, i, k)
<1> DEFINE t == todo[p]
<1>1. CASE p = "p2"
  <2>1. k0 \in 1 .. 8 /\ DealerTodo(t, k0)
    BY <1>1 DEF PointOK, TodoAt
  <2> HIDE DEF t
  <2>2. k0 # 8
    BY <2>1, DealerSends DEF t
  <2>3. PICK q, i : /\ Says("p2", k0, k0 + 1, q, i) /\ Head(t) = SendAt("p2", q, i, Bin, Bin)
                    /\ DealerTodo(Tail(t), k0 + 1)
    BY <2>1, <2>2, DealerSends
  <2>4. Count("p2") = Bin /\ Carried("p2") = Bin
    BY DEF Count, Carried
  <2>5. TodoAt(Tail(t), p, k0 + 1, sizes, verdict)
    BY <1>1, <2>3 DEF TodoAt, Server
  <2>6. PointOK(p, k0 + 1, accept, verdict)
    BY <1>1, <2>1, <2>2 DEF PointOK, Server
  <2>7. SendsNext(p, k0, q, i, k0 + 1)
    BY <1>1, <2>3, <2>4, <2>5, <2>6 DEF SendsNext, t
  <2>8. k0 + 1 \in Nat
    BY <2>1
  <2>9. QED
    BY <2>7, <2>8
<1>2. CASE p \in Server
  <2> DEFINE n == sizes[<<"p2", p>>]
  <2>1. ServerTodo(t, p, k0, n)
    BY <1>2 DEF TodoAt
  <2>2. /\ k0 \in 1 .. 12 /\ (p = "p1" => k0 # 3) /\ (k0 <= 7 <=> accept[p] = Unread)
        /\ (k0 \in 8 .. 11 => accept[p] = 1) /\ (k0 = 12 => accept[p] = 0)
    BY <1>2 DEF PointOK
  <2>3. Count(p) = n /\ Carried(p) = n
    BY <1>2 DEF Count, Carried, Server
  <2> HIDE DEF t, n
  <2>4. k0 \notin {1, 7} /\ k0 \notin {11, 12}
    <3>1. k0 # 1
      BY <1>2, <2>1, ServerHeight, RecordFacts DEF t
    <3>2. k0 # 7
      <4>1. SUFFICES ASSUME k0 = 7 PROVE FALSE
        OBVIOUS
      <4>2. t = <<RecvAt("c", p, 1, n)>>
        BY <2>1, <4>1 DEF ServerTodo
      <4>3. QED
        BY <4>2, RecordFacts DEF t
    <3>3. k0 \notin {11, 12}
      BY <2>1 DEF ServerTodo, t
    <3>4. QED
      BY <3>1, <3>2, <3>3
  <2>5. k0 \notin {2, 3, 8}
    BY <1>2, <2>1, <2>2, ServerReads, RecordFacts DEF t
  <2>6. k0 \in {4, 5, 6, 9, 10}
    BY <2>2, <2>4, <2>5
  <2>7. PICK i : /\ Says(p, k0, k0 + 1, "c", i) /\ Head(t) = SendAt(p, "c", i, n, n)
                 /\ ServerTodo(Tail(t), p, k0 + 1, n)
    BY <1>2, <2>1, <2>6, ServerSends
  <2>8. TodoAt(Tail(t), p, k0 + 1, sizes, verdict)
    BY <1>2, <2>7 DEF TodoAt, Server, n
  <2>9. PointOK(p, k0 + 1, accept, verdict)
    BY <1>2, <2>2, <2>6 DEF PointOK, Server
  <2>10. SendsNext(p, k0, "c", i, k0 + 1)
    BY <2>3, <2>7, <2>8, <2>9 DEF SendsNext, t
  <2>11. k0 + 1 \in Nat
    BY <2>6
  <2>12. QED
    BY <2>10, <2>11
<1>3. CASE p = "c"
  <2> DEFINE x == sizes[<<"p0", "c">>]
             y == sizes[<<"p1", "c">>]
             z == sizes[<<"p2", "c">>]
  <2>1. ClientTodo(t, k0, x, y, z, verdict)
    BY <1>3 DEF TodoAt
  <2>2. /\ k0 \in 1 .. 19 /\ (k0 <= 9 <=> verdict = Unread) /\ (k0 \in 10 .. 11 => verdict \in {0, 1})
        /\ (k0 \in 12 .. 18 => verdict = 1) /\ (k0 = 19 => verdict = 0)
    BY <1>3 DEF PointOK
  <2>3. Count(p) = z /\ Carried(p) = verdict
    BY <1>3 DEF Count, Carried
  <2> HIDE DEF t, x, y, z
  <2>4. k0 \notin {18, 19}
    BY <2>1 DEF ClientTodo, t
  <2>5. k0 # 9
    <3>1. SUFFICES ASSUME k0 = 9 PROVE FALSE
      OBVIOUS
    <3>2. t = <<CheckRec>>
      BY <2>1, <3>1 DEF ClientTodo
    <3>3. QED
      BY <3>2, RecordFacts DEF t
  <2>6. k0 \notin {3, 5, 7}
    BY <2>1, ClientSize, RecordFacts DEF t
  <2>7. k0 \notin {1, 2, 4, 6, 8, 14, 15, 16, 17}
    <3>1. SUFFICES ASSUME k0 \in PlainReads PROVE FALSE
      BY DEF PlainReads
    <3>2. PICK q, i : ClientHears(t, k0, x, y, z, verdict, q, i)
      BY <2>1, <3>1, ClientReads
    <3>3. Head(t) = RecvAt(q, "c", i, OneOf(q, x, y, z))
      BY <3>2 DEF ClientHears
    <3>4. QED
      BY <3>3, RecordFacts DEF t
  <2>8. k0 \in {10, 11, 12, 13}
    BY <2>2, <2>4, <2>5, <2>6, <2>7
  <2>9. verdict \in {0, 1} /\ (k0 >= 12 => verdict = 1)
    BY <2>2, <2>8
  <2>10. PICK q, i, k : /\ Says("c", k0, k, q, i) /\ Head(t) = SendAt("c", q, i, z, verdict)
                        /\ ClientTodo(Tail(t), k, x, y, z, verdict)
                        /\ k = IF k0 = 11 /\ verdict = 0 THEN 19 ELSE k0 + 1
    BY <2>1, <2>8, <2>9, ClientSends
  <2>11. TodoAt(Tail(t), p, k, sizes, verdict)
    BY <1>3, <2>10 DEF TodoAt, Server, x, y, z
  <2>12. PointOK(p, k, accept, verdict) /\ k \in Nat
    BY <1>3, <2>2, <2>8, <2>9, <2>10 DEF PointOK, Server, Unread
  <2>13. SendsNext(p, k0, q, i, k)
    BY <1>3, <2>3, <2>10, <2>11, <2>12 DEF SendsNext, t
  <2>14. QED
    BY <2>12, <2>13
<1>4. QED
  BY <1>1, <1>2, <1>3 DEF Process

LEMMA RecvType ==
  ASSUME NEW a, NEW b, NEW i, NEW n, Pair(a, b), i \in Nat \ {0}, n \in Nat
  PROVE  RecvAt(a, b, i, n) \in CallRec
<1> DEFINE sec == Section(a, b, i, n)
<1>1. sec \in Seq(Field) /\ a \in Process
  BY SectionFacts, PairFacts
<1> HIDE DEF sec
<1>2. [do |-> "recv", peer |-> a, section |-> sec, val |-> 0] \in CallRec
  BY <1>1 DEF CallRec
<1>3. QED
  BY <1>2 DEF RecvAt, RecvRec, sec

LEMMA SendType ==
  ASSUME NEW a, NEW b, NEW i, NEW n, NEW x, Pair(a, b), i \in Nat \ {0}, n \in Nat, x \in Nat
  PROVE  SendAt(a, b, i, n, x) \in CallRec /\ Message(a, b, i, n, x) \in Packet
<1> DEFINE sec == Section(a, b, i, n)
           w == Val(a, i, x)
<1>1. sec \in Seq(Field) /\ b \in Process
  BY SectionFacts, PairFacts
<1>2. w \in Nat
  BY DEF Val
<1> HIDE DEF sec, w
<1>3. [do |-> "send", peer |-> b, section |-> sec, val |-> w] \in CallRec
  BY <1>1, <1>2 DEF CallRec
<1>4. [section |-> sec, val |-> w] \in Packet
  BY <1>1, <1>2 DEF Packet
<1>5. QED
  BY <1>3, <1>4 DEF SendAt, SendRec, Message, sec, w

LEMMA CheckType == CheckRec \in CallRec
  BY DEF CheckRec, CallRec, Process

LEMMA TupleTypes ==
  ASSUME NEW S, NEW a \in S, NEW b \in S
  PROVE  /\ <<a>> \in Seq(S) /\ <<a, b>> \in Seq(S)
         /\ \A c \in S : <<a, b, c>> \in Seq(S)
         /\ \A c, d, e \in S : <<a, b, c, d, e>> \in Seq(S)
         /\ \A c, d, e, f \in S : <<a, b, c, d, e, f>> \in Seq(S)
         /\ \A c, d, e, f, g \in S : <<a, b, c, d, e, f, g>> \in Seq(S)
         /\ \A c, d, e, f, g, h \in S : <<a, b, c, d, e, f, g, h>> \in Seq(S)
  OBVIOUS

(***************************************************************************)
(* What a program still has to do is a sequence of calls: at the points    *)
(* where it has just decided something.                                    *)
(***************************************************************************)
LEMMA TodoTypes ==
  ASSUME NEW t, NEW p, NEW k, NEW n, NEW x, NEW y, NEW z, NEW v,
         n \in Nat, x \in Nat, y \in Nat, z \in Nat, v \in Nat
  PROVE  /\ DealerTodo(t, 1) => t \in Seq(CallRec)
         /\ p \in Server /\ k \in {1, 2, 8, 12} /\ ServerTodo(t, p, k, n) => t \in Seq(CallRec)
         /\ k \in {1, 4, 6, 8} /\ ClientTodo(t, k, x, y, z, v) => t \in Seq(CallRec)
         /\ v \in {0, 1} /\ ClientTodo(t, 10, x, y, z, v) => t \in Seq(CallRec)
<1>0. Bin \in Nat
  BY SessionAssumption
<1>1. ASSUME DealerTodo(t, 1)
      PROVE  t \in Seq(CallRec)
  <2> DEFINE a == SendAt("p2", "p0", 1, Bin, Bin)
             b == SendAt("p2", "p0", 2, Bin, Bin)
             c == SendAt("p2", "p0", 3, Bin, Bin)
             d == SendAt("p2", "p1", 1, Bin, Bin)
             e == SendAt("p2", "p1", 2, Bin, Bin)
             f == SendAt("p2", "c", 1, Bin, Bin)
             g == SendAt("p2", "c", 2, Bin, Bin)
  <2>1. t = <<a, b, c, d, e, f, g>>
    BY <1>1 DEF DealerTodo
  <2>2. Pair("p2", "p0") /\ Pair("p2", "p1") /\ Pair("p2", "c")
    BY DEF Pair
  <2>3. a \in CallRec /\ b \in CallRec /\ c \in CallRec
    BY <1>0, <2>2, RecvType, SendType
  <2>4. d \in CallRec /\ e \in CallRec /\ f \in CallRec /\ g \in CallRec
    BY <1>0, <2>2, RecvType, SendType
  <2> HIDE DEF a, b, c, d, e, f, g
  <2>5. <<a, b, c, d, e, f, g>> \in Seq(CallRec)
    BY <2>3, <2>4, TupleTypes
  <2>6. QED
    BY <2>1, <2>5
<1>2. ASSUME p \in Server, k \in {1, 2, 8, 12}, ServerTodo(t, p, k, n)
      PROVE  t \in Seq(CallRec)
  <2> DEFINE a1 == RecvAt("p2", p, 1, n)
             a == RecvAt("p2", p, 2, n)
             b == RecvAt("p2", p, 3, n)
             c == SendAt(p, "c", 1, n, n)
             d == SendAt(p, "c", 2, n, n)
             e == SendAt(p, "c", 3, n, n)
             f == RecvAt("c", p, 1, n)
             g1 == RecvAt("c", p, 2, n)
             g2 == SendAt(p, "c", 4, n, n)
             g3 == SendAt(p, "c", 5, n, n)
  <2>1. Pair("p2", p) /\ Pair(p, "c") /\ Pair("c", p)
    BY <1>2 DEF Pair, Server
  <2>2. a1 \in CallRec /\ a \in CallRec /\ b \in CallRec /\ c \in CallRec /\ d \in CallRec
    BY <2>1, RecvType, SendType
  <2>3. e \in CallRec /\ f \in CallRec /\ g1 \in CallRec /\ g2 \in CallRec /\ g3 \in CallRec
    BY <2>1, RecvType, SendType
  <2>4. /\ k = 1 => t = <<a1>>
        /\ k = 2 /\ p = "p0" => t = <<a, b, c, d, e, f>>
        /\ k = 2 /\ p = "p1" => t = <<a, c, d, e, f>>
        /\ k = 8 => t = <<g1, g2, g3>>
        /\ k = 12 => t = <<>>
    BY <1>2 DEF ServerTodo
  <2> HIDE DEF a1, a, b, c, d, e, f, g1, g2, g3
  <2>5. /\ <<a1>> \in Seq(CallRec) /\ <<g1, g2, g3>> \in Seq(CallRec)
        /\ <<a, b, c, d, e, f>> \in Seq(CallRec) /\ <<a, c, d, e, f>> \in Seq(CallRec)
    BY <2>2, <2>3, TupleTypes
  <2>6. <<>> \in Seq(CallRec)
    BY EmptySeq
  <2>7. QED
    BY <1>2, <2>4, <2>5, <2>6 DEF Server
<1>3. ASSUME k \in {1, 4, 6, 8}, ClientTodo(t, k, x, y, z, v)
      PROVE  t \in Seq(CallRec)
  <2> DEFINE a == RecvAt("p0", "c", 1, x)
             b == RecvAt("p1", "c", 1, y)
             c == RecvAt("p0", "c", 2, x)
             d == RecvAt("p1", "c", 2, y)
             e == RecvAt("p2", "c", 1, z)
             f == CheckRec
             a3 == RecvAt("p0", "c", 3, x)
             b3 == RecvAt("p1", "c", 3, y)
             e2 == RecvAt("p2", "c", 2, z)
  <2>1. Pair("p0", "c") /\ Pair("p1", "c") /\ Pair("p2", "c")
    BY DEF Pair, Server
  <2>2. a \in CallRec /\ b \in CallRec /\ c \in CallRec /\ d \in CallRec /\ e \in CallRec
    BY <2>1, RecvType, SendType
  <2>3. f \in CallRec /\ a3 \in CallRec /\ b3 \in CallRec /\ e2 \in CallRec
    BY <2>1, RecvType, SendType, CheckType
  <2>4. /\ k = 1 => t = <<a, b, c, d, e, f>>
        /\ k = 4 => t = <<a3, d, e, f>>
        /\ k = 6 => t = <<b3, e, f>>
        /\ k = 8 => t = <<e2, f>>
    BY <1>3 DEF ClientTodo
  <2> HIDE DEF a, b, c, d, e, f, a3, b3, e2
  <2>5. /\ <<a, b, c, d, e, f>> \in Seq(CallRec) /\ <<b3, e, f>> \in Seq(CallRec)
        /\ <<e2, f>> \in Seq(CallRec)
    BY <2>2, <2>3, TupleTypes
  <2>6. <<a3, d, e, f>> \in Seq(CallRec)
    BY <2>2, <2>3
  <2>7. QED
    BY <1>3, <2>4, <2>5, <2>6
<1>4. ASSUME v \in {0, 1}, ClientTodo(t, 10, x, y, z, v)
      PROVE  t \in Seq(CallRec)
  <2> DEFINE a == SendAt("c", "p0", 1, z, v)
             b == SendAt("c", "p1", 1, z, v)
             c == SendAt("c", "p0", 2, z, v)
             d == SendAt("c", "p1", 2, z, v)
             e == RecvAt("p0", "c", 4, x)
             f == RecvAt("p0", "c", 5, x)
             g == RecvAt("p1", "c", 4, y)
             h == RecvAt("p1", "c", 5, y)
  <2>1. Pair("p0", "c") /\ Pair("p1", "c") /\ Pair("c", "p0") /\ Pair("c", "p1")
    BY DEF Pair, Server
  <2>2. a \in CallRec /\ b \in CallRec /\ c \in CallRec /\ d \in CallRec
    BY <2>1, RecvType, SendType
  <2>3. e \in CallRec /\ f \in CallRec /\ g \in CallRec /\ h \in CallRec
    BY <2>1, RecvType, SendType
  <2>4. /\ v = 0 => t = <<a, b>>
        /\ v = 1 => t = <<a, b, c, d, e, f, g, h>>
    BY <1>4 DEF ClientTodo
  <2> HIDE DEF a, b, c, d, e, f, g, h
  <2>5. <<a, b>> \in Seq(CallRec) /\ <<a, b, c, d, e, f, g, h>> \in Seq(CallRec)
    BY <2>2, <2>3, TupleTypes
  <2>6. QED
    BY <1>4, <2>4, <2>5
<1>5. QED
  BY <1>1, <1>2, <1>3, <1>4

(***************************************************************************)
(* A program about to read section i of its peer q, and what a read of v   *)
(* makes of it: the call is gone, and the count, height or accept byte     *)
(* kept.                                                                   *)
(***************************************************************************)
Reads(p, k0, q, i) ==
  /\ Pair(q, p) /\ i = Read(q, p, k0) + 1 /\ i \in Nat \ {0}
  /\ Head(todo[p]) = RecvAt(q, p, i, Asked(q, p))

Possible(q, i) == IF i # KeyIndex(q) THEN Nat ELSE IF q = "c" THEN {0, 1} ELSE 0 .. MaxCount

SizesAfter(p, q, i, v) ==
  IF i = KeyIndex(q) /\ q # "c" THEN [sizes EXCEPT ![<<q, p>>] = v] ELSE sizes

AcceptAfter(p, q, i, v) ==
  IF i = KeyIndex(q) /\ q = "c" THEN [accept EXCEPT ![p] = v] ELSE accept

TodoAfter(p, q, v) == After(p, q, Deciding(Call(p).section), v) \o Tail(todo[p])

ReadsNext(p, k0, q, i, v, k) ==
  /\ k \in Nat /\ Hears(p, k0, k, q, i)
  /\ TodoAfter(p, q, v) \in Seq(CallRec)
  /\ TodoAt(TodoAfter(p, q, v), p, k, SizesAfter(p, q, i, v), verdict)
  /\ PointOK(p, k, AcceptAfter(p, q, i, v), verdict)

KeyName(q, p) == IF q = "c" THEN "accept" ELSE IF q = "p2" /\ p \in Server THEN "height" ELSE "size"

LEMMA FieldRead ==
  ASSUME NEW p, NEW q, NEW i, NEW n, Pair(q, p), i \in Nat \ {0}, n \in Nat
  PROVE  LET f == Deciding(Section(q, p, i, n)) IN
         /\ i = KeyIndex(q) => f = KeyName(q, p)
         /\ i # KeyIndex(q) => f \notin {"height", "size", "accept"}
         /\ (f \in {"height", "size"}) <=> (i = KeyIndex(q) /\ q # "c")
         /\ (f = "accept") <=> (i = KeyIndex(q) /\ q = "c")
<1> DEFINE f == Deciding(Section(q, p, i, n))
<1>1. /\ q = "p2" /\ p \in Server /\ i = 1 => f = "height"
      /\ q = "p2" /\ p = "c" /\ i = 1 => f = "size"
      /\ q \in Server /\ i = 2 => f = "size"
      /\ q = "c" /\ i = 1 => f = "accept"
      /\ i # KeyIndex(q) => f \notin {"height", "size", "accept"}
  BY SectionFacts
<1> HIDE DEF f
<1>2. /\ i = KeyIndex(q) => f = KeyName(q, p)
      /\ i # KeyIndex(q) => f \notin {"height", "size", "accept"}
  BY <1>1 DEF KeyName, KeyIndex, Pair, Server
<1>3. (f \in {"height", "size"}) <=> (i = KeyIndex(q) /\ q # "c")
  BY <1>2 DEF KeyName
<1>4. (f = "accept") <=> (i = KeyIndex(q) /\ q = "c")
  BY <1>2 DEF KeyName
<1>5. QED
  BY <1>2, <1>3, <1>4 DEF f

LEMMA AskedType ==
  ASSUME NEW q, NEW p, Pair(q, p), sizes \in [Link -> 0 .. MaxCount]
  PROVE  Asked(q, p) \in Nat
<1>1. \A l \in Link : sizes[l] \in 0 .. MaxCount
  OBVIOUS
<1>2. <<q, p>> \in Link /\ (q = "c" => <<"p2", p>> \in Link)
  BY DEF Pair, Link, Server
<1>3. MaxCount \in Nat
  BY SessionAssumption
<1>4. QED
  BY <1>1, <1>2, <1>3 DEF Asked

LEMMA PlainRead ==
  ASSUME NEW p, NEW k0, NEW k, NEW q, NEW i, p \in Process, k \in Nat, Hears(p, k0, k, q, i),
         i # KeyIndex(q), todo[p] \in Seq(CallRec), sizes \in [Link -> 0 .. MaxCount],
         todo[p] # <<>>, Head(todo[p]) = RecvAt(q, p, i, Asked(q, p)),
         TodoAt(Tail(todo[p]), p, k, sizes, verdict), PointOK(p, k, accept, verdict)
  PROVE  Reads(p, k0, q, i) /\ \A v : ReadsNext(p, k0, q, i, v, k)
<1>1. Pair(q, p) /\ i = Read(q, p, k0) + 1 /\ i \in Nat \ {0}
  BY DEF Hears
<1>2. Reads(p, k0, q, i)
  BY <1>1 DEF Reads
<1>3. Asked(q, p) \in Nat
  BY <1>1, AskedType
<1>4. Call(p).section = Section(q, p, i, Asked(q, p))
  BY RecordFacts DEF Call
<1>5. Deciding(Call(p).section) \notin {"height", "size", "accept"}
  BY <1>1, <1>3, <1>4, FieldRead
<1>6. Tail(todo[p]) \in Seq(CallRec)
  BY HeadTailProperties
<1>7. ASSUME NEW v
      PROVE  ReadsNext(p, k0, q, i, v, k)
  <2>1. After(p, q, Deciding(Call(p).section), v) = <<>>
    BY <1>5, AfterOther
  <2>2. TodoAfter(p, q, v) = Tail(todo[p])
    BY <1>6, <2>1, ConcatEmptySeq DEF TodoAfter
  <2>3. SizesAfter(p, q, i, v) = sizes /\ AcceptAfter(p, q, i, v) = accept
    BY DEF SizesAfter, AcceptAfter
  <2>4. QED
    BY <1>6, <2>2, <2>3 DEF ReadsNext
<1>8. QED
  BY <1>2, <1>7

CanRead(p, k0, q, i) ==
  /\ Reads(p, k0, q, i)
  /\ \A v \in Possible(q, i) : \E k : ReadsNext(p, k0, q, i, v, k)

LEMMA ServerMoves ==
  ASSUME NEW p, NEW k0, p \in Server, TodoAt(todo[p], p, k0, sizes, verdict),
         PointOK(p, k0, accept, verdict), todo[p] \in Seq(CallRec), todo[p] # <<>>,
         Head(todo[p]).do = "recv", sizes \in [Link -> 0 .. MaxCount],
         accept \in [Server -> {0, 1, Unread}]
  PROVE  \E q, i : CanRead(p, k0, q, i)
<1> DEFINE t == todo[p]
           n == sizes[<<"p2", p>>]
<1>0. p \in Process /\ p # "p2" /\ p # "c" /\ <<"p2", p>> \in Link /\ Pair("p2", p) /\ Pair("c", p)
  BY DEF Process, Server, Link, Pair
<1>1. ServerTodo(t, p, k0, n)
  BY DEF TodoAt
<1>2. /\ k0 \in 1 .. 12 /\ (p = "p1" => k0 # 3) /\ (k0 <= 7 <=> accept[p] = Unread)
      /\ (k0 \in 8 .. 11 => accept[p] = 1) /\ (k0 = 12 => accept[p] = 0)
  BY DEF PointOK
<1>3. Asked("p2", p) = n /\ Asked("c", p) = n
  BY DEF Asked
<1>n. n \in Nat
  BY <1>0, <1>3, AskedType
<1>i. /\ KeyIndex("p2") = 1 /\ KeyIndex("c") = 1
      /\ Possible("p2", 1) = 0 .. MaxCount /\ Possible("c", 1) = {0, 1}
  BY DEF Possible, KeyIndex, Server
<1> HIDE DEF t, n
<1>4. k0 \notin {4, 5, 6, 9, 10}
  <2>1. SUFFICES ASSUME k0 \in {4, 5, 6, 9, 10} PROVE FALSE
    OBVIOUS
  <2>2. PICK i : Head(t) = SendAt(p, "c", i, n, n)
    BY <1>1, <2>1, ServerSends
  <2>3. QED
    BY <2>2, RecordFacts DEF t
<1>5. k0 \notin {11, 12}
  BY <1>1 DEF ServerTodo, t
<1>6. CASE k0 = 1
  <2>1. /\ Head(t) = RecvAt("p2", p, 1, n) /\ Hears(p, 1, 2, "p2", 1)
        /\ \A v : ServerTodo(After(p, "p2", "height", v) \o Tail(t), p, 2, v)
    BY <1>1, <1>6, ServerHeight
  <2>2. Reads(p, k0, "p2", 1)
    BY <1>3, <1>6, <2>1 DEF Reads, Hears, t
  <2>3. Deciding(Call(p).section) = "height"
    <3>1. Call(p).section = Section("p2", p, 1, n)
      BY <2>1, RecordFacts DEF Call, t
    <3>2. QED
      BY <1>0, <1>n, <3>1, SectionFacts
  <2>4. ASSUME NEW v \in 0 .. MaxCount
        PROVE  ReadsNext(p, k0, "p2", 1, v, 2)
    <3>1. ServerTodo(TodoAfter(p, "p2", v), p, 2, v)
      BY <2>1, <2>3 DEF TodoAfter, t
    <3>2. SizesAfter(p, "p2", 1, v)[<<"p2", p>>] = v
      BY <1>0, <1>i DEF SizesAfter
    <3>3. AcceptAfter(p, "p2", 1, v) = accept
      BY DEF AcceptAfter
    <3>4. v \in Nat
      BY <2>4, SessionAssumption
    <3>5. TodoAfter(p, "p2", v) \in Seq(CallRec)
      BY <3>1, <3>4, TodoTypes
    <3>6. TodoAt(TodoAfter(p, "p2", v), p, 2, SizesAfter(p, "p2", 1, v), verdict)
      BY <1>0, <3>1, <3>2 DEF TodoAt
    <3>7. PointOK(p, 2, AcceptAfter(p, "p2", 1, v), verdict)
      BY <1>0, <1>2, <1>6, <3>3 DEF PointOK
    <3>8. QED
      BY <1>6, <2>1, <3>5, <3>6, <3>7 DEF ReadsNext
  <2>5. QED
    BY <1>i, <2>2, <2>4 DEF CanRead
<1>7. CASE k0 = 7
  <2>1. /\ Head(t) = RecvAt("c", p, 1, n) /\ Hears(p, 7, 8, "c", 1) /\ Hears(p, 7, 12, "c", 1)
        /\ ServerTodo(After(p, "c", "accept", 1) \o Tail(t), p, 8, n)
        /\ ServerTodo(After(p, "c", "accept", 0) \o Tail(t), p, 12, n)
    BY <1>1, <1>7, ServerAccept DEF n
  <2>2. Reads(p, k0, "c", 1)
    BY <1>3, <1>7, <2>1 DEF Reads, Hears, t
  <2>3. Deciding(Call(p).section) = "accept"
    <3>1. Call(p).section = Section("c", p, 1, n)
      BY <2>1, RecordFacts DEF Call, t
    <3>2. QED
      BY <1>0, <1>n, <3>1, SectionFacts
  <2>4. ASSUME NEW v \in {0, 1}
        PROVE  \E k : ReadsNext(p, k0, "c", 1, v, k)
    <3> DEFINE k == IF v = 1 THEN 8 ELSE 12
    <3>1. ServerTodo(TodoAfter(p, "c", v), p, k, n)
      BY <2>1, <2>3 DEF TodoAfter, t
    <3>2. SizesAfter(p, "c", 1, v) = sizes
      BY DEF SizesAfter
    <3>3. AcceptAfter(p, "c", 1, v)[p] = v
      BY <1>i DEF AcceptAfter
    <3>5. TodoAfter(p, "c", v) \in Seq(CallRec)
      BY <1>n, <3>1, TodoTypes
    <3>6. TodoAt(TodoAfter(p, "c", v), p, k, SizesAfter(p, "c", 1, v), verdict)
      BY <1>0, <3>1, <3>2 DEF TodoAt, n
    <3>7. PointOK(p, k, AcceptAfter(p, "c", 1, v), verdict)
      BY <1>0, <1>2, <1>7, <3>3 DEF PointOK, Unread
    <3>8. QED
      BY <1>7, <2>1, <3>5, <3>6, <3>7 DEF ReadsNext
  <2>5. \A v \in Possible("c", 1) : \E k : ReadsNext(p, k0, "c", 1, v, k)
    BY <1>i, <2>4
  <2>6. CanRead(p, k0, "c", 1)
    BY <2>2, <2>5 DEF CanRead
  <2>7. QED
    BY <2>6
<1>8. CASE k0 \in {2, 3, 8}
  <2>1. PICK q, i, k : /\ Hears(p, k0, k, q, i) /\ i # KeyIndex(q)
                       /\ Head(t) = RecvAt(q, p, i, n) /\ ServerTodo(Tail(t), p, k, n)
                       /\ k0 \in {2, 3} => k \in 3 .. 4 /\ (p = "p1" => k # 3)
                       /\ k0 = 8 => k = 9
    BY <1>1, <1>2, <1>8, ServerReads
  <2>2. Asked(q, p) = n
    BY <1>0, <1>3, <2>1 DEF Hears, Pair, Server
  <2>3. TodoAt(Tail(todo[p]), p, k, sizes, verdict)
    BY <1>0, <2>1 DEF TodoAt, t, n
  <2>4. PointOK(p, k, accept, verdict) /\ k \in Nat
    BY <1>0, <1>2, <1>8, <2>1 DEF PointOK
  <2>5. Reads(p, k0, q, i) /\ \A v : ReadsNext(p, k0, q, i, v, k)
    BY <1>0, <2>1, <2>2, <2>3, <2>4, PlainRead DEF t
  <2>6. QED
    BY <2>5 DEF CanRead
<1>9. QED
  BY <1>2, <1>4, <1>5, <1>6, <1>7, <1>8

LEMMA ClientMoves ==
  ASSUME NEW k0, TodoAt(todo["c"], "c", k0, sizes, verdict),
         PointOK("c", k0, accept, verdict), todo["c"] \in Seq(CallRec), todo["c"] # <<>>,
         Head(todo["c"]).do = "recv", sizes \in [Link -> 0 .. MaxCount], verdict \in {0, 1, Unread}
  PROVE  \E q, i : CanRead("c", k0, q, i)
<1> DEFINE t == todo["c"]
           x == sizes[<<"p0", "c">>]
           y == sizes[<<"p1", "c">>]
           z == sizes[<<"p2", "c">>]
<1>0. /\ "c" \in Process /\ "c" \notin Server
      /\ Pair("p0", "c") /\ Pair("p1", "c") /\ Pair("p2", "c")
      /\ <<"p0", "c">> \in Link /\ <<"p1", "c">> \in Link /\ <<"p2", "c">> \in Link
  BY DEF Process, Server, Pair, Link
<1>1. ClientTodo(t, k0, x, y, z, verdict)
  BY DEF TodoAt
<1>2. /\ k0 \in 1 .. 19 /\ (k0 <= 9 <=> verdict = Unread) /\ (k0 \in 10 .. 11 => verdict \in {0, 1})
      /\ (k0 \in 12 .. 18 => verdict = 1) /\ (k0 = 19 => verdict = 0)
  BY DEF PointOK
<1>3. Asked("p0", "c") = x /\ Asked("p1", "c") = y /\ Asked("p2", "c") = z
  BY DEF Asked
<1>n. x \in Nat /\ y \in Nat /\ z \in Nat
  BY <1>0, <1>3, AskedType
<1> HIDE DEF t, x, y, z
<1>4. k0 \notin {10, 11, 12, 13}
  <2>1. SUFFICES ASSUME k0 \in {10, 11, 12, 13} PROVE FALSE
    OBVIOUS
  <2>2. verdict \in {0, 1} /\ (k0 >= 12 => verdict = 1)
    BY <1>2, <2>1
  <2>3. PICK q, i : Head(t) = SendAt("c", q, i, z, verdict)
    BY <1>1, <2>1, <2>2, ClientSends
  <2>4. QED
    BY <2>3, RecordFacts DEF t
<1>5. k0 \notin {18, 19}
  BY <1>1 DEF ClientTodo, t
<1>6. k0 # 9
  <2>1. SUFFICES ASSUME k0 = 9 PROVE FALSE
    OBVIOUS
  <2>2. t = <<CheckRec>>
    BY <1>1, <2>1 DEF ClientTodo
  <2>3. QED
    BY <2>2, RecordFacts DEF t
<1>7. CASE k0 \in {3, 5, 7}
  <2> DEFINE q == IF k0 = 3 THEN "p0" ELSE IF k0 = 5 THEN "p1" ELSE "p2"
             i == KeyIndex(q)
  <2>1. /\ Hears("c", k0, k0 + 1, q, i)
        /\ Head(t) = RecvAt(q, "c", i, IF k0 = 3 THEN x ELSE IF k0 = 5 THEN y ELSE z)
        /\ \A v : ClientTodo(After("c", q, "size", v) \o Tail(t), k0 + 1,
                             IF k0 = 3 THEN v ELSE x, IF k0 = 5 THEN v ELSE y,
                             IF k0 = 7 THEN v ELSE z, verdict)
    BY <1>1, <1>7, ClientSize
  <2>2. Asked(q, "c") = IF k0 = 3 THEN x ELSE IF k0 = 5 THEN y ELSE z
    BY <1>3, <1>7
  <2>3. q # "c" /\ Pair(q, "c") /\ <<q, "c">> \in Link
    BY <1>0
  <2>3a. /\ k0 = 3 <=> q = "p0"
         /\ k0 = 5 <=> q = "p1"
         /\ k0 = 7 <=> q = "p2"
    BY <1>7
  <2> HIDE DEF q
  <2>4. Reads("c", k0, q, i)
    BY <2>1, <2>2 DEF Reads, Hears, t
  <2>5. Deciding(Call("c").section) = "size"
    <3>1. Call("c").section = Section(q, "c", i, Asked(q, "c"))
      BY <2>1, <2>2, RecordFacts DEF Call, t
    <3>2. Asked(q, "c") \in Nat /\ i \in Nat \ {0}
      BY <2>3, AskedType DEF KeyIndex
    <3>3. KeyName(q, "c") = "size"
      BY <1>0, <2>3 DEF KeyName
    <3>4. QED
      BY <2>3, <3>1, <3>2, <3>3, FieldRead
  <2>6. Possible(q, i) = 0 .. MaxCount
    BY <2>3 DEF Possible
  <2>7. ASSUME NEW v \in 0 .. MaxCount
        PROVE  ReadsNext("c", k0, q, i, v, k0 + 1)
    <3> DEFINE sz == SizesAfter("c", q, i, v)
    <3>1. sz = [sizes EXCEPT ![<<q, "c">>] = v]
      BY <2>3 DEF SizesAfter
    <3>2. /\ sz[<<"p0", "c">>] = IF k0 = 3 THEN v ELSE x
          /\ sz[<<"p1", "c">>] = IF k0 = 5 THEN v ELSE y
          /\ sz[<<"p2", "c">>] = IF k0 = 7 THEN v ELSE z
      BY <1>0, <2>3a, <3>1 DEF x, y, z
    <3> HIDE DEF sz
    <3>3. ClientTodo(TodoAfter("c", q, v), k0 + 1, sz[<<"p0", "c">>], sz[<<"p1", "c">>],
                     sz[<<"p2", "c">>], verdict)
      BY <2>1, <2>5, <3>2 DEF TodoAfter, t
    <3>4. AcceptAfter("c", q, i, v) = accept
      BY <2>3 DEF AcceptAfter
    <3>5. TodoAfter("c", q, v) \in Seq(CallRec)
      <4>1. v \in Nat /\ verdict \in Nat
        BY <2>7, SessionAssumption DEF Unread
      <4>2. /\ sz[<<"p0", "c">>] \in Nat /\ sz[<<"p1", "c">>] \in Nat
            /\ sz[<<"p2", "c">>] \in Nat /\ k0 + 1 \in {4, 6, 8}
        BY <1>7, <1>n, <3>2, <4>1
      <4>3. QED
        BY <3>3, <4>1, <4>2, TodoTypes
    <3>6. TodoAt(TodoAfter("c", q, v), "c", k0 + 1, sz, verdict)
      BY <1>0, <3>3 DEF TodoAt
    <3>7. PointOK("c", k0 + 1, accept, verdict)
      BY <1>0, <1>2, <1>7 DEF PointOK
    <3>8. k0 + 1 \in Nat
      BY <1>7
    <3>9. QED
      BY <2>1, <3>4, <3>5, <3>6, <3>7, <3>8 DEF ReadsNext, sz
  <2>8. QED
    BY <2>4, <2>6, <2>7 DEF CanRead
<1>8. CASE k0 \in PlainReads
  <2>1. PICK q, i : ClientHears(t, k0, x, y, z, verdict, q, i)
    BY <1>1, <1>8, ClientReads
  <2>2. /\ Hears("c", k0, k0 + 1, q, i) /\ i # KeyIndex(q)
        /\ Head(t) = RecvAt(q, "c", i, OneOf(q, x, y, z))
        /\ ClientTodo(Tail(t), k0 + 1, x, y, z, verdict)
    BY <2>1 DEF ClientHears
  <2>3. q \in {"p0", "p1", "p2"}
    BY <2>2 DEF Hears, Pair, Server
  <2>4. Asked(q, "c") = OneOf(q, x, y, z)
    BY <1>3, <2>3 DEF OneOf
  <2>5. TodoAt(Tail(todo["c"]), "c", k0 + 1, sizes, verdict)
    BY <1>0, <2>2 DEF TodoAt, t, x, y, z
  <2>6. PointOK("c", k0 + 1, accept, verdict) /\ k0 + 1 \in Nat
    BY <1>0, <1>2, <1>8 DEF PointOK, PlainReads
  <2>7. Reads("c", k0, q, i) /\ \A v : ReadsNext("c", k0, q, i, v, k0 + 1)
    BY <1>0, <2>2, <2>4, <2>5, <2>6, PlainRead DEF t
  <2>8. QED
    BY <2>7 DEF CanRead
<1>9. QED
  BY <1>2, <1>4, <1>5, <1>6, <1>7, <1>8 DEF PlainReads

LEMMA ReadMoves ==
  ASSUME NEW p, NEW k0, p \in Process, TodoAt(todo[p], p, k0, sizes, verdict),
         PointOK(p, k0, accept, verdict), SessionTypes, todo[p] # <<>>, Head(todo[p]).do = "recv"
  PROVE  \E q, i : CanRead(p, k0, q, i)
<1>1. /\ todo[p] \in Seq(CallRec) /\ sizes \in [Link -> 0 .. MaxCount]
      /\ accept \in [Server -> {0, 1, Unread}] /\ verdict \in {0, 1, Unread}
  BY DEF SessionTypes
<1>2. CASE p = "p2"
  <2>1. k0 \in 1 .. 8 /\ DealerTodo(todo[p], k0)
    BY <1>2 DEF PointOK, TodoAt
  <2>2. k0 # 8
    BY <2>1, DealerSends
  <2>3. PICK q, i : Head(todo[p]) = SendAt("p2", q, i, Bin, Bin)
    BY <2>1, <2>2, DealerSends
  <2>4. QED
    BY <2>3, RecordFacts
<1>3. CASE p \in Server
  BY <1>1, <1>3, ServerMoves
<1>4. CASE p = "c"
  BY <1>1, <1>4, ClientMoves
<1>5. QED
  BY <1>2, <1>3, <1>4 DEF Process

LEMMA Numbers ==
  ASSUME NEW acc, NEW vd, NEW p, NEW k, NEW b, p \in Process, b \in Process, PointOK(p, k, acc, vd)
  PROVE  k \in Nat /\ Sent(p, b, k) \in Nat /\ Read(b, p, k) \in Nat
<1>1. CASE p = "p2"
  <2>1. k \in 1 .. 8
    BY <1>1 DEF PointOK
  <2>2. DealerSent(b, k) \in Nat
    BY <2>1 DEF DealerSent
  <2>3. QED
    BY <1>1, <2>1, <2>2 DEF Sent, Read
<1>2. CASE p \in Server
  <2>1. k \in 1 .. 12
    BY <1>2 DEF PointOK
  <2>2. ServerSent(b, k) \in Nat /\ ServerRead(b, p, k) \in Nat
    BY <2>1 DEF ServerSent, ServerRead
  <2>3. QED
    BY <1>2, <2>1, <2>2 DEF Sent, Read, Server
<1>3. CASE p = "c"
  <2>1. k \in 1 .. 19
    BY <1>3 DEF PointOK
  <2>2. ClientSent(b, k) \in Nat /\ ClientRead(b, k) \in Nat
    BY <2>1 DEF ClientSent, ClientRead
  <2>3. QED
    BY <1>3, <2>1, <2>2 DEF Sent, Read
<1>4. QED
  BY <1>1, <1>2, <1>3 DEF Process

LEMMA TypesFacts ==
  ASSUME SessionTypes
  PROVE  /\ \A p \in Process : todo[p] \in Seq(CallRec)
         /\ \A a, b : Pair(a, b) => channel[<<a, b>>] \in Seq(Packet)
         /\ \A a, b : Pair(a, b) => sizes[<<a, b>>] \in 0 .. MaxCount
         /\ \A a, b : Pair(a, b) => Count(a) \in Nat /\ Carried(a) \in Nat /\ Asked(a, b) \in Nat
         /\ \A a, b : Pair(a, b) /\ a # "c" => Carried(a) \in 0 .. MaxCount
         /\ \A p \in Process : p # "p2" => Pair("p2", p)
<1>1. /\ todo \in [Process -> Seq(CallRec)] /\ channel \in [Link -> Seq(Packet)]
      /\ sizes \in [Link -> 0 .. MaxCount] /\ verdict \in {0, 1, Unread}
  BY DEF SessionTypes
<1>2. \A p \in Process : p # "p2" => Pair("p2", p)
  BY DEF Pair, Process, Server
<1>3. \A a, b : Pair(a, b) => <<a, b>> \in Link
  BY PairFacts
<1>4. \A a, b : Pair(a, b) => sizes[<<a, b>>] \in 0 .. MaxCount
  BY <1>1, <1>3
<1>5. MaxCount \in Nat /\ Bin \in 0 .. MaxCount
  BY SessionAssumption
<1>6. ASSUME NEW a, NEW b, Pair(a, b)
      PROVE  Count(a) \in 0 .. MaxCount /\ Carried(a) \in Nat /\ (a # "c" => Carried(a) \in 0 .. MaxCount)
  <2>1. Count(a) \in 0 .. MaxCount
    <3>1. CASE a = "p2"
      BY <1>5, <3>1 DEF Count
    <3>2. CASE a # "p2"
      <4>1. sizes[<<"p2", a>>] \in 0 .. MaxCount
        BY <1>2, <1>4, <1>6, <3>2, PairFacts
      <4>2. QED
        BY <3>2, <4>1 DEF Count
    <3>3. QED
      BY <3>1, <3>2
  <2>2. verdict \in Nat
    BY <1>1 DEF Unread
  <2>3. QED
    BY <1>5, <2>1, <2>2 DEF Carried
<1>7. \A a, b : Pair(a, b) => Asked(a, b) \in Nat
  BY <1>1, AskedType
<1>8. \A p \in Process : todo[p] \in Seq(CallRec)
  BY <1>1
<1>9. \A a, b : Pair(a, b) => channel[<<a, b>>] \in Seq(Packet)
  BY <1>1, <1>3
<1>10. \A a, b : Pair(a, b) => Count(a) \in Nat /\ Carried(a) \in Nat
  BY <1>5, <1>6
<1>11. QED
  BY <1>2, <1>4, <1>6, <1>7, <1>8, <1>9, <1>10

LEMMA Finals ==
  ASSUME NEW pc, SInv(pc), NEW p \in Process, status[p] = "ended"
  PROVE  /\ p = "p2" => pc[p] = 8
         /\ p \in Server => pc[p] \in {11, 12}
         /\ p = "c" => pc[p] \in {18, 19}
<1>1. /\ TodoAt(todo[p], p, pc[p], sizes, verdict) /\ PointOK(p, pc[p], accept, verdict)
      /\ todo[p] = <<>>
  BY DEF SInv, AtPoints, EndedDone
<1> DEFINE k == pc[p]
<1> HIDE DEF k
<1>2. TodoAt(<<>>, p, k, sizes, verdict) /\ PointOK(p, k, accept, verdict)
  BY <1>1 DEF k
<1>3. CASE p = "p2"
  <2>1. k \in 1 .. 8 /\ DealerTodo(<<>>, k)
    BY <1>2, <1>3 DEF TodoAt, PointOK
  <2>2. k = 8
    BY <2>1 DEF DealerTodo
  <2>3. QED
    BY <1>3, <2>2 DEF Server, k
<1>4. CASE p \in Server
  <2> DEFINE n == sizes[<<"p2", p>>]
  <2>1. /\ k \in 1 .. 12 /\ (p = "p1" => k # 3) /\ ServerTodo(<<>>, p, k, n)
    BY <1>2, <1>4 DEF TodoAt, PointOK
  <2> HIDE DEF n
  <2>2. k \notin {4, 5, 6, 9, 10}
    BY <1>4, <2>1, ServerSends
  <2>3. k \notin {2, 3, 8}
    BY <1>4, <2>1, ServerReads
  <2>4. k # 1
    BY <1>4, <2>1, ServerHeight
  <2>5. k # 7
    BY <2>1 DEF ServerTodo
  <2>6. k \in {11, 12}
    BY <2>1, <2>2, <2>3, <2>4, <2>5
  <2>7. QED
    BY <1>4, <2>6 DEF Server, k
<1>5. CASE p = "c"
  <2> DEFINE x == sizes[<<"p0", "c">>]
             y == sizes[<<"p1", "c">>]
             z == sizes[<<"p2", "c">>]
  <2>1. /\ k \in 1 .. 19 /\ ClientTodo(<<>>, k, x, y, z, verdict)
        /\ (k \in 10 .. 11 => verdict \in {0, 1}) /\ (k \in 12 .. 18 => verdict = 1)
    BY <1>2, <1>5 DEF TodoAt, PointOK
  <2> HIDE DEF x, y, z
  <2>2. k \notin {10, 11, 12, 13}
    <3>1. SUFFICES ASSUME k \in {10, 11, 12, 13} PROVE FALSE
      OBVIOUS
    <3>2. verdict \in {0, 1} /\ (k >= 12 => verdict = 1)
      BY <2>1, <3>1
    <3>3. QED
      BY <2>1, <3>1, <3>2, ClientSends
  <2>3. k \notin {3, 5, 7}
    BY <2>1, ClientSize
  <2>4. k \notin PlainReads
    BY <2>1, ClientReads DEF ClientHears
  <2>5. k # 9
    BY <2>1 DEF ClientTodo
  <2>6. k \in {18, 19}
    BY <2>1, <2>2, <2>3, <2>4, <2>5 DEF PlainReads
  <2>7. QED
    BY <1>5, <2>6 DEF Server, k
<1>6. QED
  BY <1>3, <1>4, <1>5 DEF Process

(***************************************************************************)
(* While nobody has died, an ended program has read everything that was    *)
(* sent to it, and sent everything that is asked of it.                    *)
(***************************************************************************)
LEMMA Living ==
  ASSUME NEW pc, SInv(pc), ~Gone, NEW a, NEW b, Pair(a, b)
  PROVE  /\ LinkGood(a, b, Sent(a, b, pc[a]), Read(a, b, pc[b]))
         /\ Read(a, b, pc[b]) <= Sent(a, b, pc[a])
         /\ Sent(a, b, pc[a]) \in Nat /\ Read(a, b, pc[b]) \in Nat
         /\ channel[<<a, b>>] = <<>> <=> Sent(a, b, pc[a]) = Read(a, b, pc[b])
<1> DEFINE s == Sent(a, b, pc[a])
           r == Read(a, b, pc[b])
<1>0. a \in Process /\ b \in Process /\ SessionTypes
  BY PairFacts DEF SInv
<1>1. s \in Nat /\ r \in Nat
  BY <1>0, Numbers DEF SInv, AtPoints
<1>2. LinkGood(a, b, s, r)
  BY <1>0 DEF SInv, LinksOK, LinkOK
<1> HIDE DEF s, r
<1>3. r <= s /\ Len(channel[<<a, b>>]) = s - r
  BY <1>2 DEF LinkGood, Aligned
<1>4. channel[<<a, b>>] \in Seq(Packet)
  BY <1>0, TypesFacts
<1>5. channel[<<a, b>>] = <<>> <=> Len(channel[<<a, b>>]) = 0
  BY <1>4, EmptySeq
<1>6. channel[<<a, b>>] = <<>> <=> s = r
  BY <1>1, <1>3, <1>5
<1>7. QED
  BY <1>1, <1>2, <1>3, <1>6 DEF s, r

LEMMA Bounds ==
  /\ \A k \in 1 .. 8 : /\ Sent("p2", "p0", k) <= 3 /\ Sent("p2", "p1", k) <= 2
                       /\ Sent("p2", "c", k) <= 2
  /\ \A p \in Server : \A k \in 1 .. 12 :
       /\ Sent(p, "c", k) <= 5 /\ (Sent(p, "c", k) > 3 => k \in 10 .. 11)
       /\ Read("p2", p, k) <= IF p = "p0" THEN 3 ELSE 2
       /\ Read("c", p, k) <= 2 /\ (Read("c", p, k) > 1 => k \in 9 .. 11)
  /\ \A p \in Server : \A k \in 1 .. 19 :
       /\ Sent("c", p, k) <= 2 /\ (Sent("c", p, k) > 1 => k \in 13 .. 18)
       /\ Read(p, "c", k) <= 5 /\ (Read(p, "c", k) > 3 => k \in 15 .. 18)
       /\ Read("p2", "c", k) <= 2
  /\ Sent("p2", "p0", 8) = 3 /\ Sent("p2", "p1", 8) = 2 /\ Sent("p2", "c", 8) = 2
  /\ \A p \in Server : /\ Sent(p, "c", 11) = 5 /\ Sent(p, "c", 12) = 3
                       /\ \A k \in 11 .. 12 : Read("p2", p, k) = IF p = "p0" THEN 3 ELSE 2
                       /\ Read("c", p, 11) = 2 /\ Read("c", p, 12) = 1
                       /\ Sent("c", p, 18) = 2 /\ Sent("c", p, 19) = 1
                       /\ Read(p, "c", 18) = 5 /\ Read(p, "c", 19) = 3
  /\ Read("p2", "c", 18) = 2 /\ Read("p2", "c", 19) = 2
<1>1. /\ \A k \in 1 .. 8 : /\ Sent("p2", "p0", k) <= 3 /\ Sent("p2", "p1", k) <= 2
                           /\ Sent("p2", "c", k) <= 2
      /\ Sent("p2", "p0", 8) = 3 /\ Sent("p2", "p1", 8) = 2 /\ Sent("p2", "c", 8) = 2
  BY DEF Sent, DealerSent
<1>2. \A p \in Server : \A k \in 1 .. 12 :
        /\ Sent(p, "c", k) <= 5 /\ (Sent(p, "c", k) > 3 => k \in 10 .. 11)
        /\ Read("p2", p, k) <= IF p = "p0" THEN 3 ELSE 2
        /\ Read("c", p, k) <= 2 /\ (Read("c", p, k) > 1 => k \in 9 .. 11)
  BY DEF Sent, ServerSent, Read, ServerRead, Server
<1>3. \A p \in Server : \A k \in 1 .. 19 :
        /\ Sent("c", p, k) <= 2 /\ (Sent("c", p, k) > 1 => k \in 13 .. 18)
        /\ Read(p, "c", k) <= 5 /\ (Read(p, "c", k) > 3 => k \in 15 .. 18)
        /\ Read("p2", "c", k) <= 2
  BY DEF Sent, ClientSent, Read, ClientRead, Server
<1>4. \A p \in Server : /\ Sent(p, "c", 11) = 5 /\ Sent(p, "c", 12) = 3
                        /\ \A k \in 11 .. 12 : Read("p2", p, k) = IF p = "p0" THEN 3 ELSE 2
                        /\ Read("c", p, 11) = 2 /\ Read("c", p, 12) = 1
  BY DEF Sent, ServerSent, Read, ServerRead, Server
<1>5. /\ \A p \in Server : /\ Sent("c", p, 18) = 2 /\ Sent("c", p, 19) = 1
                           /\ Read(p, "c", 18) = 5 /\ Read(p, "c", 19) = 3
      /\ Read("p2", "c", 18) = 2 /\ Read("p2", "c", 19) = 2
  BY DEF Sent, ClientSent, Read, ClientRead, Server
<1>6. QED
  BY <1>1, <1>2, <1>3, <1>4, <1>5

(***************************************************************************)
(* So while nobody has died, nobody sends to a program that has ended, or  *)
(* waits for something that it will not send; and when all have ended,     *)
(* everything sent has been read.                                          *)
(***************************************************************************)
LEMMA Verdicts ==
  ASSUME NEW pc, SInv(pc), ~Gone
  PROVE  /\ \A p \in Server : accept[p] # Unread => accept[p] = verdict
         /\ \A p \in Server : pc[p] \in 8 .. 11 => verdict = 1
         /\ \A p \in Server : pc[p] = 12 => verdict = 0
         /\ pc["c"] = 18 => verdict = 1
         /\ pc["c"] = 19 => verdict = 0
<1>1. "c" \in Process /\ Server \subseteq Process
  BY DEF Process
<1>2. \A p \in Server : accept[p] # Unread => accept[p] = verdict
  BY <1>1 DEF SInv, AcceptTold, Gone
<1>3. ASSUME NEW p \in Server
      PROVE  (pc[p] \in 8 .. 11 => accept[p] = 1) /\ (pc[p] = 12 => accept[p] = 0)
  BY <1>1 DEF SInv, AtPoints, PointOK
<1>4. (pc["c"] = 18 => verdict = 1) /\ (pc["c"] = 19 => verdict = 0)
  BY <1>1 DEF SInv, AtPoints, PointOK
<1>5. QED
  BY <1>2, <1>3, <1>4 DEF Unread

LEMMA EndedRead ==
  ASSUME NEW pc, NEW p, NEW q, NEW i, NEW k, SInv(pc), p \in Process, status[p] = "running",
         SendsNext(p, pc[p], q, i, k), status[q] = "ended"
  PROVE  Gone
<1> SUFFICES ASSUME ~Gone PROVE FALSE
  OBVIOUS
<1> DEFINE s == Sent(p, q, pc[p])
           r == Read(p, q, pc[q])
<1>1. /\ Pair(p, q) /\ i = s + 1 /\ PointOK(p, k, accept, verdict) /\ Sent(p, q, k) = i
      /\ q \in Process /\ p # q
  BY PairFacts DEF SendsNext, Says
<1>2. r <= s /\ s \in Nat /\ r \in Nat
  BY <1>1, Living
<1> HIDE DEF s, r
<1>3. r < Sent(p, q, k)
  BY <1>1, <1>2
<1>4. /\ q \in Server => pc[q] \in {11, 12}
      /\ q = "c" => pc[q] \in {18, 19}
  BY <1>1, Finals
<1>5. CASE p = "p2"
  <2>1. k \in 1 .. 8
    BY <1>1, <1>5 DEF PointOK
  <2>2. CASE q \in Server
    <3>1. r = IF q = "p0" THEN 3 ELSE 2
      BY <1>4, <1>5, <2>2, Bounds DEF r
    <3>2. Sent("p2", q, k) <= IF q = "p0" THEN 3 ELSE 2
      BY <2>1, <2>2, Bounds DEF Server
    <3>3. Sent("p2", q, k) \in Nat
      BY <1>1, <1>2, <1>5
    <3>4. QED
      BY <1>3, <1>5, <3>1, <3>2, <3>3
  <2>3. CASE q = "c"
    <3>1. r = 2
      BY <1>4, <1>5, <2>3, Bounds DEF r
    <3>2. Sent("p2", "c", k) <= 2
      BY <2>1, Bounds
    <3>3. QED
      BY <1>1, <1>2, <1>5, <2>3, <3>1, <3>2
  <2>4. QED
    BY <1>1, <1>5, <2>2, <2>3 DEF Process
<1>6. CASE p \in Server
  <2>1. q = "c" /\ k \in 1 .. 12
    BY <1>1, <1>6 DEF PointOK, Pair, Server
  <2>2. Sent(p, "c", k) <= 5 /\ (Sent(p, "c", k) > 3 => k \in 10 .. 11)
    BY <1>6, <2>1, Bounds
  <2>3. Sent(p, "c", k) = s + 1 /\ r <= s
    BY <1>1, <1>2, <2>1
  <2>4. CASE pc["c"] = 18
    <3>1. r = 5
      BY <1>6, <2>1, <2>4, Bounds DEF r
    <3>2. QED
      BY <1>2, <2>2, <2>3, <3>1
  <2>5. CASE pc["c"] = 19
    <3>1. r = 3
      BY <1>6, <2>1, <2>5, Bounds DEF r
    <3>2. k \in 10 .. 11
      BY <1>2, <2>2, <2>3, <3>1
    <3>3. accept[p] = 1
      BY <1>1, <1>6, <3>2 DEF PointOK
    <3>4. QED
      BY <1>6, <2>5, <3>3, Verdicts DEF Unread
  <2>6. QED
    BY <1>4, <2>1, <2>4, <2>5
<1>7. CASE p = "c"
  <2>1. q \in Server /\ k \in 1 .. 19
    BY <1>1, <1>7 DEF PointOK, Pair, Server
  <2>2. Sent("c", q, k) <= 2 /\ (Sent("c", q, k) > 1 => k \in 13 .. 18)
    BY <2>1, Bounds
  <2>3. Sent("c", q, k) = s + 1 /\ r <= s
    BY <1>1, <1>2, <1>7
  <2>4. CASE pc[q] = 11
    <3>1. r = 2
      BY <1>7, <2>1, <2>4, Bounds DEF r
    <3>2. QED
      BY <1>2, <2>2, <2>3, <3>1
  <2>5. CASE pc[q] = 12
    <3>1. r = 1
      BY <1>7, <2>1, <2>5, Bounds DEF r
    <3>2. k \in 13 .. 18
      BY <1>2, <2>2, <2>3, <3>1
    <3>3. verdict = 1
      BY <1>1, <1>7, <3>2 DEF PointOK
    <3>4. QED
      BY <2>1, <2>5, <3>3, Verdicts
  <2>6. QED
    BY <1>4, <2>1, <2>4, <2>5
<1>8. QED
  BY <1>5, <1>6, <1>7 DEF Process

LEMMA EndedSent ==
  ASSUME NEW pc, NEW p, NEW q, NEW i, SInv(pc), p \in Process, status[p] = "running",
         CanRead(p, pc[p], q, i), channel[<<q, p>>] = <<>>, status[q] = "ended"
  PROVE  Gone
<1> SUFFICES ASSUME ~Gone PROVE FALSE
  OBVIOUS
<1> DEFINE s == Sent(q, p, pc[q])
<1>1. /\ Pair(q, p) /\ i = Read(q, p, pc[p]) + 1 /\ q \in Process /\ p # q
      /\ \A v \in Possible(q, i) : \E k : ReadsNext(p, pc[p], q, i, v, k)
  BY PairFacts DEF CanRead, Reads
<1>2. s = Read(q, p, pc[p]) /\ s \in Nat
  BY <1>1, Living
<1>3. 0 \in Possible(q, i)
  BY SessionAssumption DEF Possible
<1>4. PICK k : ReadsNext(p, pc[p], q, i, 0, k)
  BY <1>1, <1>3
<1>5. Read(q, p, k) = i /\ PointOK(p, k, AcceptAfter(p, q, i, 0), verdict)
  BY <1>1, <1>4 DEF ReadsNext, Hears
<1> HIDE DEF s
<1>6. Read(q, p, k) = s + 1
  BY <1>1, <1>2, <1>5
<1>7. /\ q = "p2" => pc[q] = 8
      /\ q \in Server => pc[q] \in {11, 12}
      /\ q = "c" => pc[q] \in {18, 19}
  BY <1>1, Finals
<1>8. CASE q = "p2"
  <2>1. CASE p \in Server
    <3>1. k \in 1 .. 12
      BY <1>5, <2>1 DEF PointOK
    <3>2. Read("p2", p, k) <= IF p = "p0" THEN 3 ELSE 2
      BY <2>1, <3>1, Bounds
    <3>3. s = IF p = "p0" THEN 3 ELSE 2
      BY <1>7, <1>8, <2>1, Bounds DEF s, Server
    <3>4. QED
      BY <1>2, <1>6, <1>8, <3>2, <3>3
  <2>2. CASE p = "c"
    <3>1. k \in 1 .. 19
      BY <1>5, <2>2 DEF PointOK
    <3>2. Read("p2", "c", k) <= 2
      BY <3>1, Bounds DEF Server
    <3>3. s = 2
      BY <1>7, <1>8, <2>2, Bounds DEF s
    <3>4. QED
      BY <1>6, <1>8, <2>2, <3>2, <3>3
  <2>3. QED
    BY <1>1, <1>8, <2>1, <2>2 DEF Process
<1>9. CASE q \in Server
  <2>1. p = "c"
    BY <1>1, <1>9 DEF Pair, Server
  <2>2. k \in 1 .. 19 /\ (k \in 12 .. 18 => verdict = 1)
    BY <1>5, <2>1 DEF PointOK
  <2>3. Read(q, "c", k) <= 5 /\ (Read(q, "c", k) > 3 => k \in 15 .. 18)
    BY <1>9, <2>2, Bounds
  <2>4. CASE pc[q] = 11
    <3>1. s = 5
      BY <1>9, <2>1, <2>4, Bounds DEF s
    <3>2. QED
      BY <1>6, <2>1, <2>3, <3>1
  <2>5. CASE pc[q] = 12
    <3>1. s = 3
      BY <1>9, <2>1, <2>5, Bounds DEF s
    <3>2. verdict = 1
      BY <1>6, <2>1, <2>2, <2>3, <3>1
    <3>3. QED
      BY <1>9, <2>5, <3>2, Verdicts
  <2>6. QED
    BY <1>7, <1>9, <2>4, <2>5
<1>10. CASE q = "c"
  <2>1. p \in Server
    BY <1>1, <1>10 DEF Pair
  <2>2. k \in 1 .. 12
    BY <1>5, <2>1 DEF PointOK
  <2>3. Read("c", p, k) <= 2 /\ (Read("c", p, k) > 1 => k \in 9 .. 11)
    BY <2>1, <2>2, Bounds
  <2>4. CASE pc["c"] = 18
    <3>1. s = 2
      BY <1>10, <2>1, <2>4, Bounds DEF s
    <3>2. QED
      BY <1>6, <1>10, <2>3, <3>1
  <2>5. CASE pc["c"] = 19
    <3>1. s = 1
      BY <1>10, <2>1, <2>5, Bounds DEF s
    <3>2. k \in 9 .. 11 /\ i = 2
      BY <1>1, <1>2, <1>6, <1>10, <2>3, <3>1
    <3>3. AcceptAfter(p, q, i, 0) = accept
      BY <1>10, <3>2 DEF AcceptAfter, KeyIndex, Server
    <3>4. accept[p] = 1
      BY <1>5, <2>1, <3>2, <3>3 DEF PointOK
    <3>5. QED
      BY <2>1, <2>5, <3>4, Verdicts DEF Unread
  <2>6. QED
    BY <1>7, <1>10, <2>4, <2>5
<1>11. QED
  BY <1>1, <1>8, <1>9, <1>10 DEF Process

LEMMA AllEnded ==
  ASSUME NEW pc, NEW a, NEW b, SInv(pc), ~Gone, \A p \in Process : status[p] = "ended", Pair(a, b)
  PROVE  Sent(a, b, pc[a]) = Read(a, b, pc[b]) /\ channel[<<a, b>>] = <<>>
<1>1. /\ pc["p2"] = 8 /\ pc["c"] \in {18, 19} /\ \A p \in Server : pc[p] \in {11, 12}
  BY Finals DEF Process
<1>2. \A p \in Server : pc[p] = 11 <=> pc["c"] = 18
  BY <1>1, Verdicts
<1>3. Sent(a, b, pc[a]) = Read(a, b, pc[b])
  <2>1. CASE a = "p2" /\ b \in Server
    <3>1. Sent(a, b, pc[a]) = IF b = "p0" THEN 3 ELSE 2
      BY <1>1, <2>1, Bounds DEF Server
    <3>2. Read(a, b, pc[b]) = IF b = "p0" THEN 3 ELSE 2
      BY <1>1, <2>1, Bounds
    <3>3. QED
      BY <3>1, <3>2
  <2>2. CASE a = "p2" /\ b = "c"
    BY <1>1, <2>2, Bounds
  <2>3. CASE a \in Server /\ b = "c"
    BY <1>1, <1>2, <2>3, Bounds
  <2>4. CASE a = "c" /\ b \in Server
    BY <1>1, <1>2, <2>4, Bounds
  <2>5. QED
    BY <2>1, <2>2, <2>3, <2>4 DEF Pair, Server
<1>4. QED
  BY <1>3, Living

LEMMA CountFacts ==
  ASSUME NEW cnt, NEW p, NEW w, cnt \in [Process -> [sent : Nat, received : Nat]],
         p \in Process, w \in Nat
  PROVE  /\ [cnt EXCEPT ![p].sent = @ + w] \in [Process -> [sent : Nat, received : Nat]]
         /\ [cnt EXCEPT ![p].sent = @ + w][p].sent = cnt[p].sent + w
         /\ [cnt EXCEPT ![p].sent = @ + w][p].received = cnt[p].received
         /\ \A b \in Process \ {p} : [cnt EXCEPT ![p].sent = @ + w][b] = cnt[b]
         /\ [cnt EXCEPT ![p].received = @ + w] \in [Process -> [sent : Nat, received : Nat]]
         /\ [cnt EXCEPT ![p].received = @ + w][p].received = cnt[p].received + w
         /\ [cnt EXCEPT ![p].received = @ + w][p].sent = cnt[p].sent
         /\ \A b \in Process \ {p} : [cnt EXCEPT ![p].received = @ + w][b] = cnt[b]
<1>1. cnt[p] \in [sent : Nat, received : Nat]
  OBVIOUS
<1> DEFINE s == [cnt[p] EXCEPT !.sent = cnt[p].sent + w]
           r == [cnt[p] EXCEPT !.received = cnt[p].received + w]
<1>2. /\ s \in [sent : Nat, received : Nat] /\ s.sent = cnt[p].sent + w /\ s.received = cnt[p].received
      /\ r \in [sent : Nat, received : Nat] /\ r.received = cnt[p].received + w /\ r.sent = cnt[p].sent
  BY <1>1
<1>3. /\ [cnt EXCEPT ![p].sent = @ + w] = [cnt EXCEPT ![p] = s]
      /\ [cnt EXCEPT ![p].received = @ + w] = [cnt EXCEPT ![p] = r]
  OBVIOUS
<1> HIDE DEF s, r
<1>4. /\ [cnt EXCEPT ![p] = s] \in [Process -> [sent : Nat, received : Nat]]
      /\ [cnt EXCEPT ![p] = s][p] = s /\ \A b \in Process \ {p} : [cnt EXCEPT ![p] = s][b] = cnt[b]
      /\ [cnt EXCEPT ![p] = r] \in [Process -> [sent : Nat, received : Nat]]
      /\ [cnt EXCEPT ![p] = r][p] = r /\ \A b \in Process \ {p} : [cnt EXCEPT ![p] = r][b] = cnt[b]
  BY <1>2
<1>5. QED
  BY <1>2, <1>3, <1>4

LEMMA KeyReads ==
  ASSUME NEW p, NEW k0, NEW q, NEW acc, NEW vd, p \in Process, PointOK(p, k0, acc, vd), Pair(q, p),
         KeyIndex(q) = Read(q, p, k0) + 1
  PROVE  /\ q = "p2" => /\ \A b \in Process : Sent(p, b, k0) = 0
                        /\ Read("c", p, k0) = 0
         /\ p = "c" => vd = Unread
<1>1. CASE p \in Server
  <2>1. k0 \in 1 .. 12 /\ KeyIndex(q) = 1 /\ p # "p2" /\ p # "c"
    BY <1>1 DEF PointOK, Pair, KeyIndex, Server
  <2>2. ServerRead(q, p, k0) = 0 \/ ServerRead(q, p, k0) + 1 # 1
    BY <2>1 DEF ServerRead
  <2>3. ServerRead(q, p, k0) + 1 = 1
    BY <2>1 DEF Read
  <2>4. ServerRead(q, p, k0) = 0
    BY <2>2, <2>3
  <2>5. q = "p2" => k0 = 1
    BY <1>1, <2>1, <2>4 DEF ServerRead, Server
  <2>6. \A b \in Process : Sent(p, b, 1) = 0
    BY <2>1 DEF Sent, ServerSent
  <2>7. Read("c", p, 1) = 0
    BY <2>1 DEF Read, ServerRead
  <2>8. QED
    BY <1>1, <2>1, <2>5, <2>6, <2>7
<1>2. CASE p = "c"
  <2>1. k0 \in 1 .. 19 /\ q # "c" /\ q \in {"p0", "p1", "p2"}
    BY <1>2 DEF PointOK, Pair, Server
  <2>2. ClientRead(q, k0) + 1 = IF q = "p2" THEN 1 ELSE 2
    BY <1>2, <2>1 DEF Read, KeyIndex, Server
  <2>3. k0 <= 7
    BY <2>1, <2>2 DEF ClientRead
  <2>4. \A b \in Process : Sent(p, b, k0) = 0
    BY <1>2, <2>1, <2>3 DEF Sent, ClientSent
  <2>5. vd = Unread
    BY <1>2, <2>1, <2>3 DEF PointOK
  <2>6. Read("c", p, k0) = 0
    BY <1>2 DEF Read, ClientRead
  <2>7. QED
    BY <2>1, <2>4, <2>5, <2>6
<1>3. CASE p = "p2"
  BY <1>3 DEF Pair, Server
<1>4. QED
  BY <1>1, <1>2, <1>3 DEF Process

(***************************************************************************)
(* The tally: what a program has counted is the length of what it has sent *)
(* and read.                                                               *)
(***************************************************************************)
LEMMA Five ==
  ASSUME NEW acc, NEW vd, NEW p, NEW k, NEW b, p \in Process, b \in Process, PointOK(p, k, acc, vd)
  PROVE  /\ Sent(p, b, k) \in 0 .. 5 /\ (~Pair(p, b) => Sent(p, b, k) = 0)
         /\ Read(b, p, k) \in 0 .. 5 /\ (~Pair(b, p) => Read(b, p, k) = 0)
<1>1. CASE p = "p2"
  <2>1. k \in 1 .. 8
    BY <1>1 DEF PointOK
  <2>2. DealerSent(b, k) \in 0 .. 5 /\ (~Pair("p2", b) => DealerSent(b, k) = 0)
    BY <2>1 DEF DealerSent, Pair
  <2>3. QED
    BY <1>1, <2>2 DEF Sent, Read
<1>2. CASE p \in Server
  <2>1. k \in 1 .. 12
    BY <1>2 DEF PointOK
  <2>2. ServerSent(b, k) \in 0 .. 5 /\ (~Pair(p, b) => ServerSent(b, k) = 0)
    BY <1>2, <2>1 DEF ServerSent, Pair
  <2>3. ServerRead(b, p, k) \in 0 .. 5 /\ (~Pair(b, p) => ServerRead(b, p, k) = 0)
    BY <1>2, <2>1 DEF ServerRead, Pair, Server
  <2>4. QED
    BY <1>2, <2>2, <2>3 DEF Sent, Read, Server
<1>3. CASE p = "c"
  <2>1. k \in 1 .. 19
    BY <1>3 DEF PointOK
  <2>2. ClientSent(b, k) \in 0 .. 5 /\ (~Pair("c", b) => ClientSent(b, k) = 0)
    BY <2>1 DEF ClientSent, Pair, Server
  <2>3. ClientRead(b, k) \in 0 .. 5 /\ (~Pair(b, "c") => ClientRead(b, k) = 0)
    BY <2>1 DEF ClientRead, Pair, Server
  <2>4. QED
    BY <1>3, <2>2, <2>3 DEF Sent, Read
<1>4. QED
  BY <1>1, <1>2, <1>3 DEF Process

LEMMA StreamNone == \A a, b, n : Stream(a, b, 0, n) = 0
  BY DEF Stream, Upto

LEMMA StreamFacts ==
  ASSUME NEW a, NEW b, NEW n, Pair(a, b), n \in Nat
  PROVE  /\ \A s \in 0 .. 5 : Stream(a, b, s, n) \in Nat
         /\ \A s \in 0 .. 4 : Stream(a, b, s + 1, n) = Stream(a, b, s, n) + Width(a, b, s + 1, n)
         /\ \A s \in 0 .. 5 : s <= KeyIndex(a) => \A m : Stream(a, b, s, n) = Stream(a, b, s, m)
         /\ \A s \in 1 .. 5 : Width(a, b, s, n) \in Nat
<1>1. ASSUME NEW s \in 1 .. 5
      PROVE  Width(a, b, s, n) \in Nat /\ (s <= KeyIndex(a) => \A m : Width(a, b, s, n) = Width(a, b, s, m))
  <2>1. Section(a, b, s, n) \in Seq(Field)
    BY SectionFacts
  <2>2. s <= KeyIndex(a) => \A m : Section(a, b, s, n) = Section(a, b, s, m)
    BY SectionFacts
  <2>3. s <= KeyIndex(a) => \A m : Width(a, b, s, n) = Width(a, b, s, m)
    BY <2>2 DEF Width
  <2>4. QED
    BY <2>1, <2>3, BytesType DEF Width
<1>2. \A s, m : Stream(a, b, s, m) = Upto(a, b, s, m, 1) + Upto(a, b, s, m, 2) + Upto(a, b, s, m, 3)
                                     + Upto(a, b, s, m, 4) + Upto(a, b, s, m, 5)
  BY DEF Stream
<1>3. \A s \in 0 .. 5 : \A i \in 1 .. 5 : Upto(a, b, s, n, i) \in Nat
  BY <1>1 DEF Upto
<1>4. \A s \in 0 .. 5 : Stream(a, b, s, n) \in Nat
  BY <1>2, <1>3
<1>5. ASSUME NEW s \in 0 .. 4
      PROVE  Stream(a, b, s + 1, n) = Stream(a, b, s, n) + Width(a, b, s + 1, n)
  <2>1. \A i \in 1 .. 5 : i # s + 1 => Upto(a, b, s + 1, n, i) = Upto(a, b, s, n, i)
    BY DEF Upto
  <2>2. Upto(a, b, s + 1, n, s + 1) = Width(a, b, s + 1, n) /\ Upto(a, b, s, n, s + 1) = 0
    BY DEF Upto
  <2>3. s \in 0 .. 5 /\ s + 1 \in 1 .. 5
    OBVIOUS
  <2>4. Width(a, b, s + 1, n) \in Nat
    BY <1>1, <2>3
  <2>5. \A i \in 1 .. 5 : Upto(a, b, s, n, i) \in Nat
    BY <1>3, <2>3
  <2>6. CASE s = 0
    BY <1>2, <2>1, <2>2, <2>4, <2>5, <2>6
  <2>7. CASE s = 1
    BY <1>2, <2>1, <2>2, <2>4, <2>5, <2>7
  <2>8. CASE s = 2
    BY <1>2, <2>1, <2>2, <2>4, <2>5, <2>8
  <2>9. CASE s = 3
    BY <1>2, <2>1, <2>2, <2>4, <2>5, <2>9
  <2>10. CASE s = 4
    BY <1>2, <2>1, <2>2, <2>4, <2>5, <2>10
  <2>11. QED
    BY <2>6, <2>7, <2>8, <2>9, <2>10
<1>6. ASSUME NEW s \in 0 .. 5, s <= KeyIndex(a), NEW m
      PROVE  Stream(a, b, s, n) = Stream(a, b, s, m)
  <2>1. KeyIndex(a) \in 1 .. 2
    BY DEF KeyIndex
  <2>2. \A i \in 1 .. 5 : Upto(a, b, s, n, i) = Upto(a, b, s, m, i)
    BY <1>1, <1>6, <2>1 DEF Upto
  <2>3. QED
    BY <1>2, <2>2
<1>7. QED
  BY <1>1, <1>4, <1>5, <1>6

\* A sum over the four programs of which one term grows.
LEMMA SumGrows ==
  ASSUME NEW f, NEW g, NEW q, NEW w, f \in [Process -> Int], g \in [Process -> Int], q \in Process,
         w \in Int, g[q] = f[q] + w, \A b \in Process : b # q => g[b] = f[b]
  PROVE  g["p0"] + g["p1"] + g["p2"] + g["c"] = (f["p0"] + f["p1"] + f["p2"] + f["c"]) + w
<1>1. /\ f["p0"] \in Int /\ f["p1"] \in Int /\ f["p2"] \in Int /\ f["c"] \in Int
  BY DEF Process, Server
<1>2. CASE q = "p0"
  BY <1>1, <1>2 DEF Process, Server
<1>3. CASE q = "p1"
  BY <1>1, <1>3 DEF Process, Server
<1>4. CASE q = "p2"
  BY <1>1, <1>4 DEF Process, Server
<1>5. CASE q = "c"
  BY <1>1, <1>5 DEF Process, Server
<1>6. QED
  BY <1>2, <1>3, <1>4, <1>5 DEF Process, Server

LEMMA TallyTypes ==
  ASSUME NEW p, NEW k, NEW acc, NEW vd, SessionTypes, p \in Process, PointOK(p, k, acc, vd)
  PROVE  \A b \in Process : SentTo(p, b, k) \in Nat /\ ReadFrom(b, p, k) \in Nat
<1> SUFFICES ASSUME NEW b \in Process
             PROVE  SentTo(p, b, k) \in Nat /\ ReadFrom(b, p, k) \in Nat
  OBVIOUS
<1>1. /\ Sent(p, b, k) \in 0 .. 5 /\ (~Pair(p, b) => Sent(p, b, k) = 0)
      /\ Read(b, p, k) \in 0 .. 5 /\ (~Pair(b, p) => Read(b, p, k) = 0)
  BY Five
<1>2. SentTo(p, b, k) \in Nat
  <2>1. CASE Pair(p, b)
    <3>1. Count(p) \in Nat
      BY <2>1, TypesFacts
    <3>2. QED
      BY <1>1, <2>1, <3>1, StreamFacts DEF SentTo
  <2>2. CASE ~Pair(p, b)
    BY <1>1, <2>2, StreamNone DEF SentTo
  <2>3. QED
    BY <2>1, <2>2
<1>3. ReadFrom(b, p, k) \in Nat
  <2>1. CASE Pair(b, p)
    <3>1. Asked(b, p) \in Nat
      BY <2>1, TypesFacts
    <3>2. QED
      BY <1>1, <2>1, <3>1, StreamFacts DEF ReadFrom
  <2>2. CASE ~Pair(b, p)
    BY <1>1, <2>2, StreamNone DEF ReadFrom
  <2>3. QED
    BY <2>1, <2>2
<1>4. QED
  BY <1>2, <1>3

LEMMA TallySent ==
  ASSUME NEW pc, NEW p, NEW q, NEW i, NEW k, pc \in [Process -> Nat], SessionTypes, AtPoints(pc),
         Tallied(pc), p \in Process, k \in Nat, SendsNext(p, pc[p], q, i, k), CountSent(p),
         sizes' = sizes
  PROVE  Tallied([pc EXCEPT ![p] = k])'
<1> DEFINE pc2 == [pc EXCEPT ![p] = k]
           n == Count(p)
           w == Width(p, q, i, n)
           f == [b \in Process |-> SentTo(p, b, pc[p])]
           g == [b \in Process |-> SentTo(p, b, k)]
<1>1. pc2[p] = k /\ \A b \in Process : b # p => pc2[b] = pc[b]
  OBVIOUS
<1>2. /\ Pair(p, q) /\ i = Sent(p, q, pc[p]) + 1 /\ i \in Nat \ {0} /\ q \in Process
      /\ \A b \in Process : Sent(p, b, k) = IF b = q THEN i ELSE Sent(p, b, pc[p])
      /\ \A b \in Process : Read(b, p, k) = Read(b, p, pc[p])
      /\ Head(todo[p]) = SendAt(p, q, i, n, Carried(p)) /\ PointOK(p, k, accept, verdict)
  BY PairFacts DEF SendsNext, Says
<1>3. PointOK(p, pc[p], accept, verdict) /\ n \in Nat
  BY <1>2, TypesFacts DEF AtPoints
<1> HIDE DEF n
<1>4. i \in 1 .. 5 /\ i - 1 \in 0 .. 4 /\ Sent(p, q, pc[p]) = i - 1
  <2>1. Sent(p, q, k) = i
    BY <1>2
  <2>2. Sent(p, q, k) \in 0 .. 5
    BY <1>2, Five
  <2>3. Sent(p, q, pc[p]) \in 0 .. 5
    BY <1>2, <1>3, Five
  <2>4. QED
    BY <1>2, <2>1, <2>2, <2>3
<1>5. f \in [Process -> Int]
  <2>1. \A b \in Process : SentTo(p, b, pc[p]) \in Nat
    <3> DEFINE k0 == pc[p]
    <3>1. PointOK(p, k0, accept, verdict)
      BY <1>3
    <3> HIDE DEF k0
    <3>2. \A b \in Process : SentTo(p, b, k0) \in Nat
      BY <3>1, TallyTypes
    <3>3. QED
      BY <3>2 DEF k0
  <2>2. QED
    BY <2>1
<1>6. g \in [Process -> Int]
  <2>1. \A b \in Process : SentTo(p, b, k) \in Nat
    BY <1>2, TallyTypes
  <2>2. QED
    BY <2>1
<1>7. w \in Nat /\ g[q] = f[q] + w
  <2>1. w \in Nat /\ Stream(p, q, (i - 1) + 1, n) = Stream(p, q, i - 1, n) + Width(p, q, (i - 1) + 1, n)
    BY <1>2, <1>3, <1>4, StreamFacts
  <2>2. (i - 1) + 1 = i
    BY <1>2
  <2>3. Sent(p, q, k) = i /\ g[q] = SentTo(p, q, k) /\ f[q] = SentTo(p, q, pc[p])
    BY <1>2
  <2>4. QED
    BY <1>4, <2>1, <2>2, <2>3 DEF SentTo, n
<1>8. \A b \in Process : b # q => g[b] = f[b]
  BY <1>2 DEF SentTo
<1> HIDE DEF f, g, w
<1>9. g["p0"] + g["p1"] + g["p2"] + g["c"] = (f["p0"] + f["p1"] + f["p2"] + f["c"]) + w
  BY <1>2, <1>5, <1>6, <1>7, <1>8, SumGrows
<1>10. /\ counted'[p].sent = counted[p].sent + w /\ counted'[p].received = counted[p].received
       /\ \A b \in Process \ {p} : counted'[b] = counted[b]
  <2>1. Call(p).section = Section(p, q, i, n)
    BY <1>2, RecordFacts DEF Call
  <2>2. counted' = [counted EXCEPT ![p].sent = @ + w]
    BY <2>1 DEF CountSent, w, Width
  <2>3. counted \in [Process -> [sent : Nat, received : Nat]]
    BY DEF SessionTypes
  <2>4. QED
    BY <1>7, <2>2, <2>3, CountFacts
<1>11. {"p0", "p1", "p2", "c"} \subseteq Process
  BY DEF Process, Server
<1>12. \A a, b, kk : SentTo(a, b, kk)' = SentTo(a, b, kk) /\ ReadFrom(a, b, kk)' = ReadFrom(a, b, kk)
  BY DEF SentTo, ReadFrom, Count, Asked
<1>13. counted'[p].sent = SentTo(p, "p0", k) + SentTo(p, "p1", k) + SentTo(p, "p2", k) + SentTo(p, "c", k)
  BY <1>9, <1>10, <1>11 DEF Tallied, f, g
<1>14. \A b \in Process : ReadFrom(b, p, k) = ReadFrom(b, p, pc[p])
  BY <1>2 DEF ReadFrom
<1>15. counted'[p].received = ReadFrom("p0", p, k) + ReadFrom("p1", p, k)
                              + ReadFrom("p2", p, k) + ReadFrom("c", p, k)
  BY <1>10, <1>11, <1>14 DEF Tallied
<1> HIDE DEF pc2
<1>16. Tallied(pc2)'
  <2>1. ASSUME NEW a \in Process
        PROVE  /\ counted'[a].sent = SentTo(a, "p0", pc2[a])' + SentTo(a, "p1", pc2[a])'
                                     + SentTo(a, "p2", pc2[a])' + SentTo(a, "c", pc2[a])'
               /\ counted'[a].received = ReadFrom("p0", a, pc2[a])' + ReadFrom("p1", a, pc2[a])'
                                         + ReadFrom("p2", a, pc2[a])' + ReadFrom("c", a, pc2[a])'
    <3>1. CASE a = p
      BY <1>1, <1>12, <1>13, <1>15, <3>1
    <3>2. CASE a # p
      <4>1. pc2[a] = pc[a] /\ counted'[a] = counted[a]
        BY <1>1, <1>10, <3>2
      <4>2. QED
        BY <1>12, <4>1 DEF Tallied
    <3>3. QED
      BY <3>1, <3>2
  <2>2. QED
    BY <2>1 DEF Tallied
<1>17. QED
  BY <1>16 DEF pc2

LEMMA TallyRead ==
  ASSUME NEW pc, NEW p, NEW q, NEW i, NEW k, NEW acc, pc \in [Process -> Nat], SessionTypes,
         AtPoints(pc), Tallied(pc), p \in Process, k \in Nat, Hears(p, pc[p], k, q, i),
         PointOK(p, k, acc, verdict), Head(todo[p]) = RecvAt(q, p, i, Asked(q, p)),
         CountReceived(p), \A l \in Link : l # <<q, p>> => sizes'[l] = sizes[l],
         i # KeyIndex(q) \/ q = "c" => sizes' = sizes
  PROVE  Tallied([pc EXCEPT ![p] = k])'
<1> DEFINE pc2 == [pc EXCEPT ![p] = k]
           n == Asked(q, p)
           w == Width(q, p, i, n)
           f == [b \in Process |-> ReadFrom(b, p, pc[p])]
           g == [b \in Process |-> ReadFrom(b, p, k)']
<1>1. pc2[p] = k /\ \A b \in Process : b # p => pc2[b] = pc[b]
  OBVIOUS
<1>2. /\ Pair(q, p) /\ i = Read(q, p, pc[p]) + 1 /\ i \in Nat \ {0} /\ q \in Process /\ p # q
      /\ \A b \in Process : Read(b, p, k) = IF b = q THEN i ELSE Read(b, p, pc[p])
      /\ \A b \in Process : Sent(p, b, k) = Sent(p, b, pc[p])
  BY PairFacts DEF Hears
<1>3. PointOK(p, pc[p], accept, verdict) /\ n \in Nat
  BY <1>2, TypesFacts DEF AtPoints
<1> HIDE DEF n
<1>4. i \in 1 .. 5 /\ i - 1 \in 0 .. 4 /\ Read(q, p, pc[p]) = i - 1
  <2>1. Read(q, p, k) = i
    BY <1>2
  <2>2. Read(q, p, k) \in 0 .. 5
    BY <1>2, Five
  <2>3. Read(q, p, pc[p]) \in 0 .. 5
    BY <1>2, <1>3, Five
  <2>4. QED
    BY <1>2, <2>1, <2>2, <2>3
<1>5. i = KeyIndex(q) /\ q = "p2" => /\ \A b \in Process : Sent(p, b, pc[p]) = 0
                                     /\ Read("c", p, pc[p]) = 0
  <2> DEFINE k0 == pc[p]
  <2>1. PointOK(p, k0, accept, verdict) /\ i = Read(q, p, k0) + 1
    BY <1>2, <1>3
  <2> HIDE DEF k0
  <2>2. i = KeyIndex(q) /\ q = "p2" => (\A b \in Process : Sent(p, b, k0) = 0) /\ Read("c", p, k0) = 0
    BY <1>2, <2>1, KeyReads
  <2>3. QED
    BY <2>2 DEF k0
\* What is counted with changes only where nothing has been sent, or read, by it.
<1>6. ASSUME NEW b \in Process
      PROVE  b # p \/ ~(q = "p2" /\ i = KeyIndex(q)) => Count(b)' = Count(b)
  <2>1. CASE b = "p2"
    BY <2>1 DEF Count
  <2>2. CASE b # "p2"
    <3>1. <<"p2", b>> \in Link
      BY <2>2 DEF Link, Process, Server
    <3>2. b # p \/ ~(q = "p2" /\ i = KeyIndex(q)) => sizes'[<<"p2", b>>] = sizes[<<"p2", b>>]
      BY <3>1
    <3>3. QED
      BY <2>2, <3>2 DEF Count
  <2>3. QED
    BY <2>1, <2>2
<1>7. ASSUME NEW a \in Process, NEW b \in Process, Pair(a, b)
      PROVE  \/ Asked(a, b)' = Asked(a, b)
             \/ b = p /\ a = q /\ i = KeyIndex(q)
             \/ b = p /\ a = "c" /\ q = "p2" /\ i = KeyIndex(q)
  <2>1. CASE a = "c"
    <3>1. <<"p2", b>> \in Link
      BY <1>7, <2>1 DEF Link, Pair, Server
    <3>2. b # p \/ ~(q = "p2" /\ i = KeyIndex(q)) => sizes'[<<"p2", b>>] = sizes[<<"p2", b>>]
      BY <3>1
    <3>3. QED
      BY <2>1, <3>2 DEF Asked
  <2>2. CASE a # "c"
    <3>1. <<a, b>> \in Link
      BY <1>7, PairFacts
    <3>2. ~(b = p /\ a = q /\ i = KeyIndex(q)) => sizes'[<<a, b>>] = sizes[<<a, b>>]
      BY <3>1
    <3>3. QED
      BY <2>2, <3>2 DEF Asked
  <2>3. QED
    BY <2>1, <2>2
<1>8. ASSUME NEW b \in Process
      PROVE  SentTo(p, b, k)' = SentTo(p, b, pc[p])
  <2>1. CASE q = "p2" /\ i = KeyIndex(q)
    BY <1>2, <1>5, <2>1, StreamNone DEF SentTo
  <2>2. CASE ~(q = "p2" /\ i = KeyIndex(q))
    BY <1>2, <1>6, <2>2 DEF SentTo
  <2>3. QED
    BY <2>1, <2>2
<1>9. ASSUME NEW b \in Process, b # q
      PROVE  ReadFrom(b, p, k)' = ReadFrom(b, p, pc[p])
  <2>1. Read(b, p, k) = Read(b, p, pc[p])
    BY <1>2, <1>9
  <2>2. CASE Read(b, p, pc[p]) = 0
    BY <2>1, <2>2, StreamNone DEF ReadFrom
  <2>3. CASE Read(b, p, pc[p]) # 0
    <3>1. Pair(b, p)
      <4> DEFINE k0 == pc[p]
      <4>1. PointOK(p, k0, accept, verdict) /\ Read(b, p, k0) # 0
        BY <1>3, <2>3
      <4> HIDE DEF k0
      <4>2. QED
        BY <4>1, Five
    <3>2. Asked(b, p)' = Asked(b, p)
      BY <1>5, <1>7, <1>9, <2>3, <3>1
    <3>3. QED
      BY <2>1, <3>2 DEF ReadFrom
  <2>4. QED
    BY <2>2, <2>3
<1>10. w \in Nat /\ ReadFrom(q, p, k)' = ReadFrom(q, p, pc[p]) + w
  <2>1. w \in Nat /\ Stream(q, p, (i - 1) + 1, n) = Stream(q, p, i - 1, n) + Width(q, p, (i - 1) + 1, n)
    BY <1>2, <1>3, <1>4, StreamFacts
  <2>2. (i - 1) + 1 = i
    BY <1>2
  <2>3. Stream(q, p, i, Asked(q, p)') = Stream(q, p, i, n)
    <3>1. CASE Asked(q, p)' = Asked(q, p)
      BY <3>1 DEF n
    <3>2. CASE i = KeyIndex(q)
      <4>1. \A m : Stream(q, p, i, n) = Stream(q, p, i, m)
        <5>1. i \in 0 .. 5 /\ i <= KeyIndex(q)
          BY <1>4, <3>2
        <5>2. QED
          BY <1>2, <1>3, <5>1, StreamFacts
      <4>2. QED
        BY <4>1
    <3>3. QED
      BY <1>2, <1>7, <3>1, <3>2
  <2>4. Read(q, p, k) = i
    BY <1>2
  <2>5. ReadFrom(q, p, k)' = Stream(q, p, i, Asked(q, p)')
    BY <2>4 DEF ReadFrom
  <2>6. ReadFrom(q, p, pc[p]) = Stream(q, p, i - 1, n)
    BY <1>4 DEF ReadFrom, n
  <2>7. QED
    BY <2>1, <2>2, <2>3, <2>5, <2>6 DEF w
<1>11. \A b \in Process : ReadFrom(b, p, pc[p]) \in Nat
  <2> DEFINE k0 == pc[p]
  <2>1. PointOK(p, k0, accept, verdict)
    BY <1>3
  <2> HIDE DEF k0
  <2>2. \A b \in Process : ReadFrom(b, p, k0) \in Nat
    BY <2>1, TallyTypes
  <2>3. QED
    BY <2>2 DEF k0
<1> HIDE DEF w
<1>12. f \in [Process -> Int] /\ g \in [Process -> Int]
  <2>1. \A b \in Process : ReadFrom(b, p, k)' \in Int
    BY <1>9, <1>10, <1>11
  <2>2. QED
    BY <1>11, <2>1
<1>13. g[q] = f[q] + w /\ \A b \in Process : b # q => g[b] = f[b]
  BY <1>2, <1>9, <1>10
<1>14. {"p0", "p1", "p2", "c"} \subseteq Process
  BY DEF Process, Server
<1>15. /\ g["p0"] = ReadFrom("p0", p, k)' /\ g["p1"] = ReadFrom("p1", p, k)'
       /\ g["p2"] = ReadFrom("p2", p, k)' /\ g["c"] = ReadFrom("c", p, k)'
       /\ f["p0"] = ReadFrom("p0", p, pc[p]) /\ f["p1"] = ReadFrom("p1", p, pc[p])
       /\ f["p2"] = ReadFrom("p2", p, pc[p]) /\ f["c"] = ReadFrom("c", p, pc[p])
  BY <1>14
<1> HIDE DEF f, g
<1>16. g["p0"] + g["p1"] + g["p2"] + g["c"] = (f["p0"] + f["p1"] + f["p2"] + f["c"]) + w
  BY <1>2, <1>10, <1>12, <1>13, SumGrows
<1>17. /\ counted'[p].received = counted[p].received + w /\ counted'[p].sent = counted[p].sent
       /\ \A b \in Process \ {p} : counted'[b] = counted[b]
  <2>1. Call(p).section = Section(q, p, i, n)
    BY RecordFacts DEF Call, n
  <2>2. counted' = [counted EXCEPT ![p].received = @ + w]
    BY <2>1 DEF CountReceived, w, Width
  <2>3. counted \in [Process -> [sent : Nat, received : Nat]]
    BY DEF SessionTypes
  <2>4. QED
    BY <1>10, <2>2, <2>3, CountFacts
<1>18. counted'[p].received = ReadFrom("p0", p, k)' + ReadFrom("p1", p, k)'
                              + ReadFrom("p2", p, k)' + ReadFrom("c", p, k)'
  BY <1>15, <1>16, <1>17 DEF Tallied
<1>19. counted'[p].sent = SentTo(p, "p0", k)' + SentTo(p, "p1", k)'
                          + SentTo(p, "p2", k)' + SentTo(p, "c", k)'
  BY <1>8, <1>14, <1>17 DEF Tallied
<1>20. ASSUME NEW a \in Process, a # p
       PROVE  /\ counted'[a].sent = SentTo(a, "p0", pc[a])' + SentTo(a, "p1", pc[a])'
                                    + SentTo(a, "p2", pc[a])' + SentTo(a, "c", pc[a])'
              /\ counted'[a].received = ReadFrom("p0", a, pc[a])' + ReadFrom("p1", a, pc[a])'
                                        + ReadFrom("p2", a, pc[a])' + ReadFrom("c", a, pc[a])'
  <2>1. Count(a)' = Count(a)
    BY <1>6, <1>20
  <2>2. \A b \in Process : SentTo(a, b, pc[a])' = SentTo(a, b, pc[a])
    BY <2>1 DEF SentTo
  <2>3. ASSUME NEW b \in Process
        PROVE  ReadFrom(b, a, pc[a])' = ReadFrom(b, a, pc[a])
    <3>1. CASE Pair(b, a)
      <4>1. Asked(b, a)' = Asked(b, a)
        BY <1>7, <1>20, <3>1
      <4>2. QED
        BY <4>1 DEF ReadFrom
    <3>2. CASE ~Pair(b, a)
      <4> DEFINE k0 == pc[a]
      <4>1. PointOK(a, k0, accept, verdict)
        BY DEF AtPoints
      <4> HIDE DEF k0
      <4>2. Read(b, a, k0) = 0
        BY <3>2, <4>1, Five
      <4>3. QED
        BY <4>2, StreamNone DEF ReadFrom, k0
    <3>3. QED
      BY <3>1, <3>2
  <2>4. counted'[a] = counted[a]
    BY <1>17, <1>20
  <2>5. QED
    BY <1>14, <2>2, <2>3, <2>4 DEF Tallied
<1> HIDE DEF pc2
<1>21. Tallied(pc2)'
  BY <1>1, <1>18, <1>19, <1>20 DEF Tallied
<1>22. QED
  BY <1>21 DEF pc2

LEMMA LinkSame ==
  ASSUME NEW a, NEW b, NEW s, NEW r, LinkOK(a, b, s, r),
         channel'[<<a, b>>] = channel[<<a, b>>],
         status'[b] = "running" => status[b] = "running",
         status[a] # "running" => status'[a] # "running",
         Gone => Gone', Count(a)' = Count(a), Carried(a)' = Carried(a), Heard(a, b)' = Heard(a, b)
  PROVE  LinkOK(a, b, s, r)'
<1>1. LinkGood(a, b, s, r) => LinkGood(a, b, s, r)'
  BY DEF LinkGood
<1>2. QED
  BY <1>1 DEF LinkOK

LEMMA LinkUnsaid ==
  ASSUME NEW a, NEW b, NEW r, r \in Nat, channel \in [Link -> Seq(Packet)], Pair(a, b),
         LinkOK(a, b, 0, r), status[a] = "running", status' = status,
         channel'[<<a, b>>] = channel[<<a, b>>]
  PROVE  LinkOK(a, b, 0, r)'
<1>0. Gone' = Gone
  BY DEF Gone
<1>1. SUFFICES ASSUME LinkGood(a, b, 0, r)
               PROVE  LinkGood(a, b, 0, r)'
  BY <1>0 DEF LinkOK
<1>2. LinkGood(a, b, 0, r)
  BY <1>1
<1>3. channel[<<a, b>>] \in Seq(Packet)
  BY PairFacts
<1>4. r = 0 /\ Len(channel[<<a, b>>]) = 0
  BY <1>2, <1>3, LenProperties DEF LinkGood, Aligned
<1>5. ~(r >= KeyIndex(a))
  BY <1>4 DEF KeyIndex
<1>6. Aligned(channel[<<a, b>>], a, b, 0, r, Count(a)', Carried(a)')
  BY <1>2, <1>4 DEF LinkGood, Aligned
<1>7. QED
  BY <1>5, <1>6 DEF LinkGood

(***************************************************************************)
(* Every step keeps the invariant, with the acting program at its next     *)
(* point.                                                                  *)
(***************************************************************************)
LEMMA SentKeeps ==
  ASSUME NEW pc, NEW p, NEW q, NEW i, NEW k, SInv(pc), p \in Process, k \in Nat,
         status[p] = "running", todo[p] # <<>>, SendsNext(p, pc[p], q, i, k),
         todo' = [todo EXCEPT ![p] = Tail(@)], CountSent(p),
         UNCHANGED <<status, sizes, accept, verdict, crashes>>,
         channel' \in [Link -> Seq(Packet)], \A l \in Link : Len(channel'[l]) <= Capacity,
         \A l \in Link : l # <<p, q>> => channel'[l] = channel[l],
         LinkOK(p, q, i, Read(p, q, pc[q]))'
  PROVE  SInv([pc EXCEPT ![p] = k])'
<1> DEFINE pc2 == [pc EXCEPT ![p] = k]
<1>u. /\ status' = status /\ sizes' = sizes /\ accept' = accept /\ verdict' = verdict
      /\ crashes' = crashes
  OBVIOUS
<1>g. Gone' = Gone
  BY <1>u DEF Gone
<1>1. /\ pc \in [Process -> Nat] /\ SessionTypes /\ AtPoints(pc) /\ EndedDone /\ VerdictMatches
      /\ SizesAgree(pc) /\ AcceptTold(pc) /\ LinksOK(pc) /\ Tallied(pc)
  BY DEF SInv
<1>2. pc2 \in [Process -> Nat] /\ pc2[p] = k /\ \A b \in Process : b # p => pc2[b] = pc[b]
  BY <1>1
<1>3. /\ Pair(p, q) /\ i = Sent(p, q, pc[p]) + 1 /\ i \in Nat \ {0}
      /\ \A b \in Process : Sent(p, b, k) = IF b = q THEN i ELSE Sent(p, b, pc[p])
      /\ \A b \in Process : Read(b, p, k) = Read(b, p, pc[p])
      /\ Head(todo[p]) = SendAt(p, q, i, Count(p), Carried(p))
      /\ TodoAt(Tail(todo[p]), p, k, sizes, verdict) /\ PointOK(p, k, accept, verdict)
  BY DEF SendsNext, Says
<1>4. todo[p] \in Seq(CallRec) /\ todo'[p] = Tail(todo[p]) /\ todo'[p] \in Seq(CallRec)
      /\ \A b \in Process : b # p => todo'[b] = todo[b]
  BY <1>1, HeadTailProperties DEF SessionTypes
<1>5. SessionTypes'
  <2>1. todo' \in [Process -> Seq(CallRec)]
    BY <1>1, <1>4 DEF SessionTypes
  <2>2. counted' \in [Process -> [sent : Nat, received : Nat]]
    <3>1. Head(todo[p]) \in CallRec
      BY <1>4, HeadTailProperties
    <3>2. Call(p).section \in Seq(Field)
      BY <3>1 DEF Call, CallRec
    <3>3. Bytes(Call(p).section) \in Nat
      BY <3>2, BytesType
    <3>4. counted \in [Process -> [sent : Nat, received : Nat]]
      BY <1>1 DEF SessionTypes
    <3> DEFINE w == Bytes(Call(p).section)
    <3>5. counted' = [counted EXCEPT ![p].sent = @ + w]
      BY DEF CountSent
    <3>6. w \in Nat
      BY <3>3
    <3> HIDE DEF w
    <3>7. [counted EXCEPT ![p].sent = @ + w] \in [Process -> [sent : Nat, received : Nat]]
      BY <3>4, <3>6, CountFacts
    <3>8. QED
      BY <3>5, <3>7
  <2>3. QED
    BY <1>1, <1>u, <2>1, <2>2 DEF SessionTypes
<1>6. AtPoints(pc2)'
  <2>1. ASSUME NEW b \in Process
        PROVE  TodoAt(todo'[b], b, pc2[b], sizes', verdict') /\ PointOK(b, pc2[b], accept', verdict')
    <3>1. CASE b = p
      BY <1>2, <1>3, <1>4, <1>u, <3>1
    <3>2. CASE b # p
      BY <1>1, <1>2, <1>4, <1>u, <2>1, <3>2 DEF AtPoints
    <3>3. QED
      BY <3>1, <3>2
  <2>2. QED
    BY <2>1 DEF AtPoints
<1>7. EndedDone'
  BY <1>1, <1>4, <1>u DEF EndedDone
<1>n. \A a, b \in Process : Sent(a, b, pc[a]) \in Nat /\ Read(a, b, pc[b]) \in Nat
  BY <1>1, Numbers DEF AtPoints
<1>8. VerdictMatches' /\ AcceptTold(pc2)'
  <2>1. VerdictMatches'
    BY <1>1, <1>u DEF VerdictMatches, SizesMatch
  <2>2. ASSUME NEW b \in Server, accept[b] # Unread
        PROVE  IF Sent("c", b, pc2["c"]) >= 1 THEN accept[b] = verdict ELSE status["c"] = "died"
    <3>1. IF Sent("c", b, pc["c"]) >= 1 THEN accept[b] = verdict ELSE status["c"] = "died"
      BY <1>1, <2>2 DEF AcceptTold
    <3>2. "c" \in Process /\ b \in Process
      BY DEF Process
    <3>3. CASE p # "c"
      BY <1>2, <3>1, <3>2, <3>3
    <3>4. CASE p = "c"
      <4>1. Sent("c", b, pc["c"]) >= 1 /\ accept[b] = verdict
        BY <3>1, <3>4
      <4>2. Sent("c", b, pc2["c"]) \in {Sent("c", b, pc["c"]), Sent("c", b, pc["c"]) + 1}
        BY <1>2, <1>3, <3>2, <3>4
      <4>3. Sent("c", b, pc["c"]) \in Nat
        BY <1>n, <3>2
      <4>4. Sent("c", b, pc2["c"]) >= 1
        BY <4>1, <4>2, <4>3
      <4>5. QED
        BY <4>1, <4>4
    <3>5. QED
      BY <3>3, <3>4
  <2>3. QED
    BY <1>u, <2>1, <2>2 DEF AcceptTold
<1>9. SizesAgree(pc2)'
  <2>1. ASSUME NEW a \in Server, Read(a, "c", pc2["c"]) >= 2
        PROVE  \/ Gone' /\ status'[a] # "running"
               \/ Sent(a, "c", pc2[a]) >= 2 /\ sizes'[<<a, "c">>] = sizes'[<<"p2", a>>]
    <3>1. a \in Process /\ "c" \in Process
      BY DEF Process
    <3>2. Read(a, "c", pc["c"]) >= 2
      BY <1>2, <1>3, <2>1, <3>1
    <3>3. \/ Gone /\ status[a] # "running"
          \/ Sent(a, "c", pc[a]) >= 2 /\ sizes[<<a, "c">>] = sizes[<<"p2", a>>]
      BY <1>1, <2>1, <3>2 DEF SizesAgree
    <3>4. \/ Sent(a, "c", pc2[a]) = Sent(a, "c", pc[a])
          \/ Sent(a, "c", pc2[a]) = Sent(a, "c", pc[a]) + 1
      BY <1>2, <1>3, <3>1
    <3>5. Sent(a, "c", pc[a]) \in Nat
      BY <1>n, <3>1
    <3>6. QED
      BY <1>u, <1>g, <3>3, <3>4, <3>5
  <2>2. QED
    BY <2>1 DEF SizesAgree
<1>10. LinksOK(pc2)'
  <2>1. ASSUME NEW a \in Process, NEW b \in Process, Pair(a, b)
        PROVE  LinkOK(a, b, Sent(a, b, pc2[a]), Read(a, b, pc2[b]))'
    <3>1. Read(a, b, pc2[b]) = Read(a, b, pc[b])
      BY <1>2, <1>3, <2>1
    <3>2. CASE a = p /\ b = q
      BY <1>2, <1>3, <2>1, <3>1, <3>2
    <3>3. CASE ~(a = p /\ b = q)
      <4>1. Sent(a, b, pc2[a]) = Sent(a, b, pc[a])
        BY <1>2, <1>3, <2>1, <3>3
      <4>2. <<a, b>> \in Link /\ <<a, b>> # <<p, q>>
        BY <2>1, <3>3, PairFacts
      <4>3. channel'[<<a, b>>] = channel[<<a, b>>]
        BY <4>2
      <4>4. LinkOK(a, b, Sent(a, b, pc[a]), Read(a, b, pc[b]))
        BY <1>1, <2>1 DEF LinksOK
      <4>5. Count(a)' = Count(a) /\ Carried(a)' = Carried(a) /\ Heard(a, b)' = Heard(a, b)
        BY <1>u DEF Count, Carried, Heard
      <4>6. LinkOK(a, b, Sent(a, b, pc[a]), Read(a, b, pc[b]))'
        BY <1>u, <1>g, <4>3, <4>4, <4>5, LinkSame
      <4>7. QED
        BY <3>1, <4>1, <4>6
    <3>4. QED
      BY <3>2, <3>3
  <2>2. QED
    BY <2>1 DEF LinksOK
<1>11. Tallied(pc2)'
  BY <1>1, <1>u, TallySent
<1>12. QED
  BY <1>2, <1>5, <1>6, <1>7, <1>8, <1>9, <1>10, <1>11 DEF SInv

LEMMA SendKeeps ==
  ASSUME NEW pc, SInv(pc), NEW p \in Process, SendSection(p)
  PROVE  \E k : SInv([pc EXCEPT ![p] = k])'
<1>1. /\ SessionTypes /\ LinksOK(pc) /\ TodoAt(todo[p], p, pc[p], sizes, verdict)
      /\ PointOK(p, pc[p], accept, verdict)
  BY DEF SInv, AtPoints
<1>2. /\ status[p] = "running" /\ todo[p] # <<>> /\ Head(todo[p]).do = "send"
  BY DEF SendSection, Calls, Call
<1>3. PICK q, i, k : k \in Nat /\ SendsNext(p, pc[p], q, i, k)
  BY <1>1, <1>2, SendMoves
<1>4. /\ Pair(p, q) /\ i = Sent(p, q, pc[p]) + 1 /\ i \in Nat \ {0}
      /\ Head(todo[p]) = SendAt(p, q, i, Count(p), Carried(p))
  BY <1>3 DEF SendsNext, Says
<1> DEFINE l == <<p, q>>
           m == [section |-> Call(p).section, val |-> Call(p).val]
<1>5. Call(p).peer = q /\ m = Message(p, q, i, Count(p), Carried(p))
  <2>1. /\ Call(p).peer = q /\ Call(p).section = Section(p, q, i, Count(p))
        /\ Call(p).val = Val(p, i, Carried(p))
    BY <1>4, RecordFacts DEF Call
  <2>2. QED
    BY <2>1 DEF Message
<1>6. l \in Link /\ q \in Process
  BY <1>4, PairFacts
<1>7. Count(p) \in Nat /\ Carried(p) \in Nat /\ channel[l] \in Seq(Packet)
  BY <1>1, <1>4, TypesFacts
<1>8. m \in Packet
  BY <1>4, <1>5, <1>7, SendType
<1> HIDE DEF m
<1>9. /\ Len(channel[l]) < Capacity /\ channel' = [channel EXCEPT ![l] = Append(@, m)]
      /\ todo' = [todo EXCEPT ![p] = Tail(@)] /\ CountSent(p)
      /\ UNCHANGED <<status, sizes, accept, verdict, crashes>>
  BY <1>5 DEF SendSection, m
<1>10. channel \in [Link -> Seq(Packet)] /\ \A ll \in Link : Len(channel[ll]) <= Capacity
  BY <1>1 DEF SessionTypes
<1>11. /\ channel'[l] = Append(channel[l], m)
       /\ \A ll \in Link : ll # l => channel'[ll] = channel[ll]
  BY <1>6, <1>9, <1>10
<1>12. /\ Append(channel[l], m) \in Seq(Packet) /\ Len(Append(channel[l], m)) = Len(channel[l]) + 1
  BY <1>7, <1>8, AppendProperties
<1>13. channel' \in [Link -> Seq(Packet)]
  BY <1>6, <1>9, <1>10, <1>12
<1>14. \A ll \in Link : Len(channel'[ll]) <= Capacity
  <2>1. Len(channel[l]) \in Nat /\ Capacity \in Nat
    BY <1>7, LenProperties, SessionAssumption
  <2>2. Len(channel'[l]) <= Capacity
    BY <1>9, <1>11, <1>12, <2>1
  <2>3. QED
    BY <1>10, <1>11, <2>2
<1>15. LinkOK(p, q, i, Read(p, q, pc[q]))'
  <2> DEFINE s == Sent(p, q, pc[p])
             r == Read(p, q, pc[q])
  <2>1. s \in Nat /\ r \in Nat
    BY <1>6, Numbers DEF SInv, AtPoints
  <2>2. LinkOK(p, q, s, r)
    BY <1>1, <1>4, <1>6 DEF LinksOK
  <2>4. LinkGood(p, q, s, r)
    BY <1>2, <1>5, <2>2 DEF LinkOK, SendSection
  <2>5. Aligned(channel[l], p, q, s, r, Count(p), Carried(p))
    BY <2>4 DEF LinkGood
  <2>6. m = Message(p, q, s + 1, Count(p), Carried(p))
    BY <1>4, <1>5
  <2> HIDE DEF s, r, l
  <2>7. Aligned(Append(channel[l], m), p, q, s + 1, r, Count(p), Carried(p))
    BY <1>7, <1>8, <2>1, <2>5, <2>6, AppendAligned
  <2>8. Count(p)' = Count(p) /\ Carried(p)' = Carried(p) /\ Heard(p, q)' = Heard(p, q)
    BY <1>9 DEF Count, Carried, Heard
  <2>9. LinkGood(p, q, i, r)'
    BY <1>4, <1>11, <2>4, <2>7, <2>8 DEF LinkGood, s, l
  <2>10. QED
    BY <2>9 DEF LinkOK, r
<1> HIDE DEF l
<1>16. SInv([pc EXCEPT ![p] = k])'
  BY <1>2, <1>3, <1>9, <1>11, <1>13, <1>14, <1>15, SentKeeps DEF l
<1>17. QED
  BY <1>16

LEMMA SentToGone ==
  ASSUME NEW pc, SInv(pc), NEW p \in Process, Calls(p, "send"), status[Call(p).peer] # "running"
  PROVE  Gone
<1>1. /\ SessionTypes /\ TodoAt(todo[p], p, pc[p], sizes, verdict)
      /\ PointOK(p, pc[p], accept, verdict)
  BY DEF SInv, AtPoints
<1>2. /\ status[p] = "running" /\ todo[p] # <<>> /\ Head(todo[p]).do = "send"
  BY DEF Calls, Call
<1>3. PICK q, i, k : k \in Nat /\ SendsNext(p, pc[p], q, i, k)
  BY <1>1, <1>2, SendMoves
<1>4. Head(todo[p]) = SendAt(p, q, i, Count(p), Carried(p)) /\ Pair(p, q)
  BY <1>3 DEF SendsNext, Says
<1>5. Call(p).peer = q /\ q \in Process
  BY <1>4, RecordFacts, PairFacts DEF Call
<1>6. status[q] \in {"ended", "died"}
  BY <1>1, <1>5 DEF SessionTypes
<1>7. CASE status[q] = "ended"
  BY <1>2, <1>3, <1>7, EndedRead
<1>8. CASE status[q] = "died"
  BY <1>5, <1>8 DEF Gone
<1>9. QED
  BY <1>6, <1>7, <1>8

LEMMA LostKeeps ==
  ASSUME NEW pc, SInv(pc), NEW p \in Process, Calls(p, "send"), status[Call(p).peer] # "running",
         todo' = [todo EXCEPT ![p] = Tail(@)], CountSent(p),
         UNCHANGED <<status, channel, sizes, accept, verdict, crashes>>
  PROVE  \E k : SInv([pc EXCEPT ![p] = k])' /\ Gone
<1>1. /\ SessionTypes /\ LinksOK(pc) /\ TodoAt(todo[p], p, pc[p], sizes, verdict)
      /\ PointOK(p, pc[p], accept, verdict)
  BY DEF SInv, AtPoints
<1>2. /\ status[p] = "running" /\ todo[p] # <<>> /\ Head(todo[p]).do = "send"
  BY DEF Calls, Call
<1>3. PICK q, i, k : k \in Nat /\ SendsNext(p, pc[p], q, i, k)
  BY <1>1, <1>2, SendMoves
<1>4. Head(todo[p]) = SendAt(p, q, i, Count(p), Carried(p)) /\ Pair(p, q)
  BY <1>3 DEF SendsNext, Says
<1>5. Call(p).peer = q /\ q \in Process
  BY <1>4, RecordFacts, PairFacts DEF Call
<1>g. Gone /\ Gone'
  <2>1. Gone
    BY SentToGone
  <2>2. QED
    BY <2>1 DEF Gone
<1>6. LinkOK(p, q, i, Read(p, q, pc[q]))'
  BY <1>5, <1>g DEF LinkOK
<1>7. /\ channel' = channel /\ channel \in [Link -> Seq(Packet)]
      /\ \A l \in Link : Len(channel[l]) <= Capacity
  BY <1>1 DEF SessionTypes
<1>8. SInv([pc EXCEPT ![p] = k])'
  BY <1>2, <1>3, <1>6, <1>7, SentKeeps
<1>9. QED
  BY <1>8, <1>g

LEMMA StopKeeps ==
  ASSUME NEW pc, SInv(pc), NEW p \in Process, NEW x \in {"ended", "died"}, status[p] = "running",
         x = "ended" => todo[p] = <<>>, status' = [status EXCEPT ![p] = x],
         crashes' \in 0 .. MaxCrashes, UNCHANGED <<todo, channel, sizes, accept, verdict, counted>>
  PROVE  SInv(pc)'
<1>u. /\ todo' = todo /\ channel' = channel /\ sizes' = sizes /\ accept' = accept
      /\ verdict' = verdict /\ counted' = counted
  OBVIOUS
<1>1. /\ pc \in [Process -> Nat] /\ SessionTypes /\ AtPoints(pc) /\ EndedDone /\ VerdictMatches
      /\ SizesAgree(pc) /\ AcceptTold(pc) /\ LinksOK(pc) /\ Tallied(pc)
  BY DEF SInv
<1>2. /\ status \in [Process -> {"running", "ended", "died"}] /\ status'[p] = x
      /\ \A b \in Process \ {p} : status'[b] = status[b]
  BY <1>1 DEF SessionTypes
<1>3. \A b \in Process : /\ status'[b] = "running" => status[b] = "running"
                         /\ status[b] # "running" => status'[b] = status[b]
  BY <1>2
<1>g. Gone => Gone'
  BY <1>2 DEF Gone
<1>4. SessionTypes'
  BY <1>1, <1>u DEF SessionTypes
<1>5. AtPoints(pc)' /\ VerdictMatches'
  BY <1>1, <1>u DEF AtPoints, VerdictMatches, SizesMatch, TodoAt
<1>6. EndedDone'
  BY <1>1, <1>u, <1>2 DEF EndedDone
<1>7. SizesAgree(pc)'
  <2>1. Server \subseteq Process
    BY DEF Process
  <2>2. QED
    BY <1>1, <1>u, <1>g, <1>3, <2>1 DEF SizesAgree
<1>8. AcceptTold(pc)'
  <2>1. "c" \in Process
    BY DEF Process
  <2>2. QED
    BY <1>1, <1>u, <1>3, <2>1 DEF AcceptTold
<1>9. LinksOK(pc)'
  <2>1. ASSUME NEW a \in Process, NEW b \in Process, Pair(a, b)
        PROVE  LinkOK(a, b, Sent(a, b, pc[a]), Read(a, b, pc[b]))'
    <3>1. LinkOK(a, b, Sent(a, b, pc[a]), Read(a, b, pc[b]))
      BY <1>1, <2>1 DEF LinksOK
    <3>2. Count(a)' = Count(a) /\ Carried(a)' = Carried(a) /\ Heard(a, b)' = Heard(a, b)
      BY <1>u DEF Count, Carried, Heard
    <3> DEFINE s == Sent(a, b, pc[a])
               r == Read(a, b, pc[b])
    <3> HIDE DEF s, r
    <3>3. LinkOK(a, b, s, r)
      BY <3>1 DEF s, r
    <3>4. LinkOK(a, b, s, r)'
      BY <1>u, <1>3, <1>g, <2>1, <3>2, <3>3, LinkSame
    <3>5. QED
      BY <3>4 DEF s, r
  <2>2. QED
    BY <2>1 DEF LinksOK
<1>10. Tallied(pc)'
  BY <1>1, <1>u DEF Tallied, SentTo, ReadFrom, Count, Asked
<1>11. QED
  BY <1>1, <1>4, <1>5, <1>6, <1>7, <1>8, <1>9, <1>10 DEF SInv

LEMMA GoneKeeps ==
  ASSUME NEW pc, SInv(pc), NEW p \in Process, SendToGone(p)
  PROVE  Gone /\ \E pc2 : SInv(pc2)'
<1>1. /\ Calls(p, "send") /\ status[Call(p).peer] # "running"
      /\ UNCHANGED <<channel, sizes, accept, verdict, crashes>>
  BY DEF SendToGone
<1>2. CASE todo' = [todo EXCEPT ![p] = Tail(@)] /\ CountSent(p) /\ UNCHANGED status
  BY <1>1, <1>2, LostKeeps
<1>3. CASE status' = [status EXCEPT ![p] = "died"] /\ UNCHANGED <<todo, counted>>
  <2>1. status[p] = "running"
    BY <1>1 DEF Calls
  <2>2. crashes' \in 0 .. MaxCrashes
    BY <1>1 DEF SInv, SessionTypes
  <2>3. SInv(pc)'
    BY <1>1, <1>3, <2>1, <2>2, StopKeeps
  <2>4. Gone
    BY <1>1, SentToGone
  <2>5. QED
    BY <2>3, <2>4
<1>4. QED
  BY <1>2, <1>3 DEF SendToGone

LEMMA CheckPoint ==
  ASSUME NEW k0, TodoAt(todo["c"], "c", k0, sizes, verdict), PointOK("c", k0, accept, verdict),
         todo["c"] # <<>>, Head(todo["c"]).do = "check", verdict \in {0, 1, Unread}
  PROVE  k0 = 9
<1> DEFINE t == todo["c"]
           x == sizes[<<"p0", "c">>]
           y == sizes[<<"p1", "c">>]
           z == sizes[<<"p2", "c">>]
<1>1. ClientTodo(t, k0, x, y, z, verdict)
  BY DEF TodoAt
<1>2. /\ k0 \in 1 .. 19 /\ (k0 \in 10 .. 11 => verdict \in {0, 1}) /\ (k0 \in 12 .. 18 => verdict = 1)
  BY DEF PointOK
<1> HIDE DEF t, x, y, z
<1>3. k0 \notin {10, 11, 12, 13}
  <2>1. SUFFICES ASSUME k0 \in {10, 11, 12, 13} PROVE FALSE
    OBVIOUS
  <2>2. verdict \in {0, 1} /\ (k0 >= 12 => verdict = 1)
    BY <1>2, <2>1
  <2>3. PICK q, i : Head(t) = SendAt("c", q, i, z, verdict)
    BY <1>1, <2>1, <2>2, ClientSends
  <2>4. QED
    BY <2>3, RecordFacts DEF t
<1>4. k0 \notin {18, 19}
  BY <1>1 DEF ClientTodo, t
<1>5. k0 \notin {3, 5, 7}
  BY <1>1, ClientSize, RecordFacts DEF t
<1>6. k0 \notin PlainReads
  <2>1. SUFFICES ASSUME k0 \in PlainReads PROVE FALSE
    OBVIOUS
  <2>2. PICK q, i : ClientHears(t, k0, x, y, z, verdict, q, i)
    BY <1>1, <2>1, ClientReads
  <2>3. Head(t) = RecvAt(q, "c", i, OneOf(q, x, y, z))
    BY <2>2 DEF ClientHears
  <2>4. QED
    BY <2>3, RecordFacts DEF t
<1>7. QED
  BY <1>2, <1>3, <1>4, <1>5, <1>6 DEF PlainReads

LEMMA CheckKeeps ==
  ASSUME NEW pc, SInv(pc), Check
  PROVE  SInv([pc EXCEPT !["c"] = 10])'
<1> DEFINE pc2 == [pc EXCEPT !["c"] = 10]
           t == todo["c"]
<1>0. /\ "c" \in Process /\ "c" \notin Server
      /\ <<"p0", "c">> \in Link /\ <<"p1", "c">> \in Link /\ <<"p2", "c">> \in Link
  BY DEF Process, Server, Link
<1>1. /\ pc \in [Process -> Nat] /\ SessionTypes /\ AtPoints(pc) /\ EndedDone /\ VerdictMatches
      /\ SizesAgree(pc) /\ AcceptTold(pc) /\ LinksOK(pc) /\ Tallied(pc)
  BY DEF SInv
<1>2. pc2 \in [Process -> Nat] /\ pc2["c"] = 10 /\ \A b \in Process : b # "c" => pc2[b] = pc[b]
  BY <1>0, <1>1
<1>3. PICK v \in {0, 1} : /\ v = 1 => SizesMatch
                          /\ verdict' = v /\ todo' = [todo EXCEPT !["c"] = Decided(v) \o Tail(@)]
  <2>1. PICK v \in (IF SizesMatch THEN {0, 1} ELSE {0}) :
             verdict' = v /\ todo' = [todo EXCEPT !["c"] = Decided(v) \o Tail(@)]
    BY DEF Check
  <2>2. v \in {0, 1} /\ (v = 1 => SizesMatch)
    OBVIOUS
  <2>3. QED
    BY <2>1, <2>2
<1>4. /\ status["c"] = "running" /\ t # <<>> /\ Head(t).do = "check"
      /\ channel' = channel /\ status' = status /\ sizes' = sizes /\ accept' = accept
      /\ counted' = counted /\ crashes' = crashes
  BY DEF Check, Calls, Call
<1>g. Gone' = Gone
  BY <1>4 DEF Gone
<1>5. pc["c"] = 9
  BY <1>0, <1>1, <1>4, CheckPoint DEF AtPoints, SessionTypes
<1> DEFINE x == sizes[<<"p0", "c">>]
           y == sizes[<<"p1", "c">>]
           z == sizes[<<"p2", "c">>]
<1>6. ClientTodo(t, 9, x, y, z, verdict)
  BY <1>0, <1>1, <1>5 DEF AtPoints, TodoAt
<1>7. verdict = Unread
  BY <1>0, <1>1, <1>5 DEF AtPoints, PointOK
<1>8. /\ \A w \in {0, 1} : ClientTodo(Decided(w) \o Tail(t), 10, x, y, z, w)
      /\ \A b \in Process : Sent("c", b, 10) = Sent("c", b, 9) /\ Read(b, "c", 10) = Read(b, "c", 9)
  <2> HIDE DEF t, x, y
  <2>1. QED
    BY <1>6, ClientChecks
<1>9. /\ todo'["c"] = Decided(v) \o Tail(t) /\ \A b \in Process : b # "c" => todo'[b] = todo[b]
  BY <1>0, <1>1, <1>3 DEF SessionTypes
<1>10. ClientTodo(todo'["c"], 10, x, y, z, v)
  BY <1>3, <1>8, <1>9
<1>11. todo'["c"] \in Seq(CallRec)
  <2>1. x \in Nat /\ y \in Nat /\ z \in Nat
    <3>1. \A l \in Link : sizes[l] \in 0 .. MaxCount
      BY <1>1 DEF SessionTypes
    <3>2. QED
      BY <1>0, <3>1, SessionAssumption
  <2> HIDE DEF t, x, y, z
  <2>2. v \in Nat /\ v \in {0, 1}
    BY <1>3
  <2>3. QED
    BY <1>10, <2>1, <2>2, TodoTypes
<1>12. SessionTypes'
  <2>1. todo' \in [Process -> Seq(CallRec)]
    <3>1. todo \in [Process -> Seq(CallRec)] /\ todo' = [todo EXCEPT !["c"] = todo'["c"]]
      BY <1>1, <1>3, <1>9 DEF SessionTypes
    <3>2. QED
      BY <1>11, <3>1
  <2>2. QED
    BY <1>1, <1>3, <1>4, <2>1 DEF SessionTypes
<1>13. AtPoints(pc2)'
  <2>1. ASSUME NEW b \in Process
        PROVE  TodoAt(todo'[b], b, pc2[b], sizes', verdict') /\ PointOK(b, pc2[b], accept', verdict')
    <3>1. CASE b = "c"
      <4>1. TodoAt(todo'["c"], "c", 10, sizes', verdict')
        BY <1>0, <1>3, <1>4, <1>10 DEF TodoAt
      <4>2. PointOK("c", 10, accept', verdict')
        BY <1>0, <1>3 DEF PointOK, Unread
      <4>3. QED
        BY <1>2, <3>1, <4>1, <4>2
    <3>2. CASE b # "c"
      <4>1. TodoAt(todo[b], b, pc[b], sizes, verdict) /\ PointOK(b, pc[b], accept, verdict)
        BY <1>1, <2>1 DEF AtPoints
      <4>2. QED
        BY <1>2, <1>4, <1>9, <2>1, <3>2, <4>1 DEF TodoAt, PointOK
    <3>3. QED
      BY <3>1, <3>2
  <2>2. QED
    BY <2>1 DEF AtPoints
<1>14. EndedDone'
  BY <1>1, <1>4, <1>9 DEF EndedDone
<1>15. VerdictMatches'
  BY <1>3, <1>4 DEF VerdictMatches, SizesMatch
<1>16. AcceptTold(pc2)'
  <2>1. \A b \in Server : accept[b] = Unread
    BY <1>1, <1>4, <1>7 DEF AcceptTold
  <2>2. QED
    BY <1>4, <2>1 DEF AcceptTold
<1>17. SizesAgree(pc2)'
  <2>1. \A b \in Server : pc2[b] = pc[b] /\ Read(b, "c", pc2["c"]) = Read(b, "c", pc["c"])
    BY <1>0, <1>2, <1>5, <1>8 DEF Process
  <2>2. QED
    BY <1>1, <1>4, <1>g, <2>1 DEF SizesAgree
<1>18. LinksOK(pc2)'
  <2>1. ASSUME NEW a \in Process, NEW b \in Process, Pair(a, b)
        PROVE  LinkOK(a, b, Sent(a, b, pc2[a]), Read(a, b, pc2[b]))'
    <3> DEFINE s == Sent(a, b, pc[a])
               r == Read(a, b, pc[b])
    <3>1. s = Sent(a, b, pc2[a]) /\ r = Read(a, b, pc2[b])
      BY <1>2, <1>5, <1>8, <2>1
    <3>2. LinkOK(a, b, s, r) /\ r \in Nat
      BY <1>1, <2>1, Numbers DEF LinksOK, AtPoints
    <3>3. a = "c" => s = 0
      BY <1>5, <2>1 DEF Sent, ClientSent, Pair, Server
    <3> HIDE DEF s, r
    <3>4. CASE a = "c"
      <4>1. LinkOK(a, b, 0, r)'
        BY <1>1, <1>4, <2>1, <3>2, <3>3, <3>4, LinkUnsaid DEF SessionTypes
      <4>2. QED
        BY <3>1, <3>3, <3>4, <4>1
    <3>5. CASE a # "c"
      <4>1. Count(a)' = Count(a) /\ Carried(a)' = Carried(a) /\ Heard(a, b)' = Heard(a, b)
        BY <1>4, <3>5 DEF Count, Carried, Heard
      <4>2. LinkOK(a, b, s, r)'
        BY <1>4, <1>g, <3>2, <4>1, LinkSame
      <4>3. QED
        BY <3>1, <4>2
    <3>6. QED
      BY <3>4, <3>5
  <2>2. QED
    BY <2>1 DEF LinksOK
<1>19. Tallied(pc2)'
  <2>1. ASSUME NEW b \in Process
        PROVE  \A a \in Process : /\ SentTo(b, a, pc2[b])' = SentTo(b, a, pc[b])
                                  /\ ReadFrom(a, b, pc2[b])' = ReadFrom(a, b, pc[b])
    BY <1>2, <1>4, <1>5, <1>8, <2>1 DEF SentTo, ReadFrom, Count, Asked
  <2>2. QED
    BY <1>1, <1>4, <2>1 DEF Tallied, Process, Server
<1>20. QED
  BY <1>2, <1>12, <1>13, <1>14, <1>15, <1>16, <1>17, <1>18, <1>19 DEF SInv

LEMMA TakeEffect ==
  ASSUME NEW p, NEW q, NEW i, NEW v, SessionTypes, p \in Process, Take(p, v), Pair(q, p),
         i \in Nat \ {0}, Head(todo[p]) = RecvAt(q, p, i, Asked(q, p))
  PROVE  /\ todo' = [todo EXCEPT ![p] = TodoAfter(p, q, v)]
         /\ sizes' = SizesAfter(p, q, i, v) /\ accept' = AcceptAfter(p, q, i, v)
<1>2. Asked(q, p) \in Nat
  BY TypesFacts
<1>3. Call(p).peer = q /\ Call(p).section = Section(q, p, i, Asked(q, p))
  BY RecordFacts DEF Call
<1> DEFINE f == Deciding(Call(p).section)
<1>4. /\ (f \in {"height", "size"}) <=> (i = KeyIndex(q) /\ q # "c")
      /\ (f = "accept") <=> (i = KeyIndex(q) /\ q = "c")
  BY <1>2, <1>3, FieldRead
<1>5. /\ todo' = [todo EXCEPT ![p] = After(p, q, f, v) \o Tail(@)]
      /\ sizes' = IF f \in {"height", "size"} THEN [sizes EXCEPT ![<<q, p>>] = v] ELSE sizes
      /\ accept' = IF f = "accept" THEN [accept EXCEPT ![p] = v] ELSE accept
  BY <1>3 DEF Take
<1>6. todo' = [todo EXCEPT ![p] = TodoAfter(p, q, v)]
  BY <1>5 DEF TodoAfter
<1> HIDE DEF f
<1>7. QED
  BY <1>4, <1>5, <1>6 DEF SizesAfter, AcceptAfter

LEMMA TakeKeeps ==
  ASSUME NEW pc, NEW p, NEW q, NEW i, NEW v, NEW k, SInv(pc), p \in Process,
         status[p] = "running", Reads(p, pc[p], q, i), ReadsNext(p, pc[p], q, i, v, k),
         v \in Possible(q, i), Take(p, v), CountReceived(p), todo[p] # <<>>,
         UNCHANGED <<status, verdict, crashes>>,
         channel' \in [Link -> Seq(Packet)], \A l \in Link : Len(channel'[l]) <= Capacity,
         \A l \in Link : l # <<q, p>> => channel'[l] = channel[l],
         LinkOK(q, p, Sent(q, p, pc[q]), i)',
         i = KeyIndex(q) /\ q \in Server => \/ Gone /\ status[q] # "running"
                                            \/ Sent(q, p, pc[q]) >= 2 /\ v = sizes[<<"p2", q>>],
         i = KeyIndex(q) /\ q = "c" => IF Sent("c", p, pc["c"]) >= 1 THEN v = verdict
                                       ELSE status["c"] = "died"
  PROVE  SInv([pc EXCEPT ![p] = k])'
<1> DEFINE pc2 == [pc EXCEPT ![p] = k]
<1>u. status' = status /\ verdict' = verdict /\ crashes' = crashes
  OBVIOUS
<1>g. Gone' = Gone
  BY <1>u DEF Gone
<1>1. /\ pc \in [Process -> Nat] /\ SessionTypes /\ AtPoints(pc) /\ EndedDone /\ VerdictMatches
      /\ SizesAgree(pc) /\ AcceptTold(pc) /\ LinksOK(pc) /\ Tallied(pc)
  BY DEF SInv
<1>2. /\ k \in Nat /\ Hears(p, pc[p], k, q, i) /\ TodoAfter(p, q, v) \in Seq(CallRec)
      /\ TodoAt(TodoAfter(p, q, v), p, k, SizesAfter(p, q, i, v), verdict)
      /\ PointOK(p, k, AcceptAfter(p, q, i, v), verdict)
  BY DEF ReadsNext
<1>3. pc2 \in [Process -> Nat] /\ pc2[p] = k /\ \A b \in Process : b # p => pc2[b] = pc[b]
  BY <1>1, <1>2
<1>4. /\ Pair(q, p) /\ i = Read(q, p, pc[p]) + 1 /\ i \in Nat \ {0}
      /\ \A b \in Process : Read(b, p, k) = IF b = q THEN i ELSE Read(b, p, pc[p])
      /\ \A b \in Process : Sent(p, b, k) = Sent(p, b, pc[p])
  BY <1>2 DEF Hears
<1>5. /\ todo' = [todo EXCEPT ![p] = TodoAfter(p, q, v)]
      /\ sizes' = SizesAfter(p, q, i, v) /\ accept' = AcceptAfter(p, q, i, v)
  <2>1. Head(todo[p]) = RecvAt(q, p, i, Asked(q, p))
    BY DEF Reads
  <2>2. QED
    BY <1>1, <1>4, <2>1, TakeEffect
<1>6. <<q, p>> \in Link /\ q \in Process /\ p # q
  BY <1>4, PairFacts
<1>7. \A l \in Link : l # <<q, p>> => sizes'[l] = sizes[l]
  BY <1>1, <1>5, <1>6 DEF SizesAfter, SessionTypes
<1>8. \A b \in Server : b # p => accept'[b] = accept[b]
  BY <1>1, <1>5 DEF AcceptAfter, SessionTypes
<1>9. /\ i # KeyIndex(q) \/ q = "c" => sizes' = sizes
      /\ i # KeyIndex(q) \/ q # "c" => accept' = accept
      /\ i = KeyIndex(q) /\ q # "c" => sizes'[<<q, p>>] = v
      /\ i = KeyIndex(q) /\ q = "c" => accept'[p] = v
  <2>1. q = "c" => p \in Server
    BY <1>4 DEF Pair, Server
  <2>2. QED
    BY <1>1, <1>5, <1>6, <2>1 DEF SizesAfter, AcceptAfter, SessionTypes
<1>10. /\ todo'[p] = TodoAfter(p, q, v) /\ \A b \in Process : b # p => todo'[b] = todo[b]
  BY <1>1, <1>5 DEF SessionTypes
<1>11. \A a, b \in Process : Sent(a, b, pc[a]) \in Nat /\ Read(a, b, pc[b]) \in Nat
  BY <1>1, Numbers DEF AtPoints
<1>12. SessionTypes'
  <2>1. todo' \in [Process -> Seq(CallRec)]
    BY <1>1, <1>2, <1>5 DEF SessionTypes
  <2>2. sizes' \in [Link -> 0 .. MaxCount]
    BY <1>1, <1>5 DEF SizesAfter, SessionTypes, Possible
  <2>3. accept' \in [Server -> {0, 1, Unread}]
    BY <1>1, <1>5 DEF AcceptAfter, SessionTypes, Possible
  <2>4. counted' \in [Process -> [sent : Nat, received : Nat]]
    <3>1. todo[p] \in Seq(CallRec)
      BY <1>1, TypesFacts
    <3>2. Head(todo[p]) \in CallRec
      BY <3>1, HeadTailProperties
    <3>3. Call(p).section \in Seq(Field)
      BY <3>2 DEF Call, CallRec
    <3> DEFINE w == Bytes(Call(p).section)
    <3>4. w \in Nat
      BY <3>3, BytesType
    <3>5. counted \in [Process -> [sent : Nat, received : Nat]]
      BY <1>1 DEF SessionTypes
    <3>6. counted' = [counted EXCEPT ![p].received = @ + w]
      BY DEF CountReceived
    <3> HIDE DEF w
    <3>7. [counted EXCEPT ![p].received = @ + w] \in [Process -> [sent : Nat, received : Nat]]
      BY <3>4, <3>5, CountFacts
    <3>8. QED
      BY <3>6, <3>7
  <2>5. QED
    BY <1>1, <1>u, <2>1, <2>2, <2>3, <2>4 DEF SessionTypes
<1>13. AtPoints(pc2)'
  <2>1. ASSUME NEW b \in Process
        PROVE  TodoAt(todo'[b], b, pc2[b], sizes', verdict') /\ PointOK(b, pc2[b], accept', verdict')
    <3>1. CASE b = p
      BY <1>2, <1>3, <1>5, <1>10, <1>u, <3>1
    <3>2. CASE b # p
      <4>1. TodoAt(todo[b], b, pc[b], sizes, verdict) /\ PointOK(b, pc[b], accept, verdict)
        BY <1>1, <2>1 DEF AtPoints
      <4>2. todo'[b] = todo[b] /\ pc2[b] = pc[b] /\ verdict' = verdict
        BY <1>3, <1>10, <1>u, <2>1, <3>2
      <4>3. b \in Server => sizes'[<<"p2", b>>] = sizes[<<"p2", b>>]
        BY <1>7, <2>1, <3>2 DEF Link, Server
      <4>4. b = "c" => /\ sizes'[<<"p0", "c">>] = sizes[<<"p0", "c">>]
                       /\ sizes'[<<"p1", "c">>] = sizes[<<"p1", "c">>]
                       /\ sizes'[<<"p2", "c">>] = sizes[<<"p2", "c">>]
        BY <1>7, <2>1, <3>2 DEF Link, Server
      <4>5. TodoAt(todo'[b], b, pc2[b], sizes', verdict')
        BY <4>1, <4>2, <4>3, <4>4 DEF TodoAt
      <4>6. b \in Server => accept'[b] = accept[b]
        BY <1>8, <3>2
      <4>7. PointOK(b, pc2[b], accept', verdict')
        BY <4>1, <4>2, <4>6 DEF PointOK
      <4>8. QED
        BY <4>5, <4>7
    <3>3. QED
      BY <3>1, <3>2
  <2>2. QED
    BY <2>1 DEF AtPoints
<1>14. EndedDone'
  BY <1>1, <1>10, <1>u DEF EndedDone
<1>15. i = KeyIndex(q) => /\ q = "p2" => \A b \in Process : Sent(p, b, pc[p]) = 0
                          /\ p = "c" => verdict = Unread
  <2>1. PointOK(p, pc[p], accept, verdict)
    BY <1>1 DEF AtPoints
  <2> DEFINE k0 == pc[p]
  <2>2. PointOK(p, k0, accept, verdict) /\ i = Read(q, p, k0) + 1
    BY <1>4, <2>1
  <2> HIDE DEF k0
  <2>3. i = KeyIndex(q) => /\ q = "p2" => \A b \in Process : Sent(p, b, k0) = 0
                           /\ p = "c" => verdict = Unread
    BY <1>4, <2>2, KeyReads
  <2>4. QED
    BY <2>3 DEF k0
<1>16. VerdictMatches'
  <2>1. SUFFICES ASSUME verdict = 1 PROVE SizesMatch'
    BY <1>u DEF VerdictMatches
  <2>2. p = "c" => i # KeyIndex(q)
    BY <1>15, <2>1 DEF Unread
  <2>3. p # "c" \/ sizes' = sizes
    BY <1>9, <2>2
  <2>4. /\ sizes'[<<"p0", "c">>] = sizes[<<"p0", "c">>]
        /\ sizes'[<<"p1", "c">>] = sizes[<<"p1", "c">>]
        /\ sizes'[<<"p2", "c">>] = sizes[<<"p2", "c">>]
    BY <1>7, <2>3 DEF Link, Server
  <2>5. QED
    BY <1>1, <2>1, <2>4 DEF VerdictMatches, SizesMatch
<1>17. AcceptTold(pc2)'
  <2>1. ASSUME NEW b \in Server, accept'[b] # Unread
        PROVE  IF Sent("c", b, pc2["c"]) >= 1 THEN accept'[b] = verdict ELSE status["c"] = "died"
    <3>0. Sent("c", b, pc2["c"]) = Sent("c", b, pc["c"])
      <4>1. "c" \in Process /\ b \in Process
        BY DEF Process
      <4>2. QED
        BY <1>3, <1>4, <4>1
    <3>1. CASE accept'[b] = accept[b]
      BY <1>1, <2>1, <3>0, <3>1 DEF AcceptTold
    <3>2. CASE accept'[b] # accept[b]
      <4>1. b = p /\ i = KeyIndex(q) /\ q = "c"
        BY <1>8, <1>9, <2>1, <3>2
      <4>2. QED
        BY <1>9, <3>0, <4>1
    <3>3. QED
      BY <3>1, <3>2
  <2>2. QED
    BY <1>u, <2>1 DEF AcceptTold
<1>18. SizesAgree(pc2)'
  <2>1. ASSUME NEW a \in Server, Read(a, "c", pc2["c"]) >= 2
        PROVE  \/ Gone' /\ status'[a] # "running"
               \/ Sent(a, "c", pc2[a]) >= 2 /\ sizes'[<<a, "c">>] = sizes'[<<"p2", a>>]
    <3>0. a \in Process /\ "c" \in Process /\ a # "c" /\ <<a, "c">> \in Link /\ <<"p2", a>> \in Link
      BY <2>1 DEF Process, Server, Link
    <3>1. Sent(a, "c", pc2[a]) = Sent(a, "c", pc[a])
      BY <1>3, <1>4, <3>0
    <3>2. CASE p = "c" /\ q = a /\ i = KeyIndex(q)
      <4>1. sizes'[<<a, "c">>] = v
        BY <1>9, <3>0, <3>2
      <4>2. sizes'[<<"p2", a>>] = sizes[<<"p2", a>>]
        BY <1>7, <3>0, <3>2
      <4>3. \/ Gone /\ status[a] # "running"
            \/ Sent(a, "c", pc[a]) >= 2 /\ v = sizes[<<"p2", a>>]
        BY <3>2
      <4>4. QED
        BY <1>u, <1>g, <3>1, <4>1, <4>2, <4>3
    <3>3. CASE ~(p = "c" /\ q = a /\ i = KeyIndex(q))
      <4>1. Read(a, "c", pc["c"]) >= 2
        <5>1. CASE p = "c" /\ q = a
          <6>1. Read(a, "c", pc2["c"]) = i /\ i = Read(a, "c", pc["c"]) + 1 /\ i # 2
            BY <1>3, <1>4, <2>1, <3>0, <3>3, <5>1 DEF KeyIndex
          <6>2. QED
            <7>1. Read(a, "c", pc["c"]) \in Nat
              BY <1>11, <3>0
            <7>2. QED
              BY <2>1, <6>1, <7>1
        <5>2. CASE ~(p = "c" /\ q = a)
          <6>1. Read(a, "c", pc2["c"]) = Read(a, "c", pc["c"])
            BY <1>3, <1>4, <3>0, <5>2
          <6>2. QED
            BY <2>1, <6>1
        <5>3. QED
          BY <5>1, <5>2
      <4>2. \/ Gone /\ status[a] # "running"
            \/ Sent(a, "c", pc[a]) >= 2 /\ sizes[<<a, "c">>] = sizes[<<"p2", a>>]
        BY <1>1, <2>1, <4>1 DEF SizesAgree
      <4>3. sizes'[<<a, "c">>] = sizes[<<a, "c">>]
        <5>1. CASE p = "c" /\ q = a
          BY <1>9, <3>3, <5>1
        <5>2. CASE ~(p = "c" /\ q = a)
          BY <1>7, <3>0, <5>2
        <5>3. QED
          BY <5>1, <5>2
      <4>4. Sent(a, "c", pc[a]) >= 2 => sizes'[<<"p2", a>>] = sizes[<<"p2", a>>]
        <5>1. CASE p = a /\ q = "p2"
          <6>1. Sent(a, "c", pc[a]) >= 2 => i # KeyIndex(q)
            BY <1>15, <3>0, <5>1
          <6>2. QED
            BY <1>9, <6>1
        <5>2. CASE ~(p = a /\ q = "p2")
          BY <1>7, <3>0, <5>2
        <5>3. QED
          BY <5>1, <5>2
      <4>5. QED
        BY <1>u, <1>g, <3>1, <4>2, <4>3, <4>4
    <3>4. QED
      BY <3>2, <3>3
  <2>2. QED
    BY <2>1 DEF SizesAgree
<1>19. LinksOK(pc2)'
  <2>1. ASSUME NEW a \in Process, NEW b \in Process, Pair(a, b)
        PROVE  LinkOK(a, b, Sent(a, b, pc2[a]), Read(a, b, pc2[b]))'
    <3> DEFINE s == Sent(a, b, pc[a])
               r == Read(a, b, pc[b])
    <3>1. Sent(a, b, pc2[a]) = s
      BY <1>3, <1>4, <2>1
    <3>2. LinkOK(a, b, s, r) /\ s \in Nat /\ r \in Nat
      BY <1>1, <1>11, <2>1 DEF LinksOK
    <3>3. CASE a = q /\ b = p
      <4>1. Read(a, b, pc2[b]) = i
        BY <1>3, <1>4, <1>6, <3>3
      <4>2. QED
        BY <3>1, <3>3, <4>1
    <3>4. CASE ~(a = q /\ b = p)
      <4>1. Read(a, b, pc2[b]) = r
        BY <1>3, <1>4, <2>1, <3>4
      <4>2. <<a, b>> \in Link /\ <<a, b>> # <<q, p>>
        BY <2>1, <3>4, PairFacts
      <4>3. channel'[<<a, b>>] = channel[<<a, b>>] /\ sizes'[<<a, b>>] = sizes[<<a, b>>]
        BY <1>7, <4>2
      <4>4. Heard(a, b)' = Heard(a, b)
        <5>1. CASE a = "c"
          <6>1. b \in Server /\ (b = p => q # "c")
            BY <2>1, <3>4, <5>1 DEF Pair
          <6>2. accept'[b] = accept[b]
            BY <1>8, <1>9, <6>1
          <6>3. QED
            BY <5>1, <6>2 DEF Heard
        <5>2. CASE a # "c"
          BY <4>3, <5>2 DEF Heard
        <5>3. QED
          BY <5>1, <5>2
      <4>5. CASE a = p /\ q = "p2" /\ i = KeyIndex(q)
        <5>1. s = 0
          BY <1>15, <2>1, <4>5
        <5> HIDE DEF s, r
        <5>2. LinkOK(a, b, 0, r)'
          BY <1>1, <1>u, <2>1, <3>2, <4>3, <4>5, <5>1, LinkUnsaid DEF SessionTypes
        <5>3. QED
          BY <3>1, <4>1, <5>1, <5>2
      <4>6. CASE ~(a = p /\ q = "p2" /\ i = KeyIndex(q))
        <5>1. a # "p2" => sizes'[<<"p2", a>>] = sizes[<<"p2", a>>]
          <6>1. CASE a = p /\ q = "p2"
            BY <1>9, <4>6, <6>1
          <6>2. CASE ~(a = p /\ q = "p2") /\ a # "p2"
            BY <1>7, <2>1, <6>2 DEF Link, Process, Server
          <6>3. QED
            BY <6>1, <6>2
        <5>2. Count(a)' = Count(a) /\ Carried(a)' = Carried(a)
          BY <1>u, <5>1 DEF Count, Carried
        <5> HIDE DEF s, r
        <5>3. LinkOK(a, b, s, r)'
          BY <1>u, <1>g, <3>2, <4>3, <4>4, <5>2, LinkSame
        <5>4. QED
          BY <3>1, <4>1, <5>3
      <4>7. QED
        BY <4>5, <4>6
    <3>5. QED
      BY <3>3, <3>4
  <2>2. QED
    BY <2>1 DEF LinksOK
<1>20. Tallied(pc2)'
  BY <1>1, <1>2, <1>7, <1>9, TallyRead DEF Reads
<1>21. QED
  BY <1>3, <1>12, <1>13, <1>14, <1>16, <1>17, <1>18, <1>19, <1>20 DEF SInv

LEMMA RecvKeeps ==
  ASSUME NEW pc, SInv(pc), NEW p \in Process, RecvSection(p)
  PROVE  \E pc2 : SInv(pc2)'
<1>1. /\ SessionTypes /\ LinksOK(pc) /\ TodoAt(todo[p], p, pc[p], sizes, verdict)
      /\ PointOK(p, pc[p], accept, verdict)
  BY DEF SInv, AtPoints
<1>2. /\ status[p] = "running" /\ todo[p] # <<>> /\ Head(todo[p]).do = "recv"
  BY DEF RecvSection, Calls, Call
<1>3. PICK q, i : CanRead(p, pc[p], q, i)
  BY <1>1, <1>2, ReadMoves
<1>4. /\ Pair(q, p) /\ i = Read(q, p, pc[p]) + 1 /\ i \in Nat \ {0}
      /\ Head(todo[p]) = RecvAt(q, p, i, Asked(q, p)) /\ Reads(p, pc[p], q, i)
  BY <1>3 DEF CanRead, Reads
<1>5. Call(p).peer = q
  BY <1>4, RecordFacts DEF Call
<1> DEFINE l == <<q, p>>
           v == Head(channel[l]).val
<1>6. l \in Link /\ q \in Process /\ p # q
  BY <1>4, PairFacts
<1>7. /\ channel[l] # <<>> /\ channel' = [channel EXCEPT ![l] = Tail(@)]
      /\ Take(p, v) /\ CountReceived(p) /\ UNCHANGED <<status, verdict, crashes>>
  BY <1>5 DEF RecvSection
<1>8. channel \in [Link -> Seq(Packet)] /\ \A ll \in Link : Len(channel[ll]) <= Capacity
  BY <1>1 DEF SessionTypes
<1>9. /\ channel'[l] = Tail(channel[l]) /\ \A ll \in Link : ll # l => channel'[ll] = channel[ll]
  BY <1>6, <1>7, <1>8
<1> DEFINE s == Sent(q, p, pc[q])
           r == Read(q, p, pc[p])
<1>10. s \in Nat /\ r \in Nat /\ i = r + 1
  BY <1>4, <1>6, Numbers DEF SInv, AtPoints
<1>11. LinkOK(q, p, s, r)
  BY <1>1, <1>4, <1>6 DEF LinksOK
<1>12. LinkGood(q, p, s, r)
  BY <1>2, <1>7, <1>11 DEF LinkOK
<1>13. channel[l] \in Seq(Packet) /\ Count(q) \in Nat /\ Carried(q) \in Nat
       /\ (q # "c" => Carried(q) \in 0 .. MaxCount)
  BY <1>1, <1>4, TypesFacts
<1> HIDE DEF s, r, l
<1>14. Aligned(channel[l], q, p, s, r, Count(q), Carried(q))
  BY <1>12 DEF LinkGood, l
<1>15. /\ Tail(channel[l]) \in Seq(Packet) /\ Len(Tail(channel[l])) <= Len(channel[l]) /\ r + 1 <= s
       /\ Head(channel[l]) = Message(q, p, r + 1, Count(q), Carried(q))
       /\ Aligned(Tail(channel[l]), q, p, s, r + 1, Count(q), Carried(q))
  BY <1>7, <1>10, <1>13, <1>14, TailAligned
<1>16. v = Val(q, i, Carried(q))
  BY <1>10, <1>15, RecordFacts
<1>17. /\ i = KeyIndex(q) => v = Carried(q)
       /\ i # KeyIndex(q) => v = 0
  BY <1>16 DEF Val
<1>18. v \in Possible(q, i)
  <2>1. CASE i # KeyIndex(q)
    BY <1>17, <2>1 DEF Possible
  <2>2. CASE i = KeyIndex(q) /\ q # "c"
    BY <1>13, <1>17, <2>2 DEF Possible
  <2>3. CASE i = KeyIndex(q) /\ q = "c"
    <3>1. PointOK("c", pc["c"], accept, verdict) /\ verdict \in {0, 1, Unread}
      BY <1>6, <2>3 DEF SInv, AtPoints, SessionTypes
    <3>2. s >= 1
      BY <1>10, <1>15
    <3>3. pc["c"] \in 1 .. 19 /\ ~(pc["c"] <= 9)
      BY <1>4, <2>3, <3>1, <3>2 DEF PointOK, s, Sent, ClientSent, Pair, Server
    <3>4. verdict # Unread
      BY <3>1, <3>3 DEF PointOK
    <3>5. Carried(q) = verdict
      BY <2>3 DEF Carried
    <3>6. QED
      BY <1>17, <2>3, <3>1, <3>4, <3>5 DEF Possible
  <2>4. QED
    BY <2>1, <2>2, <2>3
<1> HIDE DEF v
<1>19. PICK k : ReadsNext(p, pc[p], q, i, v, k)
  BY <1>3, <1>18 DEF CanRead
<1>20. channel' \in [Link -> Seq(Packet)]
  BY <1>6, <1>7, <1>8, <1>15
<1>21. \A ll \in Link : Len(channel'[ll]) <= Capacity
  <2>1. /\ Len(channel[l]) \in Nat /\ Len(Tail(channel[l])) \in Nat /\ Capacity \in Nat
        /\ Len(channel[l]) <= Capacity
    BY <1>6, <1>8, <1>13, <1>15, LenProperties, SessionAssumption
  <2>2. Len(channel'[l]) <= Capacity
    BY <1>9, <1>15, <2>1
  <2>3. QED
    BY <1>8, <1>9, <2>2
<1>22. LinkOK(q, p, s, i)'
  <2>1. /\ sizes' = SizesAfter(p, q, i, v) /\ accept' = AcceptAfter(p, q, i, v)
    BY <1>1, <1>4, <1>7, TakeEffect
  <2>2. sizes \in [Link -> 0 .. MaxCount] /\ accept \in [Server -> {0, 1, Unread}]
    BY <1>1 DEF SessionTypes
  <2>3. q # "p2" => sizes'[<<"p2", q>>] = sizes[<<"p2", q>>]
    BY <1>4, <1>6, <2>1, <2>2 DEF SizesAfter, Pair, Link, Server
  <2>4. Count(q)' = Count(q) /\ Carried(q)' = Carried(q)
    BY <1>7, <2>3 DEF Count, Carried
  <2>5. i >= KeyIndex(q) => Heard(q, p)' = Carried(q)
    <3>1. CASE i = KeyIndex(q)
      <4>1. Heard(q, p)' = v
        <5>1. CASE q = "c"
          BY <1>4, <2>1, <2>2, <3>1, <5>1 DEF Heard, AcceptAfter, Pair
        <5>2. CASE q # "c"
          BY <1>6, <2>1, <2>2, <3>1, <5>2 DEF Heard, SizesAfter, l
        <5>3. QED
          BY <5>1, <5>2
      <4>2. QED
        BY <1>17, <3>1, <4>1
    <3>2. CASE i > KeyIndex(q)
      <4>1. r >= KeyIndex(q)
        BY <1>10, <3>2 DEF KeyIndex
      <4>2. Heard(q, p) = Carried(q)
        BY <1>12, <4>1 DEF LinkGood
      <4>3. sizes' = sizes /\ accept' = accept
        BY <2>1, <3>2 DEF SizesAfter, AcceptAfter, KeyIndex
      <4>4. QED
        BY <4>2, <4>3 DEF Heard
    <3>3. QED
      BY <1>10, <3>1, <3>2 DEF KeyIndex
  <2>6. LinkGood(q, p, s, i)'
    BY <1>9, <1>10, <1>15, <2>4, <2>5 DEF LinkGood, l
  <2>7. QED
    BY <2>6 DEF LinkOK
<1>23. i = KeyIndex(q) /\ q \in Server =>
         \/ Gone /\ status[q] # "running"
         \/ Sent(q, p, pc[q]) >= 2 /\ v = sizes[<<"p2", q>>]
  <2>1. SUFFICES ASSUME i = KeyIndex(q), q \in Server
                 PROVE  Sent(q, p, pc[q]) >= 2 /\ v = sizes[<<"p2", q>>]
    OBVIOUS
  <2>2. i = 2 /\ q # "c" /\ q # "p2"
    BY <2>1 DEF KeyIndex, Server
  <2>3. QED
    BY <1>10, <1>15, <1>17, <2>1, <2>2 DEF Carried, Count, s
<1>24. i = KeyIndex(q) /\ q = "c" => IF Sent("c", p, pc["c"]) >= 1 THEN v = verdict
                                     ELSE status["c"] = "died"
  <2>1. SUFFICES ASSUME i = KeyIndex(q), q = "c"
                 PROVE  Sent("c", p, pc["c"]) >= 1 /\ v = verdict
    OBVIOUS
  <2>2. v = verdict
    BY <1>17, <2>1 DEF Carried
  <2>3. Sent("c", p, pc["c"]) >= 1
    BY <1>10, <1>15, <2>1 DEF s
  <2>4. QED
    BY <2>2, <2>3
<1>25. k \in Nat
  BY <1>19 DEF ReadsNext
<1>26. SInv([pc EXCEPT ![p] = k])'
  BY <1>2, <1>4, <1>7, <1>9, <1>18, <1>19, <1>20, <1>21, <1>22, <1>23, <1>24, TakeKeeps DEF s, l
<1>27. QED
  BY <1>26

LEMMA EofKeeps ==
  ASSUME NEW pc, SInv(pc), NEW p \in Process, RecvEndOfFile(p)
  PROVE  Gone /\ \E pc2 : SInv(pc2)'
<1>1. /\ SessionTypes /\ LinksOK(pc) /\ TodoAt(todo[p], p, pc[p], sizes, verdict)
      /\ PointOK(p, pc[p], accept, verdict)
  BY DEF SInv, AtPoints
<1>2. /\ status[p] = "running" /\ todo[p] # <<>> /\ Head(todo[p]).do = "recv"
  BY DEF RecvEndOfFile, Calls, Call
<1>3. PICK q, i : CanRead(p, pc[p], q, i)
  BY <1>1, <1>2, ReadMoves
<1>4. /\ Pair(q, p) /\ i = Read(q, p, pc[p]) + 1 /\ i \in Nat \ {0}
      /\ Head(todo[p]) = RecvAt(q, p, i, Asked(q, p)) /\ Reads(p, pc[p], q, i)
  BY <1>3 DEF CanRead, Reads
<1>5. Call(p).peer = q /\ Call(p).section = Section(q, p, i, Asked(q, p))
  BY <1>4, RecordFacts DEF Call
<1> DEFINE l == <<q, p>>
           f == Deciding(Call(p).section)
<1>6. l \in Link /\ q \in Process /\ p # q
  BY <1>4, PairFacts
<1>7. PICK v \in Garbage(f) : Take(p, v)
  BY DEF RecvEndOfFile
<1>8. /\ channel[l] = <<>> /\ status[q] # "running" /\ CountReceived(p)
      /\ UNCHANGED <<channel, status, verdict, crashes>>
  BY <1>5 DEF RecvEndOfFile
<1>9. v \in Possible(q, i)
  <2>1. Asked(q, p) \in Nat
    BY <1>1, <1>4, TypesFacts
  <2>2. /\ (f \in {"height", "size"}) <=> (i = KeyIndex(q) /\ q # "c")
        /\ (f = "accept") <=> (i = KeyIndex(q) /\ q = "c")
    BY <1>4, <1>5, <2>1, FieldRead
  <2> HIDE DEF f
  <2>3. MaxCount \in Nat
    BY SessionAssumption
  <2>4. QED
    BY <1>7, <2>2, <2>3 DEF Possible, Garbage
<1>10. PICK k : ReadsNext(p, pc[p], q, i, v, k)
  BY <1>3, <1>9 DEF CanRead
<1>11. channel' = channel /\ channel \in [Link -> Seq(Packet)] /\ \A ll \in Link : Len(channel[ll]) <= Capacity
  BY <1>1, <1>8 DEF SessionTypes
<1> DEFINE s == Sent(q, p, pc[q])
           r == Read(q, p, pc[p])
<1>12. s \in Nat /\ r \in Nat /\ i = r + 1
  BY <1>4, <1>6, Numbers DEF SInv, AtPoints
<1>13. s <= r
  <2>1. LinkOK(q, p, s, r)
    BY <1>1, <1>4, <1>6 DEF LinksOK
  <2>2. Len(channel[l]) = 0
    BY <1>8
  <2>3. LinkGood(q, p, s, r) \/ s < r
    BY <1>2, <2>1 DEF LinkOK
  <2> HIDE DEF s, r
  <2>4. QED
    BY <1>12, <2>2, <2>3 DEF LinkGood, Aligned
<1>g. Gone /\ Gone'
  <2>1. status[q] \in {"ended", "died"}
    BY <1>1, <1>6, <1>8 DEF SessionTypes
  <2>2. status[q] = "ended" => Gone
    BY <1>2, <1>3, <1>8, EndedSent
  <2>3. Gone
    BY <1>6, <2>1, <2>2 DEF Gone
  <2>4. QED
    BY <1>8, <2>3 DEF Gone
<1>14. LinkOK(q, p, s, i)'
  <2>1. s < i
    BY <1>12, <1>13
  <2> HIDE DEF s
  <2>2. QED
    BY <1>8, <1>g, <2>1 DEF LinkOK
<1>15. i = KeyIndex(q) /\ q = "c" => IF Sent("c", p, pc["c"]) >= 1 THEN v = verdict
                                     ELSE status["c"] = "died"
  <2>1. SUFFICES ASSUME i = KeyIndex(q), q = "c"
                 PROVE  s = 0 /\ status["c"] = "died"
    OBVIOUS
  <2>2. r = 0
    <3>1. r + 1 = 1
      BY <1>12, <2>1 DEF KeyIndex, Server
    <3> HIDE DEF r
    <3>2. QED
      BY <1>12, <3>1
  <2>3. s = 0
    <3> HIDE DEF s, r
    <3>1. QED
      BY <1>12, <1>13, <2>2
  <2>4. status["c"] # "ended"
    <3>1. SUFFICES ASSUME status["c"] = "ended" PROVE FALSE
      OBVIOUS
    <3>2. pc["c"] \in {18, 19}
      BY <1>6, <2>1, <3>1, Finals
    <3>3. s >= 1
      BY <1>4, <2>1, <3>2 DEF Sent, ClientSent, Pair, Server
    <3>4. QED
      BY <2>3, <3>3
  <2>5. QED
    BY <1>1, <1>6, <1>8, <2>1, <2>3, <2>4 DEF SessionTypes
<1>16. SInv([pc EXCEPT ![p] = k])'
  BY <1>2, <1>4, <1>7, <1>8, <1>9, <1>10, <1>11, <1>g, <1>14, <1>15, TakeKeeps
<1>17. QED
  BY <1>16, <1>g

SessionInv == \E pc : SInv(pc)

LEMMA StepKeeps ==
  ASSUME SessionInv, NEW p \in Process, Step(p)
  PROVE  SessionInv'
<1>1. PICK pc : SInv(pc)
  BY DEF SessionInv
<1>2. CASE SendSection(p)
  BY <1>1, <1>2, SendKeeps DEF SessionInv
<1>3. CASE SendToGone(p)
  BY <1>1, <1>3, GoneKeeps DEF SessionInv
<1>4. CASE RecvSection(p)
  BY <1>1, <1>4, RecvKeeps DEF SessionInv
<1>5. CASE RecvEndOfFile(p)
  BY <1>1, <1>5, EofKeeps DEF SessionInv
<1>6. CASE AllocationFails(p)
  <2>1. /\ status[p] = "running" /\ status' = [status EXCEPT ![p] = "died"]
        /\ UNCHANGED <<todo, channel, sizes, accept, verdict, counted>> /\ crashes' = crashes
    BY <1>6 DEF AllocationFails, Calls
  <2>2. crashes' \in 0 .. MaxCrashes
    BY <1>1, <2>1 DEF SInv, SessionTypes
  <2>3. SInv(pc)'
    BY <1>1, <2>1, <2>2, StopKeeps
  <2>4. QED
    BY <2>3 DEF SessionInv
<1>7. CASE Return(p)
  <2>1. /\ status[p] = "running" /\ status' = [status EXCEPT ![p] = "ended"] /\ todo[p] = <<>>
        /\ UNCHANGED <<todo, channel, sizes, accept, verdict, counted>> /\ crashes' = crashes
    BY <1>7 DEF Return
  <2>2. crashes' \in 0 .. MaxCrashes
    BY <1>1, <2>1 DEF SInv, SessionTypes
  <2>3. SInv(pc)'
    BY <1>1, <2>1, <2>2, StopKeeps
  <2>4. QED
    BY <2>3 DEF SessionInv
<1>8. CASE Check
  <2>1. SInv([pc EXCEPT !["c"] = 10])'
    BY <1>1, <1>8, CheckKeeps
  <2>2. QED
    BY <2>1 DEF SessionInv
<1>9. QED
  BY <1>2, <1>3, <1>4, <1>5, <1>6, <1>7, <1>8 DEF Step

LEMMA CrashKeeps ==
  ASSUME SessionInv, NEW p \in Process, Crash(p)
  PROVE  SessionInv'
<1>1. PICK pc : SInv(pc)
  BY DEF SessionInv
<1>2. /\ status[p] = "running" /\ status' = [status EXCEPT ![p] = "died"]
      /\ crashes < MaxCrashes /\ crashes' = crashes + 1
      /\ UNCHANGED <<todo, channel, sizes, accept, verdict, counted>>
  BY DEF Crash
<1>3. crashes' \in 0 .. MaxCrashes
  <2>1. crashes \in 0 .. MaxCrashes /\ MaxCrashes \in Nat
    BY <1>1, SessionAssumption DEF SInv, SessionTypes
  <2>2. QED
    BY <1>2, <2>1
<1>4. SInv(pc)'
  BY <1>1, <1>2, <1>3, StopKeeps
<1>5. QED
  BY <1>4 DEF SessionInv

LEMMA StutterKeeps ==
  ASSUME SessionInv, UNCHANGED vars
  PROVE  SessionInv'
<1>1. PICK pc : SInv(pc)
  BY DEF SessionInv
<1>2. /\ todo' = todo /\ channel' = channel /\ status' = status /\ sizes' = sizes
      /\ accept' = accept /\ verdict' = verdict /\ counted' = counted /\ crashes' = crashes
  BY DEF vars
<1>3. SInv(pc)'
  <2>1. SessionTypes' /\ AtPoints(pc)' /\ EndedDone' /\ VerdictMatches'
    BY <1>1, <1>2 DEF SInv, SessionTypes, AtPoints, EndedDone, VerdictMatches, SizesMatch
  <2>2. SizesAgree(pc)' /\ AcceptTold(pc)'
    <3>1. Gone' = Gone
      BY <1>2 DEF Gone
    <3>2. QED
      BY <1>1, <1>2, <3>1 DEF SInv, SizesAgree, AcceptTold
  <2>3. LinksOK(pc)'
    <3>1. Gone' = Gone
      BY <1>2 DEF Gone
    <3>2. QED
      BY <1>1, <1>2, <3>1 DEF SInv, LinksOK, LinkOK, LinkGood, Count, Carried, Heard
  <2>4. Tallied(pc)'
    BY <1>1, <1>2 DEF SInv, Tallied, SentTo, ReadFrom, Count, Asked
  <2>5. QED
    BY <1>1, <2>1, <2>2, <2>3, <2>4 DEF SInv
<1>4. QED
  BY <1>3 DEF SessionInv

LEMMA SessionInitially == Init => SInv([p \in Process |-> 1])
<1> SUFFICES ASSUME Init PROVE SInv([p \in Process |-> 1])
  OBVIOUS
<1> DEFINE pc == [p \in Process |-> 1]
<1>1. /\ todo = [p \in Process |-> Start(p)] /\ channel = [l \in Link |-> <<>>]
      /\ status = [p \in Process |-> "running"] /\ sizes = [l \in Link |-> 0]
      /\ accept = [p \in Server |-> Unread] /\ verdict = Unread
      /\ counted = [p \in Process |-> [sent |-> 0, received |-> 0]] /\ crashes = 0
  BY DEF Init
<1>2. /\ DealerTodo(Start("p2"), 1) /\ \A p \in Server : \A n : ServerTodo(Start(p), p, 1, n)
      /\ \A x, y, z, v : ClientTodo(Start("c"), 1, x, y, z, v)
      /\ \A a, b \in Process : Sent(a, b, 1) = 0 /\ Read(a, b, 1) = 0
  BY StartPoints
<1>3. AtPoints(pc)
  <2>1. ASSUME NEW p \in Process
        PROVE  TodoAt(Start(p), p, 1, sizes, verdict) /\ PointOK(p, 1, accept, verdict)
    <3>1. TodoAt(Start(p), p, 1, sizes, verdict)
      BY <1>2 DEF TodoAt
    <3>2. PointOK(p, 1, accept, verdict)
      BY <1>1 DEF PointOK, Unread
    <3>3. QED
      BY <3>1, <3>2
  <2>2. QED
    BY <1>1, <2>1 DEF AtPoints
<1>4. SessionTypes
  <2>1. ASSUME NEW p \in Process
        PROVE  Start(p) \in Seq(CallRec)
    <3>1. CASE p = "p2"
      BY <1>2, <3>1, TodoTypes
    <3>2. CASE p \in Server
      <4>1. ServerTodo(Start(p), p, 1, 0)
        BY <1>2, <3>2
      <4>2. QED
        BY <3>2, <4>1, TodoTypes
    <3>3. CASE p = "c"
      <4>1. ClientTodo(Start("c"), 1, 0, 0, 0, 0)
        BY <1>2
      <4>2. QED
        BY <3>3, <4>1, TodoTypes
    <3>4. QED
      BY <3>1, <3>2, <3>3 DEF Process
  <2>2. todo \in [Process -> Seq(CallRec)]
    BY <1>1, <2>1
  <2>3. /\ channel \in [Link -> Seq(Packet)] /\ \A l \in Link : Len(channel[l]) <= Capacity
    BY <1>1, SessionAssumption
  <2>4. sizes \in [Link -> 0 .. MaxCount] /\ crashes \in 0 .. MaxCrashes
    BY <1>1, SessionAssumption
  <2>5. counted \in [Process -> [sent : Nat, received : Nat]]
    BY <1>1
  <2>6. QED
    BY <1>1, <2>2, <2>3, <2>4, <2>5 DEF SessionTypes
<1>5. EndedDone /\ VerdictMatches /\ AcceptTold(pc)
  BY <1>1 DEF EndedDone, VerdictMatches, AcceptTold, Unread
<1>6. SizesAgree(pc)
  BY <1>2 DEF SizesAgree, Process
<1>7. LinksOK(pc)
  <2>1. ASSUME NEW a \in Process, NEW b \in Process, Pair(a, b)
        PROVE  LinkOK(a, b, Sent(a, b, pc[a]), Read(a, b, pc[b]))
    <3>1. channel[<<a, b>>] = <<>>
      BY <1>1, <2>1, PairFacts
    <3>2. LinkGood(a, b, 0, 0)
      BY <3>1 DEF LinkGood, Aligned, KeyIndex
    <3>3. QED
      BY <1>2, <3>2 DEF LinkOK
  <2>2. QED
    BY <2>1 DEF LinksOK
<1>8. Tallied(pc)
  <2>1. \A p, b \in Process : SentTo(p, b, 1) = 0 /\ ReadFrom(b, p, 1) = 0
    BY <1>2, StreamNone DEF SentTo, ReadFrom
  <2>2. \A p \in Process : counted[p].sent = 0 /\ counted[p].received = 0
    BY <1>1
  <2>3. {"p0", "p1", "p2", "c"} \subseteq Process
    BY DEF Process, Server
  <2>4. QED
    BY <2>1, <2>2, <2>3 DEF Tallied
<1>9. QED
  BY <1>3, <1>4, <1>5, <1>6, <1>7, <1>8 DEF SInv

LEMMA SessionStays == Spec => []SessionInv
<1>1. Init => SessionInv
  BY SessionInitially DEF SessionInv
<1>2. SessionInv /\ [Next]_vars => SessionInv'
  BY StepKeeps, CrashKeeps, StutterKeeps DEF Next
<1>3. QED
  BY <1>1, <1>2, PTL DEF Spec

LEMMA InvTypes == SessionInv => TypeOK
<1> SUFFICES ASSUME NEW pc, SInv(pc) PROVE TypeOK
  BY DEF SessionInv
<1>1. SessionTypes
  BY DEF SInv
<1>2. ASSUME NEW p \in Process, NEW k \in DOMAIN todo[p]
      PROVE  todo[p][k].do \in {"send", "recv", "check"} /\ todo[p][k].peer \in Process
  <2>1. todo[p] \in Seq(CallRec)
    BY <1>1, TypesFacts
  <2>2. k \in 1 .. Len(todo[p])
    BY <1>2, <2>1, LenProperties
  <2>3. todo[p][k] \in CallRec
    BY <2>1, <2>2, ElementOfSeq
  <2>4. QED
    BY <2>3 DEF CallRec
<1>3. QED
  BY <1>1, <1>2 DEF TypeOK, SessionTypes

(***************************************************************************)
(* Types, whoever crashes and whatever is read at an end of file; no       *)
(* connection ever holds more than its buffers do.                         *)
(***************************************************************************)
THEOREM SessionTypeCorrect == Spec => []TypeOK
  BY SessionStays, InvTypes, PTL

(***************************************************************************)
(* What the reader asks for and what the connection holds is the same      *)
(* section of the same stream; they count with the same number because the *)
(* reader has it from this connection or, for the rotated index, because   *)
(* the sizes agreed when the client accepted.                              *)
(***************************************************************************)
LEMMA InvFramed == SessionInv => Framed
<1> SUFFICES ASSUME NEW pc, SInv(pc), NEW p \in Process, Calls(p, "recv"),
                    channel[<<Call(p).peer, p>>] # <<>>
             PROVE  Head(channel[<<Call(p).peer, p>>]).section = Call(p).section
  BY DEF SessionInv, Framed
<1>1. /\ SessionTypes /\ LinksOK(pc) /\ TodoAt(todo[p], p, pc[p], sizes, verdict)
      /\ PointOK(p, pc[p], accept, verdict)
  BY DEF SInv, AtPoints
<1>2. /\ status[p] = "running" /\ todo[p] # <<>> /\ Head(todo[p]).do = "recv"
  BY DEF Calls, Call
<1>3. PICK q, i : CanRead(p, pc[p], q, i)
  BY <1>1, <1>2, ReadMoves
<1>4. /\ Pair(q, p) /\ i = Read(q, p, pc[p]) + 1 /\ i \in Nat \ {0}
      /\ Head(todo[p]) = RecvAt(q, p, i, Asked(q, p))
  BY <1>3 DEF CanRead, Reads
<1>5. Call(p).peer = q /\ Call(p).section = Section(q, p, i, Asked(q, p))
  BY <1>4, RecordFacts DEF Call
<1> DEFINE l == <<q, p>>
           s == Sent(q, p, pc[q])
           r == Read(q, p, pc[p])
<1>6. s \in Nat /\ r \in Nat /\ i = r + 1 /\ q \in Process
  BY <1>4, PairFacts, Numbers DEF SInv, AtPoints
<1>7. LinkGood(q, p, s, r)
  BY <1>1, <1>2, <1>4, <1>5, <1>6 DEF LinksOK, LinkOK
<1>8. channel[l] \in Seq(Packet) /\ Count(q) \in Nat /\ Asked(q, p) \in Nat /\ channel[l] # <<>>
  BY <1>1, <1>4, <1>5, TypesFacts
<1> HIDE DEF l, s
<1>9. Aligned(channel[l], q, p, s, r, Count(q), Carried(q))
  BY <1>7 DEF LinkGood, l
<1> HIDE DEF r
<1>10. Head(channel[l]) = Message(q, p, r + 1, Count(q), Carried(q)) /\ r + 1 <= s
  BY <1>6, <1>8, <1>9, TailAligned
<1>11. Head(channel[l]).section = Section(q, p, i, Count(q))
  BY <1>6, <1>10, RecordFacts
<1>12. CASE i <= KeyIndex(q)
  <2>1. \A m : Section(q, p, i, Count(q)) = Section(q, p, i, m)
    BY <1>4, <1>8, <1>12, SectionFacts
  <2>2. Section(q, p, i, Count(q)) = Section(q, p, i, Asked(q, p))
    BY <2>1
  <2>3. QED
    BY <1>5, <1>11, <2>2 DEF l
<1>13. CASE i > KeyIndex(q)
  <2>1. r >= KeyIndex(q)
    BY <1>6, <1>13 DEF KeyIndex
  <2>2. Heard(q, p) = Carried(q)
    BY <1>7, <2>1 DEF LinkGood
  <2>3. CASE q # "c"
    <3>1. Asked(q, p) = Count(q)
      BY <2>2, <2>3 DEF Asked, Heard, Carried
    <3>2. QED
      BY <1>5, <1>11, <3>1 DEF l
  <2>4. CASE q = "c"
    <3>1. p \in Server /\ p \in Process /\ p # "c" /\ p # "p2"
      BY <1>4, <2>4 DEF Pair, Server
    <3>2. accept[p] = verdict
      BY <2>2, <2>4 DEF Heard, Carried
    <3>3. pc[p] \in 1 .. 12 /\ pc[p] # 12
      <4>1. ServerTodo(todo[p], p, pc[p], sizes[<<"p2", p>>]) /\ pc[p] \in 1 .. 12
        BY <1>1, <3>1 DEF TodoAt, PointOK
      <4>2. QED
        BY <1>2, <4>1 DEF ServerTodo
    <3>4. pc[p] \in 8 .. 11
      <4>1. ServerRead("c", p, pc[p]) >= 1
        BY <1>6, <2>1, <2>4, <3>1 DEF r, Read, KeyIndex, Server
      <4>2. QED
        BY <3>3, <4>1 DEF ServerRead
    <3>5. verdict = 1
      BY <1>1, <3>1, <3>2, <3>4 DEF PointOK
    <3>6. sizes[<<p, "c">>] = sizes[<<"p2", "c">>]
      BY <3>1, <3>5 DEF SInv, VerdictMatches, SizesMatch, Server
    <3>7. Read(p, "c", pc["c"]) >= 2
      <4>1. PointOK("c", pc["c"], accept, verdict)
        BY DEF SInv, AtPoints, Process
      <4>2. pc["c"] \in 1 .. 19 /\ ~(pc["c"] <= 9)
        BY <3>5, <4>1 DEF PointOK, Unread
      <4>3. ClientRead(p, pc["c"]) >= 2
        BY <3>1, <4>2 DEF ClientRead, Server
      <4>4. QED
        BY <4>3 DEF Read
    <3>8. sizes[<<p, "c">>] = sizes[<<"p2", p>>]
      BY <1>2, <3>1, <3>7 DEF SInv, SizesAgree
    <3>9. Asked(q, p) = Count(q)
      BY <2>4, <3>6, <3>8 DEF Asked, Count
    <3>10. QED
      BY <1>5, <1>11, <3>9 DEF l
  <2>5. QED
    BY <2>3, <2>4
<1>14. QED
  BY <1>6, <1>12, <1>13 DEF KeyIndex

(***************************************************************************)
(* The streams stay in frame for every height, number of bits and size of  *)
(* the buffers, whoever crashes, and whatever counts are read at the end   *)
(* of a file.                                                              *)
(***************************************************************************)
THEOREM FramedCorrect == Spec => []Framed
  BY SessionStays, InvFramed, PTL

\* What the client has not sent, it has still to do.
LEMMA NotToldIsDue ==
  ASSUME NEW pc, SInv(pc), NEW p \in Server, Sent("c", p, pc["c"]) = 0
  PROVE  AcceptDue(p)
<1> DEFINE k == pc["c"]
           t == todo["c"]
           x == sizes[<<"p0", "c">>]
           y == sizes[<<"p1", "c">>]
           z == sizes[<<"p2", "c">>]
<1>1. ClientTodo(t, k, x, y, z, verdict) /\ PointOK("c", k, accept, verdict)
  BY DEF SInv, AtPoints, TodoAt, Process
<1>2. z \in Nat
  <2>1. sizes \in [Link -> 0 .. MaxCount] /\ <<"p2", "c">> \in Link
    BY DEF SInv, SessionTypes, Link
  <2>2. QED
    BY <2>1, SessionAssumption
<1> HIDE DEF k, t, x, y, z
<1>3. /\ k \in 1 .. 19 /\ (k <= 9 => verdict = Unread) /\ (k \in 10 .. 11 => verdict \in {0, 1})
      /\ p \in {"p0", "p1"}
  BY <1>1 DEF PointOK, Server
<1>4. k <= 9 \/ k = 10 \/ (k = 11 /\ p = "p1")
  <2>1. ClientSent(p, k) = 0
    BY DEF Sent, k
  <2>2. QED
    BY <1>3, <2>1 DEF ClientSent
<1>5. ASSUME NEW b \in Server
      PROVE  LET call == SendAt("c", b, 1, z, verdict) IN
             call.do = "send" /\ call.peer = b /\ Deciding(call.section) = "accept"
  <2>1. Pair("c", b)
    BY DEF Pair, Server
  <2>2. Deciding(Section("c", b, 1, z)) = "accept"
    BY <1>2, <2>1, SectionFacts
  <2>3. QED
    BY <2>2, RecordFacts DEF SendAt
<1>6. CASE k <= 9
  BY <1>3, <1>6 DEF AcceptDue
<1>7. CASE k \in {10, 11} /\ k <= 10 + (IF p = "p1" THEN 1 ELSE 0)
  <2> DEFINE a == SendAt("c", "p0", 1, z, verdict)
             b == SendAt("c", "p1", 1, z, verdict)
             d == SendAt("c", "p0", 2, z, verdict)
             e == SendAt("c", "p1", 2, z, verdict)
             f == RecvAt("p0", "c", 4, x)
             g == RecvAt("p0", "c", 5, x)
             h == RecvAt("p1", "c", 4, y)
             i == RecvAt("p1", "c", 5, y)
  <2>1. t \in {<<a, b>>, <<b>>, <<a, b, d, e, f, g, h, i>>, <<b, d, e, f, g, h, i>>}
    BY <1>1, <1>3, <1>7 DEF ClientTodo
  <2>2. k = 10 => t \in {<<a, b>>, <<a, b, d, e, f, g, h, i>>}
    BY <1>1, <1>3, <1>7 DEF ClientTodo
  <2> HIDE DEF a, b, d, e, f, g, h, i
  <2>3. \E j \in DOMAIN t : t[j] = SendAt("c", p, 1, z, verdict)
    <3>1. CASE p = "p0"
      <4>1. k = 10
        BY <1>7, <3>1
      <4>2. 1 \in DOMAIN t /\ t[1] = a
        BY <2>2, <4>1
      <4>3. QED
        BY <3>1, <4>2 DEF a
    <3>2. CASE p = "p1"
      <4>1. \E j \in DOMAIN t : t[j] = b
        <5>1. CASE t \in {<<a, b>>, <<a, b, d, e, f, g, h, i>>}
          <6>1. 2 \in DOMAIN t /\ t[2] = b
            BY <5>1
          <6>2. QED
            BY <6>1
        <5>2. CASE t \in {<<b>>, <<b, d, e, f, g, h, i>>}
          <6>1. 1 \in DOMAIN t /\ t[1] = b
            BY <5>2
          <6>2. QED
            BY <6>1
        <5>3. QED
          BY <2>1, <5>1, <5>2
      <4>2. QED
        BY <3>2, <4>1 DEF b
    <3>3. QED
      BY <1>3, <3>1, <3>2
  <2>4. QED
    BY <1>5, <2>3 DEF AcceptDue, t
<1>8. QED
  BY <1>3, <1>4, <1>6, <1>7

(***************************************************************************)
(* AcceptIsVerdict of PirSession: a server has the client's own verdict,   *)
(* or has made it up and the client died before it sent this server one.   *)
(***************************************************************************)
THEOREM AcceptCorrect == Spec => []AcceptIsVerdict
<1>1. SessionInv => AcceptIsVerdict
  <2> SUFFICES ASSUME SessionInv, NEW p \in Server, accept[p] # Unread, accept[p] # verdict
               PROVE  status["c"] = "died" /\ AcceptDue(p)
    BY DEF AcceptIsVerdict
  <2>1. PICK pc : SInv(pc)
    BY DEF SessionInv
  <2>2. ~ Sent("c", p, pc["c"]) >= 1 /\ status["c"] = "died"
    BY <2>1 DEF SInv, AcceptTold
  <2>3. Sent("c", p, pc["c"]) \in Nat
    BY <2>1, Numbers DEF SInv, AtPoints, Process
  <2>4. Sent("c", p, pc["c"]) = 0
    BY <2>2, <2>3
  <2>5. QED
    BY <2>1, <2>2, <2>4, NotToldIsDue
<1>2. QED
  BY <1>1, SessionStays, PTL

(***************************************************************************)
(* Nobody dies but of somebody's crash.                                    *)
(***************************************************************************)
LEMMA StepGone ==
  ASSUME SessionInv, NEW p \in Process, Step(p), Gone'
  PROVE  Gone
<1>1. PICK pc : SInv(pc)
  BY DEF SessionInv
<1>2. CASE status' = status
  BY <1>2 DEF Gone
<1>3. CASE SendToGone(p)
  BY <1>1, <1>3, GoneKeeps
<1>4. CASE AllocationFails(p)
  <2>1. /\ SessionTypes /\ TodoAt(todo[p], p, pc[p], sizes, verdict)
        /\ PointOK(p, pc[p], accept, verdict)
    BY <1>1 DEF SInv, AtPoints
  <2>2. /\ status[p] = "running" /\ todo[p] # <<>> /\ Head(todo[p]).do = "recv"
    BY <1>4 DEF AllocationFails, Calls, Call
  <2>3. PICK q, i : CanRead(p, pc[p], q, i)
    BY <2>1, <2>2, ReadMoves
  <2>4. Pair(q, p) /\ q \in Process /\ Call(p).peer = q
    BY <2>3, PairFacts, RecordFacts DEF CanRead, Reads, Call
  <2>5. channel[<<q, p>>] = <<>> /\ status[q] # "running"
    BY <1>4, <2>4 DEF AllocationFails
  <2>6. status[q] \in {"ended", "died"}
    BY <2>1, <2>4, <2>5 DEF SessionTypes
  <2>7. status[q] = "ended" => Gone
    BY <1>1, <2>2, <2>3, <2>5, EndedSent
  <2>8. QED
    BY <2>4, <2>6, <2>7 DEF Gone
<1>5. CASE Return(p)
  <2>1. status' = [status EXCEPT ![p] = "ended"] /\ status \in [Process -> {"running", "ended", "died"}]
    BY <1>1, <1>5 DEF Return, SInv, SessionTypes
  <2>2. QED
    BY <2>1 DEF Gone
<1>6. CASE SendSection(p)
  BY <1>2, <1>6 DEF SendSection
<1>7. CASE RecvSection(p)
  BY <1>2, <1>7 DEF RecvSection
<1>8. CASE RecvEndOfFile(p)
  BY <1>2, <1>8 DEF RecvEndOfFile
<1>9. CASE Check
  BY <1>2, <1>9 DEF Check
<1>10. QED
  BY <1>3, <1>4, <1>5, <1>6, <1>7, <1>8, <1>9 DEF Step

LEMMA SameCount ==
  ASSUME NEW pc, NEW a, NEW b, SInv(pc), ~Gone, Pair(a, b), Read(a, b, pc[b]) > KeyIndex(a)
  PROVE  Asked(a, b) = Count(a)
<1> DEFINE r == Read(a, b, pc[b])
<1>0. a \in Process /\ b \in Process
  BY PairFacts
<1>1. Heard(a, b) = Carried(a) /\ r \in Nat /\ r > KeyIndex(a)
  <2>1. LinkGood(a, b, Sent(a, b, pc[a]), r) /\ r \in Nat
    BY Living
  <2>2. r >= KeyIndex(a)
    BY <2>1 DEF KeyIndex
  <2>3. QED
    BY <2>1, <2>2 DEF LinkGood
<1> HIDE DEF r
<1>2. CASE a # "c"
  BY <1>1, <1>2 DEF Asked, Heard, Carried
<1>3. CASE a = "c"
  <2>1. b \in Server /\ b # "c" /\ b # "p2" /\ "c" \in Process /\ r > 1
    BY <1>1, <1>3 DEF Pair, Server, Process, KeyIndex
  <2>2. pc[b] \in 1 .. 12
    BY <1>0, <2>1 DEF SInv, AtPoints, PointOK
  <2>3. pc[b] \in 9 .. 11
    BY <1>3, <2>1, <2>2, Bounds DEF r
  <2>4. verdict = 1
    BY <2>1, <2>3, Verdicts
  <2>5. sizes[<<b, "c">>] = sizes[<<"p2", "c">>]
    BY <2>1, <2>4 DEF SInv, VerdictMatches, SizesMatch, Server
  <2>6. Read(b, "c", pc["c"]) >= 2
    <3>1. PointOK("c", pc["c"], accept, verdict)
      BY <2>1 DEF SInv, AtPoints
    <3>2. pc["c"] \in 1 .. 19 /\ ~(pc["c"] <= 9)
      BY <2>4, <3>1 DEF PointOK, Unread
    <3>3. ClientRead(b, pc["c"]) >= 2
      BY <2>1, <3>2 DEF ClientRead, Server
    <3>4. QED
      BY <3>3 DEF Read
  <2>7. sizes[<<b, "c">>] = sizes[<<"p2", b>>]
    BY <2>1, <2>6 DEF SInv, SizesAgree
  <2>8. QED
    BY <1>3, <2>5, <2>7 DEF Asked, Count
<1>4. QED
  BY <1>2, <1>3

\* When all have ended, each has read from each what that one has sent to it.
LEMMA SameBytes ==
  ASSUME NEW pc, SInv(pc), ~Gone, \A p \in Process : status[p] = "ended",
         NEW a \in Process, NEW b \in Process
  PROVE  SentTo(a, b, pc[a]) = ReadFrom(a, b, pc[b])
<1>1. PointOK(a, pc[a], accept, verdict) /\ PointOK(b, pc[b], accept, verdict) /\ SessionTypes
  BY DEF SInv, AtPoints
<1> DEFINE s == Sent(a, b, pc[a])
           r == Read(a, b, pc[b])
<1>2. s \in 0 .. 5 /\ r \in 0 .. 5 /\ (~Pair(a, b) => s = 0 /\ r = 0)
  <2> DEFINE k == pc[a]
             kk == pc[b]
  <2>1. PointOK(a, k, accept, verdict) /\ PointOK(b, kk, accept, verdict)
    BY <1>1
  <2> HIDE DEF k, kk
  <2>2. /\ Sent(a, b, k) \in 0 .. 5 /\ Read(a, b, kk) \in 0 .. 5
        /\ ~Pair(a, b) => Sent(a, b, k) = 0 /\ Read(a, b, kk) = 0
    BY <2>1, Five
  <2>3. QED
    BY <2>2 DEF k, kk
<1>3. SentTo(a, b, pc[a]) = Stream(a, b, s, Count(a)) /\ ReadFrom(a, b, pc[b]) = Stream(a, b, r, Asked(a, b))
  BY DEF SentTo, ReadFrom
<1>4. CASE ~Pair(a, b)
  BY <1>2, <1>3, <1>4, StreamNone
<1>5. CASE Pair(a, b)
  <2>1. s = r /\ Count(a) \in Nat
    BY <1>1, <1>5, AllEnded, TypesFacts
  <2>2. CASE r > KeyIndex(a)
    BY <1>3, <1>5, <2>1, <2>2, SameCount
  <2>3. CASE r <= KeyIndex(a)
    <3> HIDE DEF s, r
    <3>1. \A m : Stream(a, b, r, Count(a)) = Stream(a, b, r, m)
      BY <1>2, <1>5, <2>1, <2>3, StreamFacts
    <3>2. QED
      BY <1>3, <2>1, <3>1
  <2>4. r \in Int /\ KeyIndex(a) \in Int
    BY <1>2 DEF KeyIndex
  <2>5. QED
    BY <2>2, <2>3, <2>4
<1>6. QED
  BY <1>4, <1>5

LEMMA Square ==
  ASSUME NEW f, NEW g, \A a, b \in Process : f[<<a, b>>] \in Int /\ f[<<a, b>>] = g[<<b, a>>]
  PROVE  LET row(h, p) == h[<<p, "p0">>] + h[<<p, "p1">>] + h[<<p, "p2">>] + h[<<p, "c">>] IN
         row(f, "p0") + row(f, "p1") + row(f, "p2") + row(f, "c")
         = row(g, "p0") + row(g, "p1") + row(g, "p2") + row(g, "c")
<1>1. {"p0", "p1", "p2", "c"} \subseteq Process
  BY DEF Process, Server
<1> DEFINE x(a, b) == f[<<a, b>>]
<1>2. \A a, b \in Process : x(a, b) \in Int /\ g[<<b, a>>] = x(a, b)
  OBVIOUS
<1>3. /\ g[<<"p0", "p0">>] = x("p0", "p0") /\ g[<<"p0", "p1">>] = x("p1", "p0")
      /\ g[<<"p0", "p2">>] = x("p2", "p0") /\ g[<<"p0", "c">>] = x("c", "p0")
      /\ g[<<"p1", "p0">>] = x("p0", "p1") /\ g[<<"p1", "p1">>] = x("p1", "p1")
      /\ g[<<"p1", "p2">>] = x("p2", "p1") /\ g[<<"p1", "c">>] = x("c", "p1")
      /\ g[<<"p2", "p0">>] = x("p0", "p2") /\ g[<<"p2", "p1">>] = x("p1", "p2")
      /\ g[<<"p2", "p2">>] = x("p2", "p2") /\ g[<<"p2", "c">>] = x("c", "p2")
      /\ g[<<"c", "p0">>] = x("p0", "c") /\ g[<<"c", "p1">>] = x("p1", "c")
      /\ g[<<"c", "p2">>] = x("p2", "c") /\ g[<<"c", "c">>] = x("c", "c")
  BY <1>1, <1>2
<1>4. /\ x("p0", "p0") \in Int /\ x("p0", "p1") \in Int /\ x("p0", "p2") \in Int /\ x("p0", "c") \in Int
      /\ x("p1", "p0") \in Int /\ x("p1", "p1") \in Int /\ x("p1", "p2") \in Int /\ x("p1", "c") \in Int
      /\ x("p2", "p0") \in Int /\ x("p2", "p1") \in Int /\ x("p2", "p2") \in Int /\ x("p2", "c") \in Int
      /\ x("c", "p0") \in Int /\ x("c", "p1") \in Int /\ x("c", "p2") \in Int /\ x("c", "c") \in Int
  BY <1>1, <1>2
<1>5. QED
  BY <1>3, <1>4

LEMMA AllReceived ==
  ASSUME NEW pc, SInv(pc), ~Gone, \A p \in Process : status[p] = "ended"
  PROVE  /\ \A l \in Link : channel[l] = <<>>
         /\ counted["p0"].sent + counted["p1"].sent + counted["p2"].sent + counted["c"].sent
            = counted["p0"].received + counted["p1"].received + counted["p2"].received
              + counted["c"].received
<1>1. \A l \in Link : channel[l] = <<>>
  <2>1. \A a, b : Pair(a, b) => channel[<<a, b>>] = <<>>
    BY AllEnded
  <2>2. QED
    BY <2>1, PairFacts
<1>2. {"p0", "p1", "p2", "c"} \subseteq Process /\ Tallied(pc)
  BY DEF Process, Server, SInv
<1> DEFINE f == [l \in Process \X Process |-> SentTo(l[1], l[2], pc[l[1]])]
           g == [l \in Process \X Process |-> ReadFrom(l[2], l[1], pc[l[1]])]
<1>3. \A a, b \in Process : /\ f[<<a, b>>] = SentTo(a, b, pc[a])
                            /\ g[<<b, a>>] = ReadFrom(a, b, pc[b])
  OBVIOUS
<1>4. ASSUME NEW a \in Process, NEW b \in Process
      PROVE  SentTo(a, b, pc[a]) \in Int
  <2> DEFINE k == pc[a]
  <2>1. PointOK(a, k, accept, verdict) /\ SessionTypes
    BY DEF SInv, AtPoints
  <2> HIDE DEF k
  <2>2. SentTo(a, b, k) \in Nat
    BY <2>1, TallyTypes
  <2>3. QED
    BY <2>2 DEF k
<1>5. \A a, b \in Process : f[<<a, b>>] \in Int /\ f[<<a, b>>] = g[<<b, a>>]
  <2>1. ASSUME NEW a \in Process, NEW b \in Process
        PROVE  f[<<a, b>>] \in Int /\ f[<<a, b>>] = g[<<b, a>>]
    <3>1. SentTo(a, b, pc[a]) = ReadFrom(a, b, pc[b])
      BY SameBytes
    <3>2. f[<<a, b>>] = SentTo(a, b, pc[a]) /\ g[<<b, a>>] = ReadFrom(a, b, pc[b])
      BY <1>3
    <3> HIDE DEF f, g
    <3>3. QED
      BY <1>4, <3>1, <3>2
  <2> HIDE DEF f, g
  <2>2. QED
    BY <2>1
<1> DEFINE row(h, p) == h[<<p, "p0">>] + h[<<p, "p1">>] + h[<<p, "p2">>] + h[<<p, "c">>]
<1>6. ASSUME NEW p \in Process
      PROVE  counted[p].sent = row(f, p) /\ counted[p].received = row(g, p)
  BY <1>2, <1>3 DEF Tallied
<1> HIDE DEF f, g
<1>7. row(f, "p0") + row(f, "p1") + row(f, "p2") + row(f, "c")
      = row(g, "p0") + row(g, "p1") + row(g, "p2") + row(g, "c")
  BY <1>5, Square
<1> HIDE DEF row
<1>8. QED
  BY <1>1, <1>2, <1>6, <1>7

\* Nobody is gone unless somebody was killed.
Cause == Gone => crashes # 0

LEMMA InvClean ==
  ASSUME SessionInv, ~Gone
  PROVE  /\ \A p \in Process : status[p] # "died"
         /\ \A p \in Process : Calls(p, "recv") =>
              LET l == <<Call(p).peer, p>> IN
              channel[l] = <<>> => status[l[1]] = "running"
         /\ (\A p \in Process : status[p] = "ended") =>
              /\ \A l \in Link : channel[l] = <<>>
              /\ LET total(f) == counted["p0"][f] + counted["p1"][f]
                                 + counted["p2"][f] + counted["c"][f]
                 IN  total("sent") = total("received")
<1>1. PICK pc : SInv(pc)
  BY DEF SessionInv
<1>2. \A p \in Process : status[p] # "died"
  BY DEF Gone
<1>3. ASSUME NEW p \in Process, Calls(p, "recv"), channel[<<Call(p).peer, p>>] = <<>>
      PROVE  status[Call(p).peer] = "running"
  <2>1. /\ SessionTypes /\ TodoAt(todo[p], p, pc[p], sizes, verdict)
        /\ PointOK(p, pc[p], accept, verdict)
    BY <1>1 DEF SInv, AtPoints
  <2>2. /\ status[p] = "running" /\ todo[p] # <<>> /\ Head(todo[p]).do = "recv"
    BY <1>3 DEF Calls, Call
  <2>3. PICK q, i : CanRead(p, pc[p], q, i)
    BY <2>1, <2>2, ReadMoves
  <2>4. Pair(q, p) /\ q \in Process /\ Call(p).peer = q
    BY <2>3, PairFacts, RecordFacts DEF CanRead, Reads, Call
  <2>5. status[q] # "ended"
    BY <1>1, <1>3, <2>2, <2>3, <2>4, EndedSent
  <2>6. status[q] \in {"running", "ended", "died"}
    BY <2>1, <2>4 DEF SessionTypes
  <2>7. QED
    BY <1>2, <2>4, <2>5, <2>6
<1>4. ASSUME \A p \in Process : status[p] = "ended"
      PROVE  /\ \A l \in Link : channel[l] = <<>>
             /\ counted["p0"].sent + counted["p1"].sent + counted["p2"].sent + counted["c"].sent
                = counted["p0"].received + counted["p1"].received + counted["p2"].received
                  + counted["c"].received
  BY <1>1, <1>4, AllReceived
<1>5. QED
  BY <1>2, <1>3, <1>4

(***************************************************************************)
(* Without a crash nobody dies or reads an end of file, and at the end all *)
(* that was sent has been read and counted.                                *)
(***************************************************************************)
THEOREM CleanFinishCorrect == Spec => []CleanFinish
<1>1. Init => Cause
  <2>1. Init => ~Gone
    BY DEF Init, Gone
  <2>2. QED
    BY <2>1 DEF Cause
<1>2. SessionInv /\ Cause /\ [Next]_vars => Cause'
  <2> SUFFICES ASSUME SessionInv, Cause, [Next]_vars, Gone' PROVE crashes' # 0
    BY DEF Cause
  <2>1. crashes \in Nat
    BY DEF SessionInv, SInv, SessionTypes
  <2>2. CASE UNCHANGED vars
    <3>1. status' = status /\ crashes' = crashes
      BY <2>2 DEF vars
    <3>2. QED
      BY <3>1 DEF Cause, Gone
  <2>3. ASSUME NEW p \in Process, Step(p) PROVE crashes' # 0
    <3>1. Gone
      BY <2>3, StepGone
    <3>2. crashes' = crashes
      BY <2>3 DEF Step, SendSection, SendToGone, RecvSection, RecvEndOfFile, AllocationFails, Return, Check
    <3>3. QED
      BY <3>1, <3>2 DEF Cause
  <2>4. ASSUME NEW p \in Process, Crash(p) PROVE crashes' # 0
    BY <2>1, <2>4 DEF Crash
  <2>5. QED
    BY <2>2, <2>3, <2>4 DEF Next
<1>3. SessionInv /\ Cause => CleanFinish
  BY InvClean DEF Cause, CleanFinish
<1>4. QED
  BY <1>1, <1>2, <1>3, SessionStays, PTL DEF Spec
-----------------------------------------------------------------------------
(***************************************************************************)
(* The deployment: the set-up and the session keep their invariants, and   *)
(* the two are related as follows.  Who has stopped was connected or was   *)
(* refused; the client says or stops nothing before all are connected; and *)
(* nobody is gone unless somebody was refused, because whoever dies of a   *)
(* broken pipe or an end of file dies of one who is gone already.          *)
(***************************************************************************)
Together == \A p \in Process : Connected(p)

Related ==
  /\ status["c"] # "running" \/ verdict # Unread => Together
  /\ \A p \in Process : status[p] = "ended" => Connected(p)
  /\ \A p \in Process : status[p] # "running" => Connected(p) \/ p \in exited
  /\ Gone => exited # {}

DeployInv == SetupInv /\ Answered /\ SessionInv /\ Related

\* What a step of a program may change.
LEMMA StepScope ==
  ASSUME SessionInv, NEW p \in Process, Step(p)
  PROVE  /\ \A q \in Process : q # p => status'[q] = status[q]
         /\ p # "c" => verdict' = verdict
<1>1. status \in [Process -> {"running", "ended", "died"}]
  BY DEF SessionInv, SInv, SessionTypes
<1>2. status' = status \/ \E x : status' = [status EXCEPT ![p] = x]
  BY DEF Step, SendSection, SendToGone, RecvSection, RecvEndOfFile, AllocationFails, Return, Check
<1>3. p # "c" => verdict' = verdict
  BY DEF Step, SendSection, SendToGone, RecvSection, RecvEndOfFile, AllocationFails, Return
<1>4. QED
  BY <1>1, <1>2, <1>3

LEMMA Programs == Process = Program
  BY DEF Process, Server, Program

LEMMA AllTogether ==
  ASSUME SetupInv, Connected("c")
  PROVE  Together
  BY TogetherFacts, Programs DEF Together, Connected

LEMMA DeployInitially ==
  ASSUME DeployInit
  PROVE  DeployInv
<1>1. SetupInv /\ Answered
  BY SetupInitially, AnsweredFirst DEF DeployInit
<1>2. SessionInv
  BY SessionInitially DEF DeployInit, SessionInv
<1>3. /\ \A p \in Process : status[p] = "running"
      /\ verdict = Unread /\ "c" \in Process
  BY DEF DeployInit, Init, Process
<1>4. Related
  BY <1>3 DEF Related, Gone
<1>5. QED
  BY <1>1, <1>2, <1>4 DEF DeployInv

\* The set-up goes on: who has made all calls makes no other.
LEMMA ConnectedStays ==
  ASSUME SetupInv, [SetupNext]_setupVars, NEW p \in Program, Connected(p)
  PROVE  Connected(p)'
<1>1. calls \in [Program -> Seq(ACall)]
  BY DEF SetupInv, SetupTypes
<1>2. ASSUME NEW q \in Program, SetupStep(q)
      PROVE  Connected(p)'
  <2>1. /\ calls[q] # <<>>
        /\ calls' = [calls EXCEPT ![q] = Tail(@)] \/ calls' = calls
        /\ exited' = exited \/ exited' = exited \cup {q}
    BY <1>2 DEF SetupStep, Listen, Accept, Connect, Refused, FallAsleep, Makes, Awake, Returns
  <2>2. q # p
    BY <2>1 DEF Connected
  <2>3. QED
    BY <1>1, <2>1, <2>2 DEF Connected
<1>3. CASE Tick
  BY <1>3 DEF Tick, Connected
<1>4. CASE UNCHANGED setupVars
  BY <1>4 DEF setupVars, Connected
<1>5. QED
  BY <1>2, <1>3, <1>4 DEF SetupNext

\* Nobody takes back an exit.
LEMMA ExitedStays ==
  ASSUME [SetupNext]_setupVars
  PROVE  exited \subseteq exited'
<1>1. ASSUME NEW q \in Program, SetupStep(q)
      PROVE  exited \subseteq exited'
  BY <1>1 DEF SetupStep, Listen, Accept, Connect, Refused, FallAsleep
<1>2. QED
  BY <1>1 DEF SetupNext, Tick, setupVars

\* The set-up of a program, the passage of time, or nothing.
LEMMA SetUpKeeps ==
  ASSUME DeployInv, [SetupNext]_setupVars, UNCHANGED vars
  PROVE  DeployInv'
<1>1. SetupInv' /\ Answered' /\ SessionInv'
  BY SetupStepKeeps, AnsweredKeeps, StutterKeeps DEF DeployInv
<1>2. status' = status /\ verdict' = verdict
  BY DEF vars
<1>3. /\ \A p \in Process : Connected(p) => Connected(p)'
      /\ exited \subseteq exited'
  BY ConnectedStays, ExitedStays, Programs DEF DeployInv
<1>4. Related'
  BY <1>2, <1>3 DEF DeployInv, Related, Together, Gone
<1>5. QED
  BY <1>1, <1>4 DEF DeployInv

\* Who exits had said nothing yet, and is not the client.
LEMMA ExitKeeps ==
  ASSUME DeployInv, NEW p \in Process, Exit(p)
  PROVE  DeployInv'
<1>1. /\ Refused(p) /\ p \in Program /\ status' = [status EXCEPT ![p] = "died"]
      /\ exited' = exited \cup {p} /\ calls' = calls /\ calls[p] # <<>> /\ p \notin exited
      /\ UNCHANGED <<todo, channel, sizes, accept, verdict, counted, crashes>>
  BY Programs DEF Exit, Refused, Makes, Awake
<1>2. [SetupNext]_setupVars
  BY <1>1 DEF SetupNext, SetupStep
<1>3. SetupInv' /\ Answered' /\ SetupInv
  BY <1>2, SetupStepKeeps, AnsweredKeeps DEF DeployInv
<1>4. p # "c"
  <2>1. "c" \notin exited'
    BY <1>3 DEF Answered
  <2>2. QED
    BY <1>1, <2>1
<1>5. PICK pc : SInv(pc)
  BY DEF DeployInv, SessionInv
<1>6. status \in [Process -> {"running", "ended", "died"}] /\ crashes \in 0 .. MaxCrashes
  BY <1>5 DEF SInv, SessionTypes
<1>7. status[p] = "running"
  <2>1. status[p] # "running" => Connected(p) \/ p \in exited
    BY DEF DeployInv, Related
  <2>2. QED
    BY <1>1, <2>1 DEF Connected
<1>8. SessionInv'
  <2>1. crashes' \in 0 .. MaxCrashes
    BY <1>1, <1>6
  <2>2. SInv(pc)'
    BY <1>1, <1>5, <1>7, <2>1, StopKeeps
  <2>3. QED
    BY <2>2 DEF SessionInv
<1>9. \A q \in Process : Connected(q) => Connected(q)'
  BY <1>2, <1>3, ConnectedStays, Programs
<1>10. /\ \A q \in Process : q # p => status'[q] = status[q]
       /\ status'[p] = "died" /\ p \in exited' /\ exited \subseteq exited' /\ verdict' = verdict
  BY <1>1, <1>6
<1>11. Related'
  <2>1. status'["c"] # "running" \/ verdict' # Unread => Together'
    <3>1. status'["c"] = status["c"] /\ "c" \in Process
      BY <1>4, <1>10 DEF Process
    <3>2. QED
      BY <1>9, <1>10, <3>1 DEF DeployInv, Related, Together
  <2>2. \A q \in Process : status'[q] = "ended" => Connected(q)'
    BY <1>9, <1>10 DEF DeployInv, Related
  <2>3. \A q \in Process : status'[q] # "running" => Connected(q)' \/ q \in exited'
    BY <1>9, <1>10 DEF DeployInv, Related
  <2>4. QED
    BY <1>10, <2>1, <2>2, <2>3 DEF Related
<1>12. QED
  BY <1>3, <1>8, <1>11 DEF DeployInv

\* Who talks is connected; what the client says, it says when all are.
LEMMA TalkKeeps ==
  ASSUME DeployInv, NEW p \in Process, Talk(p)
  PROVE  DeployInv'
<1>1. Connected(p) /\ Step(p) /\ UNCHANGED setupVars
  BY DEF Talk
<1>2. [SetupNext]_setupVars
  BY <1>1
<1>3. SetupInv' /\ Answered' /\ SessionInv'
  BY <1>1, <1>2, SetupStepKeeps, AnsweredKeeps, StepKeeps DEF DeployInv
<1>4. exited' = exited /\ \A q : Connected(q)' = Connected(q)
  BY <1>1 DEF setupVars, Connected
<1>5. /\ \A q \in Process : q # p => status'[q] = status[q]
      /\ p # "c" => verdict' = verdict
  BY <1>1, StepScope DEF DeployInv
<1>6. Related'
  <2>1. status'["c"] # "running" \/ verdict' # Unread => Together'
    <3>1. CASE p = "c"
      <4>1. Together
        BY <1>1, <3>1, AllTogether DEF DeployInv
      <4>2. QED
        BY <1>4, <4>1 DEF Together
    <3>2. CASE p # "c"
      <4>1. status'["c"] = status["c"] /\ verdict' = verdict
        BY <1>5, <3>2 DEF Process
      <4>2. QED
        BY <1>4, <4>1 DEF DeployInv, Related, Together
    <3>3. QED
      BY <3>1, <3>2
  <2>2. \A q \in Process : status'[q] = "ended" => Connected(q)'
    BY <1>1, <1>4, <1>5 DEF DeployInv, Related
  <2>3. \A q \in Process : status'[q] # "running" => Connected(q)' \/ q \in exited'
    BY <1>1, <1>4, <1>5 DEF DeployInv, Related
  <2>4. Gone' => exited' # {}
    BY <1>1, <1>4, StepGone DEF DeployInv, Related
  <2>5. QED
    BY <2>1, <2>2, <2>3, <2>4 DEF Related
<1>7. QED
  BY <1>3, <1>6 DEF DeployInv

LEMMA DeployKeeps ==
  ASSUME DeployInv, [DeployNext]_deployVars
  PROVE  DeployInv'
<1>1. CASE UNCHANGED deployVars
  BY <1>1, SetUpKeeps DEF deployVars
<1>2. CASE PassTime
  BY <1>2, SetUpKeeps DEF PassTime, SetupNext
<1>3. ASSUME NEW p \in Process, SetUp(p)
      PROVE  DeployInv'
  BY <1>3, SetUpKeeps, Programs DEF SetUp, SetupNext, SetupStep
<1>4. QED
  BY <1>1, <1>2, <1>3, ExitKeeps, TalkKeeps DEF DeployNext, DeployStep

LEMMA DeployStays == DeploySpec => []DeployInv
  BY DeployInitially, DeployKeeps, PTL DEF DeploySpec

(***************************************************************************)
(* However late anybody is, a verdict is given, and an accept believed to  *)
(* be read, only when all connections between the programs exist.          *)
(***************************************************************************)
THEOREM VerdictOnlyTogetherCorrect == DeploySpec => []VerdictOnlyTogether
<1>1. DeployInv => VerdictOnlyTogether
  <2> SUFFICES ASSUME DeployInv, verdict # Unread \/ \E p \in Server : accept[p] # Unread
               PROVE  Together
    BY DEF VerdictOnlyTogether, Together
  <2>1. verdict # Unread \/ status["c"] = "died"
    BY DEF DeployInv, SessionInv, SInv, AcceptTold
  <2>2. QED
    BY <2>1 DEF DeployInv, Related
<1>2. QED
  BY <1>1, DeployStays, PTL

(***************************************************************************)
(* However late anybody is, when one program returns from main() nobody    *)
(* has died or will: all were connected, at the dealer because it connects *)
(* last, at a server because it read an accept.                            *)
(***************************************************************************)
THEOREM AllOrNothingCorrect == DeploySpec => []AllOrNothing
<1>1. DeployInv => AllOrNothing
  <2> SUFFICES ASSUME DeployInv, NEW p \in Process, status[p] = "ended"
               PROVE  ~Gone
    BY DEF AllOrNothing, Ended, Gone
  <2>1. Together => exited = {}
    BY Programs DEF Together, Connected, DeployInv, SetupInv, SetupTypes
  <2>2. CASE p = "p2"
    <3>1. Connected("p2")
      BY <2>2 DEF DeployInv, Related
    <3>2. QED
      BY <3>1, DealerLast DEF DeployInv, Related
  <2>3. CASE p = "c"
    <3>1. status["c"] # "running"
      BY <2>3
    <3>2. QED
      BY <2>1, <3>1 DEF DeployInv, Related
  <2>4. CASE p \in Server
    <3>1. PICK pc : SInv(pc)
      BY DEF DeployInv, SessionInv
    <3>2. accept[p] # Unread
      <4>1. PointOK(p, pc[p], accept, verdict)
        BY <3>1 DEF SInv, AtPoints
      <4>2. pc[p] \in {11, 12}
        BY <2>4, <3>1, Finals
      <4> DEFINE k == pc[p]
      <4>3. k \in {11, 12} /\ (k \in 8 .. 11 => accept[p] = 1) /\ (k = 12 => accept[p] = 0)
        BY <2>4, <4>1, <4>2 DEF PointOK
      <4> HIDE DEF k
      <4>4. QED
        BY <4>3 DEF Unread
    <3>3. verdict # Unread \/ status["c"] = "died"
      BY <2>4, <3>1, <3>2 DEF SInv, AcceptTold
    <3>4. QED
      BY <2>1, <3>3 DEF DeployInv, Related
  <2>5. QED
    BY <2>2, <2>3, <2>4 DEF Process
<1>2. QED
  BY <1>1, DeployStays, PTL

(***************************************************************************)
(* However late anybody is, once a program was refused the client stays in *)
(* its constructor for ever.                                               *)
(***************************************************************************)
THEOREM ClientLeftWaitingCorrect == DeploySpec => ClientLeftWaiting
<1> DEFINE Left == exited # {}
           Waits == status["c"] = "running" /\ ~Connected("c")
<1>1. DeployInv /\ Left => Waits
  <2> SUFFICES ASSUME DeployInv, Left PROVE Waits
    OBVIOUS
  <2>1. ~Together
    BY Programs DEF Together, Connected, DeployInv, SetupInv, SetupTypes
  <2>2. ~Connected("c")
    BY <2>1, AllTogether DEF DeployInv
  <2>3. QED
    BY <2>1, <2>2 DEF DeployInv, Related
<1>2. Left /\ [DeployNext]_deployVars => Left'
  <2> SUFFICES ASSUME [DeployNext]_deployVars PROVE exited \subseteq exited'
    OBVIOUS
  <2>1. CASE UNCHANGED deployVars
    BY <2>1 DEF deployVars, setupVars
  <2>2. CASE PassTime
    BY <2>2 DEF PassTime, Tick
  <2>3. ASSUME NEW p \in Process, DeployStep(p)
        PROVE  exited \subseteq exited'
    BY <2>3 DEF DeployStep, SetUp, Exit, Talk, Listen, Accept, Connect, FallAsleep, Refused, setupVars
  <2>4. QED
    BY <2>1, <2>2, <2>3 DEF DeployNext
<1>3. ClientLeftWaiting <=> [](Left => []Waits)
  BY DEF ClientLeftWaiting
<1> HIDE DEF Left, Waits
<1>4. QED
  BY <1>1, <1>2, <1>3, DeployStays, PTL DEF DeploySpec
=============================================================================
