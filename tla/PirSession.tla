----------------------------- MODULE PirSession -----------------------------
(***************************************************************************)
(* The four programs p2 (dealer), p0, p1 (servers) and c (client) of       *)
(* src/tests/protocol over their sockets, once all are connected.  There   *)
(* is no message format: a program sends field after field and its peer    *)
(* reads field after field with blocking calls of a fixed width, so that   *)
(* everything rests on the two running through the same list.  The lists   *)
(* of the senders and of the receivers are translated separately.          *)
(*                                                                         *)
(* A step sends or reads one section: the fields that follow each other    *)
(* with no decision between them.                                          *)
(*                                                                         *)
(* Values are left out but for those that decide what comes next: height,  *)
(* size and accept.  A process may die; its peers then read an end of file *)
(* that no recv call checks for.                                           *)
(***************************************************************************)
EXTENDS Integers, Sequences

CONSTANTS
  Bin,        \* input_size, the tree height every program is compiled with
  Bitlength,  \* bits of a payload or an answer (40)
  ByteBits,   \* bits in the narrowest group element on the wire (8)
  Blocks,     \* blocks of a database entry
  Capacity,   \* sections that fit into the buffers of one connection
  MaxCount,   \* bound: the largest height or size read from garbage
  MaxCrashes  \* bound: how many processes may be killed from outside

ASSUME SessionAssumption ==
  /\ {Bin, Bitlength, ByteBits, Blocks, Capacity} \subseteq Nat \ {0}
  /\ {MaxCount, MaxCrashes} \subseteq Nat
  /\ Bin <= MaxCount

Server  == {"p0", "p1"}
Process == Server \cup {"p2", "c"}
Link    == {<<"p2", "p0">>, <<"p2", "p1">>, <<"p2", "c">>}
           \cup {<<p, "c">> : p \in Server} \cup {<<"c", p>> : p \in Server}

VARIABLES
  todo,     \* todo[p]: the calls p has still to make
  channel,  \* channel[l]: the fields in the buffers of connection l
  status,   \* "running", "ended" (returned from main) or "died"
  sizes,    \* sizes[l]: the height or size read from link l
  accept,   \* accept[p]: what server p read there, Unread before
  verdict,  \* what check_xor told the client, Unread before
  counted,  \* counted[p]: bytes_sent and bytes_recieved of p
  crashes

vars == <<todo, channel, status, sizes, accept, verdict, counted, crashes>>

Unread == 2
-----------------------------------------------------------------------------
(***************************************************************************)
(* Fields: a name and a width.  send_ge and recv_ge choose the width of a  *)
(* group element by its number of bits.                                    *)
(***************************************************************************)
GeBytes(bits) == IF bits > 4 * ByteBits THEN 8
                 ELSE IF bits > 2 * ByteBits THEN 4
                 ELSE IF bits > ByteBits THEN 2 ELSE 1

Ge(f, bits) == [field |-> f, bytes |-> GeBytes(bits)]
Block(f)    == [field |-> f, bytes |-> 16]
Byte(f)     == [field |-> f, bytes |-> 1]
Int32(f)    == [field |-> f, bytes |-> 4]
SizeT(f)    == [field |-> f, bytes |-> 8]

Repeat(fields, n) ==
  [k \in 1 .. n * Len(fields) |-> fields[((k - 1) % Len(fields)) + 1]]

\* The calls that send a section, with the value its last field carries, and
\* those that read one.
Send(to, section, v) == <<[do |-> "send", peer |-> to, section |-> section, val |-> v]>>
Recv(from, section)  == <<[do |-> "recv", peer |-> from, section |-> section, val |-> 0]>>
-----------------------------------------------------------------------------
(***************************************************************************)
(* Senders: send_dpf_key, send_input_check_pack, send_input_check_pack_2   *)
(* and the calls of the programs around them.                              *)
(***************************************************************************)
DealTo(p) ==
  Send(p, <<Ge("index", Bin), Ge("payload", Bitlength), Int32("height")>>, Bin)
  \o Send(p, <<Int32("Bout"), Block("s"), Byte("t")>>
             \o Repeat(<<Block("sigma")>>, Bin)
             \o Repeat(<<Byte("tau0")>>, Bin) \o Repeat(<<Byte("tau1")>>, Bin)
             \o <<Ge("gamma0", Bitlength), Ge("gamma1", Bitlength)>>, 0)

SendPack(n) ==
  Send("c", <<Ge("index", Bin), Ge("payload", Bitlength), SizeT("size")>>, n)
  \o Send("c", Repeat(<<Block("zs0")>>, n) \o Repeat(<<Block("zs1")>>, n)
               \o Repeat(<<Byte("zt0")>>, n) \o Repeat(<<Byte("zt1")>>, n)
               \o Repeat(<<Block("sigma"), Byte("tau0"), Byte("tau1")>>, n)
               \o <<Int32("T"), Ge("W0", Bitlength), Ge("W1", Bitlength),
                    Ge("gamma0", Bitlength), Ge("gamma1", Bitlength)>>, 0)

SendPack2 ==
  Send("c", <<Ge("index0", Bin), Ge("index1", Bin),
              Ge("payload0", Bitlength), Ge("payload1", Bitlength), SizeT("size")>>, Bin)
  \o Send("c", Repeat(<<Block("zs00"), Block("zs01"), Byte("zt00"), Byte("zt01")>>, Bin)
               \o Repeat(<<Block("zs10"), Block("zs11"), Byte("zt10"), Byte("zt11")>>, Bin)
               \o Repeat(<<Block("sigma"), Byte("tau0"), Byte("tau1")>>, Bin)
               \o <<Int32("T0"), Int32("T1"), Ge("W00", Bitlength), Ge("W01", Bitlength),
                    Ge("W10", Bitlength), Ge("W11", Bitlength),
                    Ge("gamma0", Bitlength), Ge("gamma1", Bitlength)>>, 0)

SendAnswer == Send("c", Repeat(<<Ge("o", Bitlength)>>, Blocks), 0)
              \o Send("c", Repeat(<<Ge("hato", Bitlength)>>, Blocks), 0)

(***************************************************************************)
(* Receivers: up to the count that decides the length of the rest, and     *)
(* the rest: recv_dpf_key, recv_input_check_pack, .._pack_2.               *)
(***************************************************************************)
RecvKey == Recv("p2", <<Ge("index", Bin), Ge("payload", Bitlength), Int32("height")>>)

RecvKeyRest(n) ==
  Recv("p2", <<Int32("Bout"), Block("s"), Byte("t")>>
             \o Repeat(<<Block("sigma")>>, n)
             \o Repeat(<<Byte("tau0")>>, n) \o Repeat(<<Byte("tau1")>>, n)
             \o <<Ge("gamma0", Bitlength), Ge("gamma1", Bitlength)>>)

RecvPack(p) == Recv(p, <<Ge("index", Bin), Ge("payload", Bitlength), SizeT("size")>>)

RecvPackRest(p, n) ==
  Recv(p, Repeat(<<Block("zs0")>>, n) \o Repeat(<<Block("zs1")>>, n)
          \o Repeat(<<Byte("zt0")>>, n) \o Repeat(<<Byte("zt1")>>, n)
          \o Repeat(<<Block("sigma"), Byte("tau0"), Byte("tau1")>>, n)
          \o <<Int32("T"), Ge("W0", Bitlength), Ge("W1", Bitlength),
               Ge("gamma0", Bitlength), Ge("gamma1", Bitlength)>>)

RecvPack2 ==
  Recv("p2", <<Ge("index0", Bin), Ge("index1", Bin),
               Ge("payload0", Bitlength), Ge("payload1", Bitlength), SizeT("size")>>)

RecvPack2Rest(n) ==
  Recv("p2", Repeat(<<Block("zs00"), Block("zs01"), Byte("zt00"), Byte("zt01")>>, n)
             \o Repeat(<<Block("zs10"), Block("zs11"), Byte("zt10"), Byte("zt11")>>, n)
             \o Repeat(<<Block("sigma"), Byte("tau0"), Byte("tau1")>>, n)
             \o <<Int32("T0"), Int32("T1"), Ge("W00", Bitlength), Ge("W01", Bitlength),
                  Ge("W10", Bitlength), Ge("W11", Bitlength),
                  Ge("gamma0", Bitlength), Ge("gamma1", Bitlength)>>)

RecvAnswer(p) == Recv(p, Repeat(<<Ge("o", Bitlength)>>, Blocks))
                 \o Recv(p, Repeat(<<Ge("hato", Bitlength)>>, Blocks))
-----------------------------------------------------------------------------
(***************************************************************************)
(* The programs.  Start is what a program does up to its first decision;   *)
(* After is what it does because of the value v that ended a section read  *)
(* from peer q.                                                            *)
(***************************************************************************)
CheckCall == <<[do |-> "check", peer |-> "c", section |-> <<>>, val |-> 0]>>

Start(p) ==
  CASE p = "p2"     -> DealTo("p0") \o Send("p0", <<Int32("kgtime")>>, 0)
                       \o DealTo("p1") \o SendPack2
    [] p \in Server -> RecvKey
    [] p = "c"      -> Recv("p0", <<Byte("temp")>>) \o Recv("p1", <<Byte("temp")>>)
                       \o RecvPack("p0") \o RecvPack("p1") \o RecvPack2 \o CheckCall

\* Variants: no server reads kgtime; a server reads accept before it sends
\* its pack.
OfflineUntimed(p, n) ==
  RecvKeyRest(n)
  \o Send("c", <<Byte("temp")>>, 0) \o SendPack(n)
  \o Recv("c", <<Byte("accept")>>)

OfflineAcceptFirst(p, n) ==
  RecvKeyRest(n)
  \o (IF p = "p0" THEN Recv("p2", <<Int32("kgtime")>>) ELSE <<>>)
  \o Send("c", <<Byte("temp")>>, 0)
  \o Recv("c", <<Byte("accept")>>) \o SendPack(n)

Offline(p, n) ==
  RecvKeyRest(n)
  \o (IF p = "p0" THEN Recv("p2", <<Int32("kgtime")>>) ELSE <<>>)
  \o Send("c", <<Byte("temp")>>, 0) \o SendPack(n)
  \o Recv("c", <<Byte("accept")>>)

\* Variant: the rotated index is read in the width of an answer.
OnlineWide(n) == Recv("c", <<Ge("rotated", Bitlength)>>) \o SendAnswer

Online(n) == Recv("c", <<Ge("rotated", n)>>) \o SendAnswer

\* The count of a key or pack, or the accept byte, ends its section.
Deciding(section) == section[Len(section)].field

After(p, q, field, v) ==
  CASE field = "height"               -> Offline(p, v)
    [] field = "size" /\ q \in Server -> RecvPackRest(q, v)
    [] field = "size" /\ q = "p2"     -> RecvPack2Rest(v)
    [] field = "accept"               -> IF v # 0 THEN Online(sizes[<<"p2", p>>]) ELSE <<>>
    [] OTHER                          -> <<>>

\* Variant: p1 is sent an accept that was never assigned.
DecidedForOne(v) ==
  LET n == sizes[<<"p2", "c">>] IN
  Send("p0", <<Byte("accept")>>, v) \o Send("p1", <<Byte("accept")>>, 1)
  \o (IF v = 0 THEN <<>>
      ELSE Send("p0", <<Ge("rotated", n)>>, 0) \o Send("p1", <<Ge("rotated", n)>>, 0)
           \o RecvAnswer("p0") \o RecvAnswer("p1"))

\* What the client does once check_xor has returned v.
Decided(v) ==
  LET n == sizes[<<"p2", "c">>] IN
  Send("p0", <<Byte("accept")>>, v) \o Send("p1", <<Byte("accept")>>, v)
  \o (IF v = 0 THEN <<>>
      ELSE Send("p0", <<Ge("rotated", n)>>, 0) \o Send("p1", <<Ge("rotated", n)>>, 0)
           \o RecvAnswer("p0") \o RecvAnswer("p1"))
-----------------------------------------------------------------------------
Init ==
  /\ todo = [p \in Process |-> Start(p)]
  /\ channel = [l \in Link |-> <<>>]
  /\ status = [p \in Process |-> "running"]
  /\ sizes = [l \in Link |-> 0]
  /\ accept = [p \in Server |-> Unread]
  /\ verdict = Unread
  /\ counted = [p \in Process |-> [sent |-> 0, received |-> 0]]
  /\ crashes = 0

Bytes(section) ==
  LET upTo[k \in 0 .. Len(section)] == IF k = 0 THEN 0 ELSE upTo[k - 1] + section[k].bytes
  IN  upTo[Len(section)]

Call(p)    == Head(todo[p])
Calls(p, d) == status[p] = "running" /\ todo[p] # <<>> /\ Call(p).do = d

\* Every send_* and recv_* counts its bytes, whether they went or came or not.
CountSent(p) == counted' = [counted EXCEPT ![p].sent = @ + Bytes(Call(p).section)]
CountReceived(p) == counted' = [counted EXCEPT ![p].received = @ + Bytes(Call(p).section)]

\* Variant: send() does not wait for room in the buffers.
SendUnbounded(p) ==
  LET l == <<p, Call(p).peer>> IN
  /\ Calls(p, "send")
  /\ status[l[2]] = "running"
  /\ channel' = [channel EXCEPT ![l] =
                   Append(@, [section |-> Call(p).section, val |-> Call(p).val])]
  /\ todo' = [todo EXCEPT ![p] = Tail(@)]
  /\ CountSent(p)
  /\ UNCHANGED <<status, sizes, accept, verdict, crashes>>

\* send(): blocks while the buffers are full.
SendSection(p) ==
  LET l == <<p, Call(p).peer>> IN
  /\ Calls(p, "send")
  /\ status[l[2]] = "running"
  /\ Len(channel[l]) < Capacity
  /\ channel' = [channel EXCEPT ![l] = Append(@, [section |-> Call(p).section, val |-> Call(p).val])]
  /\ todo' = [todo EXCEPT ![p] = Tail(@)]
  /\ CountSent(p)
  /\ UNCHANGED <<status, sizes, accept, verdict, crashes>>

\* send() to a process that is gone: the bytes are lost, or SIGPIPE kills
\* the sender, which handles no signal.
SendToGone(p) ==
  /\ Calls(p, "send")
  /\ status[Call(p).peer] # "running"
  /\ \/ todo' = [todo EXCEPT ![p] = Tail(@)] /\ CountSent(p) /\ UNCHANGED status
     \/ status' = [status EXCEPT ![p] = "died"] /\ UNCHANGED <<todo, counted>>
  /\ UNCHANGED <<channel, sizes, accept, verdict, crashes>>

\* The value v of the section's last field, from the wire or from an unwritten
\* buffer.
Take(p, v) ==
  LET q == Call(p).peer
      f == Deciding(Call(p).section)
  IN  /\ todo' = [todo EXCEPT ![p] = After(p, q, f, v) \o Tail(@)]
      /\ sizes' = IF f \in {"height", "size"} THEN [sizes EXCEPT ![<<q, p>>] = v] ELSE sizes
      /\ accept' = IF f = "accept" THEN [accept EXCEPT ![p] = v] ELSE accept

RecvSection(p) ==
  LET l == <<Call(p).peer, p>> IN
  /\ Calls(p, "recv")
  /\ channel[l] # <<>>
  /\ Take(p, Head(channel[l]).val)
  /\ CountReceived(p)
  /\ channel' = [channel EXCEPT ![l] = Tail(@)]
  /\ UNCHANGED <<status, verdict, crashes>>

\* recv() at the end of file returns at once and leaves the caller's buffer
\* as it was; nobody looks at the result.
Garbage(field) == IF field \in {"height", "size"} THEN 0 .. MaxCount
                  ELSE IF field = "accept" THEN {0, 1} ELSE {0}

RecvEndOfFile(p) ==
  LET l == <<Call(p).peer, p>> IN
  /\ Calls(p, "recv")
  /\ channel[l] = <<>>
  /\ status[l[1]] # "running"
  /\ \E v \in Garbage(Deciding(Call(p).section)) : Take(p, v)
  /\ CountReceived(p)
  /\ UNCHANGED <<channel, status, verdict, crashes>>

\* A count made up there can be negative or huge: operator new throws, and
\* nobody catches it.
AllocationFails(p) ==
  /\ Calls(p, "recv")
  /\ channel[<<Call(p).peer, p>>] = <<>>
  /\ status[Call(p).peer] # "running"
  /\ Deciding(Call(p).section) \in {"height", "size"}
  /\ status' = [status EXCEPT ![p] = "died"]
  /\ UNCHANGED <<todo, channel, sizes, accept, verdict, counted, crashes>>

\* check_xor compares the three sizes first; the other values decide the rest.
SizesMatch == /\ sizes[<<"p0", "c">>] = sizes[<<"p1", "c">>]
              /\ sizes[<<"p1", "c">>] = sizes[<<"p2", "c">>]
Check ==
  /\ Calls("c", "check")
  /\ \E v \in IF SizesMatch THEN {0, 1} ELSE {0} :
       /\ verdict' = v
       /\ todo' = [todo EXCEPT !["c"] = Decided(v) \o Tail(@)]
  /\ UNCHANGED <<channel, status, sizes, accept, counted, crashes>>

Return(p) ==
  /\ status[p] = "running"
  /\ todo[p] = <<>>
  /\ status' = [status EXCEPT ![p] = "ended"]
  /\ UNCHANGED <<todo, channel, sizes, accept, verdict, counted, crashes>>

Crash(p) ==
  /\ status[p] = "running"
  /\ crashes < MaxCrashes
  /\ crashes' = crashes + 1
  /\ status' = [status EXCEPT ![p] = "died"]
  /\ UNCHANGED <<todo, channel, sizes, accept, verdict, counted>>

Step(p) ==
  \/ SendSection(p) \/ SendToGone(p) \/ RecvSection(p)
  \/ RecvEndOfFile(p) \/ AllocationFails(p) \/ Return(p)
  \/ p = "c" /\ Check

Next == \E p \in Process : Step(p) \/ Crash(p)

Spec == Init /\ [][Next]_vars

\* The operating system runs every process; nothing makes one crash.
Fairness == \A p \in Process : WF_vars(Step(p))
FairSpec == Spec /\ Fairness
-----------------------------------------------------------------------------
(***************************************************************************)
(* Types; a connection never holds more than its buffers do.               *)
(***************************************************************************)
TypeOK ==
  /\ \A p \in Process : \A k \in DOMAIN todo[p] :
       todo[p][k].do \in {"send", "recv", "check"} /\ todo[p][k].peer \in Process
  /\ \A l \in Link : Len(channel[l]) <= Capacity
  /\ status \in [Process -> {"running", "ended", "died"}]
  /\ sizes \in [Link -> 0 .. MaxCount]
  /\ accept \in [Server -> {0, 1, Unread}]
  /\ verdict \in {0, 1, Unread}
  /\ counted \in [Process -> [sent : Nat, received : Nat]]
  /\ crashes \in 0 .. MaxCrashes

(***************************************************************************)
(* The streams stay in frame: what is at the head of a connection are the  *)
(* fields, of the widths, that the next recv calls on it ask for, in their *)
(* order.  This holds although the loops run over counts that were         *)
(* themselves received, and although the width of the rotated index        *)
(* depends at the client on ip2.size and at the server on the height in    *)
(* its key: an accept implies that they agree, even when they were read at *)
(* an end of file.                                                         *)
(***************************************************************************)
Framed ==
  \A p \in Process :
    Calls(p, "recv") =>
      LET l == <<Call(p).peer, p>> IN
      channel[l] # <<>> => Head(channel[l]).section = Call(p).section

(***************************************************************************)
(* A server answers only a query that the client's check admitted, and     *)
(* turns away only one that it did not.  It makes up an accept byte only   *)
(* if the client died before it sent this server one: of two servers, the  *)
(* one that was told keeps to the verdict although the client died between *)
(* its two sends, and the other may do as it likes.                        *)
(***************************************************************************)
AcceptDue(p) ==
  \/ verdict = Unread
  \/ \E k \in DOMAIN todo["c"] :
       LET call == todo["c"][k] IN
       call.do = "send" /\ call.peer = p /\ Deciding(call.section) = "accept"

AcceptIsVerdict ==
  \A p \in Server :
    accept[p] # Unread => accept[p] = verdict \/ (status["c"] = "died" /\ AcceptDue(p))

(***************************************************************************)
(* Without a crash nobody is killed by a broken pipe and nobody reads a    *)
(* peer's end of file, and when all four have returned, every field sent   *)
(* has been read, and the programs' counters agree: they received as many  *)
(* bytes as they sent.                                                     *)
(***************************************************************************)
CleanFinish ==
  crashes = 0 =>
    /\ \A p \in Process : status[p] # "died"
    /\ \A p \in Process : Calls(p, "recv") =>
         LET l == <<Call(p).peer, p>> IN
         channel[l] = <<>> => status[l[1]] = "running"
    /\ (\A p \in Process : status[p] = "ended") =>
         /\ \A l \in Link : channel[l] = <<>>
         /\ LET total(f) == counted["p0"][f] + counted["p1"][f]
                            + counted["p2"][f] + counted["c"][f]
            IN  total("sent") = total("received")

(***************************************************************************)
(* No process waits forever, however small the buffers, whoever crashes    *)
(* and whenever: the fixed order in which the client reads its peers (p0,  *)
(* p1, then p2) and in which p2 serves its peers (p0, p1, then c) makes no *)
(* cycle of waiting.                                                       *)
(***************************************************************************)
AllStop == <>(\A p \in Process : status[p] # "running")
=============================================================================
