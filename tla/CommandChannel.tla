--------------------------- MODULE CommandChannel ---------------------------
(***************************************************************************)
(* Clients talking to the server: NeuronClient/ClientSocket on one side,   *)
(* SocketManager on the other, and a network that loses, copies, reorders  *)
(* and corrupts datagrams in between.                                      *)
(*                                                                         *)
(* A packet's payload is the pair of the session that sent it and its      *)
(* position in that session, so that two commands are never mistaken for   *)
(* one another, whatever sequence numbers they carry.                      *)
(***************************************************************************)
EXTENDS SocketManager

CONSTANTS
  Clients,         \* client processes
  NoPort,          \* an unbound socket
  SeqSpace,        \* 2^32 in the code: m_sendSequence is a uint32_t
  MaxSessions,     \* bound: connect() calls in a behaviour
  MaxSent          \* bound: packets per session

ASSUME ChannelAssumption ==
  /\ SeqSpace \in Nat /\ MaxSent \in Nat /\ MaxSessions \in Nat
  /\ SequenceNumbers = 0 .. SeqSpace - 1
  /\ MaxSent < SeqSpace
  /\ NoPort \notin Endpoints
  /\ Payloads = (1 .. MaxSessions) \X (0 .. MaxSent)

VARIABLES
  port,          \* m_socket's local port, per client; the server sees it as the sender
  sendSequence,  \* m_sendSequence, per client
  sentCount,     \* packets of the current session, per client
  session,       \* the number of the client's current session
  sessions,      \* sessions opened so far
  network        \* every datagram ever sent; each may arrive never or often

clientVars == <<port, sendSequence, sentCount, session, sessions, network>>
channelVars == <<socketVars, clientVars>>

Connected(c) == port[c] # NoPort

Packet(c, p, seq, n, s) ==
  [from |-> p, seq |-> seq, payload |-> <<s, n>>, result |-> "Ok"]

ChannelInit ==
  /\ SocketInit
  /\ port = [c \in Clients |-> NoPort]
  /\ sendSequence = [c \in Clients |-> 0]
  /\ sentCount = [c \in Clients |-> 0]
  /\ session = [c \in Clients |-> 0]
  /\ sessions = 0
  /\ network = {}

(* Mutant: the number the PingPacket took is not counted.                  *)
Connect_PingUncounted(c, p) ==
  /\ sessions < MaxSessions
  /\ \A other \in Clients \ {c} : port[other] # p
  /\ port' = [port EXCEPT ![c] = p]
  /\ sendSequence' = [sendSequence EXCEPT ![c] = 0]
  /\ sentCount' = [sentCount EXCEPT ![c] = 1]
  /\ sessions' = sessions + 1
  /\ session' = [session EXCEPT ![c] = sessions + 1]
  /\ network' = network \cup {Packet(c, p, 0, 0, sessions + 1)}
  /\ UNCHANGED socketVars

(* connect(): leave an old session, bind a free port, perhaps one another  *)
(* session has had, restart the sequence and announce the client with a    *)
(* PingPacket.                                                             *)
Connect(c, p) ==
  /\ sessions < MaxSessions
  /\ \A other \in Clients \ {c} : port[other] # p
  /\ port' = [port EXCEPT ![c] = p]
  /\ sendSequence' = [sendSequence EXCEPT ![c] = 1]
  /\ sentCount' = [sentCount EXCEPT ![c] = 1]
  /\ sessions' = sessions + 1
  /\ session' = [session EXCEPT ![c] = sessions + 1]
  /\ network' = network \cup {Packet(c, p, 0, 0, sessions + 1)}
  /\ UNCHANGED socketVars

(* disconnect() *)
Disconnect(c) ==
  /\ Connected(c)
  /\ port' = [port EXCEPT ![c] = NoPort]
  /\ UNCHANGED <<sendSequence, sentCount, session, sessions, network,
                 socketVars>>

(* sendCommand(cmd), which GameApp::Update calls when connected.           *)
SendCommand(c) ==
  /\ Connected(c)
  /\ sentCount[c] < MaxSent
  /\ network' = network \cup
       {Packet(c, port[c], sendSequence[c], sentCount[c], session[c])}
  /\ sendSequence' = [sendSequence EXCEPT ![c] = (@ + 1) % SeqSpace]
  /\ sentCount' = [sentCount EXCEPT ![c] = @ + 1]
  /\ UNCHANGED <<port, session, sessions, socketVars>>

(* A datagram arrives, intact or not, and may do so again.  Damage to its  *)
(* magic number, its length or what it carries shows in the verdict, but   *)
(* the check sum covers the payload alone (PacketTypes.h:20): a packet     *)
(* with a damaged sequence number is as good as any.  In a datagram's      *)
(* place the socket may also report that a port is closed.                 *)
Transmit ==
  /\ \E d \in network :
       \/ \E result \in DecodeResults \cup {NoDatagram} :
            Arrive([d EXCEPT !.result = result])
       \/ \E seq \in SequenceNumbers : Arrive([d EXCEPT !.seq = seq])
  /\ UNCHANGED clientVars

ServerStep ==
  /\ RecvOne \/ FinishTick
  /\ UNCHANGED clientVars

ChannelNext ==
  \/ \E c \in Clients :
       \/ \E p \in Endpoints : Connect(c, p)
       \/ Disconnect(c)
       \/ SendCommand(c)
  \/ Transmit
  \/ ServerStep

ChannelSpec == ChannelInit /\ [][ChannelNext]_channelVars

-----------------------------------------------------------------------------
HandedOver(d) ==
  \E i \in DOMAIN delivered[d.from] :
    delivered[d.from][i].payload = d.payload

(* x arrived from port p with the number its session gave it.              *)
Genuine(p, x) ==
  \E d \in network : d.from = p /\ d.seq = x.seq /\ d.payload = x.payload

(* All packets from port p are of one session, and none that recvPackets   *)
(* handed over had its number damaged.                                     *)
Trusted(p) ==
  /\ \A d, e \in network : d.from = p /\ e.from = p => d.payload[1] = e.payload[1]
  /\ \A i \in DOMAIN delivered[p] : Genuine(p, delivered[p][i])

(* StarStrike.md:768, "drop if already processed": an undamaged packet     *)
(* that recvPackets takes for a duplicate is one it has handed over, never *)
(* a new command that happens to carry an old sequence number, on a port   *)
(* that so far one session had and no damaged number came from.            *)
OnlyProcessedDropped ==
  [][DropDuplicate /\ Trusted(Head(inbox).from) /\ Genuine(Head(inbox).from, Head(inbox))
       => HandedOver(Head(inbox))]_channelVars

(* The same without looking at who had the port before: what the documents *)
(* promise while nothing is damaged.                                       *)
UndamagedDroppedOnlyIfProcessed ==
  [][DropDuplicate /\ Genuine(Head(inbox).from, Head(inbox))
        /\ (\A p \in Endpoints : \A i \in DOMAIN delivered[p] : Genuine(p, delivered[p][i]))
       => HandedOver(Head(inbox))]_channelVars

(* A command from such a port reaches the main loop at most once while its *)
(* session has sent no more packets than the window holds, however often   *)
(* the network copies it and whatever other ports send.                    *)
CommandsAtMostOnce ==
  \A p \in Endpoints : Trusted(p) =>
    \A i, j \in DOMAIN delivered[p] :
      LET command == delivered[p][i].payload
          sent    == {d \in network : d.payload[1] = command[1]}
      IN  i # j /\ Cardinality(sent) <= DEDUP_WINDOW => delivered[p][j].payload # command
=============================================================================
