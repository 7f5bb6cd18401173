----------------------------- MODULE TcpServer -----------------------------
(***************************************************************************)
(* The TCP server (comp/tcpserver.cpp) and the event loop it hands the     *)
(* requests to (tcp_handler, tools/tcp_events.cpp).                        *)
(*                                                                         *)
(* server_task accepts connections and starts a task wait_data for each,   *)
(* which learns its socket from the variable last_socket.  The task reads  *)
(* into a buffer of its own and posts only a pointer to it; after 50 ms it *)
(* reads again, whether the event loop has taken the request or not.       *)
(*                                                                         *)
(* A request is a pair <<connection, number>>, number 0 is a ping.  What   *)
(* the request does is the subject of other modules: data_parse takes its  *)
(* time and answers.                                                       *)
(***************************************************************************)
EXTENDS Integers, Sequences, Functions

CONSTANTS
    MaxConn,   \* bound on the connections, which are numbered as they arrive
    Ip,        \* the address each connection comes from
    Fd,        \* the sockets lwIP has left
    QueueLen,  \* events the loop can hold
    MaxReq,    \* bound on the requests of all clients
    MaxPing,   \* bound on their pings
    None

ASSUME ConnAssumption == MaxConn \in Nat /\ DOMAIN Ip = 1 .. MaxConn
ASSUME FdAssumption == Fd \subseteq 0 .. 255 \* last_socket is a uint8_t
ASSUME QueueAssumption == QueueLen \in Nat \ {0}

Conn == 1 .. MaxConn

ASSUME NoneAssumption == None \notin Conn

VARIABLES
    stream,        \* what each client has sent and nobody has read yet
    sent,          \* the requests each has sent
    pings,         \* the pings of all
    peer,          \* "new", "waiting" to be accepted, "open", "closed" by the client
    owner,         \* the connection behind each socket
    server,        \* where server_task is
    accepted,      \* the connection it has just accepted, and its socket
    last_socket,
    client_handle, \* the list of clients
    pc, sck,       \* each connection's wait_data task, and the socket it serves
    rx_buffer,     \* its buffer
    queue,         \* posted events: pointers to buffers
    work,          \* the requests the event loop has copied
    received,      \* the requests that were posted
    handled,       \* the requests that data_parse has seen
    late,          \* a buffer was read into, or freed, before its event was taken
    raced          \* a task was started for one socket and took another

client == <<stream, sent, pings, peer>>
listen == <<server, accepted, last_socket>>
task == <<pc, sck, rx_buffer>>
loop == <<queue, work, handled>>
vars == <<client, owner, listen, client_handle, task, loop, received, late, raced>>

Init ==
    /\ stream = [c \in Conn |-> <<>>]
    /\ sent = [c \in Conn |-> 0] /\ pings = 0
    /\ peer = [c \in Conn |-> "new"]
    /\ owner = [f \in Fd |-> None]
    /\ server = "accept" /\ accepted = None /\ last_socket = 0
    /\ client_handle = <<>>
    /\ pc = [c \in Conn |-> "none"] /\ sck = [c \in Conn |-> 0]
    /\ rx_buffer = [c \in Conn |-> <<>>]
    /\ queue = <<>> /\ work = <<>>
    /\ received = [c \in Conn |-> <<>>] /\ handled = [c \in Conn |-> <<>>]
    /\ late = FALSE /\ raced = FALSE
-----------------------------------------------------------------------------
(* The clients *)

\* Bound: once a request is overwritten or a socket has no task, nothing is
\* claimed any more, and the clients only close their connections.
Claimed == ~late /\ ~raced

Connect(c) ==
    /\ peer[c] = "new" /\ Claimed
    /\ \A d \in 1 .. c - 1 : peer[d] # "new"
    /\ peer' = [peer EXCEPT ![c] = "waiting"]
    /\ UNCHANGED <<stream, sent, pings, owner, listen, client_handle, task, loop, received,
                   late, raced>>

Ask(c) ==
    /\ peer[c] \in {"waiting", "open"}
    /\ FoldFunction(+, 0, sent) < MaxReq /\ Claimed
    /\ sent' = [sent EXCEPT ![c] = @ + 1]
    /\ stream' = [stream EXCEPT ![c] = Append(@, <<c, sent[c] + 1>>)]
    /\ UNCHANGED <<pings, peer, owner, listen, client_handle, task, loop, received, late, raced>>

Ping(c) ==
    /\ peer[c] = "open" /\ pings < MaxPing /\ Claimed
    /\ pings' = pings + 1
    /\ stream' = [stream EXCEPT ![c] = Append(@, <<c, 0>>)]
    /\ UNCHANGED <<sent, peer, owner, listen, client_handle, task, loop, received, late, raced>>

Disconnect(c) ==
    /\ peer[c] = "open"
    /\ peer' = [peer EXCEPT ![c] = "closed"]
    /\ UNCHANGED <<stream, sent, pings, owner, listen, client_handle, task, loop, received,
                   late, raced>>
-----------------------------------------------------------------------------
(* server_task *)

\* Faulty: an entry of the same client is taken for this socket's.
EnlistedByIp(list, ip, f) ==
    IF \E i \in DOMAIN list : list[i].ip = ip
    THEN LET i == CHOOSE j \in DOMAIN list : list[j].ip = ip
         IN  [list EXCEPT ![i].active = 1]
    ELSE <<[ip |-> ip, sock |-> f, active |-> 1]>> \o list

\* The list after a connection from ip on socket f: its old entry, or a new one.
Enlisted(list, ip, f) ==
    IF \E i \in DOMAIN list : list[i].ip = ip /\ list[i].sock = f
    THEN LET i == CHOOSE j \in DOMAIN list :
                    /\ list[j].ip = ip /\ list[j].sock = f
                    /\ \A k \in 1 .. j - 1 : list[k].ip # ip \/ list[k].sock # f
         IN  [list EXCEPT ![i].active = 1]
    ELSE <<[ip |-> ip, sock |-> f, active |-> 1]>> \o list

Oldest(c) == peer[c] = "waiting" /\ \A d \in 1 .. c - 1 : peer[d] # "waiting"

Free == {f \in Fd : owner[f] = None}

\* accept: lwIP takes its first free socket.
Accept(c) ==
    /\ server = "accept" /\ Oldest(c) /\ Free # {}
    /\ LET f == CHOOSE g \in Free : \A h \in Free : g <= h
       IN  /\ owner' = [owner EXCEPT ![f] = c]
           /\ client_handle' = Enlisted(client_handle, Ip[c], f)
           /\ accepted' = [conn |-> c, sock |-> f]
    /\ peer' = [peer EXCEPT ![c] = "open"]
    /\ server' = "start"
    /\ UNCHANGED <<stream, sent, pings, last_socket, task, loop, received, late, raced>>

\* Without a free socket accept fails, and the server ends for good.
AcceptFails(c) ==
    /\ server = "accept" /\ Oldest(c) /\ Free = {}
    /\ server' = "ended"
    /\ peer' = [peer EXCEPT ![c] = "closed"]
    /\ UNCHANGED <<stream, sent, pings, owner, accepted, last_socket, client_handle, task,
                   loop, received, late, raced>>

\* last_socket, and a task that is to read it.
StartTask ==
    /\ server = "start"
    /\ last_socket' = accepted.sock
    /\ pc' = [pc EXCEPT ![accepted.conn] = "created"]
    /\ server' = "accept" /\ accepted' = None
    /\ UNCHANGED <<client, owner, client_handle, sck, rx_buffer, loop, received, late, raced>>
-----------------------------------------------------------------------------
(* wait_data and data_transmit *)

Begin(c) ==
    /\ pc[c] = "created"
    /\ sck' = [sck EXCEPT ![c] = last_socket]
    /\ pc' = [pc EXCEPT ![c] = "recv"]
    /\ raced' = (raced \/ owner[last_socket] # c)
    /\ UNCHANGED <<client, owner, listen, client_handle, rx_buffer, loop, received, late>>

\* strstr finds a ping anywhere in the buffer.
IsPing(data) == \E i \in DOMAIN data : data[i][2] = 0

\* recv takes whatever has arrived.  A ping is answered, and nothing else in
\* the buffer is looked at.
Receive(c) ==
    LET o == owner[sck[c]]
    IN  /\ pc[c] = "recv" /\ o # None /\ stream[o] # <<>>
        /\ stream' = [stream EXCEPT ![o] = <<>>]
        /\ rx_buffer' = [rx_buffer EXCEPT ![c] = stream[o]]
        /\ pc' = [pc EXCEPT ![c] = IF IsPing(stream[o]) THEN "recv" ELSE "post"]
        /\ received' = IF IsPing(stream[o]) THEN received
                        ELSE [received EXCEPT ![o] = @ \o stream[o]]
        /\ late' = (late \/ \E i \in DOMAIN queue : queue[i] = c)
        /\ UNCHANGED <<sent, pings, peer, owner, listen, client_handle, sck, loop, raced>>

\* Faulty: reads on at once.
PostAtOnce(c) ==
    /\ pc[c] = "post" /\ Len(queue) < QueueLen
    /\ queue' = Append(queue, c)
    /\ pc' = [pc EXCEPT ![c] = "recv"]
    /\ UNCHANGED <<client, owner, listen, client_handle, sck, rx_buffer, work, handled,
                   received, late, raced>>

\* esp_event_post waits for room in the queue.
Post(c) ==
    /\ pc[c] = "post" /\ Len(queue) < QueueLen
    /\ queue' = Append(queue, c)
    /\ pc' = [pc EXCEPT ![c] = "delay"]
    /\ UNCHANGED <<client, owner, listen, client_handle, sck, rx_buffer, work, handled,
                   received, late, raced>>

\* The 50 ms are over.
Delayed(c) ==
    /\ pc[c] = "delay"
    /\ pc' = [pc EXCEPT ![c] = "recv"]
    /\ late' = (late \/ \E i \in DOMAIN queue : queue[i] = c)
    /\ UNCHANGED <<client, owner, listen, client_handle, sck, rx_buffer, loop, received, raced>>

\* recv finds the connection closed, or no connection at all; free(rx_buffer).
ReceiveNothing(c) ==
    LET o == owner[sck[c]]
    IN  /\ pc[c] = "recv" /\ IF o = None THEN TRUE ELSE stream[o] = <<>> /\ peer[o] = "closed"
        /\ pc' = [pc EXCEPT ![c] = "delete"]
        /\ rx_buffer' = [rx_buffer EXCEPT ![c] = <<>>]
        /\ UNCHANGED <<client, owner, listen, client_handle, sck, loop, received, late, raced>>

\* delete_client: the first active entry of the socket.
DeleteClient(c) ==
    /\ pc[c] = "delete"
    /\ client_handle' =
         [i \in DOMAIN client_handle |->
             IF /\ client_handle[i].sock = sck[c] /\ client_handle[i].active = 1
                /\ \A k \in 1 .. i - 1 : client_handle[k].sock # sck[c]
                                         \/ client_handle[k].active = 0
             THEN [client_handle[i] EXCEPT !.active = 0] ELSE client_handle[i]]
    /\ pc' = [pc EXCEPT ![c] = "close"]
    /\ UNCHANGED <<client, owner, listen, sck, rx_buffer, loop, received, late, raced>>

\* Faulty: the socket stays open.
CloseNothing(c) ==
    /\ pc[c] = "close"
    /\ pc' = [pc EXCEPT ![c] = "done"]
    /\ UNCHANGED <<client, owner, listen, client_handle, sck, rx_buffer, loop, received,
                   late, raced>>

Close(c) ==
    /\ pc[c] = "close"
    /\ owner' = [owner EXCEPT ![sck[c]] = None]
    /\ pc' = [pc EXCEPT ![c] = "done"]
    /\ UNCHANGED <<client, listen, client_handle, sck, rx_buffer, loop, received, late, raced>>

Serve(c) ==
    \/ Begin(c) \/ Receive(c) \/ Post(c) \/ Delayed(c) \/ ReceiveNothing(c)
    \/ DeleteClient(c) \/ Close(c)
-----------------------------------------------------------------------------
(* The event loop *)

\* tcp_handler copies what the buffer holds now.
Take ==
    /\ queue # <<>> /\ work = <<>>
    /\ work' = rx_buffer[Head(queue)]
    /\ queue' = Tail(queue)
    /\ UNCHANGED <<client, owner, listen, client_handle, task, handled, received, late, raced>>

\* Faulty: only the first request of a buffer is looked at.
ParseFirst ==
    /\ work # <<>>
    /\ handled' = [handled EXCEPT ![Head(work)[1]] = Append(@, Head(work))]
    /\ work' = <<>>
    /\ UNCHANGED <<client, owner, listen, client_handle, task, queue, received, late, raced>>

\* One token of strtok after the other; data_parse answers every active client.
Parse ==
    /\ work # <<>>
    /\ handled' = [handled EXCEPT ![Head(work)[1]] = Append(@, Head(work))]
    /\ work' = Tail(work)
    /\ UNCHANGED <<client, owner, listen, client_handle, task, queue, received, late, raced>>
-----------------------------------------------------------------------------
Next ==
    \/ \E c \in Conn : Connect(c) \/ Ask(c) \/ Ping(c) \/ Disconnect(c)
    \/ \E c \in Conn : Accept(c) \/ AcceptFails(c)
    \/ StartTask
    \/ \E c \in Conn : Serve(c)
    \/ Take \/ Parse

Spec == Init /\ [][Next]_vars

\* The tasks run; data_parse comes back.
Fairness ==
    /\ WF_vars(\E c \in Conn : Accept(c) \/ AcceptFails(c))
    /\ WF_vars(StartTask)
    /\ \A c \in Conn : WF_vars(Serve(c))
    /\ WF_vars(Take \/ Parse)

FairSpec == Spec /\ Fairness
-----------------------------------------------------------------------------
(* Properties *)

\* The requests of a connection that the event loop has copied, and those its task
\* has read and posts, or has posted, a pointer to.
Copied(c) == IF work # <<>> /\ Head(work)[1] = c THEN work ELSE <<>>
Posted(c) == IF pc[c] = "post" \/ (\E i \in DOMAIN queue : queue[i] = c)
             THEN rx_buffer[c] ELSE <<>>

\* As long as the event loop takes every request within the 50 ms, each request
\* that was read is handled once and in the order of its connection, although
\* only pointers are posted (tcpserver.cpp:42-47, tcp_events.cpp:681-694).
HandledAsReceived ==
    Claimed => \A c \in Conn : handled[c] \o Copied(c) \o Posted(c) = received[c]

Entries(f) == {i \in DOMAIN client_handle :
                  client_handle[i].sock = f /\ client_handle[i].active = 1}

Matches(f) ==
    IF owner[f] = None \/ pc[owner[f]] = "close"
    THEN Entries(f) = {}
    ELSE \E i \in DOMAIN client_handle :
            Entries(f) = {i} /\ client_handle[i].ip = Ip[owner[f]]

\* The active entries of the list, to which all answers go, are the sockets in
\* use, each once and under the address of its client (tcpserver.cpp:132-154,
\* 224-238), unless two connections were accepted before the first one's task
\* had read last_socket.
ListMatchesSockets == ~raced => \A f \in Fd : Matches(f)

\* In the end every request that was read has been handled
\* (tcpserver.cpp:46, portMAX_DELAY).
RequestsHandled == <>[](late \/ raced \/ handled = received)

\* The socket of a connection that its client has closed becomes free
\* (tcpserver.cpp:14-16).
SocketsComeBack ==
    <>[](raced \/ \A f \in Fd : owner[f] # None => peer[owner[f]] = "open")

\* ListMatchesSockets made inductive: a connection has a socket from accept on
\* and no other connection has it, and the task it is served by knows it.
Handle == [ip : {Ip[c] : c \in Conn}, sock : Fd, active : {0, 1}]
Serving == {"recv", "post", "delay", "delete", "close"}

TypeOK ==
    /\ peer \in [Conn -> {"new", "waiting", "open", "closed"}]
    /\ owner \in [Fd -> Conn \cup {None}]
    /\ client_handle \in Seq(Handle)
    /\ pc \in [Conn -> {"none", "created", "done"} \cup Serving]
    /\ sck \in [Conn -> Fd \cup {0}]
    /\ last_socket \in Fd \cup {0}
    /\ raced \in BOOLEAN

AcceptInv ==
    /\ server = "start" =>
          /\ accepted.conn \in Conn /\ accepted.sock \in Fd
          /\ pc[accepted.conn] = "none"
          /\ peer[accepted.conn] \notin {"new", "waiting"}
    /\ \A c \in Conn : peer[c] \in {"new", "waiting"} =>
          pc[c] = "none" /\ \A f \in Fd : owner[f] # c
    /\ \A c \in Conn : pc[c] = "created" => last_socket \in Fd

SocketInv ==
    /\ \A c \in Conn : pc[c] \in Serving => sck[c] \in Fd /\ owner[sck[c]] = c
    /\ \A f, g \in Fd : owner[f] = owner[g] /\ owner[f] # None => f = g

ListInv == TypeOK /\ AcceptInv /\ (~raced => SocketInv) /\ ListMatchesSockets

\* HandledAsReceived made inductive: what is read from a connection was sent on it,
\* and a buffer that is posted is not read into before the event loop has copied it.
Requests(c) == Seq({c} \X Nat)

BufferInv ==
    /\ DOMAIN stream = Conn /\ DOMAIN sent = Conn /\ DOMAIN rx_buffer = Conn
    /\ DOMAIN handled = Conn /\ DOMAIN received = Conn
    /\ \A c \in Conn :
          /\ stream[c] \in Requests(c) /\ sent[c] \in Nat /\ rx_buffer[c] \in Requests(c)
          /\ handled[c] \in Requests(c) /\ received[c] \in Requests(c)
    /\ work # <<>> => \E c \in Conn : work \in Requests(c)

QueueInv ==
    /\ queue \in Seq(Conn)
    /\ \A i, j \in DOMAIN queue : queue[i] = queue[j] => i = j
    /\ \A i \in DOMAIN queue : pc[queue[i]] = "delay"

HandledInv == /\ ListInv /\ late \in BOOLEAN
              /\ Claimed => BufferInv /\ QueueInv /\ HandledAsReceived
=============================================================================
