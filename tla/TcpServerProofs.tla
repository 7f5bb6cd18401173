-------------------------- MODULE TcpServerProofs --------------------------
(***************************************************************************)
(* The list of clients matches the open sockets, and every request is      *)
(* handled once and in order, for every number of connections, sockets,    *)
(* requests and clients.                                                   *)
(***************************************************************************)
EXTENDS TcpServer, WellFoundedInduction, TLAPS, SequenceTheorems

\* A nonempty set of naturals has a least element: the search for a socket or an entry.
LEMMA LeastIndex ==
    ASSUME NEW T, T \subseteq Nat, T # {}
    PROVE  \E i \in T : \A k \in T : i <= k
<1> DEFINE less == {p \in Nat \X Nat : p[1] < p[2]}
<1>1. OpToRel(<, Nat) = less
  BY Zenon DEF OpToRel
<1>2. IsWellFoundedOn(less, Nat)
  BY <1>1, NatLessThanWellFounded, Zenon
<1>3. \E x \in T : \A y \in T : ~ (<<y, x>> \in less)
  <2> HIDE DEF less
  <2> QED BY <1>2, WFMin
<1>4. \A x, y \in T : <<y, x>> \notin less => x <= y
  OBVIOUS
<1> QED BY <1>3, <1>4

LEMMA InitList == Init => ListInv
<1> SUFFICES ASSUME Init PROVE ListInv
  OBVIOUS
<1> USE DEF Init
<1>1. TypeOK
  <2>1. peer \in [Conn -> {"new", "waiting", "open", "closed"}]
    OBVIOUS
  <2>2. owner \in [Fd -> Conn \cup {None}]
    OBVIOUS
  <2>3. pc \in [Conn -> {"none", "created", "done"} \cup Serving]
    OBVIOUS
  <2>4. sck \in [Conn -> Fd \cup {0}] /\ last_socket \in Fd \cup {0}
    OBVIOUS
  <2>5. client_handle \in Seq(Handle) /\ raced \in BOOLEAN
    <3>1. client_handle = <<>> /\ raced = FALSE
      OBVIOUS
    <3>2. <<>> \in Seq(Handle)
      OBVIOUS
    <3> HIDE DEF Init
    <3> QED BY <3>1, <3>2
  <2> QED BY <2>1, <2>2, <2>3, <2>4, <2>5 DEF TypeOK
<1>2. AcceptInv
  BY NoneAssumption DEF AcceptInv
<1>3. SocketInv
  BY DEF SocketInv, Serving
<1>4. ListMatchesSockets
  BY DEF ListMatchesSockets, Matches, Entries
<1> QED BY <1>1, <1>2, <1>3, <1>4 DEF ListInv

-----------------------------------------------------------------------------
(* Steps that leave the list, the sockets and the server alone *)

LEMMA FrameList ==
    ASSUME ListInv,
           UNCHANGED <<owner, client_handle, sck, accepted, last_socket>>,
           raced' = raced, server' = "start" => server = "start",
           peer' \in [Conn -> {"new", "waiting", "open", "closed"}],
           pc' \in [Conn -> {"none", "created", "done"} \cup Serving],
           \A c \in Conn :
              /\ peer'[c] \in {"new", "waiting"} => peer[c] \in {"new", "waiting"}
              /\ pc'[c] = "none" <=> pc[c] = "none"
              /\ pc'[c] = "created" => pc[c] = "created"
              /\ pc'[c] \in Serving => pc[c] \in Serving
              /\ pc'[c] = "close" <=> pc[c] = "close"
    PROVE  ListInv'
<1>1. TypeOK'
  BY DEF ListInv, TypeOK
<1>2. AcceptInv'
  BY DEF ListInv, AcceptInv
<1>3. ~raced' => SocketInv'
  BY DEF ListInv, SocketInv
<1>4. ListMatchesSockets'
  <2> SUFFICES ASSUME ~raced', NEW f \in Fd PROVE Matches(f)'
    BY DEF ListMatchesSockets
  <2>1. Matches(f) /\ owner[f] \in Conn \cup {None}
    BY DEF ListInv, ListMatchesSockets, TypeOK
  <2>2. Entries(f)' = Entries(f)
    BY DEF Entries
  <2> QED BY <2>1, <2>2 DEF Matches
<1> QED BY <1>1, <1>2, <1>3, <1>4 DEF ListInv

\* What the clients do.
LEMMA ClientList ==
    ASSUME ListInv, NEW c \in Conn, Connect(c) \/ Ask(c) \/ Ping(c) \/ Disconnect(c)
    PROVE  ListInv'
<1>1. UNCHANGED <<owner, client_handle, sck, accepted, last_socket, raced, server, pc>>
  BY DEF Connect, Ask, Ping, Disconnect, listen, task
<1>2. /\ peer' \in [Conn -> {"new", "waiting", "open", "closed"}]
      /\ \A d \in Conn : peer'[d] \in {"new", "waiting"} => peer[d] \in {"new", "waiting"}
  BY DEF Connect, Ask, Ping, Disconnect, ListInv, TypeOK
<1>3. pc \in [Conn -> {"none", "created", "done"} \cup Serving]
  BY DEF ListInv, TypeOK
<1> QED BY <1>1, <1>2, <1>3, FrameList

\* What a task does while it has its socket, and what the event loop does.
LEMMA ServeList ==
    ASSUME ListInv, NEW c \in Conn,
           Receive(c) \/ Post(c) \/ Delayed(c) \/ ReceiveNothing(c)
    PROVE  ListInv'
<1>1. UNCHANGED <<owner, client_handle, sck, accepted, last_socket, raced, server, peer>>
  BY DEF Receive, Post, Delayed, ReceiveNothing, listen, client
<1>2. PICK there \in {"recv", "post", "delay", "delete"} : pc' = [pc EXCEPT ![c] = there]
  BY DEF Receive, Post, Delayed, ReceiveNothing
<1>3. pc[c] \in {"recv", "post", "delay"}
  BY DEF Receive, Post, Delayed, ReceiveNothing
<1>4. /\ pc \in [Conn -> {"none", "created", "done"} \cup Serving]
      /\ peer \in [Conn -> {"new", "waiting", "open", "closed"}]
  BY DEF ListInv, TypeOK
<1>5. /\ pc' \in [Conn -> {"none", "created", "done"} \cup Serving]
      /\ \A d \in Conn : pc'[d] = IF d = c THEN there ELSE pc[d]
  BY <1>2, <1>4 DEF Serving
<1> QED BY <1>1, <1>3, <1>4, <1>5, FrameList DEF Serving

LEMMA LoopList ==
    ASSUME ListInv, Take \/ Parse \/ UNCHANGED vars
    PROVE  ListInv'
<1>1. UNCHANGED <<owner, client_handle, sck, accepted, last_socket, raced, server, pc, peer>>
  BY DEF Take, Parse, vars, client, listen, task
<1> QED BY <1>1, FrameList DEF ListInv, TypeOK

-----------------------------------------------------------------------------
(* server_task *)

\* accept takes the first free socket.
LEMMA FirstFree ==
    ASSUME Free # {}
    PROVE  \E f \in Free : f = (CHOOSE g \in Free : \A h \in Free : g <= h)
<1>1. Free \subseteq Nat
  <2>1. Fd \subseteq Nat
    BY FdAssumption
  <2> QED BY <2>1 DEF Free
<1>2. \E g \in Free : \A h \in Free : g <= h
  BY <1>1, LeastIndex
<1> QED BY <1>2

\* The list afterwards: one entry is active for the client and the socket, all
\* others are the old ones, moved by one place if it is new.
ListedAt(list, new, c, f, i, n) ==
    /\ new[i].ip = Ip[c] /\ new[i].sock = f /\ new[i].active = 1
    /\ \A j \in DOMAIN new \ {i} : j - n \in DOMAIN list /\ new[j] = list[j - n]
    /\ \A j \in DOMAIN list : j + n \in DOMAIN new /\ (j + n = i => list[j].sock = f)

LEMMA EnlistedAs ==
    ASSUME NEW list \in Seq(Handle), NEW c \in Conn, NEW f \in Fd,
           NEW new, new = Enlisted(list, Ip[c], f)
    PROVE  /\ new \in Seq(Handle)
           /\ \E i \in DOMAIN new, n \in {0, 1} : ListedAt(list, new, c, f, i, n)
<1> DEFINE Known(i) == list[i].ip = Ip[c] /\ list[i].sock = f
<1>0. /\ Len(list) \in Nat /\ DOMAIN list = 1 .. Len(list)
      /\ \A i \in DOMAIN list : list[i] \in Handle
  BY LenProperties
<1>1. CASE \E i \in DOMAIN list : Known(i)
  <2> DEFINE known == {i \in DOMAIN list : Known(i)}
             First(j) == /\ list[j].ip = Ip[c] /\ list[j].sock = f
                         /\ \A k \in 1 .. j - 1 : list[k].ip # Ip[c] \/ list[k].sock # f
  <2>1. \E j \in DOMAIN list : First(j)
    <3>1. known \subseteq Nat /\ known # {}
      BY <1>0, <1>1
    <3>2. PICK j \in known : \A k \in known : j <= k
      <4> HIDE DEF known
      <4> QED BY <3>1, LeastIndex
    <3>3. \A k \in 1 .. j - 1 : k \in DOMAIN list /\ ~(j <= k)
      BY <1>0, <3>2
    <3> QED BY <3>2, <3>3
  <2>2. PICK i \in DOMAIN list : First(i) /\ new = [list EXCEPT ![i].active = 1]
    <3> DEFINE first == CHOOSE j \in DOMAIN list : First(j)
    <3>1. new = [list EXCEPT ![first].active = 1]
      BY <1>1 DEF Enlisted
    <3>2. first \in DOMAIN list /\ First(first)
      BY <2>1
    <3> QED BY <3>1, <3>2
  <2>3. /\ DOMAIN new = DOMAIN list /\ Len(new) = Len(list)
        /\ \A j \in DOMAIN list : new[j] = IF j = i THEN [list[i] EXCEPT !.active = 1]
                                           ELSE list[j]
    BY <1>0, <2>2
  <2>4. /\ new[i] \in Handle /\ new[i].ip = Ip[c] /\ new[i].sock = f /\ new[i].active = 1
        /\ list[i].sock = f
    <3>1. list[i] \in Handle /\ list[i].ip = Ip[c] /\ list[i].sock = f
      BY <1>0, <2>2
    <3>2. new[i] = [list[i] EXCEPT !.active = 1]
      BY <2>3
    <3> QED BY <3>1, <3>2 DEF Handle
  <2>5. \A j \in DOMAIN new : new[j] \in Handle
    BY <1>0, <2>3, <2>4
  <2>6. new \in Seq(Handle)
    <3>1. new = [j \in 1 .. Len(list) |-> new[j]]
      BY <1>0, <2>2
    <3> QED BY <1>0, <2>3, <2>5, <3>1
  <2>7. \A j \in DOMAIN list : j + 0 = j /\ j - 0 = j
    BY <1>0
  <2>8. /\ \A j \in DOMAIN new \ {i} : j - 0 \in DOMAIN list /\ new[j] = list[j - 0]
        /\ \A j \in DOMAIN list : j + 0 \in DOMAIN new /\ (j + 0 = i => list[j].sock = f)
    BY <2>3, <2>4, <2>7
  <2> QED BY <2>3, <2>4, <2>6, <2>8 DEF ListedAt
<1>2. CASE ~ \E i \in DOMAIN list : Known(i)
  <2> DEFINE e == [ip |-> Ip[c], sock |-> f, active |-> 1]
  <2>1. new = <<e>> \o list
    BY <1>2 DEF Enlisted
  <2>2. e \in Handle /\ e.ip = Ip[c] /\ e.sock = f /\ e.active = 1
    BY DEF Handle
  <2> HIDE DEF e
  <2>3. <<e>> \in Seq(Handle) /\ Len(<<e>>) = 1 /\ <<e>>[1] = e
    BY <2>2
  <2>4. /\ new \in Seq(Handle) /\ Len(new) = Len(list) + 1
        /\ \A j \in 1 .. Len(list) + 1 : new[j] = IF j <= 1 THEN <<e>>[j] ELSE list[j - 1]
    BY <1>0, <2>1, <2>3, ConcatProperties
  <2>5. DOMAIN new = 1 .. Len(list) + 1
    BY <2>4, LenProperties
  <2>6. new[1] = e /\ 1 \in DOMAIN new
    BY <1>0, <2>3, <2>4, <2>5
  <2>7. \A j \in DOMAIN new \ {1} : j - 1 \in DOMAIN list /\ new[j] = list[j - 1]
    BY <1>0, <2>4, <2>5
  <2>8. \A j \in DOMAIN list : j + 1 \in DOMAIN new /\ j + 1 # 1
    BY <1>0, <2>5
  <2> QED BY <2>2, <2>4, <2>6, <2>7, <2>8 DEF ListedAt
<1> QED BY <1>1, <1>2

\* So a socket without an active entry has exactly one afterwards,
LEMMA AcceptMatches ==
    ASSUME TypeOK, NEW c \in Conn, NEW f \in Fd, Entries(f) = {},
           client_handle' = Enlisted(client_handle, Ip[c], f)
    PROVE  /\ client_handle' \in Seq(Handle)
           /\ \E i \in DOMAIN client_handle' :
                 Entries(f)' = {i} /\ client_handle'[i].ip = Ip[c]
<1>1. client_handle \in Seq(Handle)
  BY DEF TypeOK
<1>2. client_handle' \in Seq(Handle)
  BY <1>1, EnlistedAs
<1>3. PICK i \in DOMAIN client_handle', n \in {0, 1} :
        ListedAt(client_handle, client_handle', c, f, i, n)
  BY <1>1, EnlistedAs
<1>4. \A j \in DOMAIN client_handle : ~(client_handle[j].sock = f /\ client_handle[j].active = 1)
  BY DEF Entries
<1>5. Entries(f)' = {i}
  BY <1>3, <1>4 DEF Entries, ListedAt
<1> QED BY <1>2, <1>3, <1>5 DEF ListedAt

\* and the entries of the other sockets are what they were.
LEMMA AcceptKeeps ==
    ASSUME TypeOK, NEW c \in Conn, NEW f \in Fd, NEW g \in Fd \ {f},
           client_handle' = Enlisted(client_handle, Ip[c], f)
    PROVE  /\ Entries(g) = {} => Entries(g)' = {}
           /\ \A i \in DOMAIN client_handle : Entries(g) = {i} =>
                 \E k \in DOMAIN client_handle' :
                    Entries(g)' = {k} /\ client_handle'[k].ip = client_handle[i].ip
<1>1. client_handle \in Seq(Handle)
  BY DEF TypeOK
<1>2. PICK i \in DOMAIN client_handle', n \in {0, 1} :
        ListedAt(client_handle, client_handle', c, f, i, n)
  BY <1>1, EnlistedAs
<1>3. DOMAIN client_handle \subseteq Int /\ DOMAIN client_handle' \subseteq Int
  <2>1. client_handle' \in Seq(Handle)
    BY <1>1, EnlistedAs
  <2> QED BY <1>1, <2>1, LenProperties
<1>4. \A k \in DOMAIN client_handle' : k \in Entries(g)' => k - n \in Entries(g)
  BY <1>2 DEF Entries, ListedAt
<1>5. ASSUME NEW j \in DOMAIN client_handle, Entries(g) = {j}
      PROVE  \E k \in DOMAIN client_handle' :
                Entries(g)' = {k} /\ client_handle'[k].ip = client_handle[j].ip
  <2>1. j + n \in DOMAIN client_handle' /\ (j + n) - n = j
    BY <1>2, <1>3 DEF ListedAt
  <2>2. client_handle[j].sock = g /\ client_handle[j].active = 1
    BY <1>5 DEF Entries
  <2>3. client_handle'[j + n] = client_handle[j]
    BY <1>2, <2>1, <2>2 DEF ListedAt
  <2>4. \A k \in DOMAIN client_handle' : k \in Entries(g)' => k = j + n
    <3>1. ASSUME NEW k \in DOMAIN client_handle', k \in Entries(g)' PROVE k = j + n
      <4>1. k - n = j
        BY <1>4, <1>5, <3>1
      <4>2. k \in Int
        BY <1>3
      <4> QED BY <4>1, <4>2
    <3> QED BY <3>1
  <2>5. Entries(g)' = {j + n}
    BY <2>1, <2>2, <2>3, <2>4 DEF Entries
  <2> QED BY <2>1, <2>3, <2>5
<1>6. Entries(g) = {} => Entries(g)' = {}
  BY <1>4 DEF Entries
<1> QED BY <1>5, <1>6

LEMMA AcceptList ==
    ASSUME ListInv, NEW c \in Conn, Accept(c)
    PROVE  ListInv'
<1>1. PICK f \in Fd :
        /\ owner[f] = None /\ owner' = [owner EXCEPT ![f] = c]
        /\ client_handle' = Enlisted(client_handle, Ip[c], f)
        /\ accepted' = [conn |-> c, sock |-> f]
  <2>1. PICK f \in Free : f = (CHOOSE g \in Free : \A h \in Free : g <= h)
    BY FirstFree DEF Accept
  <2> QED BY <2>1 DEF Accept, Free
<1>2. /\ peer[c] = "waiting" /\ peer' = [peer EXCEPT ![c] = "open"]
      /\ UNCHANGED <<pc, sck, last_socket, raced>>
  BY DEF Accept, Oldest, task
<1>3. TypeOK /\ pc[c] = "none" /\ \A g \in Fd : owner[g] # c
  BY <1>2 DEF ListInv, AcceptInv
<1>4. \A g \in Fd : owner'[g] = IF g = f THEN c ELSE owner[g]
  BY <1>1, <1>3 DEF TypeOK
<1>5. client_handle' \in Seq(Handle)
  BY <1>1, <1>3, EnlistedAs DEF TypeOK
<1>6. TypeOK'
  BY <1>1, <1>2, <1>3, <1>5 DEF TypeOK
<1>7. AcceptInv'
  BY <1>1, <1>2, <1>3, <1>4 DEF ListInv, AcceptInv, TypeOK
<1>8. ~raced' => SocketInv'
  <2> SUFFICES ASSUME ~raced' PROVE SocketInv'
    OBVIOUS
  <2>1. SocketInv
    BY <1>2 DEF ListInv
  <2>2. \A d \in Conn : pc'[d] \in Serving => sck'[d] \in Fd /\ owner'[sck'[d]] = d
    <3>1. \A d \in Conn : pc[d] \in Serving => sck[d] \in Fd /\ owner[sck[d]] = d /\ sck[d] # f
      BY <1>1, <2>1, NoneAssumption DEF SocketInv
    <3> QED BY <1>2, <1>4, <3>1
  <2>3. \A g, h \in Fd : owner'[g] = owner'[h] /\ owner'[g] # None => g = h
    BY <1>3, <1>4, <2>1 DEF SocketInv
  <2> QED BY <2>2, <2>3 DEF SocketInv
<1>9. ListMatchesSockets'
  <2> SUFFICES ASSUME ~raced', NEW g \in Fd PROVE Matches(g)'
    BY DEF ListMatchesSockets
  <2>1. Matches(f) /\ Matches(g)
    BY <1>2 DEF ListInv, ListMatchesSockets
  <2>2. CASE g = f
    <3>1. Entries(f) = {}
      BY <1>1, <2>1 DEF Matches
    <3>2. \E i \in DOMAIN client_handle' :
             Entries(f)' = {i} /\ client_handle'[i].ip = Ip[c]
      BY <1>1, <1>3, <3>1, AcceptMatches
    <3>3. owner'[f] = c /\ pc'[c] = "none" /\ c # None
      BY <1>2, <1>3, <1>4, NoneAssumption
    <3> QED BY <2>2, <3>2, <3>3 DEF Matches
  <2>3. CASE g # f
    <3>1. owner'[g] = owner[g] /\ pc' = pc
      BY <1>2, <1>4, <2>3
    <3>2. /\ Entries(g) = {} => Entries(g)' = {}
          /\ \A i \in DOMAIN client_handle : Entries(g) = {i} =>
                \E k \in DOMAIN client_handle' :
                   Entries(g)' = {k} /\ client_handle'[k].ip = client_handle[i].ip
      BY <1>1, <1>3, <2>3, AcceptKeeps
    <3> QED BY <2>1, <3>1, <3>2 DEF Matches
  <2> QED BY <2>2, <2>3
<1> QED BY <1>6, <1>7, <1>8, <1>9 DEF ListInv

LEMMA AcceptFailsList ==
    ASSUME ListInv, NEW c \in Conn, AcceptFails(c)
    PROVE  ListInv'
<1>1. UNCHANGED <<owner, client_handle, sck, accepted, last_socket, raced, pc>>
  BY DEF AcceptFails, task
<1>2. server' # "start" /\ peer' = [peer EXCEPT ![c] = "closed"]
  BY DEF AcceptFails
<1>3. TypeOK
  BY DEF ListInv
<1>4. /\ peer' \in [Conn -> {"new", "waiting", "open", "closed"}]
      /\ \A d \in Conn : peer'[d] \in {"new", "waiting"} => peer[d] \in {"new", "waiting"}
  BY <1>2, <1>3 DEF TypeOK
<1> QED BY <1>1, <1>2, <1>3, <1>4, FrameList DEF TypeOK

LEMMA StartTaskList ==
    ASSUME ListInv, StartTask
    PROVE  ListInv'
<1> DEFINE a == accepted.conn
<1>1. /\ a \in Conn /\ accepted.sock \in Fd /\ pc[a] = "none"
      /\ peer[a] \notin {"new", "waiting"} /\ TypeOK
  BY DEF StartTask, ListInv, AcceptInv
<1> HIDE DEF a
<1>2. /\ last_socket' = accepted.sock /\ pc' = [pc EXCEPT ![a] = "created"]
      /\ server' = "accept" /\ UNCHANGED <<peer, owner, client_handle, sck, raced>>
  BY DEF StartTask, client, a
<1>3. TypeOK'
  BY <1>1, <1>2 DEF TypeOK
<1>4. \A d \in Conn : pc'[d] = IF d = a THEN "created" ELSE pc[d]
  BY <1>1, <1>2 DEF TypeOK
<1>5. AcceptInv'
  BY <1>1, <1>2, <1>4 DEF ListInv, AcceptInv
<1>6. ~raced' => SocketInv'
  BY <1>1, <1>2, <1>4 DEF ListInv, SocketInv, Serving
<1>7. ListMatchesSockets'
  <2> SUFFICES ASSUME ~raced', NEW f \in Fd PROVE Matches(f)'
    BY DEF ListMatchesSockets
  <2>1. Matches(f) /\ owner[f] \in Conn \cup {None}
    BY <1>1, <1>2 DEF ListInv, ListMatchesSockets, TypeOK
  <2>2. Entries(f)' = Entries(f)
    BY <1>2 DEF Entries
  <2>3. owner[f] # None => (pc'[owner[f]] = "close" <=> pc[owner[f]] = "close")
    BY <1>1, <1>4, <2>1
  <2> QED BY <1>2, <2>1, <2>2, <2>3 DEF Matches
<1> QED BY <1>3, <1>5, <1>6, <1>7 DEF ListInv

-----------------------------------------------------------------------------
(* wait_data *)

LEMMA BeginList ==
    ASSUME ListInv, NEW c \in Conn, Begin(c)
    PROVE  ListInv'
<1>1. /\ pc[c] = "created" /\ sck' = [sck EXCEPT ![c] = last_socket]
      /\ pc' = [pc EXCEPT ![c] = "recv"] /\ raced' = (raced \/ owner[last_socket] # c)
      /\ UNCHANGED <<peer, owner, client_handle, accepted, last_socket, server>>
  BY DEF Begin, client, listen
<1>2. TypeOK /\ last_socket \in Fd
  BY <1>1 DEF ListInv, AcceptInv
<1>3. \A d \in Conn : /\ pc'[d] = IF d = c THEN "recv" ELSE pc[d]
                      /\ sck'[d] = IF d = c THEN last_socket ELSE sck[d]
  BY <1>1, <1>2 DEF TypeOK
<1>4. TypeOK'
  BY <1>1, <1>2 DEF TypeOK, Serving
<1>5. AcceptInv'
  BY <1>1, <1>3 DEF ListInv, AcceptInv
<1>6. ~raced' => SocketInv'
  <2> SUFFICES ASSUME ~raced' PROVE SocketInv'
    OBVIOUS
  <2>1. SocketInv /\ owner[last_socket] = c
    BY <1>1 DEF ListInv
  <2> QED BY <1>1, <1>2, <1>3, <2>1 DEF SocketInv
<1>7. ListMatchesSockets'
  <2> SUFFICES ASSUME ~raced', NEW f \in Fd PROVE Matches(f)'
    BY DEF ListMatchesSockets
  <2>1. Matches(f) /\ owner[f] \in Conn \cup {None}
    BY <1>1, <1>2 DEF ListInv, ListMatchesSockets, TypeOK
  <2>2. Entries(f)' = Entries(f)
    BY <1>1 DEF Entries
  <2>3. owner[f] # None => (pc'[owner[f]] = "close" <=> pc[owner[f]] = "close")
    BY <1>1, <1>3, <2>1
  <2> QED BY <1>1, <2>1, <2>2, <2>3 DEF Matches
<1> QED BY <1>4, <1>5, <1>6, <1>7 DEF ListInv

LEMMA DeleteClientList ==
    ASSUME ListInv, NEW c \in Conn, DeleteClient(c)
    PROVE  ListInv'
<1> DEFINE Hit(i) == /\ client_handle[i].sock = sck[c] /\ client_handle[i].active = 1
                     /\ \A k \in 1 .. i - 1 : client_handle[k].sock # sck[c]
                                              \/ client_handle[k].active = 0
<1>1. /\ pc[c] = "delete" /\ pc' = [pc EXCEPT ![c] = "close"]
      /\ client_handle' = [i \in DOMAIN client_handle |->
             IF Hit(i) THEN [client_handle[i] EXCEPT !.active = 0] ELSE client_handle[i]]
      /\ UNCHANGED <<peer, owner, sck, accepted, last_socket, server, raced>>
  BY DEF DeleteClient, client, listen
<1>2. TypeOK
  BY DEF ListInv
<1>3. \A d \in Conn : pc'[d] = IF d = c THEN "close" ELSE pc[d]
  BY <1>1, <1>2 DEF TypeOK
<1>4. /\ DOMAIN client_handle' = DOMAIN client_handle
      /\ DOMAIN client_handle = 1 .. Len(client_handle) /\ Len(client_handle) \in Nat
      /\ \A i \in DOMAIN client_handle :
            /\ client_handle[i] \in Handle
            /\ client_handle'[i] = IF Hit(i) THEN [client_handle[i] EXCEPT !.active = 0]
                                   ELSE client_handle[i]
  <2>1. client_handle \in Seq(Handle)
    BY <1>2 DEF TypeOK
  <2> HIDE DEF Hit
  <2> QED BY <1>1, <2>1, LenProperties
<1> HIDE DEF Hit
<1>5. \A i \in DOMAIN client_handle :
         /\ client_handle'[i] \in Handle
         /\ client_handle'[i].ip = client_handle[i].ip
         /\ client_handle'[i].sock = client_handle[i].sock
         /\ client_handle'[i].active = IF Hit(i) THEN 0 ELSE client_handle[i].active
  BY <1>4 DEF Handle
<1>6. TypeOK'
  <2>1. client_handle' \in Seq(Handle)
    <3>1. client_handle' = [i \in 1 .. Len(client_handle) |-> client_handle'[i]]
      BY <1>1, <1>4
    <3>2. \A i \in 1 .. Len(client_handle) : client_handle'[i] \in Handle
      BY <1>4, <1>5
    <3> QED BY <1>4, <3>1, <3>2
  <2> QED BY <1>1, <1>2, <2>1 DEF TypeOK, Serving
<1>7. AcceptInv'
  BY <1>1, <1>3 DEF ListInv, AcceptInv
<1>8. ~raced' => SocketInv'
  BY <1>1, <1>3 DEF ListInv, SocketInv, Serving
<1>9. ListMatchesSockets'
  <2> SUFFICES ASSUME ~raced', NEW f \in Fd PROVE Matches(f)'
    BY DEF ListMatchesSockets
  <2>1. /\ Matches(f) /\ SocketInv /\ owner[f] \in Conn \cup {None}
        /\ sck[c] \in Fd /\ owner[sck[c]] = c
    BY <1>1, <1>2 DEF ListInv, ListMatchesSockets, TypeOK, SocketInv, Serving
  <2>2. CASE f = sck[c]
    <3>1. owner[f] = c /\ c # None /\ pc[c] # "close" /\ pc'[c] = "close"
      BY <1>1, <1>3, <2>1, <2>2, NoneAssumption
    <3>2. PICK i \in DOMAIN client_handle : Entries(f) = {i}
      BY <2>1, <3>1 DEF Matches
    <3>3. \A k \in DOMAIN client_handle : k # i => ~(client_handle[k].sock = f
                                                   /\ client_handle[k].active = 1)
      BY <3>2 DEF Entries
    <3>4. Hit(i)
      <4>1. client_handle[i].sock = f /\ client_handle[i].active = 1
        BY <3>2 DEF Entries
      <4>2. \A k \in 1 .. i - 1 : client_handle[k].sock # f \/ client_handle[k].active = 0
        <5>1. \A k \in 1 .. i - 1 : k \in DOMAIN client_handle /\ k # i
          BY <1>4
        <5>2. \A k \in DOMAIN client_handle : client_handle[k].active \in {0, 1}
          BY <1>4 DEF Handle
        <5> QED BY <3>3, <5>1, <5>2
      <4> QED BY <2>2, <4>1, <4>2 DEF Hit
    <3>5. Entries(f)' = {}
      BY <1>4, <1>5, <3>3, <3>4 DEF Entries
    <3> QED BY <1>1, <3>1, <3>5 DEF Matches
  <2>3. CASE f # sck[c]
    <3>1. \A i \in DOMAIN client_handle : client_handle[i].sock = f => ~Hit(i)
      BY <2>3 DEF Hit
    <3>2. Entries(f)' = Entries(f)
      BY <1>4, <1>5, <3>1 DEF Entries
    <3>3. owner[f] # None => owner[f] # c
      BY <2>1, <2>3 DEF SocketInv
    <3>4. owner[f] # None => pc'[owner[f]] = pc[owner[f]]
      BY <1>3, <2>1, <3>3
    <3> QED BY <1>1, <1>4, <1>5, <2>1, <3>2, <3>4 DEF Matches
  <2> QED BY <2>2, <2>3
<1> QED BY <1>6, <1>7, <1>8, <1>9 DEF ListInv

LEMMA CloseList ==
    ASSUME ListInv, NEW c \in Conn, Close(c)
    PROVE  ListInv'
<1>1. /\ pc[c] = "close" /\ pc' = [pc EXCEPT ![c] = "done"]
      /\ owner' = [owner EXCEPT ![sck[c]] = None]
      /\ UNCHANGED <<peer, client_handle, sck, accepted, last_socket, server, raced>>
  BY DEF Close, client, listen
<1>2. TypeOK
  BY DEF ListInv
<1>3. /\ \A d \in Conn : pc'[d] = IF d = c THEN "done" ELSE pc[d]
      /\ \A f \in Fd : owner'[f] = IF f = sck[c] THEN None ELSE owner[f]
  BY <1>1, <1>2 DEF TypeOK
<1>4. TypeOK'
  BY <1>1, <1>2 DEF TypeOK
<1>5. AcceptInv'
  BY <1>1, <1>3, NoneAssumption DEF ListInv, AcceptInv
<1>6. ~raced' => SocketInv'
  <2> SUFFICES ASSUME ~raced' PROVE SocketInv'
    OBVIOUS
  <2>1. SocketInv /\ sck[c] \in Fd /\ owner[sck[c]] = c
    BY <1>1 DEF ListInv, SocketInv, Serving
  <2>2. \A d \in Conn : pc'[d] \in Serving => sck'[d] \in Fd /\ owner'[sck'[d]] = d
    <3>1. \A d \in Conn : pc'[d] \in Serving => d # c /\ pc[d] \in Serving
      BY <1>3 DEF Serving
    <3> QED BY <1>1, <1>3, <2>1, <3>1 DEF SocketInv
  <2>3. \A f, g \in Fd : owner'[f] = owner'[g] /\ owner'[f] # None => f = g
    BY <1>3, <2>1 DEF SocketInv
  <2> QED BY <2>2, <2>3 DEF SocketInv
<1>7. ListMatchesSockets'
  <2> SUFFICES ASSUME ~raced', NEW f \in Fd PROVE Matches(f)'
    BY DEF ListMatchesSockets
  <2>1. /\ Matches(f) /\ SocketInv /\ owner[f] \in Conn \cup {None}
        /\ sck[c] \in Fd /\ owner[sck[c]] = c
    BY <1>1, <1>2 DEF ListInv, ListMatchesSockets, TypeOK, SocketInv, Serving
  <2>2. Entries(f)' = Entries(f)
    BY <1>1 DEF Entries
  <2>3. CASE f = sck[c]
    BY <1>1, <1>3, <2>1, <2>2, <2>3 DEF Matches
  <2>4. CASE f # sck[c]
    <3>1. owner[f] # None => owner[f] # c
      BY <2>1, <2>4 DEF SocketInv
    <3>2. owner'[f] = owner[f] /\ (owner[f] # None => pc'[owner[f]] = pc[owner[f]])
      BY <1>3, <2>1, <2>4, <3>1
    <3> QED BY <1>1, <2>1, <2>2, <3>2 DEF Matches
  <2> QED BY <2>3, <2>4
<1> QED BY <1>4, <1>5, <1>6, <1>7 DEF ListInv

-----------------------------------------------------------------------------
LEMMA NextList == ListInv /\ [Next]_vars => ListInv'
BY ClientList, AcceptList, AcceptFailsList, StartTaskList, BeginList, ServeList,
   DeleteClientList, CloseList, LoopList DEF Next, Serve

\* Every socket in use has exactly one active entry, under the address of its
\* client, and no other has one (tcpserver.cpp:132-154, 224-238), as long as
\* every task has found the socket it was started for.
THEOREM ClientListMatches == Spec => []ListMatchesSockets
<1>1. ListInv => ListMatchesSockets
  BY DEF ListInv
<1> QED BY <1>1, InitList, NextList, PTL DEF Spec

-----------------------------------------------------------------------------
(* Requests *)

InHand == BufferInv /\ QueueInv /\ HandledAsReceived
Balanced(c) == handled[c] \o Copied(c) \o Posted(c) = received[c]
Pointed(c) == \E i \in DOMAIN queue : queue[i] = c

LEMMA InitHandled == Init => HandledInv
<1> SUFFICES ASSUME Init PROVE HandledInv
  OBVIOUS
<1>1. ListInv
  BY InitList
<1>2. <<>> \o <<>> \o <<>> = <<>> /\ DOMAIN <<>> = {}
  OBVIOUS
<1>3. \A c \in Conn : <<>> \in Requests(c)
  BY DEF Requests
<1>4. BufferInv
  BY <1>3 DEF Init, BufferInv
<1>5. QueueInv
  <2>1. queue = <<>> /\ <<>> \in Seq(Conn)
    BY DEF Init
  <2> QED BY <1>2, <2>1 DEF QueueInv
<1>6. ASSUME NEW c \in Conn PROVE Balanced(c)
  <2>1. handled[c] = <<>> /\ received[c] = <<>> /\ Copied(c) = <<>> /\ Posted(c) = <<>>
    BY <1>2 DEF Init, Copied, Posted
  <2> QED BY <1>2, <2>1 DEF Balanced
<1> QED BY <1>1, <1>4, <1>5, <1>6 DEF Init, HandledInv, HandledAsReceived, Balanced

LEMMA StaysClaimed ==
    ASSUME late \in BOOLEAN, raced \in BOOLEAN, [Next]_vars
    PROVE  late' \in BOOLEAN /\ (Claimed' => Claimed)
<1>1. ASSUME UNCHANGED <<late, raced>> PROVE late' \in BOOLEAN /\ (Claimed' => Claimed)
  BY <1>1 DEF Claimed
<1>2. ASSUME NEW c \in Conn, Connect(c) \/ Ask(c) \/ Ping(c) \/ Disconnect(c)
      PROVE  UNCHANGED <<late, raced>>
  BY <1>2 DEF Connect, Ask, Ping, Disconnect
<1>3. ASSUME \/ \E c \in Conn : Accept(c) \/ AcceptFails(c)
             \/ StartTask \/ Take \/ Parse \/ UNCHANGED vars
      PROVE  UNCHANGED <<late, raced>>
  BY <1>3 DEF Accept, AcceptFails, StartTask, Take, Parse, vars
<1>4. ASSUME NEW c \in Conn, Post(c) \/ ReceiveNothing(c) \/ DeleteClient(c) \/ Close(c)
      PROVE  UNCHANGED <<late, raced>>
  BY <1>4 DEF Post, ReceiveNothing, DeleteClient, Close
<1>5. ASSUME NEW c \in Conn, Begin(c) PROVE late' \in BOOLEAN /\ (Claimed' => Claimed)
  <2>1. late' = late /\ raced' = (raced \/ owner[last_socket] # c)
    BY <1>5 DEF Begin
  <2> QED BY <2>1, Zenon DEF Claimed
<1>6. ASSUME NEW c \in Conn, Receive(c) \/ Delayed(c)
      PROVE  late' \in BOOLEAN /\ (Claimed' => Claimed)
  <2>1. late' = (late \/ Pointed(c)) /\ raced' = raced
    BY <1>6 DEF Receive, Delayed, Pointed
  <2>2. (late \/ Pointed(c)) \in BOOLEAN
    BY DEF Pointed
  <2> QED BY <2>1, <2>2, Zenon DEF Claimed
<1> QED BY <1>1, <1>2, <1>3, <1>4, <1>5, <1>6 DEF Next, Serve

\* What the clients send does not touch the requests that were read.
LEMMA ClientHandled ==
    ASSUME InHand, Claimed, Claimed', NEW c \in Conn,
           Connect(c) \/ Ask(c) \/ Ping(c) \/ Disconnect(c)
    PROVE  InHand'
<1>1. UNCHANGED <<pc, rx_buffer, queue, work, handled, received>>
  BY DEF Connect, Ask, Ping, Disconnect, task, loop
<1>2. sent[c] \in Nat /\ stream[c] \in Requests(c)
  BY DEF InHand, BufferInv
<1>3. /\ DOMAIN stream' = Conn /\ DOMAIN sent' = Conn
      /\ \A d \in Conn : stream'[d] \in Requests(d) /\ sent'[d] \in Nat
  <2>1. CASE Connect(c) \/ Disconnect(c)
    BY <2>1 DEF Connect, Disconnect, InHand, BufferInv
  <2>2. ASSUME NEW n \in Nat, stream' = [stream EXCEPT ![c] = Append(@, <<c, n>>)]
        PROVE  DOMAIN stream' = Conn /\ \A d \in Conn : stream'[d] \in Requests(d)
    <3>1. Append(stream[c], <<c, n>>) \in Requests(c)
      BY <1>2 DEF Requests
    <3> QED BY <2>2, <3>1 DEF InHand, BufferInv
  <2>3. CASE Ask(c)
    <3>1. sent' = [sent EXCEPT ![c] = @ + 1]
      BY <2>3 DEF Ask
    <3>2. stream' = [stream EXCEPT ![c] = Append(@, <<c, sent[c] + 1>>)]
      BY <2>3 DEF Ask
    <3>3. sent[c] + 1 \in Nat
      BY <1>2
    <3> QED BY <1>2, <2>2, <3>1, <3>2, <3>3 DEF InHand, BufferInv
  <2>4. CASE Ping(c)
    <3>1. sent' = sent /\ stream' = [stream EXCEPT ![c] = Append(@, <<c, 0>>)]
      BY <2>4 DEF Ping
    <3> QED BY <2>2, <3>1 DEF InHand, BufferInv
  <2> QED BY <2>1, <2>3, <2>4
<1>4. BufferInv'
  BY <1>1, <1>3 DEF InHand, BufferInv
<1>5. QueueInv'
  BY <1>1 DEF InHand, QueueInv
<1>6. \A d \in Conn : Copied(d)' = Copied(d) /\ Posted(d)' = Posted(d)
  BY <1>1 DEF Copied, Posted
<1> QED BY <1>1, <1>4, <1>5, <1>6 DEF InHand, HandledAsReceived

\* A task that neither has nor gets a request to post.
LEMMA TaskHandled ==
    ASSUME InHand, Claimed, TypeOK, NEW c \in Conn, NEW there, there # "post",
           pc[c] # "post", ~Pointed(c),
           UNCHANGED <<stream, sent, queue, work, handled, received>>,
           pc' = [pc EXCEPT ![c] = there],
           rx_buffer' = rx_buffer \/ rx_buffer' = [rx_buffer EXCEPT ![c] = <<>>]
    PROVE  InHand'
<1>1. DOMAIN pc = Conn /\ DOMAIN rx_buffer = Conn
  BY DEF TypeOK, InHand, BufferInv
<1>2. \A d \in Conn \ {c} : pc'[d] = pc[d] /\ rx_buffer'[d] = rx_buffer[d]
  BY <1>1
<1>3. pc'[c] = there /\ rx_buffer'[c] \in {rx_buffer[c], <<>>} /\ DOMAIN rx_buffer' = Conn
  BY <1>1
<1>4. BufferInv'
  <2>1. \A d \in Conn : rx_buffer'[d] \in Requests(d)
    <3>1. <<>> \in Requests(c) /\ \A d \in Conn : rx_buffer[d] \in Requests(d)
      BY DEF InHand, BufferInv, Requests
    <3> QED BY <1>2, <1>3, <3>1
  <2> QED BY <1>3, <2>1 DEF InHand, BufferInv
<1>5. QueueInv'
  <2>1. \A i \in DOMAIN queue : queue[i] \in Conn \ {c}
    BY DEF InHand, QueueInv, Pointed
  <2> QED BY <1>2, <2>1 DEF InHand, QueueInv
<1>6. \A d \in Conn : Copied(d)' = Copied(d) /\ Posted(d)' = Posted(d)
  BY <1>2, <1>3 DEF Copied, Posted, Pointed
<1> QED BY <1>4, <1>5, <1>6 DEF InHand, HandledAsReceived

LEMMA AcceptHandled ==
    ASSUME InHand, Claimed, Claimed', NEW c \in Conn, Accept(c) \/ AcceptFails(c)
    PROVE  InHand'
<1>1. UNCHANGED <<stream, sent, pc, rx_buffer, queue, work, handled, received>>
  BY DEF Accept, AcceptFails, task, loop
<1>2. BufferInv' /\ QueueInv'
  BY <1>1 DEF InHand, BufferInv, QueueInv
<1>3. \A d \in Conn : Copied(d)' = Copied(d) /\ Posted(d)' = Posted(d)
  BY <1>1 DEF Copied, Posted
<1> QED BY <1>1, <1>2, <1>3 DEF InHand, HandledAsReceived

LEMMA QuietHandled ==
    ASSUME ListInv, InHand, Claimed, Claimed',
           \/ StartTask
           \/ \E c \in Conn : \/ Begin(c) \/ Delayed(c) \/ ReceiveNothing(c)
                              \/ DeleteClient(c) \/ Close(c)
    PROVE  InHand'
<1>0. TypeOK /\ \A c \in Conn : pc[c] # "delay" => ~Pointed(c)
  BY DEF ListInv, InHand, QueueInv, Pointed
<1>1. CASE StartTask
  <2>1. accepted.conn \in Conn /\ pc[accepted.conn] = "none"
    BY <1>1 DEF StartTask, ListInv, AcceptInv
  <2>2. /\ UNCHANGED <<stream, sent, queue, work, handled, received, rx_buffer>>
        /\ pc' = [pc EXCEPT ![accepted.conn] = "created"]
    BY <1>1 DEF StartTask, client, loop
  <2> QED BY <1>0, <2>1, <2>2, TaskHandled
<1>2. ASSUME NEW c \in Conn, Begin(c) PROVE InHand'
  BY <1>0, <1>2, TaskHandled DEF Begin, client, loop
<1>3. ASSUME NEW c \in Conn, Delayed(c) PROVE InHand'
  <2>1. ~Pointed(c)
    BY <1>3 DEF Delayed, Claimed, Pointed
  <2> QED BY <1>0, <1>3, <2>1, TaskHandled DEF Delayed, client, loop
<1>4. ASSUME NEW c \in Conn, ReceiveNothing(c) PROVE InHand'
  BY <1>0, <1>4, TaskHandled DEF ReceiveNothing, client, loop
<1>5. ASSUME NEW c \in Conn, DeleteClient(c) PROVE InHand'
  BY <1>0, <1>5, TaskHandled DEF DeleteClient, client, loop
<1>6. ASSUME NEW c \in Conn, Close(c) PROVE InHand'
  BY <1>0, <1>6, TaskHandled DEF Close, client, loop
<1> QED BY <1>1, <1>2, <1>3, <1>4, <1>5, <1>6

\* The event loop works at the requests of one connection at a time.
LEMMA HeadOwn ==
    ASSUME NEW c \in Conn, NEW w \in Requests(c), w # <<>>
    PROVE  Head(w)[1] = c
<1>1. Head(w) \in {c} \X Nat
  BY DEF Requests
<1> QED BY <1>1

LEMMA CopiedOwn ==
    ASSUME BufferInv, NEW c \in Conn
    PROVE  Copied(c) \in Requests(c)
<1>1. CASE work # <<>> /\ Head(work)[1] = c
  <2>1. PICK d \in Conn : work \in Requests(d)
    BY <1>1 DEF BufferInv
  <2>2. d = c
    BY <1>1, <2>1, HeadOwn
  <2> QED BY <1>1, <2>1, <2>2 DEF Copied
<1>2. CASE ~(work # <<>> /\ Head(work)[1] = c)
  BY <1>2 DEF Copied, Requests
<1> QED BY <1>1, <1>2

\* What is read goes into the buffer and is posted next, unless it holds a ping.
LEMMA ReceiveHandled ==
    ASSUME ListInv, InHand, Claimed, Claimed', NEW c \in Conn, Receive(c)
    PROVE  InHand'
<1>0. TypeOK /\ pc[c] = "recv" /\ ~Pointed(c)
  BY DEF Receive, ListInv, InHand, QueueInv, Pointed
<1>1. owner[sck[c]] = c
  BY DEF Receive, ListInv, SocketInv, Serving, Claimed
<1>2. /\ UNCHANGED <<sent, queue, work, handled>>
      /\ stream' = [stream EXCEPT ![c] = <<>>]
      /\ rx_buffer' = [rx_buffer EXCEPT ![c] = stream[c]]
      /\ pc' = [pc EXCEPT ![c] = IF IsPing(stream[c]) THEN "recv" ELSE "post"]
      /\ received' = IF IsPing(stream[c]) THEN received
                     ELSE [received EXCEPT ![c] = @ \o stream[c]]
  BY <1>1 DEF Receive, loop
<1>3. /\ DOMAIN pc = Conn /\ DOMAIN rx_buffer = Conn /\ DOMAIN stream = Conn
      /\ DOMAIN received = Conn
      /\ stream[c] \in Requests(c) /\ handled[c] \in Requests(c) /\ received[c] \in Requests(c)
  BY <1>0 DEF TypeOK, InHand, BufferInv
<1>4. Copied(c) \in Requests(c)
  BY CopiedOwn DEF InHand
<1>5. /\ \A d \in Conn \ {c} : /\ pc'[d] = pc[d] /\ rx_buffer'[d] = rx_buffer[d]
                               /\ received'[d] = received[d] /\ stream'[d] = stream[d]
      /\ stream'[c] = <<>> /\ rx_buffer'[c] = stream[c]
      /\ pc'[c] = IF IsPing(stream[c]) THEN "recv" ELSE "post"
      /\ received'[c] = IF IsPing(stream[c]) THEN received[c] ELSE received[c] \o stream[c]
      /\ DOMAIN rx_buffer' = Conn /\ DOMAIN stream' = Conn /\ DOMAIN received' = Conn
  BY <1>2, <1>3
<1>6. BufferInv'
  <2>1. <<>> \in Requests(c) /\ received[c] \o stream[c] \in Requests(c)
    BY <1>3 DEF Requests
  <2>2. \A d \in Conn : stream'[d] \in Requests(d) /\ rx_buffer'[d] \in Requests(d)
                        /\ received'[d] \in Requests(d)
    BY <1>3, <1>5, <2>1 DEF InHand, BufferInv
  <2> QED BY <1>2, <1>5, <2>2 DEF InHand, BufferInv
<1>7. QueueInv'
  <2>1. \A i \in DOMAIN queue : queue[i] \in Conn \ {c}
    BY <1>0 DEF InHand, QueueInv, Pointed
  <2> QED BY <1>2, <1>5, <2>1 DEF InHand, QueueInv
<1>8. \A d \in Conn \ {c} : Copied(d)' = Copied(d) /\ Posted(d)' = Posted(d)
  BY <1>2, <1>5 DEF Copied, Posted
<1>9. Balanced(c)'
  <2>1. Copied(c)' = Copied(c) /\ handled'[c] = handled[c]
    BY <1>2 DEF Copied
  <2>2. Posted(c) = <<>> /\ Posted(c)' = IF IsPing(stream[c]) THEN <<>> ELSE stream[c]
    BY <1>0, <1>2, <1>5 DEF Posted, Pointed
  <2>3. handled[c] \o Copied(c) \o <<>> = received[c]
    BY <2>2 DEF InHand, HandledAsReceived
  <2>4. handled[c] \o Copied(c) \in Requests(c)
    BY <1>3, <1>4 DEF Requests
  <2>5. handled[c] \o Copied(c) = received[c]
    BY <2>3, <2>4, ConcatEmptySeq DEF Requests
  <2> QED BY <1>5, <2>1, <2>2, <2>3, <2>5 DEF Balanced
<1>10. \A d \in Conn \ {c} : Balanced(d)'
  BY <1>2, <1>5, <1>8 DEF InHand, HandledAsReceived, Balanced
<1> QED BY <1>6, <1>7, <1>9, <1>10 DEF InHand, HandledAsReceived, Balanced

LEMMA PostHandled ==
    ASSUME ListInv, InHand, Claimed, NEW c \in Conn, Post(c)
    PROVE  InHand'
<1>0. TypeOK /\ queue \in Seq(Conn) /\ pc[c] = "post" /\ ~Pointed(c)
  BY DEF Post, ListInv, InHand, QueueInv, Pointed
<1>1. /\ UNCHANGED <<stream, sent, rx_buffer, work, handled, received>>
      /\ queue' = Append(queue, c) /\ pc' = [pc EXCEPT ![c] = "delay"]
  BY DEF Post, client
<1>2. \A d \in Conn : pc'[d] = IF d = c THEN "delay" ELSE pc[d]
  BY <1>0, <1>1 DEF TypeOK
<1>3. /\ queue' \in Seq(Conn)
      /\ DOMAIN queue = 1 .. Len(queue) /\ DOMAIN queue' = 1 .. Len(queue) + 1 /\ Len(queue) \in Nat
      /\ \A i \in DOMAIN queue' : queue'[i] = IF i = Len(queue) + 1 THEN c ELSE queue[i]
  BY <1>0, <1>1
<1>4. BufferInv'
  BY <1>1 DEF InHand, BufferInv
<1>5. QueueInv'
  <2>1. \A i \in DOMAIN queue : queue[i] \in Conn /\ queue[i] # c /\ pc[queue[i]] = "delay"
    BY <1>0 DEF InHand, QueueInv, Pointed
  <2>2. \A i \in DOMAIN queue' : i # Len(queue) + 1 => i \in DOMAIN queue /\ queue'[i] = queue[i]
    BY <1>3
  <2>3. \A i, j \in DOMAIN queue' : queue'[i] = queue'[j] => i = j
    BY <1>3, <2>1, <2>2 DEF InHand, QueueInv
  <2>4. \A i \in DOMAIN queue' : pc'[queue'[i]] = "delay"
    BY <1>2, <1>3, <2>1, <2>2
  <2> QED BY <1>3, <2>3, <2>4 DEF QueueInv
<1>6. \A d \in Conn : Copied(d)' = Copied(d) /\ Posted(d)' = Posted(d)
  <2>1. \A d \in Conn : Copied(d)' = Copied(d)
    BY <1>1 DEF Copied
  <2>2. Pointed(c)'
    <3>1. Len(queue) + 1 \in DOMAIN queue' /\ queue'[Len(queue) + 1] = c
      BY <1>3
    <3> QED BY <3>1 DEF Pointed
  <2>3. \A d \in Conn \ {c} : Pointed(d)' <=> Pointed(d)
    <3>1. \A i \in DOMAIN queue : i \in DOMAIN queue' /\ queue'[i] = queue[i]
      BY <1>3
    <3>2. \A i \in DOMAIN queue' : queue'[i] # c => i \in DOMAIN queue /\ queue'[i] = queue[i]
      BY <1>3
    <3> QED BY <3>1, <3>2 DEF Pointed
  <2> QED BY <1>0, <1>1, <1>2, <2>1, <2>2, <2>3 DEF Posted, Pointed
<1> QED BY <1>1, <1>4, <1>5, <1>6 DEF InHand, HandledAsReceived

\* tcp_handler copies the buffer of the first pointer, which nobody else points to.
LEMMA TakeHandled ==
    ASSUME ListInv, InHand, Claimed, Take
    PROVE  InHand'
<1> PICK d \in Conn : d = Head(queue)
  BY DEF Take, InHand, QueueInv
<1>0. /\ queue \in Seq(Conn) /\ queue # <<>> /\ work = <<>>
      /\ work' = rx_buffer[d] /\ queue' = Tail(queue)
      /\ UNCHANGED <<stream, sent, pc, rx_buffer, handled, received>>
  BY DEF Take, InHand, QueueInv, client, task
<1>1. /\ d \in Conn /\ d = queue[1] /\ 1 \in DOMAIN queue
      /\ queue' \in Seq(Conn) /\ DOMAIN queue = 1 .. Len(queue) /\ Len(queue) \in Nat
      /\ DOMAIN queue' = 1 .. Len(queue) - 1
      /\ \A i \in DOMAIN queue' : queue'[i] = queue[i + 1] /\ i + 1 \in DOMAIN queue
  BY <1>0
<1>2. work' \in Requests(d)
  BY <1>0, <1>1 DEF InHand, BufferInv
<1>3. BufferInv'
  BY <1>0, <1>1, <1>2 DEF InHand, BufferInv
<1>4. QueueInv'
  <2>1. \A i, j \in DOMAIN queue' : queue'[i] = queue'[j] => i = j
    <3>1. \A i, j \in DOMAIN queue' : queue'[i] = queue'[j] => i + 1 = j + 1
      BY <1>1 DEF InHand, QueueInv
    <3> QED BY <1>1, <3>1
  <2>2. \A i \in DOMAIN queue' : pc'[queue'[i]] = "delay"
    BY <1>0, <1>1 DEF InHand, QueueInv
  <2> QED BY <1>1, <2>1, <2>2 DEF QueueInv
<1>5. ~Pointed(d)'
  <2>1. \A i \in DOMAIN queue' : i + 1 # 1
    BY <1>1
  <2>2. \A i \in DOMAIN queue' : queue'[i] # d
    BY <1>1, <2>1 DEF InHand, QueueInv
  <2> QED BY <2>2 DEF Pointed
<1>6. \A c \in Conn \ {d} : Pointed(c)' <=> Pointed(c)
  <2>1. ASSUME NEW c \in Conn \ {d}, NEW i \in DOMAIN queue, queue[i] = c
        PROVE  Pointed(c)'
    <3>1. i - 1 \in DOMAIN queue' /\ (i - 1) + 1 = i
      BY <1>1, <2>1
    <3>2. queue'[i - 1] = c
      BY <1>1, <2>1, <3>1
    <3> QED BY <3>1, <3>2 DEF Pointed
  <2>2. \A c \in Conn \ {d} : Pointed(c)' => Pointed(c)
    BY <1>1 DEF Pointed
  <2> QED BY <2>1, <2>2 DEF Pointed
<1>7. \A c \in Conn : Copied(c) = <<>> /\ Copied(c)' = IF c = d THEN rx_buffer[d] ELSE <<>>
  BY <1>0, <1>1, <1>2, HeadOwn DEF Copied
<1>8. pc[d] = "delay" /\ Pointed(d)
  BY <1>1 DEF InHand, QueueInv, Pointed
<1>9. Balanced(d)'
  <2>1. Posted(d) = rx_buffer[d] /\ Posted(d)' = <<>>
    BY <1>0, <1>5, <1>8 DEF Posted, Pointed
  <2>2. handled[d] \o <<>> \o rx_buffer[d] = received[d]
    BY <1>1, <1>7, <2>1 DEF InHand, HandledAsReceived
  <2>3. handled[d] \in Requests(d) /\ rx_buffer[d] \in Requests(d)
    BY <1>1 DEF InHand, BufferInv
  <2>4. handled[d] \o rx_buffer[d] \in Requests(d) /\ handled[d] \o <<>> = handled[d]
    BY <2>3, ConcatProperties, ConcatEmptySeq DEF Requests
  <2>5. handled[d] \o rx_buffer[d] \o <<>> = received[d]
    BY <2>2, <2>4, ConcatEmptySeq DEF Requests
  <2> QED BY <1>0, <1>1, <1>7, <2>1, <2>5 DEF Balanced
<1>10. \A c \in Conn \ {d} : Balanced(c)'
  <2>1. \A c \in Conn \ {d} : Copied(c)' = Copied(c) /\ Posted(c)' = Posted(c)
    BY <1>0, <1>6, <1>7 DEF Posted, Pointed
  <2> QED BY <1>0, <2>1 DEF InHand, HandledAsReceived, Balanced
<1> QED BY <1>3, <1>4, <1>9, <1>10 DEF InHand, HandledAsReceived, Balanced

LEMMA MoveHead ==
    ASSUME NEW S, NEW h \in Seq(S), NEW w \in Seq(S), w # <<>>
    PROVE  Append(h, Head(w)) \o Tail(w) = h \o w
<1>1. /\ Append(h, Head(w)) \in Seq(S) /\ Tail(w) \in Seq(S)
      /\ Len(Append(h, Head(w))) = Len(h) + 1 /\ Len(Tail(w)) = Len(w) - 1
      /\ Len(h) \in Nat /\ Len(w) \in Nat \ {0}
  OBVIOUS
<1>2. /\ Append(h, Head(w)) \o Tail(w) \in Seq(S) /\ h \o w \in Seq(S)
      /\ Len(Append(h, Head(w)) \o Tail(w)) = Len(h \o w)
  BY <1>1, ConcatProperties
<1>3. \A i \in 1 .. Len(h \o w) : (Append(h, Head(w)) \o Tail(w))[i] = (h \o w)[i]
  BY <1>1
<1> QED BY <1>2, <1>3, SeqEqual

LEMMA ParseHandled ==
    ASSUME InHand, Claimed, Parse
    PROVE  InHand'
<1>1. /\ work # <<>> /\ work' = Tail(work)
      /\ handled' = [handled EXCEPT ![Head(work)[1]] = Append(@, Head(work))]
      /\ UNCHANGED <<stream, sent, pc, rx_buffer, queue, received>>
  BY DEF Parse, client, task
<1>2. PICK d \in Conn : work \in Requests(d)
  BY <1>1 DEF InHand, BufferInv
<1>3. Head(work)[1] = d
  BY <1>1, <1>2, HeadOwn
<1>4. handled[d] \in Requests(d) /\ Tail(work) \in Requests(d) /\ Head(work) \in {d} \X Nat
  <2>1. handled[d] \in Requests(d)
    BY <1>2 DEF InHand, BufferInv
  <2>2. Tail(work) \in Requests(d) /\ Head(work) \in {d} \X Nat
    BY <1>1, <1>2, HeadTailProperties DEF Requests
  <2> QED BY <2>1, <2>2
<1>5. /\ DOMAIN handled' = Conn /\ handled'[d] = Append(handled[d], Head(work))
      /\ \A c \in Conn \ {d} : handled'[c] = handled[c]
  BY <1>1, <1>3 DEF InHand, BufferInv
<1>6. BufferInv'
  <2>1. handled'[d] \in Requests(d)
    BY <1>4, <1>5 DEF Requests
  <2>2. \A c \in Conn : handled'[c] \in Requests(c)
    BY <1>5, <2>1 DEF InHand, BufferInv
  <2> QED BY <1>1, <1>4, <1>5, <2>2 DEF InHand, BufferInv
<1>7. QueueInv'
  BY <1>1 DEF InHand, QueueInv
<1>8. \A c \in Conn : Posted(c)' = Posted(c)
  BY <1>1 DEF Posted
<1>9. Copied(d) = work /\ Copied(d)' = Tail(work)
  BY <1>1, <1>2, <1>3, <1>4, HeadOwn DEF Copied
<1>10. \A c \in Conn \ {d} : Copied(c) = <<>> /\ Copied(c)' = <<>>
  BY <1>1, <1>3, <1>4, HeadOwn DEF Copied
<1>11. Balanced(d)'
  <2>1. Append(handled[d], Head(work)) \o Tail(work) = handled[d] \o work
    BY <1>1, <1>2, <1>4, MoveHead DEF Requests
  <2>2. handled[d] \o work \o Posted(d) = received[d]
    BY <1>9 DEF InHand, HandledAsReceived
  <2>3. handled'[d] \o Copied(d)' \o Posted(d)' = received'[d]
    BY <1>1, <1>5, <1>8, <1>9, <2>1, <2>2
  <2> QED BY <2>3 DEF Balanced
<1>12. \A c \in Conn \ {d} : Balanced(c)'
  <2> SUFFICES ASSUME NEW c \in Conn \ {d} PROVE Balanced(c)'
    OBVIOUS
  <2>1. handled[c] \o Copied(c) \o Posted(c) = received[c]
    BY DEF InHand, HandledAsReceived
  <2>2. handled'[c] = handled[c] /\ Copied(c)' = Copied(c) /\ Posted(c)' = Posted(c)
    BY <1>5, <1>8, <1>10
  <2> QED BY <1>1, <2>1, <2>2 DEF Balanced
<1> QED BY <1>6, <1>7, <1>11, <1>12 DEF InHand, HandledAsReceived, Balanced

LEMMA NextHandled == HandledInv /\ [Next]_vars => HandledInv'
<1> SUFFICES ASSUME HandledInv, [Next]_vars PROVE HandledInv'
  OBVIOUS
<1>1. ListInv /\ ListInv'
  BY NextList DEF HandledInv
<1>2. late' \in BOOLEAN /\ (Claimed' => Claimed)
  BY StaysClaimed DEF HandledInv, ListInv, TypeOK
<1>3. ASSUME Claimed' PROVE InHand'
  <2>1. Claimed /\ InHand
    BY <1>2, <1>3 DEF HandledInv, InHand
  <2>2. CASE UNCHANGED vars
    <3>1. UNCHANGED <<stream, sent, rx_buffer, handled, received, work, queue, pc>>
      BY <2>2 DEF vars, client, task, loop
    <3>2. \A c \in Conn : Copied(c)' = Copied(c) /\ Posted(c)' = Posted(c)
      BY <3>1 DEF Copied, Posted
    <3> QED BY <2>1, <3>1, <3>2 DEF InHand, BufferInv, QueueInv, HandledAsReceived
  <2> QED
    BY <1>1, <1>3, <2>1, <2>2, ClientHandled, AcceptHandled, QuietHandled, ReceiveHandled,
       PostHandled, TakeHandled, ParseHandled DEF Next, Serve
<1> QED BY <1>1, <1>2, <1>3 DEF HandledInv, InHand

\* Only pointers are posted, and yet every request that was read is handled once and
\* in the order of its connection (tcpserver.cpp:42-47, tcp_events.cpp:681-694), for
\* any number of connections and requests and any queue, as long as the event loop
\* takes it within the 50 ms and every task has its socket.
THEOREM RequestsHandledInOrder == Spec => []HandledAsReceived
<1>1. HandledInv => HandledAsReceived
  BY DEF HandledInv, HandledAsReceived
<1> QED BY <1>1, InitHandled, NextHandled, PTL DEF Spec
=============================================================================
