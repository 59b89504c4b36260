------------------------------- MODULE EchoNet -------------------------------
(***************************************************************************)
(* net/epoll, net/select and net/iouring: three servers that print what    *)
(* their clients send, and three clients that send what is typed.  Any     *)
(* client works with any server, so the kind of each is chosen in Init.    *)
(* A unit of input is a line; the connection and the descriptors are       *)
(* explicit, the addresses and the text are not.                           *)
(***************************************************************************)
EXTENDS Integers, FiniteSets, Sequences

CONSTANTS Clients,     \* client processes
          ServerKinds, \* subset of {"epoll", "select", "uring"}
          Shapes,      \* the [kind, stdin, bye] each client may have
          Lines,       \* lines typed at each client before it is told to end
          SqSize,      \* entries of the server's submission queue (256)
          MaxFaults,   \* failed system calls of the server in a run
          None         \* no client

ASSUME EchoAssumption ==
  /\ IsFiniteSet(Clients) /\ None \notin Clients
  /\ SqSize \in Nat \ {0}
  /\ Lines \in [Clients -> Nat]
  /\ \A c \in Clients :
       Shapes[c] \subseteq [kind : {"epoll", "select", "uring"},
                           stdin : {"tty", "pipe"}, bye : {"exit", "eof"}]

VARIABLES
  server, shape,     \* which programs run
  up,                \* the server: "off", "up" or "down"
  backlog,           \* connections the server has not accepted
  conn,              \* the client behind each descriptor of the server
  batch, cap,        \* events being handled; size of the events vector
  ops, cq,           \* io_uring: where each request is; completions in order
  faults, faulted,   \* faults so far; connections a fault closed
  printed, closed,   \* the server's side of each connection
  typed, eof,        \* standard input of each client
  fetched, used,     \* lines its process has read, and has handled
  sent, cst, fin,    \* lines on the connection; phase; socket closed
  dropped            \* lines the server's close or a short send discarded

inputVars == <<typed, eof>>
clientVars == <<fetched, used, sent, cst, fin>>
serverVars == <<up, conn, batch, cap, ops, cq, faults, faulted, printed, closed>>
vars == <<server, shape, backlog, dropped, inputVars, clientVars, serverVars>>

Listener == 0
Fds == 1..Cardinality(Clients)
FreeFd == CHOOSE f \in Fds : conn[f] = None /\ \A g \in 1..f - 1 : conn[g] # None

\* Typed words: the lines, then perhaps "exit".
Words(c) == Lines[c] + IF shape[c].bye = "exit" THEN 1 ELSE 0
IsExit(c, i) == i = Lines[c] + 1

\* Lines in the socket buffer of the server's end.
Unread(c) == sent[c] - printed[c] - dropped[c]

Init ==
  /\ server \in ServerKinds
  /\ shape \in [Clients -> UNION {Shapes[c] : c \in Clients}]
  /\ \A c \in Clients : shape[c] \in Shapes[c]
  /\ up = "off" /\ backlog = <<>>
  /\ conn = [f \in Fds |-> None]
  /\ batch = {} /\ cap = 1
  /\ ops = [f \in Fds \cup {Listener} |-> "none"] /\ cq = <<>>
  /\ faults = 0 /\ faulted = {}
  /\ printed = [c \in Clients |-> 0] /\ closed = {}
  /\ typed = [c \in Clients |-> 0] /\ eof = {}
  /\ fetched = [c \in Clients |-> 0] /\ used = [c \in Clients |-> 0]
  /\ sent = [c \in Clients |-> 0]
  /\ cst = [c \in Clients |-> "new"] /\ fin = {}
  /\ dropped = [c \in Clients |-> 0]

----------------------------------------------------------------------------
(* Setting up: argument, socket, bind, listen; any failure ends main.      *)

ServerOff == up = "off" /\ UNCHANGED <<server, shape, backlog, dropped,
                                       inputVars, clientVars, conn, batch,
                                       cap, cq, faulted, printed, closed>>

EpollSetUp == server = "epoll" /\ ServerOff /\ up' = "up" /\ UNCHANGED <<ops, faults>>

SelectSetUp == server = "select" /\ ServerOff /\ up' = "up" /\ UNCHANGED <<ops, faults>>

UringSetUp == /\ server = "uring" /\ ServerOff /\ up' = "up"
              /\ ops' = [ops EXCEPT ![Listener] = "queued"]
              /\ UNCHANGED faults

SetUpFails == /\ ServerOff /\ faults < MaxFaults
              /\ faults' = faults + 1 /\ up' = "down" /\ UNCHANGED ops

\* The wait of the main loop fails for another reason than a signal: main
\* ends and the kernel closes what it had open.
ServerDies ==
  /\ up = "up" /\ faults < MaxFaults
  /\ up' = "down" /\ faults' = faults + 1
  /\ LET live == {c \in Clients : cst[c] # "new"} \ closed
     IN  /\ closed' = closed \cup live
         /\ faulted' = faulted \cup live
         /\ dropped' = [c \in Clients |->
                          IF c \in live THEN sent[c] - printed[c] ELSE dropped[c]]
  /\ backlog' = <<>> /\ conn' = [f \in Fds |-> None]
  /\ batch' = {} /\ cq' = <<>> /\ ops' = [f \in DOMAIN ops |-> "none"]
  /\ UNCHANGED <<server, shape, inputVars, clientVars, cap, printed>>

\* close(fd): what the client sent and nobody read is discarded.
CloseFd(f) ==
  /\ conn' = [conn EXCEPT ![f] = None]
  /\ closed' = closed \cup {conn[f]}
  /\ dropped' = [dropped EXCEPT ![conn[f]] = sent[conn[f]] - printed[conn[f]]]

PrintLines(f, n) == printed' = [printed EXCEPT ![conn[f]] = @ + n]

Readable(f) == conn[f] # None /\ (Unread(conn[f]) > 0 \/ conn[f] \in fin)

----------------------------------------------------------------------------
(* The epoll server: level-triggered events in batches.                    *)

ReadyEvents ==
  {[fd |-> f, hup |-> conn[f] \in fin] : f \in {g \in Fds : Readable(g)}}
  \cup (IF backlog = <<>> THEN {} ELSE {[fd |-> Listener, hup |-> FALSE]})

\* Fault: the vector of events grows on every call.
EpollWaitFault ==
  /\ server = "epoll" /\ up = "up" /\ batch = {} /\ ReadyEvents # {}
  /\ batch' = ReadyEvents /\ cap' = 2 * cap
  /\ UNCHANGED <<server, shape, backlog, dropped, inputVars, clientVars, up,
                 conn, ops, cq, faults, faulted, printed, closed>>

EpollWait ==
  /\ server = "epoll" /\ up = "up" /\ batch = {} /\ ReadyEvents # {}
  /\ \E b \in SUBSET ReadyEvents :
       /\ Cardinality(b) = IF Cardinality(ReadyEvents) =< cap
                           THEN Cardinality(ReadyEvents) ELSE cap
       /\ batch' = b
       /\ cap' = IF Cardinality(b) = cap THEN 2 * cap ELSE cap
  /\ UNCHANGED <<server, shape, backlog, dropped, inputVars, clientVars, up,
                 conn, ops, cq, faults, faulted, printed, closed>>

\* Descriptors for a sequence of connections, lowest free first.
Admit(q) ==
  LET free == {f \in Fds : conn[f] = None}
      rank(f) == Cardinality({g \in free : g =< f})
  IN  [f \in Fds |-> IF f \in free /\ rank(f) =< Len(q) THEN q[rank(f)] ELSE conn[f]]

\* accept until it would block.
EpollAccept ==
  /\ server = "epoll"
  /\ \E e \in batch : e.fd = Listener /\ batch' = batch \ {e}
  /\ conn' = Admit(backlog) /\ backlog' = <<>>
  /\ UNCHANGED <<server, shape, dropped, inputVars, clientVars, up, cap, ops,
                 cq, faults, faulted, printed, closed>>

\* accept fails though connections wait: the event is spent, those accepted
\* before stay accepted and the others wait for the next event.
EpollAcceptFails ==
  /\ server = "epoll" /\ faults < MaxFaults /\ faults' = faults + 1
  /\ \E e \in batch : e.fd = Listener /\ batch' = batch \ {e}
  /\ \E k \in 1..Len(backlog) :
       /\ conn' = Admit(SubSeq(backlog, 1, k - 1))
       /\ backlog' = SubSeq(backlog, k, Len(backlog))
  /\ UNCHANGED <<server, shape, dropped, inputVars, clientVars, up, cap, ops,
                 cq, faulted, printed, closed>>

\* One accepted connection cannot be made non-blocking or registered: it is
\* closed and the loop goes on with the next.
EpollRejects ==
  /\ server = "epoll" /\ backlog # <<>> /\ faults < MaxFaults
  /\ \E e \in batch : e.fd = Listener
  /\ LET c == Head(backlog)
     IN  /\ closed' = closed \cup {c} /\ faulted' = faulted \cup {c}
         /\ dropped' = [dropped EXCEPT ![c] = sent[c]]
  /\ backlog' = Tail(backlog) /\ faults' = faults + 1
  /\ UNCHANGED <<server, shape, inputVars, clientVars, up, conn, batch, cap,
                 ops, cq, printed>>

\* Fault: the event of a client that left is taken as handled, not as a close.
EpollClientFault ==
  /\ server = "epoll"
  /\ \E e \in batch : /\ e.fd # Listener /\ batch' = batch \ {e}
                    /\ PrintLines(e.fd, Unread(conn[e.fd]))
  /\ UNCHANGED <<server, shape, backlog, dropped, inputVars, clientVars, up,
                 conn, cap, ops, cq, faults, faulted, closed>>

\* A shutdown or an error reported with the event closes at once; otherwise
\* recv until it would block, and close at end of stream.
EpollClient ==
  /\ server = "epoll"
  /\ \E e \in batch :
       /\ e.fd # Listener /\ batch' = batch \ {e}
       /\ IF e.hup
          THEN CloseFd(e.fd) /\ UNCHANGED printed
          ELSE /\ PrintLines(e.fd, Unread(conn[e.fd]))
               /\ IF conn[e.fd] \in fin
                  THEN /\ conn' = [conn EXCEPT ![e.fd] = None]
                       /\ closed' = closed \cup {conn[e.fd]}
                  ELSE UNCHANGED <<conn, closed>>
               /\ UNCHANGED dropped
  /\ UNCHANGED <<server, shape, backlog, inputVars, clientVars, up, cap, ops,
                 cq, faults, faulted>>

----------------------------------------------------------------------------
(* The select server: one call on each ready descriptor, in their order.   *)

SelectWait ==
  /\ server = "select" /\ up = "up" /\ batch = {} /\ ReadyEvents # {}
  /\ batch' = ReadyEvents
  /\ UNCHANGED <<server, shape, backlog, dropped, inputVars, clientVars, up,
                 conn, cap, ops, cq, faults, faulted, printed, closed>>

SelectAccept ==
  /\ server = "select"
  /\ \E e \in batch : e.fd = Listener /\ batch' = batch \ {e}
  /\ conn' = [conn EXCEPT ![FreeFd] = Head(backlog)]
  /\ backlog' = Tail(backlog)
  /\ UNCHANGED <<server, shape, dropped, inputVars, clientVars, up, cap, ops,
                 cq, faults, faulted, printed, closed>>

\* accept fails or is interrupted: the loop goes on to the next descriptor.
SelectAcceptFails ==
  /\ server = "select" /\ faults < MaxFaults /\ faults' = faults + 1
  /\ \E e \in batch : e.fd = Listener /\ batch' = batch \ {e}
  /\ UNCHANGED <<server, shape, backlog, dropped, inputVars, clientVars, up,
                 conn, cap, ops, cq, faulted, printed, closed>>

\* Fault: close decided on the shutdown, whatever is left to read
SelectClientFault ==
  /\ server = "select"
  /\ \E e \in batch :
       /\ \A o \in batch : e.fd =< o.fd
       /\ e.fd # Listener /\ batch' = batch \ {e}
       /\ IF Unread(conn[e.fd]) > 0 /\ ~e.hup
          THEN /\ \E n \in 1..Unread(conn[e.fd]) : PrintLines(e.fd, n)
               /\ UNCHANGED <<conn, closed, dropped>>
          ELSE CloseFd(e.fd) /\ UNCHANGED printed
  /\ UNCHANGED <<server, shape, backlog, inputVars, clientVars, up, cap, ops,
                 cq, faults, faulted>>

SelectClient ==
  /\ server = "select"
  /\ \E e \in batch :
       /\ \A o \in batch : e.fd =< o.fd
       /\ e.fd # Listener /\ batch' = batch \ {e}
       /\ IF Unread(conn[e.fd]) > 0
          THEN /\ \E n \in 1..Unread(conn[e.fd]) : PrintLines(e.fd, n)
               /\ UNCHANGED <<conn, closed, dropped>>
          ELSE CloseFd(e.fd) /\ UNCHANGED printed
  /\ UNCHANGED <<server, shape, backlog, inputVars, clientVars, up, cap, ops,
                 cq, faults, faulted>>

\* recv fails; with select and io_uring an interrupted call counts as failed.
ReadFails ==
  /\ faults < MaxFaults /\ faults' = faults + 1
  /\ \/ /\ server \in {"epoll", "select"}
        /\ \E e \in batch :
             /\ e.fd # Listener /\ ~e.hup /\ batch' = batch \ {e}
             /\ server = "select" => \A o \in batch : e.fd =< o.fd
             /\ CloseFd(e.fd)
             /\ faulted' = faulted \cup {conn[e.fd]}
        /\ UNCHANGED <<ops, cq>>
     \/ /\ \E f \in Fds : /\ ops[f] = "flight"
                          /\ ops' = [ops EXCEPT ![f] = "done"]
                          /\ cq' = Append(cq, [fd |-> f, res |-> -1])
                          /\ faulted' = faulted \cup {conn[f]}
        /\ UNCHANGED <<batch, conn, closed, dropped>>
  /\ UNCHANGED <<server, shape, backlog, inputVars, clientVars, up, cap, printed>>

----------------------------------------------------------------------------
(* The io_uring server: one accept and one read per client outstanding.    *)

\* get_sqe: with every entry taken the queue is submitted first.
Enqueue(f, o) ==
  LET full == Cardinality({g \in DOMAIN o : o[g] = "queued"}) = SqSize
  IN  [g \in DOMAIN o |-> CASE g = f -> "queued"
                            [] full /\ g # f /\ o[g] = "queued" -> "flight"
                            [] OTHER -> o[g]]

UringSubmit ==
  /\ server = "uring" /\ up = "up" /\ cq = <<>>
  /\ \E f \in DOMAIN ops : ops[f] = "queued"
  /\ ops' = [f \in DOMAIN ops |-> IF ops[f] = "queued" THEN "flight" ELSE ops[f]]
  /\ UNCHANGED <<server, shape, backlog, dropped, inputVars, clientVars, up,
                 conn, batch, cap, cq, faults, faulted, printed, closed>>

\* The kernel completes an accept (at once and empty-handed on kernels that
\* honour the listener's O_NONBLOCK) or a read.
KernelAccepts ==
  /\ ops[Listener] = "flight"
  /\ ops' = [ops EXCEPT ![Listener] = "done"]
  /\ IF backlog = <<>>
     THEN cq' = Append(cq, [fd |-> Listener, res |-> -1]) /\ UNCHANGED <<conn, backlog>>
     ELSE /\ cq' = Append(cq, [fd |-> Listener, res |-> FreeFd])
          /\ conn' = [conn EXCEPT ![FreeFd] = Head(backlog)]
          /\ backlog' = Tail(backlog)
  /\ UNCHANGED <<server, shape, dropped, inputVars, clientVars, up, batch, cap,
                 faults, faulted, printed, closed>>

KernelReads(f) ==
  /\ ops[f] = "flight" /\ Readable(f)
  /\ ops' = [ops EXCEPT ![f] = "done"]
  /\ \E n \in 0..Unread(conn[f]) : /\ n = 0 => Unread(conn[f]) = 0
                                   /\ cq' = Append(cq, [fd |-> f, res |-> n])
  /\ UNCHANGED <<server, shape, backlog, dropped, inputVars, clientVars, up,
                 conn, batch, cap, faults, faulted, printed, closed>>

\* Fault: the accept queued again only after a successful one
UringAcceptedFault ==
  /\ server = "uring" /\ cq # <<>> /\ Head(cq).fd = Listener
  /\ cq' = Tail(cq)
  /\ ops' = IF Head(cq).res > 0
            THEN Enqueue(Listener, Enqueue(Head(cq).res, [ops EXCEPT ![Listener] = "none"]))
            ELSE [ops EXCEPT ![Listener] = "none"]
  /\ UNCHANGED <<server, shape, backlog, dropped, inputVars, clientVars, up,
                 conn, batch, cap, faults, faulted, printed, closed>>

UringAccepted ==
  /\ server = "uring" /\ cq # <<>> /\ Head(cq).fd = Listener
  /\ cq' = Tail(cq)
  /\ ops' = Enqueue(Listener, IF Head(cq).res > 0
                              THEN Enqueue(Head(cq).res, [ops EXCEPT ![Listener] = "none"])
                              ELSE ops)
  /\ UNCHANGED <<server, shape, backlog, dropped, inputVars, clientVars, up,
                 conn, batch, cap, faults, faulted, printed, closed>>

UringRead ==
  /\ server = "uring" /\ cq # <<>> /\ Head(cq).fd # Listener
  /\ cq' = Tail(cq)
  /\ LET f == Head(cq).fd
     IN  IF Head(cq).res > 0
         THEN /\ PrintLines(f, Head(cq).res)
              /\ ops' = Enqueue(f, ops)
              /\ UNCHANGED <<conn, closed, dropped>>
         ELSE /\ CloseFd(f) /\ ops' = [ops EXCEPT ![f] = "none"]
              /\ UNCHANGED printed
  /\ UNCHANGED <<server, shape, backlog, inputVars, clientVars, up, batch, cap,
                 faults, faulted>>

----------------------------------------------------------------------------
(* The clients.                                                            *)

Type(c) ==
  /\ typed[c] < Words(c) /\ c \notin eof
  /\ typed' = [typed EXCEPT ![c] = @ + 1]
  /\ UNCHANGED <<server, shape, backlog, dropped, eof, clientVars, serverVars>>

EndOfInput(c) ==
  /\ typed[c] = Words(c) /\ c \notin eof /\ shape[c].bye = "eof"
  /\ eof' = eof \cup {c}
  /\ UNCHANGED <<server, shape, backlog, dropped, typed, clientVars, serverVars>>

Connect(c, kind) ==
  /\ shape[c].kind = kind /\ cst[c] = "new" /\ up # "off"
  /\ IF up = "up"
     THEN cst' = [cst EXCEPT ![c] = "run"] /\ backlog' = Append(backlog, c)
     ELSE cst' = [cst EXCEPT ![c] = "refused"] /\ UNCHANGED backlog
  /\ UNCHANGED <<server, shape, dropped, inputVars, fetched, used, sent, fin,
                 serverVars>>

EpollConnect(c) == Connect(c, "epoll")
SelectConnect(c) == Connect(c, "select")
UringConnect(c) == Connect(c, "uring")

Running(c, kind) ==
  shape[c].kind = kind /\ cst[c] = "run"
  /\ UNCHANGED <<server, shape, backlog, inputVars, serverVars>>

Leave(c) == cst' = [cst EXCEPT ![c] = "ended"] /\ fin' = fin \cup {c}

\* send_all of one line.  A connection the server has closed swallows it, or
\* the process dies of the broken pipe.
SendLine(c) ==
  \/ /\ sent' = [sent EXCEPT ![c] = @ + 1]
     /\ dropped' = [dropped EXCEPT ![c] = IF c \in closed THEN @ + 1 ELSE @]
     /\ UNCHANGED <<cst, fin>>
  \/ c \in closed /\ Leave(c) /\ UNCHANGED <<sent, dropped>>

HandleLine(c) ==
  /\ used' = [used EXCEPT ![c] = @ + 1]
  /\ IF IsExit(c, used[c] + 1) THEN Leave(c) /\ UNCHANGED <<sent, dropped>>
                               ELSE SendLine(c)

\* Fault: every read takes all the lines there are, on a terminal too
FetchFault(c) == typed[c]

\* A read of standard input: a terminal gives one line, a pipe what it holds.
Fetch(c) == IF shape[c].stdin = "tty" THEN fetched[c] + 1 ELSE typed[c]

\* net/select/client: getline and send, in turn.
SelectLine(c) ==
  /\ Running(c, "select") /\ used[c] < typed[c]
  /\ fetched' = [fetched EXCEPT ![c] = IF used[c] < @ THEN @ ELSE Fetch(c)]
  /\ HandleLine(c)

SelectEnd(c) ==
  /\ Running(c, "select") /\ used[c] = typed[c] /\ c \in eof
  /\ Leave(c) /\ UNCHANGED <<dropped, fetched, used, sent>>

\* net/epoll/client: one getline for each event, and an event only while the
\* descriptor itself has something to read.  The end of a pipe is EPOLLHUP
\* without EPOLLIN, which the loop skips.
EpollLine(c) ==
  /\ Running(c, "epoll") /\ fetched[c] < typed[c]
  /\ fetched' = [fetched EXCEPT ![c] = IF used[c] < @ THEN @ ELSE Fetch(c)]
  /\ HandleLine(c)

EpollEnd(c) ==
  /\ Running(c, "epoll") /\ fetched[c] = typed[c] /\ c \in eof
  /\ shape[c].stdin = "tty"
  /\ Leave(c) /\ UNCHANGED <<dropped, fetched, used, sent>>

\* The socket was registered for the server's shutdown.
EpollHungUp(c) ==
  /\ Running(c, "epoll") /\ c \in closed
  /\ Leave(c) /\ UNCHANGED <<dropped, fetched, used, sent>>

\* net/iouring/client: one request goes from reading input to sending it.
UringInput(c) ==
  /\ Running(c, "uring") /\ used[c] = fetched[c]
  /\ \/ /\ fetched[c] < typed[c]
        /\ fetched' = [fetched EXCEPT ![c] = Fetch(c)]
        /\ IF IsExit(c, used[c] + 1)
           THEN used' = [used EXCEPT ![c] = @ + 1] /\ Leave(c)
           ELSE UNCHANGED <<used, cst, fin>>
     \/ /\ fetched[c] = typed[c] /\ c \in eof
        /\ Leave(c) /\ UNCHANGED <<fetched, used>>
  /\ UNCHANGED <<dropped, sent>>

\* A short send is taken for a whole one.
UringSent(c) ==
  /\ Running(c, "uring") /\ used[c] < fetched[c]
  /\ \/ /\ \E n \in 1..fetched[c] - used[c] :
             /\ sent' = [sent EXCEPT ![c] = @ + n]
             /\ dropped' = [dropped EXCEPT ![c] = IF c \in closed THEN @ + n ELSE @]
        /\ used' = [used EXCEPT ![c] = fetched[c]]
        /\ UNCHANGED <<cst, fin>>
     \/ c \in closed /\ Leave(c) /\ UNCHANGED <<used, sent, dropped>>
  /\ UNCHANGED fetched

UringHungUp(c) ==
  /\ Running(c, "uring") /\ c \in closed
  /\ Leave(c) /\ UNCHANGED <<dropped, fetched, used, sent>>

ServerStep ==
  \/ EpollSetUp \/ SelectSetUp \/ UringSetUp
  \/ EpollWait \/ EpollAccept \/ EpollClient
  \/ SelectWait \/ SelectAccept \/ SelectClient
  \/ UringSubmit \/ UringAccepted \/ UringRead

ClientStep(c) ==
  \/ EpollConnect(c) \/ SelectConnect(c) \/ UringConnect(c)
  \/ SelectLine(c) \/ SelectEnd(c)
  \/ EpollLine(c) \/ EpollEnd(c) \/ EpollHungUp(c)
  \/ UringInput(c) \/ UringSent(c) \/ UringHungUp(c)

Next ==
  \/ ServerStep \/ SetUpFails \/ ServerDies \/ ReadFails
  \/ EpollAcceptFails \/ EpollRejects \/ SelectAcceptFails
  \/ KernelAccepts \/ \E f \in Fds : KernelReads(f)
  \/ \E c \in Clients : ClientStep(c) \/ Type(c) \/ EndOfInput(c)

\* The server and the kernel keep working; each client process is scheduled.
\* Nobody has to type, and nothing has to fail.
Fairness ==
  /\ WF_vars(ServerStep) /\ WF_vars(KernelAccepts)
  /\ WF_vars(\E f \in Fds : KernelReads(f))
  /\ \A c \in Clients : WF_vars(ClientStep(c))

Spec == Init /\ [][Next]_vars /\ Fairness

----------------------------------------------------------------------------
(* Shapes of the state: what main, the event loops and the io_uring ring   *)
(* keep is of its type, and the events vector is at most doubled past the  *)
(* number of descriptors.                                                  *)
TypeOK ==
  /\ up \in {"off", "up", "down"} /\ (\A c \in Clients : shape[c] \in Shapes[c])
  /\ conn \in [Fds -> Clients \cup {None}]
  /\ batch \subseteq [fd : Fds \cup {Listener}, hup : BOOLEAN]
  /\ cap \in 1..2 * (Cardinality(Clients) + 1)
  /\ ops \in [Fds \cup {Listener} -> {"none", "queued", "flight", "done"}]
  /\ \A c \in Clients :
       /\ fetched[c] \in used[c]..typed[c]
       /\ Unread(c) \in Nat /\ sent[c] =< used[c]

\* A line that reached a connection is printed, unless a system call failed
\* on it or its client has left and the server is the epoll one, which closes
\* on EPOLLRDHUP without reading what arrived before the shutdown
\* (net/epoll/server.cpp:156).  No server closes a client that is still there.
\* What a client read from its input is sent, but for the lines after a short
\* send of the io_uring client on a pipe.
NothingLost ==
  \A c \in Clients :
    /\ dropped[c] > 0 => (server = "epoll" /\ c \in fin) \/ c \in faulted
    /\ c \in closed => c \in fin \/ c \in faulted
    /\ ~(shape[c].kind = "uring" /\ shape[c].stdin = "pipe") /\ c \notin closed
         => \/ sent[c] = used[c]
            \/ used[c] = Words(c) /\ sent[c] = Lines[c]

\* The io_uring server has one accept and, for every open connection, one
\* read under way and never two: a request owns its buffer until its
\* completion is handled, so no buffer is given to two operations, and no
\* request outlives its descriptor.
OneOperationEach ==
  server = "uring" /\ up = "up" =>
    /\ ops[Listener] # "none"
    /\ \A f \in Fds :
         LET handed == \E i \in DOMAIN cq : cq[i] = [fd |-> Listener, res |-> f]
         IN  /\ (ops[f] # "none") <=> (conn[f] # None /\ ~handed)
    /\ \A f \in DOMAIN ops :
         Cardinality({i \in DOMAIN cq : cq[i].fd = f}) = IF ops[f] = "done" THEN 1 ELSE 0

\* The servers starve nobody: a line in a socket buffer is read or discarded
\* with its connection, and the descriptor of a client that left is closed.
ServerKeepsUp ==
  \A c \in Clients : /\ Unread(c) > 0 ~> Unread(c) = 0
                     /\ c \in fin ~> c \in closed

\* A line typed at a terminal is handled or its client ends.  On a pipe this
\* holds of the select and io_uring clients only: the epoll client leaves in
\* its stream buffer every line after the first that arrived with it.
InputHandled ==
  \A c \in Clients :
    (used[c] < typed[c] /\ (shape[c].kind = "epoll" => shape[c].stdin = "tty"))
      ~> (used[c] = typed[c] \/ cst[c] \in {"ended", "refused"})

==============================================================================
