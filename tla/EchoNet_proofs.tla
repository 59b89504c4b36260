--------------------------- MODULE EchoNet_proofs ---------------------------
(***************************************************************************)
(* For any number of clients of any kinds, any number of lines, any size   *)
(* of the submission queue and any number of failing calls: the type       *)
(* invariant of net's servers and clients, that nothing that reached a     *)
(* connection is lost but in the two ways NothingLost names, and that an   *)
(* io_uring buffer never belongs to two operations.  All three need the    *)
(* same inductive invariant: where each client is, why each event of the   *)
(* batch and each completion is still true of its descriptor, and that the *)
(* lines typed, fetched, handled, sent, printed and dropped add up.        *)
(***************************************************************************)
EXTENDS EchoNet, TLAPS, FiniteSetTheorems, FunctionTheorems, SequenceTheorems,
        WellFoundedInduction

(* The entries of a sequence, and that no two of them are alike. *)
Entries(s) == {s[i] : i \in DOMAIN s}
Distinct(s) == \A i, j \in DOMAIN s : s[i] = s[j] => i = j
OnePerFd(s) == \A i, j \in DOMAIN s : s[i].fd = s[j].fd => i = j


LEMMA EmptyEntries == Entries(<<>>) = {} /\ Distinct(<<>>) /\ OnePerFd(<<>>)
  BY DEF Entries, Distinct, OnePerFd

LEMMA EntriesType ==
    ASSUME NEW S, NEW s \in Seq(S)
    PROVE  /\ Entries(s) \subseteq S
           /\ s # <<>> => Head(s) \in Entries(s) /\ Head(s) \in S /\ Tail(s) \in Seq(S)
           /\ (s = <<>>) <=> (Entries(s) = {})
  <1>1. DOMAIN s = 1..Len(s) /\ Len(s) \in Nat
    BY LenProperties
  <1>2. Entries(s) \subseteq S
    BY <1>1, ElementOfSeq DEF Entries
  <1>3. ASSUME s # <<>>
        PROVE  Head(s) \in Entries(s) /\ Head(s) \in S /\ Tail(s) \in Seq(S)
    <2>1. Head(s) = s[1] /\ Len(s) # 0 /\ Tail(s) \in Seq(S)
      BY <1>3, EmptySeq, HeadTailProperties
    <2>2. 1 \in DOMAIN s
      BY <1>1, <2>1
    <2> QED BY <1>2, <2>1, <2>2 DEF Entries
  <1>4. s = <<>> => Entries(s) = {}
    BY EmptyEntries
  <1> QED BY <1>2, <1>3, <1>4

LEMMA EntriesOfAppend ==
    ASSUME NEW S, NEW s \in Seq(S), NEW e \in S
    PROVE  /\ Append(s, e) \in Seq(S)
           /\ Entries(Append(s, e)) = Entries(s) \cup {e}
           /\ Distinct(s) /\ e \notin Entries(s) => Distinct(Append(s, e))
           /\ OnePerFd(s) /\ (\A x \in Entries(s) : x.fd # e.fd) => OnePerFd(Append(s, e))
  <1> DEFINE r == Append(s, e)
  <1>1. PICK n \in Nat : n = Len(s)
    BY LenProperties
  <1>2. /\ r \in Seq(S) /\ DOMAIN s = 1..n /\ DOMAIN r = 1..n + 1
        /\ r[n + 1] = e /\ \A i \in 1..n : r[i] = s[i]
    BY <1>1, AppendProperties, LenProperties
  <1> HIDE DEF r
  <1>3. \A i \in 1..n + 1 : i \in 1..n \/ i = n + 1
    BY <1>1
  <1>4. n + 1 \in 1..n + 1 /\ 1..n \subseteq 1..n + 1
    BY <1>1
  <1>5. Entries(r) = Entries(s) \cup {e}
    BY <1>2, <1>3, <1>4 DEF Entries
  <1>6. Distinct(s) /\ e \notin Entries(s) => Distinct(r)
    BY <1>2, <1>3 DEF Distinct, Entries
  <1>7. OnePerFd(s) /\ (\A x \in Entries(s) : x.fd # e.fd) => OnePerFd(r)
    BY <1>2, <1>3 DEF OnePerFd, Entries
  <1> QED BY <1>2, <1>5, <1>6, <1>7 DEF r

LEMMA OnePerFdIsDistinct == \A s : OnePerFd(s) => Distinct(s)
  BY DEF OnePerFd, Distinct

LEMMA EntriesOfTail ==
    ASSUME NEW S, NEW s \in Seq(S), s # <<>>, Distinct(s)
    PROVE  /\ Entries(Tail(s)) = Entries(s) \ {Head(s)}
           /\ Distinct(Tail(s)) /\ (OnePerFd(s) => OnePerFd(Tail(s)))
  <1> DEFINE r == Tail(s)
  <1>1. PICK n \in Nat : Len(s) = n + 1
    <2>1. Len(s) \in Nat /\ Len(s) # 0
      BY EmptySeq, LenProperties
    <2> QED BY <2>1, Len(s) - 1 \in Nat
  <1>2. /\ DOMAIN s = 1..n + 1 /\ DOMAIN r = 1..n /\ Head(s) = s[1]
        /\ \A i \in 1..n : r[i] = s[i + 1]
    BY <1>1, HeadTailProperties, LenProperties
  <1> HIDE DEF r
  <1>3. /\ \A i \in 1..n : i + 1 \in 1..n + 1 /\ i + 1 # 1
        /\ \A i \in 1..n + 1 : i = 1 \/ \E j \in 1..n : i = j + 1
        /\ 1 \in 1..n + 1
    <2>1. \A i \in 1..n + 1 : i # 1 => i - 1 \in 1..n /\ i = (i - 1) + 1
      BY <1>1
    <2> QED BY <1>1, <2>1
  <1>4. \A i, j \in 1..n : i + 1 = j + 1 => i = j
    BY <1>1
  <1>5. Entries(r) \subseteq Entries(s) \ {Head(s)}
    BY <1>2, <1>3 DEF Entries, Distinct
  <1>6. Entries(s) \ {Head(s)} \subseteq Entries(r)
    <2> SUFFICES ASSUME NEW i \in 1..n + 1, s[i] # Head(s) PROVE s[i] \in Entries(r)
      BY <1>2 DEF Entries
    <2>1. PICK j \in 1..n : i = j + 1
      BY <1>2, <1>3
    <2> QED BY <1>2, <2>1 DEF Entries
  <1>7. Distinct(r)
    BY <1>2, <1>3, <1>4 DEF Distinct
  <1>8. ASSUME OnePerFd(s) PROVE OnePerFd(r)
    <2> SUFFICES ASSUME NEW i \in 1..n, NEW j \in 1..n, r[i].fd = r[j].fd PROVE i = j
      BY <1>2 DEF OnePerFd
    <2>1. s[i + 1].fd = s[j + 1].fd /\ i + 1 \in DOMAIN s /\ j + 1 \in DOMAIN s
      BY <1>2, <1>3
    <2>2. i + 1 = j + 1
      BY <1>8, <2>1 DEF OnePerFd
    <2> QED BY <2>2
  <1> QED BY <1>5, <1>6, <1>7, <1>8 DEF r

(* One index of each descriptor that has an entry. *)
LEMMA CountOfFd ==
    ASSUME NEW s, OnePerFd(s), NEW f
    PROVE  Cardinality({i \in DOMAIN s : s[i].fd = f})
             = IF \E x \in Entries(s) : x.fd = f THEN 1 ELSE 0
  <1>1. CASE \E x \in Entries(s) : x.fd = f
    <2>1. PICK i \in DOMAIN s : s[i].fd = f
      BY <1>1 DEF Entries
    <2>2. {j \in DOMAIN s : s[j].fd = f} = {i}
      BY <2>1 DEF OnePerFd
    <2> QED BY <1>1, <2>2, FS_Singleton
  <1>2. CASE ~\E x \in Entries(s) : x.fd = f
    <2>1. {j \in DOMAIN s : s[j].fd = f} = {}
      BY <1>2 DEF Entries
    <2> QED BY <1>2, <2>1, FS_EmptySet
  <1> QED BY <1>1, <1>2

------------------------------------------------------------------------------
\* The descriptors of the server, with the one it listens on.
AllFds == Fds \cup {Listener}
Completion == [fd : AllFds, res : Int]

Types ==
  /\ up \in {"off", "up", "down"} /\ \A c \in Clients : shape[c] \in Shapes[c]
  /\ typed \in [Clients -> Nat] /\ fetched \in [Clients -> Nat] /\ used \in [Clients -> Nat]
  /\ sent \in [Clients -> Nat] /\ printed \in [Clients -> Nat] /\ dropped \in [Clients -> Nat]
  /\ cst \in [Clients -> {"new", "run", "ended", "refused"}]
  /\ conn \in [Fds -> Clients \cup {None}] /\ backlog \in Seq(Clients)
  /\ batch \subseteq [fd : AllFds, hup : BOOLEAN]
  /\ cap \in 1..2 * (Cardinality(Clients) + 1)
  /\ ops \in [AllFds -> {"none", "queued", "flight", "done"}]
  /\ cq \in Seq(Completion)

\* What was typed is fetched, handled and sent in turn.
Input(c) ==
  /\ sent[c] =< used[c] /\ used[c] =< fetched[c] /\ fetched[c] =< typed[c]
  /\ typed[c] =< Words(c)
  /\ shape[c].kind = "uring" /\ shape[c].stdin = "tty" => fetched[c] =< used[c] + 1
  /\ ~(shape[c].kind = "uring" /\ shape[c].stdin = "pipe") /\ c \notin closed
       => \/ sent[c] = used[c]
          \/ used[c] = Words(c) /\ sent[c] = Lines[c]

\* What was sent is printed, dropped or unread, and why it may be dropped.
Line(c) ==
  /\ printed[c] + dropped[c] =< sent[c]
  /\ c \notin closed => dropped[c] = 0
  /\ dropped[c] > 0 => (server = "epoll" /\ c \in fin) \/ c \in faulted
  /\ c \in fin => cst[c] = "ended"
  /\ c \in closed => c \in faulted \/ c \in fin

\* A client is in one place at most: not connected yet, waiting to be
\* accepted, behind one descriptor, or closed.
Places ==
  /\ \A f, g \in Fds : conn[f] # None /\ conn[f] = conn[g] => f = g
  /\ Distinct(backlog)
  /\ \A c \in Clients : cst[c] = "new" => c \notin closed /\ printed[c] = 0
  /\ \A c \in Entries(backlog) : c \notin closed /\ printed[c] = 0 /\ cst[c] # "new"
  /\ \A f \in Fds : conn[f] # None =>
        conn[f] \notin closed /\ conn[f] \notin Entries(backlog) /\ cst[conn[f]] # "new"
  /\ up # "up" => backlog = <<>> /\ \A f \in Fds : conn[f] = None

\* An event is of a descriptor that still has what it was reported for.
Events ==
  /\ \A d, e \in batch : d.fd = e.fd => d = e
  /\ \A e \in batch : e.fd # Listener => Readable(e.fd)
  /\ \A e \in batch : e.hup => e.fd # Listener /\ conn[e.fd] \in fin
  /\ \A e \in batch : e.fd = Listener /\ server = "select" => backlog # <<>>
  /\ batch # {} => up = "up" /\ server \in {"epoll", "select"}

\* A completion is of an operation whose buffer nobody else uses, and says
\* what is in the socket.
Handed(f) == [fd |-> Listener, res |-> f] \in Entries(cq)

Fits(f, res) ==
  /\ conn[f] # None
  /\ res > 0 => res =< Unread(conn[f])
  /\ res = 0 => Unread(conn[f]) = 0 /\ conn[f] \in fin
  /\ res < 0 => conn[f] \in faulted

\* The descriptor an accept gave, if it gave one.
Gives(res) == res = -1 \/ (res \in Fds /\ conn[res] # None)

Requests ==
  /\ OnePerFd(cq)
  /\ \A f \in AllFds : ops[f] = "done" <=> \E x \in Entries(cq) : x.fd = f
  /\ IF server = "uring" /\ up = "up"
     THEN /\ ops[Listener] # "none"
          /\ \A f \in Fds : (ops[f] # "none") <=> (conn[f] # None /\ ~Handed(f))
     ELSE \A f \in AllFds : ops[f] = "none"
  /\ \A x \in Entries(cq) : IF x.fd = Listener THEN Gives(x.res) ELSE Fits(x.fd, x.res)

EchoInv == /\ Types /\ (\A c \in Clients : Input(c) /\ Line(c))
           /\ Places /\ Events /\ Requests

LEMMA Constants ==
    /\ IsFiniteSet(Clients) /\ Cardinality(Clients) \in Nat /\ None \notin Clients
    /\ Fds = 1..Cardinality(Clients) /\ Listener = 0 /\ Listener \notin Fds
    /\ Fds \subseteq Nat /\ AllFds \subseteq Nat
    /\ IsFiniteSet(Fds) /\ Cardinality(Fds) = Cardinality(Clients)
    /\ \A c \in Clients : Lines[c] \in Nat
  <1>1. /\ IsFiniteSet(Clients) /\ Cardinality(Clients) \in Nat /\ None \notin Clients
        /\ \A c \in Clients : Lines[c] \in Nat
    BY EchoAssumption, FS_CardinalityType
  <1>2. PICK n \in Nat : n = Cardinality(Clients)
    BY <1>1
  <1>3. Fds = 1..n /\ Listener = 0
    BY <1>2 DEF Fds, Listener
  <1>4. IsFiniteSet(1..n) /\ Cardinality(1..n) = n
    BY FS_Interval
  <1>5. 0 \notin 1..n /\ 1..n \subseteq Nat
    OBVIOUS
  <1> QED BY <1>1, <1>2, <1>3, <1>4, <1>5 DEF AllFds

LEMMA EntriesHere ==
    ASSUME Types
    PROVE  /\ Entries(cq) \subseteq Completion /\ Entries(backlog) \subseteq Clients
           /\ \A x \in Entries(cq) : x.fd \in AllFds /\ x.res \in Int
           /\ \A e \in batch : e.fd \in AllFds /\ e.hup \in BOOLEAN
  <1>1. Entries(cq) \subseteq Completion /\ Entries(backlog) \subseteq Clients
    BY EntriesType DEF Types
  <1>2. \A x \in Completion : x.fd \in AllFds /\ x.res \in Int
    BY DEF Completion
  <1>3. \A e \in batch : e.fd \in AllFds /\ e.hup \in BOOLEAN
    BY DEF Types
  <1> QED BY <1>1, <1>2, <1>3

(* Every nonempty set of numbers has a least one. *)
LEMMA LeastNumber ==
    ASSUME NEW S \in SUBSET Nat, S # {}
    PROVE  \E n \in S : \A m \in S : n =< m
  <1>1. IsWellFoundedOn(OpToRel(<, Nat), Nat)
    BY NatLessThanWellFounded
  <1>2. PICK n \in S : \A m \in S : <<m, n>> \notin OpToRel(<, Nat)
    BY <1>1, WFMin
  <1>3. ASSUME NEW m \in S PROVE ~(m < n)
    BY <1>2 DEF OpToRel
  <1> QED BY <1>3

(* There is a descriptor for a client that is not behind one. *)
LEMMA FreeFdType ==
    ASSUME Types, Places, NEW c \in Clients, \A f \in Fds : conn[f] # c
    PROVE  FreeFd \in Fds /\ conn[FreeFd] = None
  <1>1. ASSUME \A f \in Fds : conn[f] # None PROVE FALSE
    <2>1. conn \in [Fds -> Clients \ {c}]
      BY <1>1 DEF Types
    <2>2. conn \in Injection(Fds, Clients \ {c})
      BY <1>1, <2>1, Zenon DEF Injection, IsInjective, Places
    <2>3. IsFiniteSet(Clients \ {c}) /\ Cardinality(Clients \ {c}) = Cardinality(Clients) - 1
      BY Constants, FS_RemoveElement
    <2>4. Cardinality(Fds) =< Cardinality(Clients \ {c})
      BY <2>2, <2>3, FS_Injection
    <2> QED BY <2>3, <2>4, Constants
  <1>2. PICK f \in Fds : conn[f] = None /\ \A g \in Fds : conn[g] = None => f =< g
    <2>1. {g \in Fds : conn[g] = None} \in SUBSET Nat
      BY Constants
    <2> QED BY <1>1, <2>1, LeastNumber
  <1>3. \A g \in 1..f - 1 : g \in Fds /\ ~(f =< g)
    BY <1>2, Constants
  <1>4. conn[f] = None /\ \A g \in 1..f - 1 : conn[g] # None
    BY <1>2, <1>3
  <1> QED BY <1>2, <1>4 DEF FreeFd

------------------------------------------------------------------------------
(***************************************************************************)
(* The clients.  A step of one touches its own input and its own end of    *)
(* the connection; what it leaves unread in the socket never shrinks, and  *)
(* once it has left it never changes.                                      *)
(***************************************************************************)
ClientMoves(c) ==
  /\ UNCHANGED <<server, shape, serverVars>>
  /\ typed' \in [Clients -> Nat] /\ fetched' \in [Clients -> Nat] /\ used' \in [Clients -> Nat]
  /\ sent' \in [Clients -> Nat] /\ dropped' \in [Clients -> Nat]
  /\ cst' \in [Clients -> {"new", "run", "ended", "refused"}]
  /\ \A d \in Clients \ {c} :
        /\ typed'[d] = typed[d] /\ fetched'[d] = fetched[d] /\ used'[d] = used[d]
        /\ sent'[d] = sent[d] /\ dropped'[d] = dropped[d]
        /\ cst'[d] = cst[d] /\ (d \in fin' <=> d \in fin)
  /\ c \in fin => c \in fin' /\ sent'[c] = sent[c] /\ dropped'[c] = dropped[c]
  /\ sent[c] + dropped'[c] =< sent'[c] + dropped[c]
  /\ \/ backlog' = backlog /\ (cst'[c] = "new" <=> cst[c] = "new")
     \/ backlog' = backlog /\ cst'[c] = "refused"
     \/ backlog' = Append(backlog, c) /\ cst[c] = "new" /\ cst'[c] = "run" /\ up = "up"
  /\ Input(c)' /\ Line(c)'

LEMMA WordsType ==
    ASSUME Types, NEW c \in Clients
    PROVE  /\ Lines[c] \in Nat /\ Words(c) \in Nat /\ Lines[c] =< Words(c)
           /\ Words(c) =< Lines[c] + 1 /\ (shape' = shape => Words(c)' = Words(c))
  BY Constants DEF Words

LEMMA InputSame ==
    ASSUME Types, NEW c \in Clients, Input(c), shape' = shape, closed \subseteq closed',
           typed'[c] = typed[c], fetched'[c] = fetched[c], used'[c] = used[c], sent'[c] = sent[c]
    PROVE  Input(c)'
  BY WordsType DEF Input

LEMMA LineSame ==
    ASSUME NEW c \in Clients, Line(c), server' = server, faulted \subseteq faulted',
           (c \in closed' <=> c \in closed),
           sent'[c] = sent[c], dropped'[c] = dropped[c], printed'[c] = printed[c],
           (c \in fin' <=> c \in fin), c \in fin => cst'[c] = cst[c]
    PROVE  Line(c)'
  BY DEF Line

LEMMA TypeMoves ==
    ASSUME Types, NEW c \in Clients, Input(c), Line(c), Type(c)
    PROVE  ClientMoves(c)
  <1>1. /\ UNCHANGED <<server, shape, backlog, dropped, clientVars, serverVars>>
        /\ typed' = [typed EXCEPT ![c] = @ + 1] /\ typed[c] < Words(c)
    BY DEF Type
  <1>2. UNCHANGED <<fetched, used, sent, cst, fin>> /\ UNCHANGED <<closed, faulted, printed>>
    BY <1>1 DEF clientVars, serverVars
  <1>3. PICK t \in Nat, w \in Nat : t = typed[c] /\ w = Words(c) /\ Words(c)' = w
    BY <1>1, WordsType DEF Types
  <1>4. typed' \in [Clients -> Nat] /\ typed'[c] = t + 1 /\ t + 1 =< w
    BY <1>1, <1>3 DEF Types
  <1>5. Line(c)'
    BY <1>1, <1>2, LineSame
  <1>6. fetched[c] =< t + 1
    BY <1>3 DEF Input, Types
  <1>7. Input(c)'
    BY <1>1, <1>2, <1>3, <1>4, <1>6 DEF Input
  <1>8. \A d \in Clients \ {c} : typed'[d] = typed[d]
    BY <1>1 DEF Types
  <1>9. sent[c] + dropped'[c] =< sent'[c] + dropped[c]
    BY <1>1, <1>2 DEF Types
  <1> QED BY <1>1, <1>2, <1>4, <1>5, <1>7, <1>8, <1>9 DEF ClientMoves, Types

LEMMA EndOfInputMoves ==
    ASSUME Types, NEW c \in Clients, Input(c), Line(c), EndOfInput(c)
    PROVE  ClientMoves(c)
  <1>1. UNCHANGED <<server, shape, backlog, dropped, typed, clientVars, serverVars>>
    BY DEF EndOfInput
  <1>2. UNCHANGED <<fetched, used, sent, cst, fin>> /\ UNCHANGED <<closed, faulted, printed>>
    BY <1>1 DEF clientVars, serverVars
  <1>3. Input(c)' /\ Line(c)'
    BY <1>1, <1>2, LineSame, InputSame
  <1>4. sent[c] + dropped'[c] =< sent'[c] + dropped[c]
    BY <1>1, <1>2 DEF Types
  <1> QED BY <1>1, <1>2, <1>3, <1>4 DEF ClientMoves, Types

LEMMA ConnectMoves ==
    ASSUME Types, NEW c \in Clients, Input(c), Line(c), NEW kind, Connect(c, kind)
    PROVE  ClientMoves(c)
  <1>1. /\ UNCHANGED <<server, shape, dropped, typed, fetched, used, sent, fin, serverVars>>
        /\ cst[c] = "new"
        /\ \/ up = "up" /\ cst' = [cst EXCEPT ![c] = "run"] /\ backlog' = Append(backlog, c)
           \/ cst' = [cst EXCEPT ![c] = "refused"] /\ UNCHANGED backlog
    BY DEF Connect, inputVars
  <1>2. UNCHANGED <<closed, faulted, printed>>
    BY <1>1 DEF serverVars
  <1>3. c \notin fin
    BY <1>1 DEF Line
  <1>4. Input(c)' /\ Line(c)'
    BY <1>1, <1>2, <1>3, LineSame, InputSame
  <1>5. sent[c] + dropped'[c] =< sent'[c] + dropped[c]
    BY <1>1 DEF Types
  <1>6. /\ cst' \in [Clients -> {"new", "run", "ended", "refused"}]
        /\ cst'[c] \in {"run", "refused"} /\ \A d \in Clients \ {c} : cst'[d] = cst[d]
        /\ \/ up = "up" /\ cst'[c] = "run" /\ backlog' = Append(backlog, c)
           \/ cst'[c] = "refused" /\ UNCHANGED backlog
    BY <1>1 DEF Types
  <1> QED BY <1>1, <1>2, <1>4, <1>5, <1>6 DEF ClientMoves, Types

LEMMA RunningFrame ==
    ASSUME Types, NEW c \in Clients, NEW kind, Running(c, kind)
    PROVE  /\ UNCHANGED <<server, shape, backlog, typed, serverVars>>
           /\ UNCHANGED <<closed, faulted, printed>>
           /\ cst[c] = "run" /\ shape[c].kind = kind
           /\ typed' \in [Clients -> Nat]
  BY DEF Running, inputVars, serverVars, Types

(* A running client ends: what it had sent stays as it is. *)
LEMMA EndMoves ==
    ASSUME Types, NEW c \in Clients, Line(c), NEW kind, Running(c, kind),
           Leave(c), UNCHANGED <<sent, dropped>>, NEW u \in Nat, NEW g \in Nat,
           used' = [used EXCEPT ![c] = u], fetched' = [fetched EXCEPT ![c] = g], Input(c)'
    PROVE  ClientMoves(c)
  <1>1. /\ UNCHANGED <<server, shape, backlog, typed, serverVars>>
        /\ UNCHANGED <<closed, faulted, printed>> /\ cst[c] = "run"
        /\ typed' \in [Clients -> Nat]
    BY RunningFrame
  <1>2. /\ cst' \in [Clients -> {"new", "run", "ended", "refused"}]
        /\ cst'[c] = "ended" /\ \A d \in Clients \ {c} : cst'[d] = cst[d]
        /\ c \in fin' /\ \A d \in Clients \ {c} : (d \in fin' <=> d \in fin)
    BY DEF Leave, Types
  <1>3. /\ used' \in [Clients -> Nat] /\ fetched' \in [Clients -> Nat]
        /\ \A d \in Clients \ {c} : used'[d] = used[d] /\ fetched'[d] = fetched[d]
    BY DEF Types
  <1>4. Line(c)'
    BY <1>1, <1>2 DEF Line
  <1>5. sent[c] + dropped'[c] =< sent'[c] + dropped[c]
    BY DEF Types
  <1> QED BY <1>1, <1>2, <1>3, <1>4, <1>5 DEF ClientMoves, Types

(* A running client sends: onto the connection, or to nobody. *)
LEMMA SendMoves ==
    ASSUME Types, NEW c \in Clients, Line(c), NEW kind, Running(c, kind), NEW n \in Nat,
           sent' = [sent EXCEPT ![c] = @ + n],
           dropped' = [dropped EXCEPT ![c] = IF c \in closed THEN @ + n ELSE @],
           UNCHANGED <<cst, fin>>, NEW u \in Nat, NEW g \in Nat,
           used' = [used EXCEPT ![c] = u], fetched' = [fetched EXCEPT ![c] = g], Input(c)'
    PROVE  ClientMoves(c)
  <1>1. /\ UNCHANGED <<server, shape, backlog, typed, serverVars>>
        /\ UNCHANGED <<closed, faulted, printed>> /\ cst[c] = "run"
        /\ typed' \in [Clients -> Nat]
    BY RunningFrame
  <1>2. PICK s \in Nat, d \in Nat, p \in Nat : s = sent[c] /\ d = dropped[c] /\ p = printed[c]
    BY DEF Types
  <1>3. sent'[c] = s + n /\ dropped'[c] = IF c \in closed THEN d + n ELSE d
    BY <1>2 DEF Types
  <1>4. /\ used' \in [Clients -> Nat] /\ fetched' \in [Clients -> Nat]
        /\ sent' \in [Clients -> Nat] /\ dropped' \in [Clients -> Nat]
        /\ \A x \in Clients \ {c} : /\ used'[x] = used[x] /\ fetched'[x] = fetched[x]
                                   /\ sent'[x] = sent[x] /\ dropped'[x] = dropped[x]
    <2>1. /\ used \in [Clients -> Nat] /\ fetched \in [Clients -> Nat]
          /\ sent \in [Clients -> Nat] /\ dropped \in [Clients -> Nat]
      BY DEF Types
    <2>2. /\ used' \in [Clients -> Nat] /\ fetched' \in [Clients -> Nat]
          /\ \A x \in Clients \ {c} : used'[x] = used[x] /\ fetched'[x] = fetched[x]
      BY <2>1
    <2>3. sent' \in [Clients -> Nat] /\ \A x \in Clients \ {c} : sent'[x] = sent[x]
      BY <2>1
    <2>4. dropped' \in [Clients -> Nat] /\ \A x \in Clients \ {c} : dropped'[x] = dropped[x]
      BY <2>1
    <2> QED BY <2>2, <2>3, <2>4
  <1>5. c \notin fin
    BY <1>1 DEF Line
  <1>6. Line(c)'
    <2>1. p + d =< s
      BY <1>2 DEF Line
    <2>2. p + dropped'[c] =< s + n
      BY <1>3, <2>1
    <2> QED BY <1>1, <1>2, <1>3, <1>5, <2>2 DEF Line
  <1>7. s + dropped'[c] =< sent'[c] + d
    BY <1>3
  <1> QED BY <1>1, <1>2, <1>4, <1>5, <1>6, <1>7 DEF ClientMoves, Types

(* One line, or the word that ends the client, is handled. *)
LEMMA HandleLineMoves ==
    ASSUME Types, NEW c \in Clients, Input(c), Line(c), NEW kind, Running(c, kind),
           kind # "uring", HandleLine(c), NEW g \in Nat,
           fetched' = [fetched EXCEPT ![c] = g], used[c] < g, g =< typed[c]
    PROVE  ClientMoves(c)
  <1>1. /\ UNCHANGED <<shape, typed, closed>> /\ shape[c].kind = kind
    BY RunningFrame
  <1>2. PICK s \in Nat, u \in Nat, t \in Nat, l \in Nat, w \in Nat :
            /\ s = sent[c] /\ u = used[c] /\ t = typed[c] /\ l = Lines[c] /\ w = Words(c)
            /\ l =< w /\ w =< l + 1 /\ Words(c)' = w
    BY <1>1, WordsType DEF Types
  <1>3. s =< u /\ t =< w /\ u < g /\ g =< t
    BY <1>2 DEF Input
  <1>4. c \notin closed => s = u \/ (u = w /\ s = l)
    BY <1>1, <1>2 DEF Input
  <1>5. /\ used' = [used EXCEPT ![c] = u + 1] /\ used'[c] = u + 1
        /\ fetched'[c] = g /\ typed'[c] = t
    BY <1>1, <1>2 DEF HandleLine, Types
  <1>6. PICK v \in Nat : v = u + 1
    BY <1>2
  <1>7. used' = [used EXCEPT ![c] = v]
    BY <1>5, <1>6
  <1>8. ASSUME sent'[c] \in Nat, sent'[c] =< u + 1,
               c \notin closed => sent'[c] = u + 1 \/ (u + 1 = w /\ sent'[c] = l)
        PROVE  Input(c)'
    <2>1. u + 1 =< g /\ g =< t /\ t =< w
      BY <1>3
    <2>2. Lines[c]' = l
      BY <1>2
    <2> QED BY <1>1, <1>2, <1>5, <1>8, <2>1 DEF Input
  <1>9. CASE IsExit(c, used[c] + 1)
    <2>1. Leave(c) /\ UNCHANGED <<sent, dropped>>
      BY <1>9 DEF HandleLine
    <2>2. u = l
      BY <1>2, <1>9 DEF IsExit
    <2>3. u + 1 = w /\ (c \notin closed => s = l)
      BY <1>2, <1>3, <1>4, <2>2
    <2>4. sent'[c] = s /\ s =< u + 1
      BY <1>2, <1>3, <2>1
    <2>5. Input(c)'
      BY <1>8, <2>3, <2>4
    <2> QED BY <1>7, <2>1, <2>5, EndMoves
  <1>10. CASE ~IsExit(c, used[c] + 1)
    <2>1. SendLine(c)
      BY <1>10 DEF HandleLine
    <2>2. CASE /\ sent' = [sent EXCEPT ![c] = @ + 1]
               /\ dropped' = [dropped EXCEPT ![c] = IF c \in closed THEN @ + 1 ELSE @]
               /\ UNCHANGED <<cst, fin>>
      <3>1. sent'[c] = s + 1
        BY <1>2, <2>2 DEF Types
      <3>2. s + 1 =< u + 1 /\ (c \notin closed => s + 1 = u + 1)
        BY <1>3, <1>4
      <3>3. Input(c)'
        BY <1>8, <3>1, <3>2
      <3>4. 1 \in Nat
        OBVIOUS
      <3> QED BY <1>7, <2>2, <3>3, <3>4, SendMoves
    <2>3. CASE c \in closed /\ Leave(c) /\ UNCHANGED <<sent, dropped>>
      <3>1. sent'[c] = s /\ s =< u + 1
        BY <1>2, <1>3, <2>3
      <3>2. Input(c)'
        BY <1>8, <2>3, <3>1
      <3> QED BY <1>7, <2>3, <3>2, EndMoves
    <2> QED BY <2>1, <2>2, <2>3 DEF SendLine
  <1> QED BY <1>9, <1>10

(* What a read of standard input leaves in the program's buffer. *)
LEMMA FetchType ==
    ASSUME Types, NEW c \in Clients, Input(c), fetched[c] < typed[c]
    PROVE  /\ Fetch(c) \in Nat /\ fetched[c] < Fetch(c) /\ Fetch(c) =< typed[c]
           /\ shape[c].stdin = "tty" => Fetch(c) = fetched[c] + 1
  BY DEF Types, Fetch

(* getline and send, of the epoll and the select client. *)
LEMMA LineMoves ==
    ASSUME Types, NEW c \in Clients, Input(c), Line(c), NEW kind, Running(c, kind),
           kind # "uring", HandleLine(c), used[c] < typed[c],
           fetched' = [fetched EXCEPT ![c] = IF used[c] < @ THEN @ ELSE Fetch(c)]
    PROVE  ClientMoves(c)
  <1>1. /\ used[c] \in Nat /\ fetched[c] \in Nat /\ typed[c] \in Nat
        /\ used[c] =< fetched[c] /\ fetched[c] =< typed[c]
    BY DEF Types, Input
  <1>2. CASE used[c] < fetched[c]
    <2>1. fetched' = [fetched EXCEPT ![c] = fetched[c]]
      BY <1>2
    <2> QED BY <1>1, <1>2, <2>1, HandleLineMoves
  <1>3. CASE ~(used[c] < fetched[c])
    <2>1. fetched[c] < typed[c] /\ fetched[c] = used[c]
      BY <1>1, <1>3
    <2>2. PICK g \in Nat : g = Fetch(c) /\ used[c] < g /\ g =< typed[c]
      BY <2>1, FetchType
    <2>3. fetched' = [fetched EXCEPT ![c] = g]
      BY <1>3, <2>2
    <2> QED BY <2>2, <2>3, HandleLineMoves
  <1> QED BY <1>2, <1>3

(* The client ends without another word. *)
LEMMA LeaveMoves ==
    ASSUME Types, NEW c \in Clients, Input(c), Line(c), NEW kind, Running(c, kind),
           Leave(c), UNCHANGED <<dropped, fetched, used, sent>>
    PROVE  ClientMoves(c)
  <1>1. /\ used[c] \in Nat /\ used' = [used EXCEPT ![c] = used[c]]
        /\ fetched[c] \in Nat /\ fetched' = [fetched EXCEPT ![c] = fetched[c]]
    BY DEF Types
  <1>2. Input(c)'
    BY RunningFrame, InputSame
  <1> QED BY <1>1, <1>2, EndMoves

LEMMA UringInputMoves ==
    ASSUME Types, NEW c \in Clients, Input(c), Line(c), UringInput(c)
    PROVE  ClientMoves(c)
  <1>1. Running(c, "uring") /\ used[c] = fetched[c] /\ UNCHANGED <<dropped, sent>>
    BY DEF UringInput
  <1>2. /\ UNCHANGED <<server, shape, backlog, typed, serverVars>>
        /\ UNCHANGED <<closed, faulted, printed>> /\ shape[c].kind = "uring"
    BY <1>1, RunningFrame
  <1>3. PICK s \in Nat, u \in Nat, t \in Nat, l \in Nat, w \in Nat :
            /\ s = sent[c] /\ u = used[c] /\ t = typed[c] /\ l = Lines[c] /\ w = Words(c)
            /\ l =< w /\ w =< l + 1 /\ Words(c)' = w
    BY <1>2, WordsType DEF Types
  <1>4. s =< u /\ u =< t /\ t =< w
    BY <1>1, <1>3 DEF Input, Types
  <1>5. ~(shape[c].stdin = "pipe") /\ c \notin closed => s = u \/ (u = w /\ s = l)
    BY <1>2, <1>3 DEF Input
  <1>6. CASE /\ fetched[c] < typed[c]
             /\ fetched' = [fetched EXCEPT ![c] = Fetch(c)]
             /\ IF IsExit(c, used[c] + 1)
                THEN used' = [used EXCEPT ![c] = @ + 1] /\ Leave(c)
                ELSE UNCHANGED <<used, cst, fin>>
    <2>1. PICK g \in Nat : /\ g = Fetch(c) /\ u < g /\ g =< t
                           /\ shape[c].stdin = "tty" => g = u + 1
      BY <1>1, <1>3, <1>6, FetchType
    <2>2. fetched' = [fetched EXCEPT ![c] = g] /\ fetched'[c] = g
      BY <1>6, <2>1 DEF Types
    <2>3. u < w /\ (~(shape[c].stdin = "pipe") /\ c \notin closed => s = u)
      BY <1>4, <1>5, <2>1
    <2>4. CASE IsExit(c, used[c] + 1)
      <3>1. PICK v \in Nat : v = u + 1
        BY <1>3
      <3>2. Leave(c) /\ used' = [used EXCEPT ![c] = v] /\ used'[c] = v
        BY <1>3, <1>6, <2>4, <3>1 DEF Types
      <3>3. v = w /\ u = l
        BY <1>3, <1>4, <2>1, <2>4, <3>1 DEF IsExit
      <3>4. s =< v /\ v =< g /\ g =< v + 1
        BY <1>4, <2>1, <3>1, <3>3
      <3>5. Input(c)'
        BY <1>1, <1>2, <1>3, <1>4, <2>1, <2>2, <2>3, <3>2, <3>3, <3>4 DEF Input
      <3> QED BY <1>1, <2>2, <3>2, <3>5, EndMoves
    <2>5. CASE ~IsExit(c, used[c] + 1)
      <3>1. UNCHANGED <<used, cst, fin>>
        BY <1>6, <2>5
      <3>2. u =< g
        BY <2>1
      <3>3. Input(c)'
        BY <1>1, <1>2, <1>3, <1>4, <2>1, <2>2, <2>3, <3>1, <3>2 DEF Input
      <3>4. /\ used' = [used EXCEPT ![c] = u] /\ 0 \in Nat
            /\ sent' = [sent EXCEPT ![c] = @ + 0]
            /\ dropped' = [dropped EXCEPT ![c] = IF c \in closed THEN @ + 0 ELSE @]
        BY <1>1, <1>3, <3>1 DEF Types
      <3> QED BY <1>1, <2>2, <3>1, <3>3, <3>4, SendMoves
    <2> QED BY <2>4, <2>5
  <1>7. CASE Leave(c) /\ UNCHANGED <<fetched, used>>
    BY <1>1, <1>7, LeaveMoves
  <1> QED BY <1>6, <1>7 DEF UringInput

LEMMA UringSentMoves ==
    ASSUME Types, NEW c \in Clients, Input(c), Line(c), UringSent(c)
    PROVE  ClientMoves(c)
  <1>1. Running(c, "uring") /\ used[c] < fetched[c] /\ UNCHANGED fetched
    BY DEF UringSent
  <1>2. /\ UNCHANGED <<server, shape, backlog, typed, serverVars>>
        /\ UNCHANGED <<closed, faulted, printed>> /\ shape[c].kind = "uring"
    BY <1>1, RunningFrame
  <1>3. PICK s \in Nat, u \in Nat, g \in Nat, t \in Nat, l \in Nat, w \in Nat :
            /\ s = sent[c] /\ u = used[c] /\ g = fetched[c] /\ t = typed[c]
            /\ l = Lines[c] /\ w = Words(c) /\ Words(c)' = w
    BY <1>2, WordsType DEF Types
  <1>4. s =< u /\ u < g /\ g =< t /\ t =< w /\ (shape[c].stdin = "tty" => g = u + 1)
    BY <1>1, <1>2, <1>3 DEF Input
  <1>5. ~(shape[c].stdin = "pipe") /\ c \notin closed => s = u
    BY <1>2, <1>3, <1>4 DEF Input
  <1>6. fetched' = [fetched EXCEPT ![c] = g]
    BY <1>1, <1>3 DEF Types
  <1>7. shape[c].stdin \in {"tty", "pipe"}
    BY EchoAssumption DEF Types
  <1>8. ASSUME NEW n \in 1..fetched[c] - used[c],
               sent' = [sent EXCEPT ![c] = @ + n],
               dropped' = [dropped EXCEPT ![c] = IF c \in closed THEN @ + n ELSE @],
               used' = [used EXCEPT ![c] = fetched[c]], UNCHANGED <<cst, fin>>
        PROVE  ClientMoves(c)
    <2>1. n \in Nat /\ s + n =< g /\ (shape[c].stdin = "tty" => n = 1)
      BY <1>3, <1>4, <1>8
    <2>2. sent'[c] = s + n /\ used'[c] = g /\ used' = [used EXCEPT ![c] = g]
      BY <1>3, <1>8 DEF Types
    <2>3. ~(shape[c].stdin = "pipe") /\ c \notin closed => s + n = g
      BY <1>4, <1>5, <1>7, <2>1
    <2>4. g =< g + 1
      OBVIOUS
    <2>5. Input(c)'
      BY <1>1, <1>2, <1>3, <1>4, <2>1, <2>2, <2>3, <2>4 DEF Input
    <2> QED BY <1>1, <1>6, <1>8, <2>1, <2>2, <2>5, SendMoves
  <1>9. CASE Leave(c) /\ UNCHANGED <<used, sent, dropped>>
    BY <1>1, <1>9, LeaveMoves
  <1> QED BY <1>8, <1>9 DEF UringSent

(* Every step of a client. *)
LEMMA ClientStepMoves ==
    ASSUME Types, NEW c \in Clients, Input(c), Line(c),
           ClientStep(c) \/ Type(c) \/ EndOfInput(c)
    PROVE  ClientMoves(c)
  <1>1. CASE Type(c) \/ EndOfInput(c)
    BY <1>1, TypeMoves, EndOfInputMoves
  <1>2. CASE EpollConnect(c) \/ SelectConnect(c) \/ UringConnect(c)
    BY <1>2, ConnectMoves DEF EpollConnect, SelectConnect, UringConnect
  <1>3. CASE SelectLine(c)
    BY <1>3, LineMoves DEF SelectLine
  <1>4. CASE EpollLine(c)
    <2>1. used[c] < typed[c]
      BY <1>4 DEF EpollLine, Types, Input
    <2> QED BY <1>4, <2>1, LineMoves DEF EpollLine
  <1>5. CASE SelectEnd(c) \/ EpollEnd(c) \/ EpollHungUp(c) \/ UringHungUp(c)
    BY <1>5, LeaveMoves DEF SelectEnd, EpollEnd, EpollHungUp, UringHungUp
  <1>6. CASE UringInput(c) \/ UringSent(c)
    BY <1>6, UringInputMoves, UringSentMoves
  <1> QED BY <1>1, <1>2, <1>3, <1>4, <1>5, <1>6 DEF ClientStep

LEMMA UnreadGrows ==
    ASSUME Types, NEW c \in Clients, ClientMoves(c), NEW d \in Clients
    PROVE  /\ Unread(d) \in Int /\ Unread(d)' \in Int
           /\ Unread(d) =< Unread(d)' /\ (d \in fin => d \in fin' /\ Unread(d)' = Unread(d))
  <1>1. printed' = printed
    BY DEF ClientMoves, serverVars
  <1>2. PICK s \in Nat, p \in Nat, o \in Nat, s2 \in Nat, o2 \in Nat :
            s = sent[d] /\ p = printed[d] /\ o = dropped[d] /\ s2 = sent'[d] /\ o2 = dropped'[d]
    BY DEF Types, ClientMoves
  <1>3. s + o2 =< s2 + o /\ (d \in fin => d \in fin' /\ s2 = s /\ o2 = o)
    <2>1. CASE d = c
      BY <1>2, <2>1 DEF ClientMoves
    <2>2. CASE d # c
      <3>1. s2 = s /\ o2 = o /\ (d \in fin => d \in fin')
        BY <1>2, <2>2 DEF ClientMoves
      <3> QED BY <3>1
    <2> QED BY <2>1, <2>2
  <1>4. Unread(d) = s - p - o /\ Unread(d)' = s2 - p - o2
    BY <1>1, <1>2 DEF Unread
  <1> QED BY <1>3, <1>4

LEMMA ClientMovesKeep ==
    ASSUME EchoInv, NEW c \in Clients, ClientMoves(c)
    PROVE  EchoInv'
  <1>1. /\ UNCHANGED <<server, shape, up, conn, batch, cap, ops, cq, faulted, printed, closed>>
        /\ Types /\ Places /\ Events /\ Requests
    BY DEF EchoInv, ClientMoves, serverVars
  <1>2. /\ \/ backlog' = backlog
           \/ backlog' = Append(backlog, c) /\ cst[c] = "new" /\ up = "up"
        /\ cst'[c] = "new" => backlog' = backlog /\ cst[c] = "new"
        /\ cst[c] # "new" => cst'[c] # "new"
        /\ backlog' # backlog => cst'[c] # "new"
        /\ \A d \in Clients \ {c} : cst'[d] = cst[d]
    BY DEF ClientMoves
  <1>3. /\ Append(backlog, c) \in Seq(Clients) /\ Entries(Append(backlog, c)) = Entries(backlog) \cup {c}
        /\ (c \notin Entries(backlog) => Distinct(Append(backlog, c)))
        /\ Append(backlog, c) # <<>>
    <2>1. backlog \in Seq(Clients) /\ Distinct(backlog)
      BY <1>1 DEF Types, Places
    <2>2. Append(backlog, c) # <<>>
      BY <2>1, AppendProperties
    <2> QED BY <2>1, <2>2, EntriesOfAppend
  <1>4. Types'
    BY <1>1, <1>2, <1>3 DEF Types, ClientMoves
  <1>5. ASSUME NEW d \in Clients PROVE Input(d)' /\ Line(d)'
    <2>1. CASE d = c
      BY <2>1 DEF ClientMoves
    <2>2. CASE d # c
      <3>1. /\ typed'[d] = typed[d] /\ fetched'[d] = fetched[d] /\ used'[d] = used[d]
            /\ sent'[d] = sent[d] /\ dropped'[d] = dropped[d]
            /\ cst'[d] = cst[d] /\ (d \in fin' <=> d \in fin)
        BY <2>2 DEF ClientMoves
      <3>2. Input(d) /\ Line(d)
        BY DEF EchoInv
      <3> QED BY <1>1, <3>1, <3>2, InputSame, LineSame
    <2> QED BY <2>1, <2>2
  <1>6. Places'
    <2>1. ASSUME cst[c] = "new"
          PROVE  /\ c \notin closed /\ printed[c] = 0 /\ c \notin Entries(backlog)
                 /\ \A f \in Fds : conn[f] # c
      BY <1>1, <2>1, Constants DEF Places
    <2>2. Distinct(backlog') /\ Entries(backlog) \subseteq Entries(backlog')
      BY <1>1, <1>2, <1>3, <2>1 DEF Places
    <2>3. \A d \in Clients : cst'[d] = "new" => cst[d] = "new"
      BY <1>2
    <2>4. \A d \in Clients : cst[d] # "new" => cst'[d] # "new"
      BY <1>2
    <2>5. \A d \in Entries(backlog') : d \in Entries(backlog) \/ (d = c /\ cst[c] = "new" /\ cst'[c] # "new")
      <3>1. CASE backlog' = backlog
        BY <3>1
      <3>2. CASE backlog' # backlog
        <4>1. backlog' = Append(backlog, c) /\ cst[c] = "new" /\ cst'[c] # "new"
          BY <1>2, <3>2
        <4>2. Entries(backlog') = Entries(backlog) \cup {c}
          BY <1>3, <4>1
        <4> QED BY <4>1, <4>2
      <3> QED BY <3>1, <3>2
    <2>6. Entries(backlog) \subseteq Clients
      BY <1>1, EntriesType DEF Types
    <2>7. \A d \in Entries(backlog') : d \notin closed /\ printed[d] = 0 /\ cst'[d] # "new"
      BY <1>1, <2>1, <2>4, <2>5, <2>6 DEF Places
    <2>8. ASSUME NEW f \in Fds, conn[f] # None
          PROVE  conn[f] \notin closed /\ conn[f] \notin Entries(backlog') /\ cst'[conn[f]] # "new"
      <3>1. PICK d \in Clients : d = conn[f]
        BY <1>1, <2>8 DEF Types
      <3>2. d \notin closed /\ d \notin Entries(backlog) /\ cst[d] # "new"
        BY <1>1, <2>8, <3>1 DEF Places
      <3> QED BY <2>1, <2>4, <2>5, <3>1, <3>2
    <2>9. up # "up" => backlog' = <<>>
      BY <1>1, <1>2 DEF Places
    <2> QED BY <1>1, <2>2, <2>3, <2>7, <2>8, <2>9 DEF Places
  <1>7. Events'
    <2>1. ASSUME NEW f, Readable(f), f \in Fds PROVE Readable(f)'
      <3>1. PICK d \in Clients : d = conn[f]
        BY <1>1, <2>1 DEF Readable, Types
      <3>2. Unread(d) > 0 \/ d \in fin
        BY <2>1, <3>1 DEF Readable
      <3>3. Unread(d)' > 0 \/ d \in fin'
        BY <1>1, <3>2, UnreadGrows
      <3>4. conn'[f] = d /\ Unread(conn[f])' = Unread(d)'
        BY <1>1, <3>1 DEF Unread
      <3> QED BY <3>1, <3>3, <3>4, Constants DEF Readable
    <2>2. \A e \in batch : e.fd \in AllFds
      BY <1>1 DEF Types
    <2>3. \A e \in batch : e.fd # Listener => Readable(e.fd)'
      BY <1>1, <2>1, <2>2 DEF Events, AllFds
    <2>4. backlog # <<>> => backlog' # <<>>
      BY <1>2, <1>3
    <2>5. ASSUME NEW e \in batch, e.hup
          PROVE  e.fd # Listener /\ conn'[e.fd] \in fin'
      <3>1. e.fd # Listener /\ e.fd \in Fds /\ conn[e.fd] \in fin /\ Readable(e.fd)
        BY <1>1, <2>2, <2>5 DEF Events, AllFds
      <3>2. conn[e.fd] \in Clients
        BY <1>1, <3>1 DEF Types, Readable
      <3> QED BY <1>1, <3>1, <3>2 DEF ClientMoves
    <2> QED BY <1>1, <2>3, <2>4, <2>5 DEF Events
  <1>8. Requests'
    <2>1. \A f \in Fds : Handed(f)' <=> Handed(f)
      BY <1>1 DEF Handed
    <2>2. ASSUME NEW f \in Fds, NEW res \in Int, Fits(f, res) PROVE Fits(f, res)'
      <3>1. PICK d \in Clients : d = conn[f]
        BY <1>1, <2>2 DEF Fits, Types
      <3>2. /\ Unread(d) \in Int /\ Unread(d)' \in Int
            /\ Unread(d) =< Unread(d)' /\ (d \in fin => d \in fin' /\ Unread(d)' = Unread(d))
        BY <1>1, UnreadGrows
      <3>3. conn'[f] = d /\ Unread(conn[f])' = Unread(d)'
        BY <1>1, <3>1 DEF Unread
      <3>4. res > 0 => res =< Unread(d)'
        BY <2>2, <3>1, <3>2 DEF Fits
      <3>5. res = 0 => Unread(d)' = 0 /\ d \in fin'
        BY <2>2, <3>1, <3>2 DEF Fits
      <3> QED BY <1>1, <2>2, <3>1, <3>3, <3>4, <3>5 DEF Fits
    <2>3. \A x \in Entries(cq) : x.fd \in AllFds /\ x.res \in Int
      BY <1>1, EntriesHere
    <2>4. \A x \in Entries(cq) : IF x.fd = Listener THEN Gives(x.res)' ELSE Fits(x.fd, x.res)'
      BY <1>1, <2>2, <2>3 DEF Requests, AllFds, Gives
    <2> QED BY <1>1, <2>1, <2>4 DEF Requests
  <1> QED BY <1>4, <1>5, <1>6, <1>7, <1>8 DEF EchoInv

------------------------------------------------------------------------------
(***************************************************************************)
(* The server.  Its steps leave the clients' side alone.                   *)
(***************************************************************************)
LEMMA ClientsAlone ==
    ASSUME Types, \A c \in Clients : Input(c), UNCHANGED <<shape, inputVars, clientVars>>,
           closed \subseteq closed'
    PROVE  /\ UNCHANGED <<typed, fetched, used, sent, cst, fin>>
           /\ \A c \in Clients : Input(c)'
  <1>1. UNCHANGED <<typed, fetched, used, sent, cst, fin>> /\ shape' = shape
    BY DEF inputVars, clientVars
  <1> QED BY <1>1, InputSame

(* A server that is not the io_uring one has no requests. *)
LEMMA NoRequests ==
    ASSUME Types, Requests, ~(server = "uring" /\ up = "up")
    PROVE  Entries(cq) = {} /\ cq = <<>> /\ \A f \in AllFds : ops[f] = "none"
  <1>1. \A f \in AllFds : ops[f] = "none" /\ ~\E x \in Entries(cq) : x.fd = f
    BY DEF Requests
  <1>2. Entries(cq) = {}
    BY <1>1, EntriesHere
  <1>3. cq \in Seq(Completion)
    BY DEF Types
  <1> QED BY <1>1, <1>2, <1>3, EntriesType

LEMMA IdleRequests ==
    ASSUME cq' = <<>>, \A f \in AllFds : ops'[f] = "none", ~(server' = "uring" /\ up' = "up")
    PROVE  Requests'
  BY EmptyEntries DEF Requests

LEMMA RequestsIdle ==
    ASSUME Types, Requests, server # "uring", UNCHANGED <<server, ops, cq>>
    PROVE  Requests'
  BY NoRequests, IdleRequests

(* The io_uring server has no batch. *)
LEMMA IdleEvents == batch' = {} => Events'
  BY DEF Events

LEMMA OneEntry ==
    ASSUME NEW s, OnePerFd(s)
    PROVE  \A x, y \in Entries(s) : x.fd = y.fd => x = y
  BY DEF OnePerFd, Entries

(* A read or a close of one descriptor. *)
Reads(f, c) ==
  /\ UNCHANGED <<server, shape, backlog, up, cap, inputVars, clientVars>>
  /\ faulted \subseteq faulted'
  /\ printed' \in [Clients -> Nat] /\ dropped' \in [Clients -> Nat]
  /\ \A d \in Clients \ {c} : printed'[d] = printed[d] /\ dropped'[d] = dropped[d]
  /\ printed'[c] + dropped'[c] =< sent[c]
  /\ \/ conn' = conn /\ closed' = closed /\ dropped'[c] = dropped[c]
     \/ /\ conn' = [conn EXCEPT ![f] = None] /\ closed' = closed \cup {c}
        /\ c \in faulted' \/ (c \in fin /\ (server = "epoll" \/ dropped'[c] = 0))

LEMMA ReadsKeep ==
    ASSUME EchoInv, NEW f \in Fds, NEW c \in Clients, c = conn[f], Reads(f, c)
    PROVE  /\ (\A d \in Clients : Input(d)' /\ Line(d)') /\ Places'
           /\ conn' \in [Fds -> Clients \cup {None}]
           /\ UNCHANGED <<typed, fetched, used, sent, cst, fin>>
           /\ \A g \in Fds \ {f} : /\ conn'[g] = conn[g]
                                   /\ Readable(g) => Readable(g)'
                                   /\ \A res \in Int : Fits(g, res) => Fits(g, res)'
  <1>1. /\ Types /\ Places /\ (\A d \in Clients : Input(d) /\ Line(d)) /\ c # None
    BY Constants DEF EchoInv
  <1>2. /\ closed \subseteq closed' /\ \A d \in Clients \ {c} : d \in closed' <=> d \in closed
        /\ conn' \in [Fds -> Clients \cup {None}] /\ \A g \in Fds \ {f} : conn'[g] = conn[g]
        /\ conn'[f] \in {c, None} /\ (conn'[f] = c => c \notin closed')
    BY <1>1 DEF Reads, Types, Places
  <1>3. UNCHANGED <<typed, fetched, used, sent, cst, fin>> /\ \A d \in Clients : Input(d)'
    BY <1>1, <1>2, ClientsAlone DEF Reads
  <1>4. c \notin closed /\ c \notin Entries(backlog) /\ cst[c] # "new"
    BY <1>1 DEF Places
  <1>5. ASSUME NEW d \in Clients PROVE Line(d)'
    <2>1. CASE d # c
      BY <1>1, <1>2, <1>3, <2>1, LineSame DEF Reads
    <2>2. CASE d = c
      <3>1. dropped[c] = 0
        BY <1>1, <1>4 DEF Line
      <3>2. c \notin closed' => dropped'[c] = 0
        BY <3>1 DEF Reads
      <3>3. dropped'[c] > 0 => (server = "epoll" /\ c \in fin) \/ c \in faulted'
        BY <3>1 DEF Reads
      <3>4. c \in closed' => c \in faulted' \/ c \in fin
        BY <1>4 DEF Reads
      <3>5. printed'[c] + dropped'[c] =< sent'[c] /\ server' = server
        BY <1>3 DEF Reads
      <3>6. c \in fin' => cst'[c] = "ended"
        BY <1>1, <1>3 DEF Line
      <3> QED BY <1>3, <2>2, <3>2, <3>3, <3>4, <3>5, <3>6 DEF Line
    <2> QED BY <2>1, <2>2
  <1>6. Places'
    <2>1. UNCHANGED <<backlog, cst, up>>
      BY <1>3 DEF Reads
    <2>2. \A g \in Fds : conn'[g] # None => conn'[g] = conn[g] /\ conn[g] # None
      BY <1>1, <1>2
    <2>3. \A g, h \in Fds : conn'[g] # None /\ conn'[g] = conn'[h] => g = h
      BY <1>1, <2>2 DEF Places
    <2>4. \A d \in Clients : cst[d] = "new" => d \notin closed' /\ printed'[d] = 0
      BY <1>1, <1>2, <1>4 DEF Places, Reads
    <2>5. \A d \in Entries(backlog) : d \notin closed' /\ printed'[d] = 0 /\ cst[d] # "new"
      BY <1>1, <1>2, <1>4, EntriesHere DEF Places, Reads
    <2>6. ASSUME NEW g \in Fds, conn'[g] # None
          PROVE  conn'[g] \notin closed' /\ conn'[g] \notin Entries(backlog) /\ cst[conn'[g]] # "new"
      <3>1. CASE g = f
        BY <1>2, <1>4, <2>6, <3>1
      <3>2. CASE g # f
        <4>1. PICK d \in Clients : d = conn[g] /\ d = conn'[g]
          BY <1>1, <2>2, <2>6 DEF Types
        <4>2. d # c
          BY <1>1, <3>2, <4>1 DEF Places
        <4>3. d \notin closed /\ d \notin Entries(backlog) /\ cst[d] # "new"
          BY <1>1, <2>2, <2>6, <4>1 DEF Places
        <4> QED BY <1>2, <4>1, <4>2, <4>3
      <3> QED BY <3>1, <3>2
    <2>7. up # "up" => backlog = <<>> /\ \A g \in Fds : conn'[g] = None
      BY <1>1 DEF Places
    <2> QED BY <1>1, <2>1, <2>3, <2>4, <2>5, <2>6, <2>7 DEF Places
  <1>7. ASSUME NEW g \in Fds \ {f}, conn[g] # None
        PROVE  /\ conn'[g] = conn[g] /\ (Readable(g) => Readable(g)')
               /\ \A res \in Int : Fits(g, res) => Fits(g, res)'
    <2>1. PICK d \in Clients : d = conn[g] /\ conn'[g] = d /\ d # c
      BY <1>1, <1>2, <1>7 DEF Places, Types
    <2>2. PICK n : n = Unread(d)
      OBVIOUS
    <2>3. Unread(conn[g]) = n /\ Unread(conn[g])' = n
      BY <1>3, <2>1, <2>2 DEF Unread, Reads
    <2>4. Readable(g) => Readable(g)'
      BY <1>3, <2>1, <2>3, Zenon DEF Readable
    <2>5. \A res \in Int : Fits(g, res) => Fits(g, res)'
      BY <1>3, <2>1, <2>3, Zenon DEF Fits, Reads
    <2> QED BY <2>1, <2>4, <2>5
  <1>8. ASSUME NEW g \in Fds \ {f}
        PROVE  /\ conn'[g] = conn[g] /\ (Readable(g) => Readable(g)')
               /\ \A res \in Int : Fits(g, res) => Fits(g, res)'
    BY <1>2, <1>7 DEF Readable, Fits
  <1> QED BY <1>2, <1>3, <1>5, <1>6, <1>8

(* An event is handled by a read or a close of its descriptor. *)
LEMMA EventHandled ==
    ASSUME EchoInv, NEW e \in batch, e.fd # Listener, Reads(e.fd, conn[e.fd]),
           server # "uring", batch' = batch \ {e}, UNCHANGED <<ops, cq>>
    PROVE  EchoInv'
  <1>1. /\ Types /\ Places /\ Events /\ Requests
    BY DEF EchoInv
  <1>2. PICK f \in Fds : f = e.fd
    BY <1>1, EntriesHere DEF AllFds
  <1>3. PICK c \in Clients : c = conn[f]
    BY <1>1, <1>2 DEF Types, Events, Readable
  <1>4. Reads(f, c)
    BY <1>2, <1>3
  <1>5. /\ (\A d \in Clients : Input(d)' /\ Line(d)') /\ Places'
        /\ conn' \in [Fds -> Clients \cup {None}]
        /\ UNCHANGED <<typed, fetched, used, sent, cst, fin>>
        /\ \A g \in Fds \ {f} : conn'[g] = conn[g] /\ (Readable(g) => Readable(g)')
    BY <1>3, <1>4, ReadsKeep
  <1>6. UNCHANGED <<server, shape, up, cap, backlog>>
        /\ printed' \in [Clients -> Nat] /\ dropped' \in [Clients -> Nat]
    BY <1>4 DEF Reads
  <1>7. Types'
    BY <1>1, <1>5, <1>6 DEF Types
  <1>8. Events'
    <2>1. \A o \in batch' : o \in batch /\ o.fd # f
      BY <1>1, <1>2 DEF Events
    <2>2. \A o \in batch' : o.fd # Listener => Readable(o.fd)'
      BY <1>1, <1>5, <2>1, EntriesHere DEF Events, AllFds
    <2>3. \A o \in batch' : o.hup => o.fd # Listener /\ conn'[o.fd] \in fin'
      BY <1>1, <1>5, <2>1, EntriesHere DEF Events, AllFds
    <2> QED BY <1>1, <1>6, <2>1, <2>2, <2>3 DEF Events
  <1>9. Requests'
    BY <1>1, <1>6, RequestsIdle
  <1> QED BY <1>5, <1>7, <1>8, <1>9 DEF EchoInv

(* What a read takes is what the socket has. *)
LEMMA PrintReads ==
    ASSUME EchoInv, NEW f \in Fds, NEW c \in Clients, c = conn[f],
           NEW n \in Nat, n =< Unread(c), PrintLines(f, n),
           UNCHANGED <<server, shape, backlog, up, cap, inputVars, clientVars, faulted>>,
           UNCHANGED <<conn, closed, dropped>>
    PROVE  Reads(f, c)
  <1>1. PICK s \in Nat, p \in Nat, o \in Nat : s = sent[c] /\ p = printed[c] /\ o = dropped[c]
    BY DEF EchoInv, Types
  <1>2. n =< s - p - o
    BY <1>1 DEF Unread
  <1>3. printed' = [printed EXCEPT ![c] = p + n]
    BY <1>1 DEF PrintLines
  <1>4. printed'[c] = p + n /\ (p + n) + o =< s
    BY <1>1, <1>2, <1>3 DEF EchoInv, Types
  <1> QED BY <1>1, <1>3, <1>4 DEF Reads, EchoInv, Types

LEMMA CloseReads ==
    ASSUME EchoInv, NEW f \in Fds, NEW c \in Clients, c = conn[f], CloseFd(f),
           UNCHANGED <<server, shape, backlog, up, cap, inputVars, clientVars, printed>>,
           faulted \subseteq faulted',
           c \in faulted' \/ (c \in fin /\ (server = "epoll" \/ Unread(c) = 0))
    PROVE  Reads(f, c)
  <1>1. PICK s \in Nat, p \in Nat, o \in Nat : s = sent[c] /\ p = printed[c] /\ o = dropped[c]
    BY DEF EchoInv, Types
  <1>2. p + o =< s /\ o = 0
    <2>1. c \notin closed
      BY Constants DEF EchoInv, Places
    <2> QED BY <1>1, <2>1 DEF EchoInv, Line
  <1>3. PICK r \in Nat : r = s - p
    BY <1>1, <1>2
  <1>4. dropped' = [dropped EXCEPT ![c] = r]
    BY <1>1, <1>3 DEF CloseFd
  <1>5. p + r =< s /\ (Unread(c) = 0 => r = 0)
    BY <1>1, <1>2, <1>3 DEF Unread
  <1>6. conn' = [conn EXCEPT ![f] = None] /\ closed' = closed \cup {c}
    BY DEF CloseFd
  <1>7. dropped' \in [Clients -> Nat] /\ dropped'[c] = r /\ printed'[c] = p
        /\ printed' \in [Clients -> Nat]
        /\ \A d \in Clients \ {c} : printed'[d] = printed[d] /\ dropped'[d] = dropped[d]
    BY <1>1, <1>4 DEF EchoInv, Types
  <1> QED BY <1>1, <1>5, <1>6, <1>7 DEF Reads

(* An event's descriptor has a client, and something to read or its end. *)
LEMMA EventClient ==
    ASSUME EchoInv, NEW e \in batch, e.fd # Listener
    PROVE  /\ e.fd \in Fds /\ conn[e.fd] \in Clients
           /\ Unread(conn[e.fd]) \in Nat
           /\ Unread(conn[e.fd]) > 0 \/ (conn[e.fd] \in fin /\ Unread(conn[e.fd]) = 0)
  <1>1. Types /\ Events /\ \A d \in Clients : Line(d)
    BY DEF EchoInv
  <1>2. PICK f \in Fds : f = e.fd
    BY <1>1, EntriesHere DEF AllFds
  <1>3. Readable(f)
    BY <1>1, <1>2 DEF Events
  <1>4. PICK c \in Clients : c = conn[f]
    BY <1>1, <1>3 DEF Readable, Types
  <1>5. PICK s \in Nat, p \in Nat, o \in Nat : s = sent[c] /\ p = printed[c] /\ o = dropped[c]
    BY <1>1 DEF Types
  <1>6. p + o =< s /\ Unread(c) = s - p - o
    BY <1>1, <1>5 DEF Line, Unread
  <1>7. Unread(c) \in Nat
    BY <1>6
  <1> QED BY <1>2, <1>3, <1>4, <1>7 DEF Readable

LEMMA EpollClientKeeps == ASSUME EchoInv, EpollClient PROVE EchoInv'
  <1>1. /\ server = "epoll"
        /\ UNCHANGED <<server, shape, backlog, inputVars, clientVars, up, cap, ops, cq, faulted>>
    BY DEF EpollClient
  <1>2. PICK e \in batch :
            /\ e.fd # Listener /\ batch' = batch \ {e}
            /\ IF e.hup
               THEN CloseFd(e.fd) /\ UNCHANGED printed
               ELSE /\ PrintLines(e.fd, Unread(conn[e.fd]))
                    /\ IF conn[e.fd] \in fin
                       THEN /\ conn' = [conn EXCEPT ![e.fd] = None]
                            /\ closed' = closed \cup {conn[e.fd]}
                       ELSE UNCHANGED <<conn, closed>>
                    /\ UNCHANGED dropped
    BY DEF EpollClient
  <1>3. PICK f \in Fds, c \in Clients, n \in Nat :
            f = e.fd /\ c = conn[f] /\ n = Unread(c) /\ (e.hup => c \in fin)
    BY <1>2, EventClient DEF EchoInv, Events
  <1>4. ASSUME CloseFd(f), UNCHANGED printed, c \in fin PROVE Reads(f, c)
    BY <1>1, <1>3, <1>4, CloseReads
  <1>5. ASSUME PrintLines(f, n), UNCHANGED <<conn, closed, dropped>> PROVE Reads(f, c)
    <2>1. n =< Unread(c)
      BY <1>3
    <2> QED BY <1>1, <1>3, <1>5, <2>1, PrintReads
  <1>6. ASSUME PrintLines(f, n), conn' = [conn EXCEPT ![f] = None],
               closed' = closed \cup {c}, UNCHANGED dropped, c \in fin
        PROVE  Reads(f, c)
    <2>1. PICK s \in Nat, p \in Nat, o \in Nat : s = sent[c] /\ p = printed[c] /\ o = dropped[c]
      BY DEF EchoInv, Types
    <2>2. n = s - p - o
      BY <1>3, <2>1 DEF Unread
    <2>3. printed' = [printed EXCEPT ![c] = p + n] /\ (p + n) + o =< s
      BY <1>3, <1>6, <2>1, <2>2 DEF PrintLines
    <2>4. /\ printed \in [Clients -> Nat] /\ dropped \in [Clients -> Nat]
          /\ printed' \in [Clients -> Nat] /\ printed'[c] = p + n
          /\ \A d \in Clients \ {c} : printed'[d] = printed[d]
      BY <2>3 DEF EchoInv, Types
    <2> QED BY <1>1, <1>6, <2>1, <2>3, <2>4 DEF Reads
  <1>7. Reads(f, c)
    BY <1>2, <1>3, <1>4, <1>5, <1>6
  <1> QED BY <1>1, <1>2, <1>3, <1>7, EventHandled

LEMMA SelectClientKeeps == ASSUME EchoInv, SelectClient PROVE EchoInv'
  <1>1. /\ server = "select"
        /\ UNCHANGED <<server, shape, backlog, inputVars, clientVars, up, cap, ops, cq, faulted>>
    BY DEF SelectClient
  <1>2. PICK e \in batch :
            /\ e.fd # Listener /\ batch' = batch \ {e}
            /\ IF Unread(conn[e.fd]) > 0
               THEN /\ \E n \in 1..Unread(conn[e.fd]) : PrintLines(e.fd, n)
                    /\ UNCHANGED <<conn, closed, dropped>>
               ELSE CloseFd(e.fd) /\ UNCHANGED printed
    BY DEF SelectClient
  <1>3. PICK f \in Fds, c \in Clients, m \in Nat :
            /\ f = e.fd /\ c = conn[f] /\ m = Unread(c)
            /\ m > 0 \/ (c \in fin /\ m = 0)
    BY <1>2, EventClient
  <1>4. ASSUME m > 0 PROVE Reads(f, c)
    <2>1. PICK n \in 1..m : PrintLines(f, n)
      BY <1>2, <1>3, <1>4
    <2>2. n \in Nat /\ n =< Unread(c)
      BY <1>3, <2>1
    <2> QED BY <1>1, <1>2, <1>3, <1>4, <2>1, <2>2, PrintReads
  <1>5. ASSUME ~(m > 0) PROVE Reads(f, c)
    <2>1. CloseFd(f) /\ UNCHANGED printed /\ c \in fin /\ Unread(c) = 0
      BY <1>2, <1>3, <1>5
    <2> QED BY <1>1, <1>3, <2>1, CloseReads
  <1>6. Reads(f, c)
    BY <1>4, <1>5
  <1> QED BY <1>1, <1>2, <1>3, <1>6, EventHandled

------------------------------------------------------------------------------
(***************************************************************************)
(* The io_uring ring: its entries, and the completions it hands out.       *)
(***************************************************************************)
OpStates == {"none", "queued", "flight", "done"}

LEMMA EnqueueType ==
    ASSUME NEW o \in [AllFds -> OpStates], NEW f \in AllFds
    PROVE  /\ Enqueue(f, o) \in [AllFds -> OpStates]
           /\ \A g \in AllFds : (Enqueue(f, o)[g] = "none") <=> (o[g] = "none" /\ g # f)
           /\ \A g \in AllFds : (Enqueue(f, o)[g] = "done") <=> (o[g] = "done" /\ g # f)
  BY DEF Enqueue, OpStates

(* A completion taken off the queue: its descriptor has no other. *)
LEMMA TakeCompletion ==
    ASSUME Types, Requests, cq # <<>>, cq' = Tail(cq)
    PROVE  /\ server = "uring" /\ up = "up"
           /\ Head(cq) \in Entries(cq) /\ cq' \in Seq(Completion) /\ OnePerFd(cq')
           /\ Entries(cq') = Entries(cq) \ {Head(cq)}
           /\ \A x \in Entries(cq') : x.fd # Head(cq).fd
           /\ Head(cq).fd \in AllFds /\ Head(cq).res \in Int /\ ops[Head(cq).fd] = "done"
  <1>1. server = "uring" /\ up = "up"
    BY NoRequests
  <1>2. cq \in Seq(Completion) /\ OnePerFd(cq) /\ Distinct(cq)
    BY OnePerFdIsDistinct DEF Types, Requests
  <1>3. Head(cq) \in Entries(cq) /\ cq' \in Seq(Completion)
    BY <1>2, EntriesType
  <1>4. Entries(cq') = Entries(cq) \ {Head(cq)} /\ OnePerFd(cq')
    BY <1>2, EntriesOfTail
  <1>5. \A x \in Entries(cq') : x.fd # Head(cq).fd
    BY <1>2, <1>3, <1>4, OneEntry
  <1>6. Head(cq).fd \in AllFds /\ Head(cq).res \in Int
    BY <1>3, EntriesHere
  <1>7. ops[Head(cq).fd] = "done"
    BY <1>3, <1>6 DEF Requests
  <1> QED BY <1>1, <1>3, <1>4, <1>5, <1>6, <1>7

(* A completion is put on the queue, of an operation in flight. *)
LEMMA AddCompletion ==
    ASSUME Types, Requests, NEW x \in Completion, ops[x.fd] = "flight",
           cq' = Append(cq, x), ops' = [ops EXCEPT ![x.fd] = "done"]
    PROVE  /\ server = "uring" /\ up = "up"
           /\ cq' \in Seq(Completion) /\ OnePerFd(cq') /\ Entries(cq') = Entries(cq) \cup {x}
           /\ ops' \in [AllFds -> OpStates]
           /\ \A f \in AllFds : ops'[f] = "done" <=> \E y \in Entries(cq') : y.fd = f
           /\ \A f \in AllFds : (ops'[f] = "none") <=> (ops[f] = "none")
  <1>1. x.fd \in AllFds
    BY DEF Completion
  <1>2. server = "uring" /\ up = "up"
    BY <1>1, NoRequests
  <1>3. \A y \in Entries(cq) : y.fd # x.fd
    BY <1>1 DEF Requests
  <1>4. cq' \in Seq(Completion) /\ OnePerFd(cq') /\ Entries(cq') = Entries(cq) \cup {x}
    BY <1>3, EntriesOfAppend DEF Types, Requests
  <1>5. /\ ops' \in [AllFds -> OpStates] /\ ops'[x.fd] = "done"
        /\ \A f \in AllFds \ {x.fd} : ops'[f] = ops[f]
    BY <1>1 DEF Types, OpStates
  <1>6. \A f \in AllFds : ops'[f] = "done" <=> \E y \in Entries(cq') : y.fd = f
    BY <1>3, <1>4, <1>5 DEF Requests
  <1> QED BY <1>1, <1>2, <1>4, <1>5, <1>6

LEMMA UringReadKeeps == ASSUME EchoInv, UringRead PROVE EchoInv'
  <1>1. /\ Types /\ Places /\ Events /\ Requests
    BY DEF EchoInv
  <1>2. /\ cq # <<>> /\ Head(cq).fd # Listener /\ cq' = Tail(cq)
        /\ UNCHANGED <<server, shape, backlog, inputVars, clientVars, up, batch, cap, faulted>>
    BY DEF UringRead
  <1>3. PICK x \in Entries(cq) : x = Head(cq)
    BY <1>1, <1>2, TakeCompletion
  <1>4. /\ server = "uring" /\ up = "up" /\ cq' \in Seq(Completion) /\ OnePerFd(cq')
        /\ Entries(cq') = Entries(cq) \ {x} /\ \A y \in Entries(cq') : y.fd # x.fd
        /\ x.fd \in AllFds /\ x.res \in Int /\ ops[x.fd] = "done"
    BY <1>1, <1>2, <1>3, TakeCompletion
  <1>5. PICK f \in Fds, r \in Int : f = x.fd /\ r = x.res
    BY <1>2, <1>3, <1>4 DEF AllFds
  <1>6. Fits(f, r)
    BY <1>1, <1>2, <1>3, <1>5 DEF Requests
  <1>7. PICK c \in Clients : c = conn[f]
    BY <1>1, <1>6 DEF Fits, Types
  <1>8. /\ r > 0 => r =< Unread(c)
        /\ r = 0 => Unread(c) = 0 /\ c \in fin
        /\ r < 0 => c \in faulted
    BY <1>6, <1>7 DEF Fits
  <1>9. \/ /\ r > 0 /\ PrintLines(f, r) /\ ops' = Enqueue(f, ops)
           /\ UNCHANGED <<conn, closed, dropped>>
        \/ /\ ~(r > 0) /\ CloseFd(f) /\ ops' = [ops EXCEPT ![f] = "none"] /\ UNCHANGED printed
    BY <1>3, <1>5 DEF UringRead
  <1>10. Reads(f, c)
    <2>1. ASSUME r > 0, PrintLines(f, r), UNCHANGED <<conn, closed, dropped>> PROVE Reads(f, c)
      <3>1. r \in Nat /\ r =< Unread(c)
        BY <1>8, <2>1
      <3> QED BY <1>2, <1>7, <2>1, <3>1, PrintReads
    <2>2. ASSUME ~(r > 0), CloseFd(f), UNCHANGED printed PROVE Reads(f, c)
      <3>1. c \in faulted' \/ (c \in fin /\ Unread(c) = 0)
        BY <1>2, <1>8, <2>2
      <3> QED BY <1>2, <1>7, <2>2, <3>1, CloseReads
    <2> QED BY <1>9, <2>1, <2>2
  <1>11. /\ (\A d \in Clients : Input(d)' /\ Line(d)') /\ Places'
         /\ conn' \in [Fds -> Clients \cup {None}]
         /\ UNCHANGED <<typed, fetched, used, sent, cst, fin>>
         /\ \A g \in Fds \ {f} : /\ conn'[g] = conn[g]
                                 /\ \A res \in Int : Fits(g, res) => Fits(g, res)'
    BY <1>7, <1>10, ReadsKeep
  <1>12. /\ ops' \in [AllFds -> OpStates] /\ ops'[f] # "done"
         /\ \A g \in AllFds \ {f} : /\ (ops'[g] = "none") <=> (ops[g] = "none")
                                    /\ (ops'[g] = "done") <=> (ops[g] = "done")
         /\ (ops'[f] # "none") <=> (conn'[f] # None)
    <2>1. ops \in [AllFds -> OpStates] /\ f \in AllFds /\ c # None
      BY <1>1, <1>7, Constants DEF Types, OpStates, AllFds
    <2>2. CASE ops' = Enqueue(f, ops) /\ conn' = conn
      BY <1>7, <2>1, <2>2, EnqueueType
    <2>3. CASE ops' = [ops EXCEPT ![f] = "none"] /\ conn' = [conn EXCEPT ![f] = None]
      BY <1>1, <2>1, <2>3 DEF OpStates, Types
    <2> QED BY <1>9, <2>2, <2>3 DEF CloseFd
  <1>13. Types'
    BY <1>1, <1>2, <1>4, <1>10, <1>11, <1>12 DEF Types, Reads, OpStates
  <1>14. Events'
    BY <1>1, <1>2, <1>4, IdleEvents DEF Events
  <1>15. Requests'
    <2>1. \A g \in Fds : Handed(g)' <=> Handed(g)
      <3>1. \A g : [fd |-> Listener, res |-> g] # x
        BY <1>2, <1>3
      <3> QED BY <1>4, <3>1 DEF Handed
    <2>2. ~Handed(f)
      BY <1>1, <1>4, <1>5 DEF Requests
    <2>3. \A g \in AllFds : ops'[g] = "done" <=> \E y \in Entries(cq') : y.fd = g
      BY <1>1, <1>4, <1>5, <1>12 DEF Requests
    <2>4. ops'[Listener] # "none"
      BY <1>1, <1>4, <1>12, Constants DEF Requests, AllFds
    <2>5. \A g \in Fds : (ops'[g] # "none") <=> (conn'[g] # None /\ ~Handed(g))
      BY <1>1, <1>4, <1>11, <1>12, <2>2 DEF Requests, AllFds
    <2>6. \A y \in Entries(cq') : IF y.fd = Listener THEN Gives(y.res)' ELSE Fits(y.fd, y.res)'
      <3>1. ASSUME NEW y \in Entries(cq'), y.fd = Listener PROVE Gives(y.res)'
        <4>1. y \in Entries(cq) /\ Gives(y.res) /\ y = [fd |-> Listener, res |-> y.res]
          BY <1>1, <1>4, <3>1, EntriesHere DEF Requests, Completion
        <4>2. y.res # f
          BY <2>2, <4>1 DEF Handed
        <4> QED BY <1>11, <4>1, <4>2 DEF Gives
      <3>2. ASSUME NEW y \in Entries(cq'), y.fd # Listener PROVE Fits(y.fd, y.res)'
        BY <1>1, <1>4, <1>5, <1>11, <3>2, EntriesHere DEF Requests, AllFds
      <3> QED BY <3>1, <3>2
    <2> QED BY <1>2, <1>4, <2>1, <2>3, <2>4, <2>5, <2>6 DEF Requests
  <1> QED BY <1>11, <1>13, <1>14, <1>15 DEF EchoInv

(* A step of the ring alone leaves the sockets and the batch as they are. *)
LEMMA RingStep ==
    ASSUME EchoInv,
           UNCHANGED <<server, shape, backlog, inputVars, clientVars, up, batch, cap>>,
           UNCHANGED <<conn, printed, dropped, closed>>, faulted \subseteq faulted',
           ops' \in [AllFds -> OpStates], cq' \in Seq(Completion), Requests'
    PROVE  EchoInv'
  <1>1. /\ Types /\ Places /\ Events /\ (\A d \in Clients : Input(d) /\ Line(d))
    BY DEF EchoInv
  <1>2. /\ UNCHANGED <<typed, fetched, used, sent, cst, fin>>
        /\ \A d \in Clients : Input(d)'
    BY <1>1, ClientsAlone
  <1>3. \A d \in Clients : Line(d)'
    BY <1>1, <1>2, LineSame
  <1>4. Types'
    BY <1>1, <1>2 DEF Types, OpStates
  <1>5. Places'
    BY <1>1, <1>2 DEF Places
  <1>6. \A f : Readable(f) => Readable(f)'
    BY <1>2 DEF Readable, Unread
  <1>7. Events'
    BY <1>1, <1>2, <1>6 DEF Events
  <1> QED BY <1>2, <1>3, <1>4, <1>5, <1>7 DEF EchoInv

LEMMA FitsStays ==
    ASSUME UNCHANGED <<conn, printed, dropped, sent, fin>>, faulted \subseteq faulted'
    PROVE  /\ \A f, res : Fits(f, res) => Fits(f, res)'
           /\ \A res : Gives(res) => Gives(res)'
  BY DEF Fits, Gives, Unread

LEMMA UringSubmitKeeps == ASSUME EchoInv, UringSubmit PROVE EchoInv'
  <1>1. /\ UNCHANGED <<server, shape, backlog, inputVars, clientVars, up, batch, cap>>
        /\ UNCHANGED <<conn, printed, dropped, closed, faulted, cq>>
        /\ ops' = [f \in DOMAIN ops |-> IF ops[f] = "queued" THEN "flight" ELSE ops[f]]
        /\ server = "uring" /\ up = "up"
    BY DEF UringSubmit
  <1>2. Types /\ Requests /\ UNCHANGED <<sent, fin>>
    BY <1>1 DEF EchoInv, clientVars
  <1>3. /\ ops' \in [AllFds -> OpStates] /\ cq' \in Seq(Completion)
        /\ \A f \in AllFds : /\ (ops'[f] = "none") <=> (ops[f] = "none")
                             /\ (ops'[f] = "done") <=> (ops[f] = "done")
    BY <1>1, <1>2 DEF Types, OpStates
  <1>4. Requests'
    <2>1. \A f \in Fds : Handed(f)' <=> Handed(f)
      BY <1>1 DEF Handed
    <2>2. \A x \in Entries(cq) : IF x.fd = Listener THEN Gives(x.res)' ELSE Fits(x.fd, x.res)'
      BY <1>1, <1>2, FitsStays DEF Requests
    <2> QED BY <1>1, <1>2, <1>3, <2>1, <2>2 DEF Requests, AllFds
  <1> QED BY <1>1, <1>3, <1>4, RingStep

LEMMA UringAcceptedKeeps == ASSUME EchoInv, UringAccepted PROVE EchoInv'
  <1>1. /\ cq # <<>> /\ Head(cq).fd = Listener /\ cq' = Tail(cq)
        /\ UNCHANGED <<server, shape, backlog, inputVars, clientVars, up, batch, cap>>
        /\ UNCHANGED <<conn, printed, dropped, closed, faulted>>
    BY DEF UringAccepted
  <1>2. Types /\ Requests /\ UNCHANGED <<sent, fin>>
    BY <1>1 DEF EchoInv, clientVars
  <1>3. PICK x \in Entries(cq) : x = Head(cq)
    BY <1>1, <1>2, TakeCompletion
  <1>4. /\ server = "uring" /\ up = "up" /\ cq' \in Seq(Completion) /\ OnePerFd(cq')
        /\ Entries(cq') = Entries(cq) \ {x} /\ \A y \in Entries(cq') : y.fd # Listener
        /\ x.fd = Listener /\ ops[Listener] = "done" /\ x \in Completion
    BY <1>1, <1>2, <1>3, TakeCompletion, EntriesHere
  <1>5. PICK r \in Fds \cup {-1} : r = x.res /\ x = [fd |-> Listener, res |-> r] /\ Gives(r)
    <2>1. Gives(x.res)
      BY <1>2, <1>3, <1>4 DEF Requests
    <2>2. x = [fd |-> Listener, res |-> x.res]
      BY <1>4 DEF Completion
    <2> QED BY <2>1, <2>2 DEF Gives
  <1>6. \A g \in Fds : Handed(g) <=> (g = r)
    <2>1. \A g : Handed(g) => [fd |-> Listener, res |-> g] = x
      BY <1>2, <1>3, <1>4, OneEntry DEF Handed, Requests
    <2>2. ASSUME NEW g, Handed(g) PROVE g = r
      <3>1. [fd |-> Listener, res |-> g] = [fd |-> Listener, res |-> r]
        BY <1>5, <2>1, <2>2
      <3> QED BY <3>1
    <2> QED BY <1>3, <1>5, <2>2 DEF Handed
  <1>7. \A g \in Fds : ~Handed(g)'
    BY <1>4 DEF Handed
  <1>8. /\ ops \in [AllFds -> OpStates] /\ Listener \in AllFds /\ Fds \subseteq AllFds
        /\ Listener \notin Fds /\ -1 \notin Fds /\ \A g \in Fds : g > 0
    BY <1>2, Constants DEF Types, OpStates, AllFds
  <1>9. ops' = Enqueue(Listener, IF r > 0 THEN Enqueue(r, [ops EXCEPT ![Listener] = "none"])
                                          ELSE ops)
    BY <1>3, <1>5 DEF UringAccepted
  <1>10. /\ ops' \in [AllFds -> OpStates] /\ ops'[Listener] \notin {"none", "done"}
         /\ \A g \in Fds : /\ (ops'[g] = "none") <=> (ops[g] = "none" /\ g # r)
                           /\ (ops'[g] = "done") <=> (ops[g] = "done" /\ g # r)
    <2>1. CASE r \in Fds
      <3>1. PICK o \in [AllFds -> OpStates] :
                o = [ops EXCEPT ![Listener] = "none"] /\ \A g \in Fds : o[g] = ops[g]
        BY <1>8 DEF OpStates
      <3>2. PICK p \in [AllFds -> OpStates] :
                /\ p = Enqueue(r, o)
                /\ \A g \in AllFds : (p[g] = "none") <=> (o[g] = "none" /\ g # r)
                /\ \A g \in AllFds : (p[g] = "done") <=> (o[g] = "done" /\ g # r)
        BY <1>8, <2>1, EnqueueType
      <3>3. ops' = Enqueue(Listener, p)
        BY <1>8, <1>9, <2>1, <3>1, <3>2
      <3>4. /\ ops' \in [AllFds -> OpStates]
            /\ \A g \in AllFds : (ops'[g] = "none") <=> (p[g] = "none" /\ g # Listener)
            /\ \A g \in AllFds : (ops'[g] = "done") <=> (p[g] = "done" /\ g # Listener)
        BY <1>8, <3>3, EnqueueType
      <3> QED BY <1>8, <3>1, <3>2, <3>4
    <2>2. CASE r = -1
      <3>1. ops' = Enqueue(Listener, ops)
        BY <1>9, <2>2
      <3> QED BY <1>8, <2>2, <3>1, EnqueueType
    <2> QED BY <2>1, <2>2
  <1>11. r \in Fds => ops[r] # "done"
    BY <1>2, <1>4, <1>6 DEF Requests
  <1>12. Requests'
    <2>1. \A g \in AllFds : ops'[g] = "done" <=> \E y \in Entries(cq') : y.fd = g
      <3>1. \A g \in Fds : (ops'[g] = "done") <=> (ops[g] = "done")
        BY <1>10, <1>11
      <3>2. \A g \in Fds : ops'[g] = "done" <=> \E y \in Entries(cq') : y.fd = g
        BY <1>2, <1>4, <1>8, <3>1 DEF Requests
      <3> QED BY <1>4, <1>10, <3>2 DEF AllFds
    <2>2. ASSUME NEW g \in Fds PROVE (ops'[g] # "none") <=> (conn[g] # None /\ ~Handed(g)')
      <3>1. (ops[g] # "none") <=> (conn[g] # None /\ ~Handed(g))
        BY <1>2, <1>4 DEF Requests
      <3>2. CASE g = r
        <4>1. conn[g] # None
          BY <1>5, <1>8, <3>2 DEF Gives
        <4> QED BY <1>7, <1>10, <3>2, <4>1
      <3>3. CASE g # r
        BY <1>6, <1>7, <1>10, <3>1, <3>3
      <3> QED BY <3>2, <3>3
    <2>3. \A y \in Entries(cq') : Fits(y.fd, y.res)'
      BY <1>1, <1>2, <1>4, FitsStays DEF Requests
    <2> QED BY <1>1, <1>4, <1>7, <1>10, <2>1, <2>2, <2>3 DEF Requests
  <1> QED BY <1>1, <1>4, <1>10, <1>12, RingStep

LEMMA CompletionOf ==
    \A f \in Fds \cup {Listener}, n \in Int :
        \E x \in Completion : x = [fd |-> f, res |-> n] /\ x.fd = f /\ x.res = n
  <1>1. \A f \in AllFds, n \in Int : [fd |-> f, res |-> n] \in Completion
    BY DEF Completion
  <1>2. \A f, n : [fd |-> f, res |-> n].fd = f /\ [fd |-> f, res |-> n].res = n
    OBVIOUS
  <1> QED BY <1>1, <1>2 DEF AllFds

(* A read completes, whatever came of it. *)
CompletionAdded(x) ==
  /\ ops[x.fd] = "flight" /\ ops' = [ops EXCEPT ![x.fd] = "done"] /\ cq' = Append(cq, x)

LEMMA CompletionKeeps ==
    ASSUME EchoInv, NEW x \in Completion, x.fd \in Fds, CompletionAdded(x),
           UNCHANGED <<server, shape, backlog, inputVars, clientVars, up, batch, cap>>,
           UNCHANGED <<conn, printed, dropped, closed>>, faulted \subseteq faulted',
           Fits(x.fd, x.res) \/ Fits(x.fd, x.res)'
    PROVE  EchoInv'
  <1>1. Types /\ Requests /\ UNCHANGED <<sent, fin>>
    BY DEF EchoInv, clientVars
  <1>2. /\ server = "uring" /\ up = "up"
        /\ cq' \in Seq(Completion) /\ OnePerFd(cq') /\ Entries(cq') = Entries(cq) \cup {x}
        /\ ops' \in [AllFds -> OpStates]
        /\ \A f \in AllFds : ops'[f] = "done" <=> \E y \in Entries(cq') : y.fd = f
        /\ \A f \in AllFds : (ops'[f] = "none") <=> (ops[f] = "none")
    BY <1>1, AddCompletion DEF CompletionAdded
  <1>3. x.fd # Listener
    BY Constants
  <1>4. \A f \in Fds : Handed(f)' <=> Handed(f)
    <2>1. \A f : [fd |-> Listener, res |-> f] # x
      BY <1>3
    <2> QED BY <1>2, <2>1 DEF Handed
  <1>5. Fits(x.fd, x.res)'
    BY <1>1, FitsStays
  <1>6. \A y \in Entries(cq') : IF y.fd = Listener THEN Gives(y.res)' ELSE Fits(y.fd, y.res)'
    BY <1>1, <1>2, <1>3, <1>5, FitsStays DEF Requests
  <1>7. Requests'
    BY <1>1, <1>2, <1>4, <1>6 DEF Requests, AllFds
  <1> QED BY <1>2, <1>7, RingStep

LEMMA FitsIfReadable ==
    ASSUME EchoInv, NEW f \in Fds, Readable(f), NEW n \in 0..Unread(conn[f]),
           n = 0 => Unread(conn[f]) = 0
    PROVE  Fits(f, n)
  BY DEF Fits, Readable

LEMMA KernelReadsKeeps == ASSUME EchoInv, NEW f \in Fds, KernelReads(f) PROVE EchoInv'
  <1>1. /\ UNCHANGED <<server, shape, backlog, inputVars, clientVars, up, batch, cap>>
        /\ UNCHANGED <<conn, printed, dropped, closed, faulted>>
        /\ ops[f] = "flight" /\ Readable(f) /\ ops' = [ops EXCEPT ![f] = "done"]
    BY DEF KernelReads
  <1>2. Types /\ Requests /\ UNCHANGED <<sent, fin>>
    BY <1>1 DEF EchoInv, clientVars
  <1>3. PICK n \in 0..Unread(conn[f]) : /\ n = 0 => Unread(conn[f]) = 0
                                        /\ cq' = Append(cq, [fd |-> f, res |-> n])
    BY DEF KernelReads
  <1>4. n \in Int /\ Fits(f, n)
    BY <1>1, <1>3, FitsIfReadable
  <1>5. PICK x \in Completion : x = [fd |-> f, res |-> n] /\ x.fd = f /\ x.res = n
    BY <1>4, CompletionOf
  <1>6. CompletionAdded(x)
    BY <1>1, <1>2, <1>3, <1>5 DEF CompletionAdded
  <1> QED BY <1>1, <1>4, <1>5, <1>6, CompletionKeeps

LEMMA ReadFailsKeeps == ASSUME EchoInv, ReadFails PROVE EchoInv'
  <1>1. /\ UNCHANGED <<server, shape, backlog, inputVars, clientVars, up, cap, printed>>
    BY DEF ReadFails
  <1>2. Types /\ Requests
    BY DEF EchoInv
  <1>3. CASE /\ server \in {"epoll", "select"} /\ UNCHANGED <<ops, cq>>
             /\ \E e \in batch :
                  /\ e.fd # Listener /\ batch' = batch \ {e}
                  /\ CloseFd(e.fd) /\ faulted' = faulted \cup {conn[e.fd]}
    <2>1. PICK e \in batch :
              /\ e.fd # Listener /\ batch' = batch \ {e}
              /\ CloseFd(e.fd) /\ faulted' = faulted \cup {conn[e.fd]}
      BY <1>3
    <2>2. PICK f \in Fds, c \in Clients : f = e.fd /\ c = conn[f]
      BY <2>1, EventClient
    <2>3. Reads(f, c)
      BY <1>1, <2>1, <2>2, CloseReads
    <2> QED BY <1>3, <2>1, <2>2, <2>3, EventHandled
  <1>4. CASE /\ \E f \in Fds : /\ ops[f] = "flight"
                               /\ ops' = [ops EXCEPT ![f] = "done"]
                               /\ cq' = Append(cq, [fd |-> f, res |-> -1])
                               /\ faulted' = faulted \cup {conn[f]}
             /\ UNCHANGED <<batch, conn, closed, dropped>>
    <2>1. PICK f \in Fds : /\ ops[f] = "flight"
                           /\ ops' = [ops EXCEPT ![f] = "done"]
                           /\ cq' = Append(cq, [fd |-> f, res |-> -1])
                           /\ faulted' = faulted \cup {conn[f]}
      BY <1>4
    <2>2. PICK x \in Completion : x = [fd |-> f, res |-> -1] /\ x.fd = f /\ x.res = -1
      BY -1 \in Int, CompletionOf
    <2>3. CompletionAdded(x)
      BY <2>1, <2>2 DEF CompletionAdded
    <2>4. conn[f] # None
      <3>1. f \in AllFds
        BY DEF AllFds
      <3>2. server = "uring" /\ up = "up"
        BY <1>2, <2>1, <3>1, NoRequests
      <3> QED BY <1>2, <2>1, <3>2 DEF Requests
    <2>5. Fits(f, -1)'
      BY <1>4, <2>1, <2>4 DEF Fits
    <2> QED BY <1>1, <1>4, <2>1, <2>2, <2>3, <2>5, CompletionKeeps
  <1> QED BY <1>3, <1>4 DEF ReadFails

------------------------------------------------------------------------------
(***************************************************************************)
(* Accepting: clients go from the backlog to free descriptors.             *)
(***************************************************************************)
Admits ==
  /\ UNCHANGED <<server, shape, dropped, inputVars, clientVars, up, cap, faulted, printed, closed>>
  /\ conn' \in [Fds -> Clients \cup {None}] /\ backlog' \in Seq(Clients)
  /\ Distinct(backlog') /\ Entries(backlog') \subseteq Entries(backlog)
  /\ \A f \in Fds : conn[f] # None => conn'[f] = conn[f]
  /\ \A f \in Fds : conn[f] = None /\ conn'[f] # None =>
        conn'[f] \in Entries(backlog) /\ conn'[f] \notin Entries(backlog')
  /\ \A f, g \in Fds : conn[f] = None /\ conn[g] = None
                         /\ conn'[f] # None /\ conn'[f] = conn'[g] => f = g

LEMMA AdmitsKeep ==
    ASSUME EchoInv, Admits, up = "up"
    PROVE  /\ (\A d \in Clients : Input(d)' /\ Line(d)') /\ Places'
           /\ UNCHANGED <<typed, fetched, used, sent, cst, fin>>
           /\ \A f \in Fds : Readable(f) => Readable(f)'
           /\ \A f \in Fds, res \in Int : Fits(f, res) => Fits(f, res)'
  <1>1. /\ Types /\ Places /\ (\A d \in Clients : Input(d) /\ Line(d))
    BY DEF EchoInv
  <1>2. /\ UNCHANGED <<typed, fetched, used, sent, cst, fin>> /\ \A d \in Clients : Input(d)'
    BY <1>1, ClientsAlone DEF Admits
  <1>3. \A d \in Clients : Line(d)'
    BY <1>1, <1>2, LineSame DEF Admits
  <1>4. ASSUME NEW f \in Fds, conn[f] # None
        PROVE  (Readable(f) => Readable(f)') /\ \A res \in Int : Fits(f, res) => Fits(f, res)'
    <2>1. PICK d \in Clients : d = conn[f] /\ d = conn'[f]
      BY <1>1, <1>4 DEF Admits, Types
    <2>2. PICK n : n = Unread(d)
      OBVIOUS
    <2>3. Unread(conn[f]) = n /\ Unread(conn[f])' = n
      BY <1>2, <2>1, <2>2 DEF Unread, Admits
    <2>4. Readable(f) => Readable(f)'
      BY <1>2, <2>1, <2>3, Zenon DEF Readable
    <2>5. \A res \in Int : Fits(f, res) => Fits(f, res)'
      BY <1>2, <2>1, <2>3, Zenon DEF Fits, Admits
    <2> QED BY <2>4, <2>5
  <1>5. \A f \in Fds : Readable(f) => Readable(f)'
    BY <1>4 DEF Readable
  <1>6. \A f \in Fds, res \in Int : Fits(f, res) => Fits(f, res)'
    BY <1>4 DEF Fits
  <1>7. Places'
    <2>1. ASSUME NEW f \in Fds, NEW g \in Fds, conn'[f] # None, conn'[f] = conn'[g]
          PROVE  f = g
      <3>1. CASE conn[f] # None /\ conn[g] # None
        BY <1>1, <2>1, <3>1 DEF Places, Admits
      <3>2. CASE conn[f] = None /\ conn[g] = None
        BY <2>1, <3>2 DEF Admits
      <3>3. CASE conn[f] # None /\ conn[g] = None
        BY <1>1, <2>1, <3>3 DEF Places, Admits
      <3>4. CASE conn[f] = None /\ conn[g] # None
        BY <1>1, <2>1, <3>4 DEF Places, Admits
      <3> QED BY <3>1, <3>2, <3>3, <3>4
    <2>2. ASSUME NEW f \in Fds, conn'[f] # None
          PROVE  conn'[f] \notin closed /\ conn'[f] \notin Entries(backlog')
                   /\ cst[conn'[f]] # "new"
      <3>1. CASE conn[f] # None
        BY <1>1, <3>1 DEF Places, Admits
      <3>2. CASE conn[f] = None
        BY <1>1, <2>2, <3>2 DEF Places, Admits
      <3> QED BY <3>1, <3>2
    <2>3. \A d \in Entries(backlog') : d \notin closed /\ printed[d] = 0 /\ cst[d] # "new"
      BY <1>1 DEF Places, Admits
    <2> QED BY <1>1, <1>2, <2>1, <2>2, <2>3 DEF Places, Admits
  <1> QED BY <1>2, <1>3, <1>5, <1>6, <1>7

(* The event of the listener is handled. *)
LEMMA ListenerHandled ==
    ASSUME EchoInv, Admits, NEW e \in batch, e.fd = Listener, batch' = batch \ {e},
           server # "uring", UNCHANGED <<ops, cq>>
    PROVE  EchoInv'
  <1>1. Types /\ Events /\ Requests /\ up = "up"
    BY DEF EchoInv, Events
  <1>2. /\ (\A d \in Clients : Input(d)' /\ Line(d)') /\ Places'
        /\ UNCHANGED <<typed, fetched, used, sent, cst, fin>>
        /\ \A f \in Fds : Readable(f) => Readable(f)'
    BY <1>1, AdmitsKeep
  <1>3. Types'
    BY <1>1, <1>2 DEF Types, Admits
  <1>4. Events'
    <2>1. \A o \in batch' : o \in batch /\ o.fd # Listener
      BY <1>1 DEF Events
    <2>2. \A o \in batch' : Readable(o.fd)'
      BY <1>1, <1>2, <2>1, EntriesHere DEF Events, AllFds
    <2>3. ASSUME NEW o \in batch', o.hup PROVE conn'[o.fd] \in fin'
      <3>1. o.fd \in Fds /\ Readable(o.fd) /\ conn[o.fd] \in fin
        BY <1>1, <2>1, <2>3, EntriesHere DEF Events, AllFds
      <3> QED BY <1>2, <3>1 DEF Admits, Readable
    <2> QED BY <1>1, <2>1, <2>2, <2>3 DEF Events, Admits
  <1>5. Requests'
    BY <1>1, RequestsIdle DEF Admits
  <1> QED BY <1>2, <1>3, <1>4, <1>5 DEF EchoInv

(* The head of the backlog gets the lowest free descriptor. *)
LEMMA AdmitHead ==
    ASSUME EchoInv, backlog # <<>>, conn' = [conn EXCEPT ![FreeFd] = Head(backlog)],
           backlog' = Tail(backlog),
           UNCHANGED <<server, shape, dropped, inputVars, clientVars, up, cap, faulted, printed, closed>>
    PROVE  /\ Admits /\ FreeFd \in Fds /\ conn[FreeFd] = None
           /\ conn'[FreeFd] # None /\ \A g \in Fds : g # FreeFd => conn'[g] = conn[g]
  <1>1. Types /\ Places
    BY DEF EchoInv
  <1>2. PICK c \in Clients : c = Head(backlog) /\ c \in Entries(backlog)
    BY <1>1, EntriesType DEF Types
  <1>3. \A f \in Fds : conn[f] # c
    BY <1>1, <1>2, Constants DEF Places
  <1>4. PICK r \in Fds : r = FreeFd /\ conn[r] = None
    BY <1>1, <1>3, FreeFdType
  <1>5. /\ conn' \in [Fds -> Clients \cup {None}] /\ conn'[r] = c /\ c # None
        /\ \A g \in Fds : g # r => conn'[g] = conn[g]
    BY <1>1, <1>2, <1>4, Constants DEF Types
  <1>6. /\ backlog' \in Seq(Clients) /\ Distinct(backlog')
        /\ Entries(backlog') = Entries(backlog) \ {c}
    BY <1>1, <1>2, EntriesType, EntriesOfTail DEF Types, Places
  <1> QED BY <1>2, <1>4, <1>5, <1>6 DEF Admits

LEMMA SelectAcceptKeeps == ASSUME EchoInv, SelectAccept PROVE EchoInv'
  <1>1. PICK e \in batch : e.fd = Listener /\ batch' = batch \ {e}
    BY DEF SelectAccept
  <1>2. /\ server = "select" /\ conn' = [conn EXCEPT ![FreeFd] = Head(backlog)]
        /\ backlog' = Tail(backlog) /\ UNCHANGED <<ops, cq>>
        /\ UNCHANGED <<server, shape, dropped, inputVars, clientVars, up, cap, faulted, printed, closed>>
    BY DEF SelectAccept
  <1>3. backlog # <<>>
    BY <1>1, <1>2 DEF EchoInv, Events
  <1> QED BY <1>1, <1>2, <1>3, AdmitHead, ListenerHandled

LEMMA KernelAcceptsKeeps == ASSUME EchoInv, KernelAccepts PROVE EchoInv'
  <1>1. /\ ops[Listener] = "flight" /\ ops' = [ops EXCEPT ![Listener] = "done"]
        /\ UNCHANGED <<server, shape, dropped, inputVars, clientVars, up, batch, cap>>
        /\ UNCHANGED <<faulted, printed, closed>>
    BY DEF KernelAccepts
  <1>2. /\ Types /\ Places /\ Events /\ Requests /\ Listener \in AllFds
    BY DEF EchoInv, AllFds
  <1>3. server = "uring" /\ up = "up" /\ batch = {}
    BY <1>1, <1>2, NoRequests DEF Events
  <1>4. \A g : ~Handed(g)
    BY <1>1, <1>2 DEF Requests, Handed
  <1>5. CASE backlog = <<>>
    <2>1. cq' = Append(cq, [fd |-> Listener, res |-> -1]) /\ UNCHANGED <<conn, backlog>>
      BY <1>5 DEF KernelAccepts
    <2>2. PICK x \in Completion : x = [fd |-> Listener, res |-> -1] /\ x.fd = Listener /\ x.res = -1
      BY -1 \in Int, CompletionOf
    <2>3. /\ cq' \in Seq(Completion) /\ OnePerFd(cq') /\ Entries(cq') = Entries(cq) \cup {x}
          /\ ops' \in [AllFds -> OpStates]
          /\ \A f \in AllFds : ops'[f] = "done" <=> \E y \in Entries(cq') : y.fd = f
          /\ \A f \in AllFds : (ops'[f] = "none") <=> (ops[f] = "none")
      BY <1>1, <1>2, <2>1, <2>2, AddCompletion
    <2>4. \A g \in Fds : ~Handed(g)'
      <3>1. \A g \in Fds : [fd |-> Listener, res |-> g] # x
        <4>1. -1 \notin Fds
          BY Constants
        <4> QED BY <2>2, <4>1
      <3> QED BY <1>4, <2>3, <3>1 DEF Handed
    <2>5. \A y \in Entries(cq') : IF y.fd = Listener THEN Gives(y.res)' ELSE Fits(y.fd, y.res)'
      <3>1. UNCHANGED <<sent, fin>>
        BY <1>1 DEF clientVars
      <3>2. Gives(x.res)'
        BY <2>2 DEF Gives
      <3> QED BY <1>1, <1>2, <2>1, <2>2, <2>3, <3>1, <3>2, FitsStays DEF Requests
    <2>6. Requests'
      BY <1>1, <1>2, <1>3, <1>4, <2>1, <2>3, <2>4, <2>5 DEF Requests, AllFds
    <2> QED BY <1>1, <2>1, <2>3, <2>6, RingStep
  <1>6. CASE backlog # <<>>
    <2>1. PICK r : r = FreeFd
      OBVIOUS
    <2>2. /\ cq' = Append(cq, [fd |-> Listener, res |-> r])
          /\ conn' = [conn EXCEPT ![FreeFd] = Head(backlog)] /\ backlog' = Tail(backlog)
      BY <1>6, <2>1 DEF KernelAccepts
    <2>3. /\ Admits /\ r \in Fds /\ conn[r] = None
          /\ conn'[r] # None /\ \A g \in Fds : g # r => conn'[g] = conn[g]
      BY <1>1, <1>6, <2>1, <2>2, AdmitHead
    <2>4. /\ (\A d \in Clients : Input(d)' /\ Line(d)') /\ Places'
          /\ UNCHANGED <<typed, fetched, used, sent, cst, fin>>
          /\ \A f \in Fds, res \in Int : Fits(f, res) => Fits(f, res)'
      BY <1>3, <2>3, AdmitsKeep
    <2>5. r \in Int
      BY <2>3, Constants
    <2>6. PICK x \in Completion : x = [fd |-> Listener, res |-> r] /\ x.fd = Listener /\ x.res = r
      BY <2>5, CompletionOf
    <2>7. /\ cq' \in Seq(Completion) /\ OnePerFd(cq') /\ Entries(cq') = Entries(cq) \cup {x}
          /\ ops' \in [AllFds -> OpStates]
          /\ \A f \in AllFds : ops'[f] = "done" <=> \E y \in Entries(cq') : y.fd = f
          /\ \A f \in AllFds : (ops'[f] = "none") <=> (ops[f] = "none")
      BY <1>1, <1>2, <2>2, <2>6, AddCompletion
    <2>8. \A g \in Fds : Handed(g)' <=> g = r
      <3>1. ASSUME NEW g, [fd |-> Listener, res |-> g] = x PROVE g = r
        <4>1. [fd |-> Listener, res |-> g] = [fd |-> Listener, res |-> r]
          BY <2>6, <3>1
        <4> QED BY <4>1
      <3> QED BY <1>4, <2>6, <2>7, <3>1 DEF Handed
    <2>9. \A g \in Fds : (ops'[g] # "none") <=> (conn'[g] # None /\ ~Handed(g)')
      <3>1. \A g \in Fds : (ops[g] # "none") <=> (conn[g] # None)
        BY <1>2, <1>3, <1>4 DEF Requests
      <3> QED BY <2>3, <2>7, <2>8, <3>1 DEF AllFds
    <2>10. \A y \in Entries(cq') : IF y.fd = Listener THEN Gives(y.res)' ELSE Fits(y.fd, y.res)'
      <3>1. \A y \in Entries(cq) : y.fd # Listener
        BY <1>1, <1>2 DEF Requests
      <3>2. \A y \in Entries(cq) : Fits(y.fd, y.res)'
        BY <1>2, <2>4, <3>1, EntriesHere DEF Requests, AllFds
      <3>3. Gives(x.res)'
        BY <2>3, <2>6 DEF Gives
      <3> QED BY <2>6, <2>7, <3>1, <3>2, <3>3
    <2>11. ops'[Listener] # "none" /\ server' = server /\ up' = up
      BY <1>1, <1>2, <2>7
    <2>12. Requests'
      BY <1>3, <2>7, <2>9, <2>10, <2>11 DEF Requests
    <2>13. Types'
      <3>1. /\ conn' \in [Fds -> Clients \cup {None}] /\ backlog' \in Seq(Clients)
            /\ UNCHANGED <<shape, up, batch, cap, printed, dropped>>
        BY <1>1, <2>3 DEF Admits
      <3>2. cq' \in Seq(Completion) /\ ops' \in [AllFds -> {"none", "queued", "flight", "done"}]
        BY <2>7 DEF OpStates
      <3> QED BY <1>2, <2>4, <3>1, <3>2 DEF Types
    <2>14. Events'
      BY <1>1, <1>3, IdleEvents
    <2> QED BY <2>4, <2>12, <2>13, <2>14 DEF EchoInv
  <1> QED BY <1>5, <1>6

(* Of two members of a set of numbers the larger has more below it. *)
LEMMA Ranks ==
    ASSUME NEW S \in SUBSET Nat, IsFiniteSet(S), NEW f \in S
    PROVE  /\ Cardinality({h \in S : h =< f}) \in Nat \ {0}
           /\ \A g \in S : f < g => Cardinality({h \in S : h =< f}) # Cardinality({h \in S : h =< g})
  <1> DEFINE B(g) == {h \in S : h =< g}
  <1>1. \A g \in S : IsFiniteSet(B(g)) /\ Cardinality(B(g)) \in Nat
    BY FS_Subset, FS_CardinalityType
  <1>2. f \in B(f)
    OBVIOUS
  <1>3. Cardinality(B(f)) # 0
    BY <1>1, <1>2, FS_EmptySet
  <1>4. ASSUME NEW g \in S, f < g PROVE Cardinality(B(f)) # Cardinality(B(g))
    <2>1. B(f) \subseteq B(g) \ {g} /\ g \in B(g)
      <3>1. \A h \in S : h =< f => h =< g /\ h # g
        BY <1>4
      <3>2. g =< g
        OBVIOUS
      <3> QED BY <3>1, <3>2
    <2>2. IsFiniteSet(B(g) \ {g}) /\ Cardinality(B(g) \ {g}) = Cardinality(B(g)) - 1
      BY <1>1, <2>1, FS_RemoveElement
    <2>3. Cardinality(B(f)) =< Cardinality(B(g) \ {g})
      BY <2>1, <2>2, FS_Subset
    <2> HIDE DEF B
    <2> QED BY <1>1, <2>2, <2>3
  <1> QED BY <1>1, <1>3, <1>4

(* Accepting a first part of the backlog: each client of it gets a           *)
(* descriptor of its own, the others stay where they were.                 *)
LEMMA AdmitsFirst ==
    ASSUME EchoInv, NEW q \in Seq(Clients), NEW r \in Seq(Clients),
           Distinct(q), Distinct(r), Entries(q) \subseteq Entries(backlog),
           Entries(r) \subseteq Entries(backlog), Entries(q) \cap Entries(r) = {},
           conn' = Admit(q), backlog' = r,
           UNCHANGED <<server, shape, dropped, inputVars, clientVars, up, cap, faulted, printed, closed>>
    PROVE  Admits
  <1>3. Types /\ Places
    BY DEF EchoInv
  <1> DEFINE free == {f \in Fds : conn[f] = None}
             rank(f) == Cardinality({g \in free : g =< f})
  <1>4. /\ free \in SUBSET Nat /\ IsFiniteSet(free) /\ DOMAIN q = 1..Len(q)
        /\ Len(q) \in Nat /\ None \notin Clients /\ Entries(q) \subseteq Clients
    BY <1>3, Constants, FS_Subset, LenProperties, EntriesType
  <1>5. conn' = [f \in Fds |-> IF f \in free /\ rank(f) =< Len(q)
                               THEN q[rank(f)] ELSE conn[f]]
    BY DEF Admit
  <1>6. /\ \A f \in free : rank(f) \in Nat \ {0}
        /\ \A f, g \in free : f < g => rank(f) # rank(g)
    BY <1>4, Ranks
  <1>7. \A f, g \in free : rank(f) = rank(g) => f = g
    <2>1. \A f, g \in free : f # g => f < g \/ g < f
      BY <1>4
    <2> HIDE DEF rank, free
    <2> QED BY <1>6, <2>1
  <1> HIDE DEF rank
  <1>8. ASSUME NEW f \in Fds, conn[f] # None PROVE conn'[f] = conn[f]
    BY <1>5, <1>8
  <1>9. ASSUME NEW f \in free, conn'[f] # None
        PROVE  rank(f) \in DOMAIN q /\ conn'[f] = q[rank(f)]
    <2>1. conn'[f] = IF rank(f) =< Len(q) THEN q[rank(f)] ELSE None
      BY <1>5
    <2>2. rank(f) =< Len(q) /\ conn'[f] = q[rank(f)]
      BY <1>9, <2>1
    <2> QED BY <1>4, <1>6, <2>2
  <1>10. \A f \in free : conn'[f] # None => conn'[f] \in Entries(q)
    BY <1>9 DEF Entries
  <1>11. conn' \in [Fds -> Clients \cup {None}]
    <2>1. \A f \in Fds : conn'[f] \in Clients \cup {None}
      BY <1>3, <1>4, <1>8, <1>10 DEF Types
    <2> QED BY <1>5, <2>1
  <1>12. ASSUME NEW f \in free, NEW g \in free, conn'[f] # None, conn'[f] = conn'[g]
         PROVE  f = g
    <2>1. /\ rank(f) \in DOMAIN q /\ conn'[f] = q[rank(f)]
          /\ rank(g) \in DOMAIN q /\ conn'[g] = q[rank(g)]
      BY <1>9, <1>12
    <2>2. rank(f) = rank(g)
      BY <1>12, <2>1 DEF Distinct
    <2> QED BY <1>7, <2>2
  <1>13. \A f \in free : conn'[f] # None =>
           conn'[f] \in Entries(backlog) /\ conn'[f] \notin Entries(backlog')
    BY <1>10
  <1> QED BY <1>8, <1>11, <1>12, <1>13 DEF Admits

(* A sequence without repetitions cut in two. *)
LEMMA CutInTwo ==
    ASSUME NEW S, NEW s \in Seq(S), Distinct(s), NEW k \in 1..Len(s)
    PROVE  LET q == SubSeq(s, 1, k - 1)
               r == SubSeq(s, k, Len(s))
           IN  /\ q \in Seq(S) /\ r \in Seq(S) /\ Distinct(q) /\ Distinct(r)
               /\ Entries(q) \subseteq Entries(s) /\ Entries(r) \subseteq Entries(s)
               /\ Entries(q) \cap Entries(r) = {}
  <1> DEFINE q == SubSeq(s, 1, k - 1)
             r == SubSeq(s, k, Len(s))
  <1>1. PICK n \in Nat : n = Len(s) /\ DOMAIN s = 1..n /\ k \in 1..n /\ k \in Int
    BY LenProperties
  <1>2. \A i \in 1..n : s[i] \in S
    BY <1>1, ElementOfSeq
  <1>3. /\ q \in Seq(S) /\ DOMAIN q = 1..k - 1 /\ \A i \in 1..k - 1 : q[i] = s[i]
    <2>1. q \in Seq(S) /\ Len(q) = IF 1 =< k - 1 THEN k - 1 ELSE 0
      BY <1>1, <1>2, SubSeqProperties
    <2>2. \A i \in 1..k - 1 : q[i] = s[i]
      BY <1>1, <1>2, SubSeqProperties
    <2> HIDE DEF q
    <2> QED BY <1>1, <2>1, <2>2, LenProperties
  <1>4. /\ r \in Seq(S) /\ DOMAIN r = 1..n - k + 1
        /\ \A i \in 1..n - k + 1 : r[i] = s[k + i - 1]
    <2>1. r \in Seq(S) /\ Len(r) = n - k + 1
      BY <1>1, <1>2, SubSeqProperties
    <2>2. \A i \in 1..n - k + 1 : r[i] = s[k + i - 1]
      BY <1>1, <1>2, SubSeqProperties
    <2> HIDE DEF r
    <2> QED BY <1>1, <2>1, <2>2, LenProperties
  <1> HIDE DEF q, r
  <1>5. /\ \A i \in 1..k - 1 : i \in 1..n /\ i < k
        /\ \A i \in 1..n - k + 1 : k + i - 1 \in 1..n /\ k + i - 1 >= k
        /\ \A i, j \in 1..n - k + 1 : k + i - 1 = k + j - 1 => i = j
    BY <1>1
  <1>6. \A i, j \in 1..n : s[i] = s[j] => i = j
    BY <1>1 DEF Distinct
  <1>7. Distinct(q)
    BY <1>3, <1>5, <1>6 DEF Distinct
  <1>8. Distinct(r)
    <2> SUFFICES ASSUME NEW i \in 1..n - k + 1, NEW j \in 1..n - k + 1, r[i] = r[j]
                 PROVE  i = j
      BY <1>4 DEF Distinct
    <2>1. s[k + i - 1] = s[k + j - 1]
      BY <1>4
    <2>2. k + i - 1 = k + j - 1
      BY <1>5, <1>6, <2>1
    <2> QED BY <1>5, <2>2
  <1>9. Entries(q) \subseteq Entries(s) /\ Entries(r) \subseteq Entries(s)
    <2>1. \A i \in 1..k - 1 : q[i] \in Entries(s)
      BY <1>1, <1>3, <1>5 DEF Entries
    <2>2. ASSUME NEW i \in 1..n - k + 1 PROVE r[i] \in Entries(s)
      <3>1. r[i] = s[k + i - 1] /\ k + i - 1 \in 1..n
        BY <1>4, <1>5
      <3> QED BY <1>1, <3>1 DEF Entries
    <2> QED BY <1>3, <1>4, <2>1, <2>2 DEF Entries
  <1>10. Entries(q) \cap Entries(r) = {}
    <2> SUFFICES ASSUME NEW i \in 1..k - 1, NEW j \in 1..n - k + 1, q[i] = r[j]
                 PROVE  FALSE
      BY <1>3, <1>4 DEF Entries
    <2>1. s[i] = s[k + j - 1]
      BY <1>3, <1>4
    <2>2. i = k + j - 1 /\ i < k /\ k + j - 1 >= k
      BY <1>5, <1>6, <2>1
    <2> QED BY <1>1, <2>2
  <1> QED BY <1>3, <1>4, <1>7, <1>8, <1>9, <1>10 DEF q, r

LEMMA EpollAcceptKeeps == ASSUME EchoInv, EpollAccept PROVE EchoInv'
  <1>1. PICK e \in batch : e.fd = Listener /\ batch' = batch \ {e}
    BY DEF EpollAccept
  <1>2. /\ server = "epoll" /\ conn' = Admit(backlog) /\ backlog' = <<>>
        /\ UNCHANGED <<ops, cq>>
        /\ UNCHANGED <<server, shape, dropped, inputVars, clientVars, up, cap, faulted, printed, closed>>
    BY DEF EpollAccept
  <1>3. /\ backlog \in Seq(Clients) /\ Distinct(backlog) /\ <<>> \in Seq(Clients)
        /\ Distinct(<<>>) /\ Entries(<<>>) = {}
    BY EmptyEntries DEF EchoInv, Types, Places
  <1>4. Admits
    BY <1>2, <1>3, AdmitsFirst
  <1> QED BY <1>1, <1>2, <1>4, ListenerHandled

LEMMA EpollAcceptFailsKeeps == ASSUME EchoInv, EpollAcceptFails PROVE EchoInv'
  <1>1. PICK e \in batch : e.fd = Listener /\ batch' = batch \ {e}
    BY DEF EpollAcceptFails
  <1>2. PICK k \in 1..Len(backlog) : /\ conn' = Admit(SubSeq(backlog, 1, k - 1))
                                    /\ backlog' = SubSeq(backlog, k, Len(backlog))
    BY DEF EpollAcceptFails
  <1>3. /\ server = "epoll" /\ UNCHANGED <<ops, cq>>
        /\ UNCHANGED <<server, shape, dropped, inputVars, clientVars, up, cap, faulted, printed, closed>>
    BY DEF EpollAcceptFails
  <1>4. backlog \in Seq(Clients) /\ Distinct(backlog)
    BY DEF EchoInv, Types, Places
  <1>5. PICK q, r : q = SubSeq(backlog, 1, k - 1) /\ r = SubSeq(backlog, k, Len(backlog))
    OBVIOUS
  <1>6. /\ q \in Seq(Clients) /\ r \in Seq(Clients) /\ Distinct(q) /\ Distinct(r)
        /\ Entries(q) \subseteq Entries(backlog) /\ Entries(r) \subseteq Entries(backlog)
        /\ Entries(q) \cap Entries(r) = {}
    BY <1>4, <1>5, CutInTwo
  <1>7. Admits
    BY <1>2, <1>3, <1>5, <1>6, AdmitsFirst
  <1> QED BY <1>1, <1>3, <1>7, ListenerHandled

(* Only the event is gone: nobody was admitted. *)
LEMMA SelectAcceptFailsKeeps == ASSUME EchoInv, SelectAcceptFails PROVE EchoInv'
  <1>1. PICK e \in batch : e.fd = Listener /\ batch' = batch \ {e}
    BY DEF SelectAcceptFails
  <1>2. /\ server = "select" /\ UNCHANGED <<ops, cq, conn, backlog>>
        /\ UNCHANGED <<server, shape, dropped, inputVars, clientVars, up, cap, faulted, printed, closed>>
    BY DEF SelectAcceptFails
  <1>3. Admits
    BY <1>2 DEF Admits, EchoInv, Types, Places
  <1> QED BY <1>1, <1>2, <1>3, ListenerHandled

(* A rejected client goes from the backlog to the closed ones. *)
LEMMA EpollRejectsKeeps == ASSUME EchoInv, EpollRejects PROVE EchoInv'
  <1>1. PICK c : c = Head(backlog)
    OBVIOUS
  <1>2. /\ server = "epoll" /\ backlog # <<>> /\ backlog' = Tail(backlog)
        /\ closed' = closed \cup {c} /\ faulted' = faulted \cup {c}
        /\ dropped' = [dropped EXCEPT ![c] = sent[c]]
        /\ UNCHANGED <<server, shape, inputVars, clientVars, up, conn, batch, cap, ops, cq, printed>>
    BY <1>1 DEF EpollRejects
  <1>3. Types /\ Places /\ Events /\ Requests /\ \A d \in Clients : Input(d) /\ Line(d)
    BY DEF EchoInv
  <1>4. c \in Clients /\ c \in Entries(backlog)
    BY <1>1, <1>2, <1>3, EntriesType DEF Types
  <1>5. /\ c \notin closed /\ printed[c] = 0 /\ cst[c] # "new" /\ \A f \in Fds : conn[f] # c
    BY <1>3, <1>4, Constants DEF Places
  <1>6. /\ dropped' \in [Clients -> Nat] /\ dropped'[c] = sent[c]
        /\ \A d \in Clients \ {c} : dropped'[d] = dropped[d]
    BY <1>2, <1>3, <1>4 DEF Types
  <1>7. /\ backlog' \in Seq(Clients) /\ Distinct(backlog')
        /\ Entries(backlog') = Entries(backlog) \ {c}
    BY <1>1, <1>2, <1>3, EntriesType, EntriesOfTail DEF Types, Places
  <1>8. /\ UNCHANGED <<typed, fetched, used, sent, cst, fin>> /\ \A d \in Clients : Input(d)'
    BY <1>2, <1>3, ClientsAlone
  <1>9. Types'
    BY <1>2, <1>3, <1>6, <1>7, <1>8 DEF Types
  <1>10. ASSUME NEW d \in Clients PROVE Line(d)'
    <2>1. CASE d # c
      BY <1>2, <1>3, <1>6, <1>8, <2>1, LineSame
    <2>2. CASE d = c
      <3>1. printed'[c] + dropped'[c] =< sent'[c]
        BY <1>2, <1>3, <1>4, <1>5, <1>6, <1>8 DEF Types
      <3>2. c \in fin' => cst'[c] = "ended"
        BY <1>3, <1>4, <1>8 DEF Line
      <3> QED BY <1>2, <2>2, <3>1, <3>2 DEF Line
    <2> QED BY <2>1, <2>2
  <1>11. Places'
    <2>1. \A f \in Fds : conn[f] # None =>
            conn[f] \notin closed' /\ conn[f] \notin Entries(backlog') /\ cst[conn[f]] # "new"
      BY <1>2, <1>3, <1>5, <1>7 DEF Places
    <2>2. \A d \in Entries(backlog') : d \notin closed' /\ printed[d] = 0 /\ cst[d] # "new"
      BY <1>2, <1>3, <1>7 DEF Places
    <2>3. \A d \in Clients : cst[d] = "new" => d \notin closed' /\ printed[d] = 0
      BY <1>2, <1>3, <1>5 DEF Places
    <2>4. up = "up"
      BY <1>2, <1>3 DEF Places
    <2> QED BY <1>2, <1>3, <1>7, <1>8, <2>1, <2>2, <2>3, <2>4 DEF Places
  <1>12. Events'
    <2>1. ASSUME NEW f \in Fds, Readable(f) PROVE Readable(f)'
      <3>1. PICK d \in Clients : d = conn[f] /\ d # c /\ d = conn'[f]
        BY <1>2, <1>3, <1>5, <2>1 DEF Readable, Types
      <3>2. PICK n : n = Unread(d)
        OBVIOUS
      <3>3. Unread(conn[f]) = n /\ Unread(conn[f])' = n
        BY <1>2, <1>6, <1>8, <3>1, <3>2 DEF Unread
      <3> QED BY <1>8, <2>1, <3>1, <3>3, Zenon DEF Readable
    <2>2. \A e \in batch : e.fd # Listener => Readable(e.fd)'
      BY <1>3, <2>1, EntriesHere DEF Events, AllFds
    <2>3. \A e \in batch : e.hup => conn'[e.fd] \in fin'
      BY <1>2, <1>3, <1>8 DEF Events
    <2> QED BY <1>2, <1>3, <2>2, <2>3 DEF Events
  <1>13. Requests'
    BY <1>2, <1>3, RequestsIdle
  <1> QED BY <1>8, <1>9, <1>10, <1>11, <1>12, <1>13 DEF EchoInv

(* A server that dies closes every connection it had or would have had. *)
LEMMA ServerDiesKeeps == ASSUME EchoInv, ServerDies PROVE EchoInv'
  <1>1. PICK live : live = {c \in Clients : cst[c] # "new"} \ closed
    OBVIOUS
  <1>2. /\ up' = "down" /\ closed' = closed \cup live /\ faulted' = faulted \cup live
        /\ dropped' = [c \in Clients |->
                         IF c \in live THEN sent[c] - printed[c] ELSE dropped[c]]
        /\ backlog' = <<>> /\ conn' = [f \in Fds |-> None]
        /\ batch' = {} /\ cq' = <<>> /\ ops' = [f \in DOMAIN ops |-> "none"]
        /\ UNCHANGED <<server, shape, inputVars, clientVars, cap, printed>>
    BY <1>1 DEF ServerDies
  <1>3. Types /\ Places /\ \A d \in Clients : Input(d) /\ Line(d)
    BY DEF EchoInv
  <1>4. /\ UNCHANGED <<typed, fetched, used, sent, cst, fin>> /\ \A d \in Clients : Input(d)'
    BY <1>2, <1>3, ClientsAlone
  <1>5. ASSUME NEW c \in Clients
        PROVE  dropped'[c] \in Nat /\ Line(c)' /\ (cst[c] = "new" => c \notin closed')
    <2>1. CASE c \in live
      <3>1. PICK s \in Nat, p \in Nat, o \in Nat : s = sent[c] /\ p = printed[c] /\ o = dropped[c]
        BY <1>3 DEF Types
      <3>2. p + o =< s
        BY <1>3, <3>1 DEF Line
      <3>3. PICK r \in Nat : r = s - p
        BY <3>1, <3>2
      <3>4. dropped'[c] = r /\ p + r =< s
        BY <1>2, <2>1, <3>1, <3>3
      <3>5. c \in fin' => cst'[c] = "ended"
        BY <1>3, <1>4 DEF Line
      <3>6. cst[c] # "new" /\ c \in closed' /\ c \in faulted'
        BY <1>1, <1>2, <2>1
      <3> QED BY <1>2, <1>4, <3>1, <3>4, <3>5, <3>6 DEF Line
    <2>2. CASE c \notin live
      <3>1. dropped'[c] = dropped[c] /\ (c \in closed' <=> c \in closed)
        BY <1>2, <2>2
      <3> QED BY <1>2, <1>3, <1>4, <3>1, LineSame DEF Types, Places
    <2> QED BY <2>1, <2>2
  <1>6. dropped' \in [Clients -> Nat]
    BY <1>2, <1>5
  <1>7. ops' \in [AllFds -> {"none", "queued", "flight", "done"}] /\ \A f \in AllFds : ops'[f] = "none"
    BY <1>2, <1>3 DEF Types
  <1>8. backlog' \in Seq(Clients) /\ cq' \in Seq(Completion) /\ conn' \in [Fds -> Clients \cup {None}]
        /\ Entries(backlog') = {} /\ Distinct(backlog') /\ \A f \in Fds : conn'[f] = None
    BY <1>2, EmptyEntries
  <1>9. Types'
    BY <1>2, <1>3, <1>4, <1>6, <1>7, <1>8 DEF Types
  <1>10. Places'
    BY <1>2, <1>3, <1>4, <1>5, <1>8 DEF Places
  <1>11. Events' /\ Requests'
    BY <1>2, <1>7, IdleEvents, IdleRequests
  <1> QED BY <1>4, <1>5, <1>9, <1>10, <1>11 DEF EchoInv

------------------------------------------------------------------------------
(***************************************************************************)
(* Waiting, starting, and the theorems.                                    *)
(***************************************************************************)
LEMMA ReadyEventsType ==
    ASSUME Types
    PROVE  /\ ReadyEvents \subseteq [fd : AllFds, hup : BOOLEAN]
           /\ \A d, e \in ReadyEvents : d.fd = e.fd => d = e
           /\ \A e \in ReadyEvents : e.fd # Listener => Readable(e.fd)
           /\ \A e \in ReadyEvents : e.fd = Listener => backlog # <<>>
           /\ \A e \in ReadyEvents : e.hup => e.fd # Listener /\ conn[e.fd] \in fin
           /\ IsFiniteSet(ReadyEvents) /\ Cardinality(ReadyEvents) \in 0..Cardinality(Clients) + 1
  <1>1. \A e \in ReadyEvents :
          \/ e.fd \in Fds /\ Readable(e.fd) /\ e = [fd |-> e.fd, hup |-> conn[e.fd] \in fin]
          \/ e.fd = Listener /\ e = [fd |-> Listener, hup |-> FALSE] /\ backlog # <<>>
    BY DEF ReadyEvents
  <1>2. ASSUME NEW e \in ReadyEvents PROVE e \in [fd : AllFds, hup : BOOLEAN] /\ e.fd \in AllFds
    <2>1. CASE e.fd \in Fds /\ e = [fd |-> e.fd, hup |-> conn[e.fd] \in fin]
      <3>1. PICK f \in AllFds : f = e.fd
        BY <2>1 DEF AllFds
      <3>2. e = [fd |-> f, hup |-> conn[f] \in fin]
        BY <2>1, <3>1
      <3> HIDE <2>1
      <3>3. e \in [fd : AllFds, hup : BOOLEAN]
        BY <3>2
      <3> QED BY <3>1, <3>3
    <2>2. CASE e.fd = Listener /\ e = [fd |-> Listener, hup |-> FALSE]
      BY <2>2 DEF AllFds
    <2> QED BY <1>1, <2>1, <2>2
  <1>3. \A d, e \in ReadyEvents : d.fd = e.fd => d = e
    <2> SUFFICES ASSUME NEW d \in ReadyEvents, NEW e \in ReadyEvents, d.fd = e.fd PROVE d = e
      OBVIOUS
    <2>1. PICK f \in AllFds : f = d.fd /\ f = e.fd
      BY <1>2
    <2>2. CASE f = Listener
      BY <1>1, <2>1, <2>2, Constants
    <2>3. CASE f # Listener
      BY <1>1, <2>1, <2>3
    <2> QED BY <2>2, <2>3
  <1>4. IsFiniteSet(AllFds) /\ Cardinality(AllFds) = Cardinality(Clients) + 1
    <2>1. AllFds = Fds \cup {Listener} /\ Listener \notin Fds /\ IsFiniteSet(Fds)
          /\ Cardinality(Fds) = Cardinality(Clients)
      BY Constants DEF AllFds
    <2> QED BY <2>1, FS_AddElement
  <1>5. IsFiniteSet(ReadyEvents) /\ Cardinality(ReadyEvents) =< Cardinality(AllFds)
    <2> DEFINE h == [e \in ReadyEvents |-> e.fd]
    <2>1. h \in [ReadyEvents -> AllFds]
      BY <1>2
    <2>2. \A d, e \in ReadyEvents : h[d] = h[e] => d = e
      BY <1>3
    <2> HIDE DEF h
    <2>3. h \in Injection(ReadyEvents, AllFds)
      BY <2>1, <2>2 DEF Injection, IsInjective
    <2> QED BY <1>4, <2>3, FS_Injection
  <1>6. Cardinality(ReadyEvents) \in 0..Cardinality(Clients) + 1
    BY <1>4, <1>5, FS_CardinalityType, Constants
  <1>7. /\ \A e \in ReadyEvents : e.fd # Listener => Readable(e.fd)
        /\ \A e \in ReadyEvents : e.fd = Listener => backlog # <<>>
    BY <1>1, Constants
  <1>9. ASSUME NEW e \in ReadyEvents, e.hup PROVE e.fd # Listener /\ conn[e.fd] \in fin
    <2>1. PICK f, h : f = e.fd /\ h = e.hup
      OBVIOUS
    <2>2. CASE f \in Fds /\ e = [fd |-> f, hup |-> conn[f] \in fin]
      <3>1. h = (conn[f] \in fin)
        BY <2>1, <2>2
      <3> QED BY <1>9, <2>1, <2>2, <3>1, Constants
    <2>3. CASE e = [fd |-> Listener, hup |-> FALSE]
      BY <1>9, <2>3
    <2> QED BY <1>1, <2>1, <2>2, <2>3
  <1>8. ReadyEvents \subseteq [fd : AllFds, hup : BOOLEAN]
    BY <1>2
  <1> QED BY <1>3, <1>5, <1>6, <1>7, <1>8, <1>9

(* Waiting fills the batch and may double the vector. *)
LEMMA WaitKeeps ==
    ASSUME EchoInv, up = "up", server \in {"epoll", "select"}, batch' \subseteq ReadyEvents,
           cap' \in 1..2 * (Cardinality(Clients) + 1),
           UNCHANGED <<server, shape, backlog, dropped, inputVars, clientVars, up,
                       conn, ops, cq, faulted, printed, closed>>
    PROVE  EchoInv'
  <1>1. Types /\ Places /\ Events /\ Requests /\ \A d \in Clients : Input(d) /\ Line(d)
    BY DEF EchoInv
  <1>2. /\ UNCHANGED <<typed, fetched, used, sent, cst, fin>> /\ \A d \in Clients : Input(d)'
    BY <1>1, ClientsAlone
  <1>3. \A d \in Clients : Line(d)'
    BY <1>1, <1>2, LineSame
  <1>4. Types'
    BY <1>1, <1>2, ReadyEventsType DEF Types
  <1>5. Places'
    BY <1>1, <1>2 DEF Places
  <1>6. \A f : Readable(f) => Readable(f)'
    BY <1>2 DEF Readable, Unread
  <1>7. Events'
    BY <1>1, <1>2, <1>6, ReadyEventsType DEF Events
  <1>8. Requests'
    BY <1>1, RequestsIdle
  <1> QED BY <1>2, <1>3, <1>4, <1>5, <1>7, <1>8 DEF EchoInv

LEMMA EpollWaitKeeps == ASSUME EchoInv, EpollWait PROVE EchoInv'
  <1>1. /\ up = "up" /\ server = "epoll"
        /\ UNCHANGED <<server, shape, backlog, dropped, inputVars, clientVars, up,
                       conn, ops, cq, faulted, printed, closed>>
    BY DEF EpollWait
  <1>2. PICK b \in SUBSET ReadyEvents :
          batch' = b /\ cap' = IF Cardinality(b) = cap THEN 2 * cap ELSE cap
    BY DEF EpollWait
  <1>3. PICK n \in Nat : n = Cardinality(Clients)
    BY Constants
  <1>4. PICK k \in Nat : k = cap /\ k >= 1 /\ k =< 2 * (n + 1)
    BY <1>3 DEF EchoInv, Types
  <1>5. PICK m \in Nat : m = Cardinality(b) /\ m =< n + 1
    <2>1. IsFiniteSet(ReadyEvents) /\ Cardinality(ReadyEvents) \in 0..n + 1
      BY <1>3, ReadyEventsType DEF EchoInv
    <2>2. Cardinality(b) \in Nat /\ Cardinality(b) =< Cardinality(ReadyEvents)
      BY <2>1, FS_Subset, FS_CardinalityType
    <2> QED BY <1>3, <2>1, <2>2
  <1>6. cap' \in 1..2 * (n + 1)
    BY <1>2, <1>3, <1>4, <1>5
  <1> QED BY <1>1, <1>2, <1>3, <1>6, WaitKeeps

LEMMA SelectWaitKeeps == ASSUME EchoInv, SelectWait PROVE EchoInv'
  <1>1. cap' \in 1..2 * (Cardinality(Clients) + 1)
    BY DEF SelectWait, EchoInv, Types
  <1> QED BY <1>1, WaitKeeps DEF SelectWait

(* A server that is off has nothing; setting up fails or it listens. *)
LEMMA SetUpKeeps ==
    ASSUME EchoInv, ServerOff, up' \in {"up", "down"},
           IF server = "uring" /\ up' = "up"
           THEN ops' = [ops EXCEPT ![Listener] = "queued"]
           ELSE ops' = ops
    PROVE  EchoInv'
  <1>1. /\ up = "off" /\ UNCHANGED <<server, shape, backlog, dropped, inputVars, clientVars>>
        /\ UNCHANGED <<conn, batch, cap, cq, faulted, printed, closed>>
    BY DEF ServerOff
  <1>2. Types /\ Places /\ Events /\ Requests /\ \A d \in Clients : Input(d) /\ Line(d)
    BY DEF EchoInv
  <1>3. /\ UNCHANGED <<typed, fetched, used, sent, cst, fin>> /\ \A d \in Clients : Input(d)'
    BY <1>1, <1>2, ClientsAlone
  <1>4. \A d \in Clients : Line(d)'
    BY <1>1, <1>2, <1>3, LineSame
  <1>5. Types'
    BY <1>1, <1>2, <1>3 DEF Types
  <1>6. Places'
    BY <1>1, <1>2, <1>3 DEF Places
  <1>7. Events'
    BY <1>1, <1>2, IdleEvents DEF Events
  <1>8. Entries(cq) = {} /\ cq = <<>> /\ \A f \in AllFds : ops[f] = "none"
    BY <1>1, <1>2, NoRequests
  <1>9. Requests'
    <2>1. CASE server = "uring" /\ up' = "up"
      <3>1. ops'[Listener] = "queued" /\ \A f \in Fds : ops'[f] = "none"
        BY <1>2, <1>8, <2>1, Constants DEF Types, AllFds
      <3>2. \A f \in Fds : conn[f] = None
        BY <1>1, <1>2 DEF Places
      <3>3. OnePerFd(cq') /\ Entries(cq') = {}
        BY <1>1, <1>8, EmptyEntries
      <3>4. \A f \in AllFds : ops'[f] # "done"
        BY <3>1 DEF AllFds
      <3> QED BY <1>1, <2>1, <3>1, <3>2, <3>3, <3>4 DEF Requests
    <2>2. CASE ~(server = "uring" /\ up' = "up")
      BY <1>1, <1>8, <2>2, IdleRequests
    <2> QED BY <2>1, <2>2
  <1> QED BY <1>3, <1>4, <1>5, <1>6, <1>7, <1>9 DEF EchoInv

LEMMA InitEchoInv == Init => EchoInv
  <1> SUFFICES ASSUME Init PROVE EchoInv
    OBVIOUS
  <1>1. /\ up = "off" /\ backlog = <<>> /\ conn = [f \in Fds |-> None] /\ batch = {} /\ cap = 1
        /\ ops = [f \in AllFds |-> "none"] /\ cq = <<>>
        /\ faulted = {} /\ closed = {} /\ eof = {} /\ fin = {}
        /\ \A c \in Clients : shape[c] \in Shapes[c]
    BY DEF Init, AllFds
  <1>2. /\ typed = [c \in Clients |-> 0] /\ fetched = [c \in Clients |-> 0]
        /\ used = [c \in Clients |-> 0] /\ sent = [c \in Clients |-> 0]
        /\ printed = [c \in Clients |-> 0] /\ dropped = [c \in Clients |-> 0]
        /\ cst = [c \in Clients |-> "new"]
    BY DEF Init
  <1>3. 1 \in 1..2 * (Cardinality(Clients) + 1)
    <2>1. PICK n \in Nat : n = Cardinality(Clients)
      BY Constants
    <2>2. 1 =< 2 * (n + 1)
      OBVIOUS
    <2> QED BY <2>1, <2>2
  <1>4. backlog \in Seq(Clients) /\ cq \in Seq(Completion)
    BY <1>1
  <1>5. Types
    BY <1>1, <1>2, <1>3, <1>4 DEF Types
  <1>6. ASSUME NEW c \in Clients PROVE Input(c) /\ Line(c)
    <2>1. PICK w \in Nat : w = Words(c)
      BY <1>5, WordsType
    <2>2. Input(c)
      BY <1>2, <2>1 DEF Input
    <2> QED BY <1>1, <1>2, <2>2 DEF Line
  <1>7. Places
    BY <1>1, <1>2, EmptyEntries DEF Places
  <1>8. Events
    BY <1>1 DEF Events
  <1>9. Requests
    BY <1>1, EmptyEntries DEF Requests
  <1> QED BY <1>5, <1>6, <1>7, <1>8, <1>9 DEF EchoInv

LEMMA StutterEchoInv == EchoInv /\ UNCHANGED vars => EchoInv'
  <1> SUFFICES ASSUME EchoInv, UNCHANGED vars PROVE EchoInv'
    OBVIOUS
  <1>1. UNCHANGED <<server, shape, backlog, dropped, typed, eof, fetched, used, sent, cst, fin,
                    up, conn, batch, cap, ops, cq, faults, faulted, printed, closed>>
    BY DEF vars, inputVars, clientVars, serverVars
  <1>2. Types' /\ Places' /\ Events'
    BY <1>1 DEF EchoInv, Types, Places, Events, Readable, Unread
  <1>3. \A c \in Clients : Input(c)' /\ Line(c)'
    BY <1>1 DEF EchoInv, Input, Line, Words
  <1>4. \A f : Handed(f)' = Handed(f)
    BY <1>1 DEF Handed
  <1>5. \A f, res : Fits(f, res) => Fits(f, res)'
    BY <1>1 DEF Fits, Unread
  <1>6. \A res : Gives(res)' = Gives(res)
    BY <1>1 DEF Gives
  <1>7. Requests'
    BY <1>1, <1>4, <1>5, <1>6 DEF EchoInv, Requests
  <1> QED BY <1>2, <1>3, <1>7 DEF EchoInv

LEMMA StepEchoInv == EchoInv /\ [Next]_vars => EchoInv'
  <1> SUFFICES ASSUME EchoInv, [Next]_vars PROVE EchoInv'
    OBVIOUS
  <1>1. CASE ServerStep
    <2>1. CASE EpollSetUp
      BY <2>1, SetUpKeeps DEF EpollSetUp
    <2>2. CASE SelectSetUp
      BY <2>2, SetUpKeeps DEF SelectSetUp
    <2>3. CASE UringSetUp
      BY <2>3, SetUpKeeps DEF UringSetUp
    <2>4. CASE EpollWait
      BY <2>4, EpollWaitKeeps
    <2>5. CASE EpollAccept
      BY <2>5, EpollAcceptKeeps
    <2>6. CASE EpollClient
      BY <2>6, EpollClientKeeps
    <2>7. CASE SelectWait
      BY <2>7, SelectWaitKeeps
    <2>8. CASE SelectAccept
      BY <2>8, SelectAcceptKeeps
    <2>9. CASE SelectClient
      BY <2>9, SelectClientKeeps
    <2>10. CASE UringSubmit
      BY <2>10, UringSubmitKeeps
    <2>11. CASE UringAccepted
      BY <2>11, UringAcceptedKeeps
    <2>12. CASE UringRead
      BY <2>12, UringReadKeeps
    <2> QED BY <1>1, <2>1, <2>2, <2>3, <2>4, <2>5, <2>6, <2>7, <2>8, <2>9, <2>10, <2>11, <2>12
            DEF ServerStep
  <1>2. CASE SetUpFails
    BY <1>2, SetUpKeeps DEF SetUpFails
  <1>3. CASE ServerDies
    BY <1>3, ServerDiesKeeps
  <1>4. CASE EpollRejects
    BY <1>4, EpollRejectsKeeps
  <1>5. CASE ReadFails
    BY <1>5, ReadFailsKeeps
  <1>10. CASE EpollAcceptFails
    BY <1>10, EpollAcceptFailsKeeps
  <1>11. CASE SelectAcceptFails
    BY <1>11, SelectAcceptFailsKeeps
  <1>6. CASE KernelAccepts
    BY <1>6, KernelAcceptsKeeps
  <1>7. ASSUME NEW f \in Fds, KernelReads(f) PROVE EchoInv'
    BY <1>7, KernelReadsKeeps
  <1>8. ASSUME NEW c \in Clients, ClientStep(c) \/ Type(c) \/ EndOfInput(c) PROVE EchoInv'
    <2>1. Types /\ Input(c) /\ Line(c)
      BY DEF EchoInv
    <2>2. ClientMoves(c)
      BY <1>8, <2>1, ClientStepMoves, TypeMoves, EndOfInputMoves
    <2> QED BY <2>2, ClientMovesKeep
  <1>9. CASE UNCHANGED vars
    BY <1>9, StutterEchoInv
  <1> QED BY <1>1, <1>2, <1>3, <1>4, <1>5, <1>6, <1>7, <1>8, <1>9,
             <1>10, <1>11 DEF Next

LEMMA EchoInvariant == Spec => []EchoInv
  BY InitEchoInv, StepEchoInv, PTL DEF Spec

\* net's programs: the descriptors, the batch, the vector's capacity and the
\* requests stay of their types, no socket buffer holds less than nothing, and
\* a client handles no line it has not read and sends none it has not handled.
THEOREM TypeCorrect == Spec => []TypeOK
  <1>1. ASSUME EchoInv PROVE TypeOK
    <2>1. Types /\ \A c \in Clients : Input(c) /\ Line(c)
      BY <1>1 DEF EchoInv
    <2>2. ASSUME NEW c \in Clients
          PROVE  /\ fetched[c] \in used[c]..typed[c]
                 /\ Unread(c) \in Nat /\ sent[c] =< used[c]
      <3>1. PICK s \in Nat, p \in Nat, o \in Nat : s = sent[c] /\ p = printed[c] /\ o = dropped[c]
        BY <2>1 DEF Types
      <3>2. p + o =< s
        BY <2>1, <3>1 DEF Line
      <3>3. Unread(c) \in Nat
        BY <3>1, <3>2 DEF Unread
      <3>4. fetched[c] \in used[c]..typed[c] /\ sent[c] =< used[c]
        BY <2>1 DEF Input, Types
      <3> QED BY <3>3, <3>4
    <2> QED BY <2>1, <2>2 DEF TypeOK, Types, AllFds
  <1> QED BY <1>1, EchoInvariant, PTL

\* Whatever the kinds of the server and of the clients, and whenever calls
\* fail: what reached a connection is printed or unread, but for the two ways
\* NothingLost names, and what a client handled it has sent.
THEOREM LinesAreNotLost == Spec => []NothingLost
  <1>1. ASSUME EchoInv PROVE NothingLost
    BY <1>1 DEF EchoInv, NothingLost, Input, Line
  <1> QED BY <1>1, EchoInvariant, PTL

\* net/iouring/server.cpp: the accept and one read of every open connection
\* are outstanding, each once, so that no buffer is given to two operations.
THEOREM BuffersAreNotShared == Spec => []OneOperationEach
  <1>1. ASSUME EchoInv PROVE OneOperationEach
    <2> SUFFICES ASSUME server = "uring", up = "up"
                 PROVE  /\ ops[Listener] # "none"
                        /\ \A f \in Fds :
                             (ops[f] # "none") <=>
                               (conn[f] # None
                                  /\ ~\E i \in DOMAIN cq : cq[i] = [fd |-> Listener, res |-> f])
                        /\ \A f \in DOMAIN ops :
                             Cardinality({i \in DOMAIN cq : cq[i].fd = f})
                               = IF ops[f] = "done" THEN 1 ELSE 0
      BY DEF OneOperationEach
    <2>1. Requests /\ Types
      BY <1>1 DEF EchoInv
    <2>2. \A f : Handed(f) <=> \E i \in DOMAIN cq : cq[i] = [fd |-> Listener, res |-> f]
      BY DEF Handed, Entries
    <2>3. /\ ops[Listener] # "none"
          /\ \A f \in Fds : (ops[f] # "none") <=> (conn[f] # None /\ ~Handed(f))
      BY <2>1 DEF Requests
    <2>4. \A f \in Fds :
            (ops[f] # "none") <=>
              (conn[f] # None
                 /\ ~\E i \in DOMAIN cq : cq[i] = [fd |-> Listener, res |-> f])
      BY <2>2, <2>3, Zenon
    <2>5. ASSUME NEW f \in AllFds
          PROVE  Cardinality({i \in DOMAIN cq : cq[i].fd = f}) = IF ops[f] = "done" THEN 1 ELSE 0
      <3>1. /\ OnePerFd(cq) /\ (ops[f] = "done" <=> \E x \in Entries(cq) : x.fd = f)
        BY <2>1 DEF Requests
      <3> QED BY <3>1, CountOfFd
    <2>6. DOMAIN ops = AllFds
      BY <2>1 DEF Types
    <2> QED BY <2>3, <2>4, <2>5, <2>6
  <1> QED BY <1>1, EchoInvariant, PTL

==============================================================================
