------------------------ MODULE FileServerProofs ------------------------
(***************************************************************************)
(* Proofs about FileServer: on one thread, responses that share a buffer   *)
(* do not mix and are as long as announced, for any number of connections  *)
(* and files, any size of a file and of the buffer.                        *)
(***************************************************************************)
EXTENDS FileServer, TLAPS

USE SizeAssumption, FileAssumption

---------------------------------------------------------------------------
(* Types.                                                                  *)

Places ==
    {"idle", "request", "running", "sending", "callback", "finishing", "done", "closed"}

Responses ==
    [at : Places, status : {0, 200, 400}, file : Files \cup {None},
     pos : 0..Size, length : 0..Size, sent : Seq(Units), out : Seq(Units)]

ThreadStates ==
    [pc : {"idle", "read", "write"}, conn : Conns \cup {None}, read_length : 0..BufferSize]

Types ==
    /\ disk \in [Files -> Seq({"data", "hole"})]
    /\ \A f \in Files : Len(disk[f]) <= Size
    /\ \A f \in Dirs : disk[f] = <<>>
    /\ conn \in [Conns -> Responses]
    /\ \A c \in Conns : Len(conn[c].out) <= BufferSize
    /\ thread \in [{1} -> ThreadStates]
    /\ buffer \in [Handlers -> [1..BufferSize -> Units \cup {None}]]

(* The one thread, and the connection it works for.                        *)
T == thread[1]

Busy ==
    T.pc # "idle" => T.conn \in Conns /\ conn[T.conn].at = "running"

(* Units that were read for a connection and are not in its response yet.  *)
Pending(c) == IF T.pc = "write" /\ T.conn = c THEN T.read_length ELSE 0

(* A response r of which n units are still in the buffer, over the files d. *)
Placed(r, n, d) ==
    /\ r.at \in {"idle", "request", "closed"} =>
         r.status = 0 /\ r.pos = 0 /\ r.sent = <<>>
    /\ r.at \notin {"sending", "finishing"} => r.out = <<>>
    /\ r.at \in {"running", "sending", "callback"} => r.status = 200
    /\ r.status = 200 =>
         r.file \in Files /\ (r.file \notin Dirs => r.length <= Len(d[r.file]))
    /\ r.file \in Files => r.pos <= Len(d[r.file])
    /\ r.status = 200 /\ r.at \in {"finishing", "done"} /\ r.file \notin Dirs =>
         r.length <= r.pos
    /\ Len(r.sent) + Len(r.out) + n = r.pos

Ordered(r) ==
    /\ \A i \in DOMAIN r.sent : r.sent[i].file = r.file /\ r.sent[i].at = i
    /\ \A i \in DOMAIN r.out  : r.out[i].file = r.file /\ r.out[i].at = Len(r.sent) + i

Position(c) == Placed(conn[c], Pending(c), disk)
Content(c)  == Ordered(conn[c])

(* Between filling the buffer and copying it, it holds what comes next.    *)
Filled ==
    T.pc = "write" =>
      LET r == conn[T.conn] IN
      /\ \A i \in 1..T.read_length :
           /\ buffer[handler(r.file)][i] \in Units
           /\ buffer[handler(r.file)][i].file = r.file
           /\ buffer[handler(r.file)][i].at = r.pos - T.read_length + i
      /\ T.read_length < BufferSize /\ r.file \notin Dirs => r.length <= r.pos

Inv ==
    /\ Types /\ Busy /\ Filled
    /\ \A c \in Conns : Position(c) /\ Content(c)

LEMMA OneThread == Threads = {1}
BY DEF Threads, thread_pool_size

LEMMA InvTypes == Inv => TypeOK
BY OneThread DEF Inv, Types, TypeOK, Responses, Places, ThreadStates

LEMMA EmptyResponse == NoResponse \in Responses /\ IdleThread \in ThreadStates
BY DEF NoResponse, Responses, Places, IdleThread, ThreadStates

LEMMA EmptyFields ==
  /\ NoResponse.at = "idle" /\ NoResponse.status = 0 /\ NoResponse.file = None
  /\ NoResponse.pos = 0 /\ NoResponse.length = 0 /\ NoResponse.sent = <<>>
  /\ NoResponse.out = <<>> /\ Len(<<>>) = 0 /\ DOMAIN <<>> = {}
  /\ None \notin Files
BY DEF NoResponse, Files

LEMMA InitInv == Init => Inv
<1> SUFFICES ASSUME Init PROVE Inv
  OBVIOUS
<1>1. Types
  <2>1. \A f \in Files : disk[f] \in Seq({"data", "hole"}) /\ Len(disk[f]) <= Size
    <3>1. [i \in 1..Size |-> "data"] \in Seq({"data", "hole"}) /\ Len([i \in 1..Size |-> "data"]) = Size
      OBVIOUS
    <3> QED BY <3>1 DEF Init
  <2>2. disk \in [Files -> Seq({"data", "hole"})]
    BY <2>1 DEF Init
  <2>3. \A f \in Dirs : disk[f] = <<>>
    BY DEF Init, Files
  <2> QED BY <2>1, <2>2, <2>3, OneThread, EmptyResponse DEF Init, Types, NoResponse
<1>2. T = IdleThread /\ \A c \in Conns : conn[c] = NoResponse
  BY OneThread DEF Init, T
<1>3. Busy /\ Filled
  BY <1>2 DEF Busy, Filled, IdleThread
<1>4. \A c \in Conns : Position(c) /\ Content(c)
  <2>1. \A f \in Files : 0 <= Len(disk[f])
    BY <1>1 DEF Types
  <2>2. \A c \in Conns : Pending(c) = 0
    BY <1>2 DEF Pending, IdleThread
  <2>3. Placed(NoResponse, 0, disk) /\ Ordered(NoResponse)
    BY <2>1, EmptyFields DEF Placed, Ordered
  <2> QED BY <1>2, <2>2, <2>3 DEF Position, Content
<1> QED BY <1>1, <1>3, <1>4 DEF Inv

---------------------------------------------------------------------------
(* Files only grow.                                                        *)

Grown == \A f \in Files : Len(disk[f]) \in Nat /\ Len(disk'[f]) \in Nat /\ Len(disk[f]) <= Len(disk'[f])

LEMMA NotGrown == Types /\ UNCHANGED disk => Grown
BY DEF Types, Grown

LEMMA StillPlaced ==
  ASSUME NEW r, NEW n, NEW d, NEW e, Placed(r, n, d), r.length \in Nat, r.pos \in Nat,
         \A f \in Files : Len(d[f]) \in Nat /\ Len(e[f]) \in Nat /\ Len(d[f]) <= Len(e[f])
  PROVE  Placed(r, n, e)
<1>1. r.status = 200 =>
        r.file \in Files /\ (r.file \notin Dirs => r.length <= Len(e[r.file]))
  <2> SUFFICES ASSUME r.status = 200
               PROVE  r.file \in Files /\ (r.file \notin Dirs => r.length <= Len(e[r.file]))
    OBVIOUS
  <2>1. r.file \in Files /\ (r.file \notin Dirs => r.length <= Len(d[r.file]))
    BY DEF Placed
  <2> QED BY <2>1
<1>2. r.file \in Files => r.pos <= Len(e[r.file])
  <2> SUFFICES ASSUME r.file \in Files PROVE r.pos <= Len(e[r.file])
    OBVIOUS
  <2>1. r.pos <= Len(d[r.file])
    BY DEF Placed
  <2> QED BY <2>1
<1> QED BY <1>1, <1>2, Zenon DEF Placed

(* A connection that a step leaves alone.                                  *)
LEMMA LeftAlone ==
  ASSUME Inv, Grown, NEW c \in Conns, conn'[c] = conn[c], Pending(c)' = Pending(c)
  PROVE  Position(c)' /\ Content(c)'
<1>1. conn[c].pos \in Nat /\ conn[c].length \in Nat
  BY DEF Inv, Types, Responses
<1>2. Placed(conn[c], Pending(c), disk) /\ Ordered(conn[c])
  BY DEF Inv, Position, Content
<1>3. Placed(conn[c], Pending(c), disk')
  BY <1>1, <1>2, StillPlaced DEF Grown
<1> QED BY <1>2, <1>3 DEF Position, Content

LEMMA WriteSteps ==
  ASSUME Inv, NEW f \in Files, NEW i \in 1..Size, WritePiece(f, i)
  PROVE  Inv'
<1>1. UNCHANGED <<conn, thread, buffer>> /\ T' = T
  BY DEF WritePiece, T
<1> DEFINE n == IF i > Len(disk[f]) THEN i ELSE Len(disk[f])
           s == [j \in 1..n |-> IF j = i THEN "data"
                                ELSE IF j <= Len(disk[f]) THEN disk[f][j] ELSE "hole"]
<1>2. n \in Nat /\ n <= Size /\ Len(disk[f]) <= n /\ Len(disk[f]) \in Nat
  BY DEF Inv, Types
<1>3. \A j \in 1..Len(disk[f]) : disk[f][j] \in {"data", "hole"}
  BY DEF Inv, Types
<1>4. disk' = [disk EXCEPT ![f] = s]
  BY DEF WritePiece
<1>5. s \in Seq({"data", "hole"}) /\ Len(s) = n
  <2> HIDE DEF n
  <2>1. \A j \in 1..n : s[j] \in {"data", "hole"}
    BY <1>2, <1>3
  <2>2. s \in [1..n -> {"data", "hole"}]
    BY <2>1
  <2> QED BY <1>2, <2>2
<1> HIDE DEF s, n
<1>6. Types'
  <2>1. \A g \in Dirs : g # f
    BY DEF WritePiece
  <2>2. \A g \in Dirs : disk'[g] = <<>>
    BY <1>4, <2>1 DEF Inv, Types, Files
  <2> QED BY <1>1, <1>2, <1>4, <1>5, <2>2 DEF Inv, Types
<1>7. Grown
  BY <1>2, <1>4, <1>5 DEF Inv, Types, Grown
<1>8. \A c \in Conns : Position(c)' /\ Content(c)'
  BY <1>1, <1>7, LeftAlone DEF Pending
<1>9. Busy' /\ Filled'
  BY <1>1 DEF Inv, Busy, Filled
<1> QED BY <1>6, <1>8, <1>9 DEF Inv

---------------------------------------------------------------------------
(* Steps of clients and of sends change one response, and not that of the  *)
(* thread.                                                                 *)
LEMMA ConnSteps ==
  ASSUME Inv, NEW c \in Conns, NEW r \in Responses,
         conn' = [conn EXCEPT ![c] = r],
         UNCHANGED <<disk, thread, buffer>>,
         conn[c].at # "running", r.at # "running", Len(r.out) <= BufferSize,
         Position(c)', Content(c)'
  PROVE  Inv'
<1>1. Types'
  BY DEF Inv, Types
<1>2. T' = T /\ (T.pc # "idle" => T.conn # c /\ T.conn \in Conns)
  BY DEF Inv, Busy, T
<1>3. \A d \in Conns : d # c => conn'[d] = conn[d]
  BY DEF Inv, Types
<1>4. ASSUME NEW d \in Conns PROVE Position(d)' /\ Content(d)'
  <2>1. Grown
    BY NotGrown DEF Inv
  <2>2. CASE d # c
    BY <1>2, <1>3, <2>1, <2>2, LeftAlone DEF Pending
  <2> QED BY <2>2
<1>5. Busy' /\ Filled'
  <2>1. T.pc # "idle" => conn'[T.conn] = conn[T.conn]
    BY <1>2, <1>3
  <2>2. Busy'
    BY <1>2, <2>1 DEF Inv, Busy
  <2>3. Filled'
    BY <1>2, <2>1 DEF Inv, Filled
  <2> QED BY <2>2, <2>3
<1> QED BY <1>1, <1>4, <1>5 DEF Inv

(* The thread does not work for a connection that is not running.          *)
LEMMA NothingPending == ASSUME Inv, NEW c \in Conns, conn[c].at # "running" PROVE Pending(c) = 0
BY DEF Inv, Busy, Pending

LEMMA FreshSteps ==
  ASSUME Inv, NEW c \in Conns, Connect(c) \/ Fails(c) \/ \E f \in Files \cup {None} : Ask(c, f)
  PROVE  Inv'
<1>1. PICK r \in Responses :
        /\ conn' = [conn EXCEPT ![c] = r]
        /\ r.at \in {"idle", "request", "closed"} /\ r.status = 0 /\ r.pos = 0
        /\ r.sent = <<>> /\ r.out = <<>>
        /\ conn[c].at # "running" /\ UNCHANGED <<disk, thread, buffer>>
  <2>1. CASE Connect(c)
    BY <2>1, EmptyResponse, EmptyFields DEF Connect
  <2>2. CASE Fails(c)
    <3> DEFINE r == [NoResponse EXCEPT !.at = "closed"]
    <3>1. /\ r \in Responses /\ r.at = "closed" /\ r.status = 0 /\ r.pos = 0
          /\ r.sent = <<>> /\ r.out = <<>>
      BY EmptyResponse, EmptyFields DEF Responses, Places
    <3> QED BY <2>2, <3>1 DEF Fails
  <2>3. ASSUME NEW f \in Files \cup {None}, Ask(c, f)
        PROVE  \E r \in Responses :
                 /\ conn' = [conn EXCEPT ![c] = r]
                 /\ r.at \in {"idle", "request", "closed"} /\ r.status = 0 /\ r.pos = 0
                 /\ r.sent = <<>> /\ r.out = <<>>
                 /\ conn[c].at # "running" /\ UNCHANGED <<disk, thread, buffer>>
    <3> DEFINE r == [NoResponse EXCEPT !.at = "request", !.file = f]
    <3>1. r \in Responses
      BY EmptyResponse DEF Responses, Places
    <3>2. /\ r.at = "request" /\ r.status = 0 /\ r.pos = 0
          /\ r.sent = <<>> /\ r.out = <<>>
      BY EmptyResponse, EmptyFields DEF Responses
    <3> QED BY <2>3, <3>1, <3>2 DEF Ask
  <2> QED BY <2>1, <2>2, <2>3
<1>2. conn'[c] = r /\ Pending(c)' = 0
  BY <1>1, NothingPending DEF Inv, Types, Pending, T
<1>3. Position(c)' /\ Content(c)'
  <2>1. \A g \in Files : 0 <= Len(disk'[g])
    BY <1>1 DEF Inv, Types
  <2>2. Placed(r, 0, disk') /\ Ordered(r)
    BY <1>1, <2>1, EmptyFields DEF Placed, Ordered
  <2> QED BY <1>2, <2>2 DEF Position, Content
<1>4. Len(r.out) <= BufferSize /\ r.at # "running"
  BY <1>1, EmptyFields
<1> QED BY <1>1, <1>3, <1>4, ConnSteps

(* The parts of a concatenation.                                           *)
LEMMA Concatenation ==
  ASSUME NEW S, NEW s \in Seq(S), NEW t \in Seq(S)
  PROVE  /\ s \o t \in Seq(S) /\ Len(s \o t) = Len(s) + Len(t)
         /\ \A i \in DOMAIN (s \o t) :
              \/ i \in DOMAIN s /\ (s \o t)[i] = s[i]
              \/ i - Len(s) \in DOMAIN t /\ (s \o t)[i] = t[i - Len(s)] /\ i = Len(s) + (i - Len(s))
OBVIOUS

(* What is sent followed by what is to be sent is in order.                *)
LEMMA InOrder ==
  ASSUME NEW r, r.sent \in Seq(Units), r.out \in Seq(Units), Ordered(r),
         NEW i \in DOMAIN (r.sent \o r.out)
  PROVE  (r.sent \o r.out)[i].file = r.file /\ (r.sent \o r.out)[i].at = i
<1> DEFINE s == r.sent
           t == r.out
<1>1. /\ s \in Seq(Units) /\ t \in Seq(Units) /\ i \in DOMAIN (s \o t)
      /\ \A j \in DOMAIN s : s[j].file = r.file /\ s[j].at = j
      /\ \A j \in DOMAIN t : t[j].file = r.file /\ t[j].at = Len(s) + j
  BY DEF Ordered
<1> SUFFICES (s \o t)[i].file = r.file /\ (s \o t)[i].at = i
  OBVIOUS
<1> HIDE DEF s, t
<1>2. CASE i \in DOMAIN s /\ (s \o t)[i] = s[i]
  BY <1>1, <1>2
<1>3. CASE i - Len(s) \in DOMAIN t /\ (s \o t)[i] = t[i - Len(s)] /\ i = Len(s) + (i - Len(s))
  BY <1>1, <1>3
<1> QED BY <1>1, <1>2, <1>3, Concatenation

LEMMA SentSteps ==
  ASSUME Inv, NEW c \in Conns, Sent(c)
  PROVE  Inv'
<1> DEFINE q == conn[c]
           a == IF q.at = "sending" THEN "callback" ELSE "done"
           w == q.sent \o q.out
           r == [q EXCEPT !.sent = w, !.out = <<>>, !.at = a]
<1>1. /\ q \in Responses /\ q.sent \in Seq(Units) /\ q.out \in Seq(Units)
      /\ q.at \in {"sending", "finishing"}
  BY DEF Sent, Inv, Types, Responses
<1>2. conn' = [conn EXCEPT ![c] = r] /\ UNCHANGED <<disk, thread, buffer>>
  BY DEF Sent, Consumed
<1>3. /\ w \in Seq(Units) /\ Len(w) = Len(q.sent) + Len(q.out)
      /\ Len(q.sent) \in Nat /\ Len(q.out) \in Nat /\ a \in Places /\ <<>> \in Seq(Units)
  <2>1. w \in Seq(Units) /\ Len(w) = Len(q.sent) + Len(q.out)
    BY <1>1, Concatenation
  <2> QED BY <1>1, <2>1 DEF Places
<1>4. q.at = "sending" => q.status = 200
  BY DEF Inv, Position, Placed
<1>5. Pending(c) = 0
  BY <1>1, NothingPending
<1>6. Placed(q, 0, disk) /\ Ordered(q)
  BY <1>5 DEF Inv, Position, Content
<1>7. \A i \in DOMAIN w : w[i].file = q.file /\ w[i].at = i
  BY <1>1, <1>6, InOrder
<1> HIDE DEF q, w, a
<1>8. /\ r \in Responses /\ r.sent = w /\ r.out = <<>> /\ r.at = a /\ r.status = q.status
      /\ r.file = q.file /\ r.pos = q.pos /\ r.length = q.length
  BY <1>1, <1>3 DEF Responses
<1> HIDE DEF r
<1>9. conn'[c] = r /\ Pending(c)' = 0 /\ r.at # "running"
  BY <1>1, <1>2, <1>5, <1>8 DEF Inv, Types, Pending, T, a, q
<1>10. Position(c)'
  <2>1. Len(r.sent) + Len(r.out) + 0 = r.pos
    <3>1. Len(q.sent) + Len(q.out) + 0 = q.pos
      BY <1>6 DEF Placed
    <3>2. Len(r.out) = 0 /\ Len(r.sent) = Len(q.sent) + Len(q.out)
      BY <1>3, <1>8, EmptyFields
    <3>3. Len(q.sent) \in Nat /\ Len(q.out) \in Nat /\ r.pos = q.pos
      BY <1>3, <1>8
    <3> DEFINE x == Len(q.sent)
               y == Len(q.out)
    <3>4. x \in Nat /\ y \in Nat /\ x + y + 0 = q.pos /\ r.pos = q.pos
          /\ Len(r.sent) = x + y /\ Len(r.out) = 0
      BY <3>1, <3>2, <3>3
    <3> HIDE DEF x, y
    <3> QED BY <3>4
  <2>2. Placed(r, 0, disk)
    BY <1>1, <1>4, <1>6, <1>8, <2>1 DEF Placed, a, q
  <2> QED BY <1>2, <1>9, <2>2 DEF Position
<1>11. Content(c)'
  <2>1. Ordered(r)
    BY <1>7, <1>8, EmptyFields DEF Ordered
  <2> QED BY <1>9, <2>1 DEF Content
<1>12. Len(r.out) <= BufferSize
  BY <1>8, EmptyFields
<1>13. conn[c].at # "running"
  BY <1>1 DEF q
<1> QED BY <1>2, <1>8, <1>9, <1>10, <1>11, <1>12, <1>13, ConnSteps

---------------------------------------------------------------------------
(* Steps of the thread.                                                    *)

(* It takes a connection up, which becomes "running".                      *)
LEMMA TakenUp ==
  ASSUME Inv, NEW c \in Conns, NEW r \in Responses,
         conn' = [conn EXCEPT ![c] = r], UNCHANGED <<disk, buffer>>,
         thread' = [thread EXCEPT ![1] = [pc |-> "read", conn |-> c, read_length |-> 0]],
         T.pc = "idle", r.at = "running", Len(r.out) <= BufferSize,
         Position(c)', Content(c)'
  PROVE  Inv'
<1>1. T' = [pc |-> "read", conn |-> c, read_length |-> 0]
  BY DEF Inv, Types, T
<1>2. Types'
  BY DEF Inv, Types, ThreadStates
<1>3. conn'[c] = r /\ \A d \in Conns : d # c => conn'[d] = conn[d]
  BY DEF Inv, Types
<1>4. ASSUME NEW d \in Conns PROVE Position(d)' /\ Content(d)'
  <2>1. Grown
    BY NotGrown DEF Inv
  <2>2. CASE d # c
    BY <1>1, <1>3, <2>1, <2>2, LeftAlone DEF Pending
  <2> QED BY <2>2
<1>5. Busy' /\ Filled'
  BY <1>1, <1>3 DEF Busy, Filled
<1> QED BY <1>2, <1>4, <1>5 DEF Inv

LEMMA OpenSteps ==
  ASSUME Inv, NEW c \in Conns, Open(1, c)
  PROVE  Inv'
<1>1. /\ conn[c] \in Responses /\ conn[c].at = "request" /\ T.pc = "idle"
      /\ Placed(conn[c], Pending(c), disk)
  BY DEF Open, Inv, Types, Position, T
<1>2. /\ conn[c].out = <<>> /\ conn[c].sent = <<>> /\ conn[c].pos = 0 /\ conn[c].status = 0
      /\ conn[c].file \in Files \cup {None} /\ conn[c].length \in 0..Size
  BY <1>1 DEF Placed, Responses
<1>3. CASE /\ conn[c].file \in Dirs \cup {None}
           /\ conn' = [conn EXCEPT ![c] = [@ EXCEPT !.status = 400, !.at = "finishing"]]
           /\ UNCHANGED thread
  <2> DEFINE st == 400
             a == "finishing"
             r == [conn[c] EXCEPT !.status = st, !.at = a]
  <2>1. conn' = [conn EXCEPT ![c] = r] /\ UNCHANGED <<disk, thread, buffer>>
    BY <1>3 DEF Open
  <2>2. st \in {0, 200, 400} /\ a \in Places /\ st # 200 /\ st # 0 /\ a = "finishing"
    BY DEF Places
  <2> HIDE DEF st, a
  <2>3. r \in Responses
    BY <1>1, <2>2 DEF Responses
  <2>4. /\ r.at = a /\ r.status = st /\ r.file = conn[c].file /\ r.out = conn[c].out
        /\ r.sent = conn[c].sent /\ r.pos = conn[c].pos
    BY <1>1 DEF Responses
  <2> HIDE DEF r
  <2>5. r.at # "running" /\ conn[c].at # "running" /\ Len(r.out) <= BufferSize
    BY <1>1, <1>2, <2>2, <2>4, EmptyFields
  <2>6. conn'[c] = r /\ Pending(c)' = 0
    BY <1>1, <2>1, NothingPending DEF Inv, Types, Pending, T
  <2>7. Placed(r, 0, disk') /\ Ordered(r)
    BY <1>2, <1>3, <2>2, <2>4, EmptyFields DEF Placed, Ordered
  <2>8. Position(c)' /\ Content(c)'
    BY <2>6, <2>7 DEF Position, Content
  <2> QED BY <2>1, <2>3, <2>5, <2>8, ConnSteps
<1>4. ASSUME conn[c].file \in Files, NEW l \in Lengths(conn[c].file),
             conn' = [conn EXCEPT ![c] = [@ EXCEPT !.status = 200, !.at = "running",
                                            !.length = l]],
             thread' = [thread EXCEPT ![1] = [pc |-> "read", conn |-> c, read_length |-> 0]]
      PROVE  Inv'
  <2> DEFINE st == 200
             a == "running"
             r == [conn[c] EXCEPT !.status = st, !.at = a, !.length = l]
  <2>1. /\ conn' = [conn EXCEPT ![c] = r] /\ UNCHANGED <<disk, buffer>>
        /\ thread' = [thread EXCEPT ![1] = [pc |-> "read", conn |-> c, read_length |-> 0]]
    BY <1>4 DEF Open
  <2>2. l \in 0..Size /\ (conn[c].file \notin Dirs => l = Len(disk[conn[c].file]))
    <3>1. Len(disk[conn[c].file]) \in 0..Size
      BY <1>4 DEF Inv, Types
    <3> QED BY <1>4, <3>1 DEF Lengths
  <2>3. st \in {0, 200, 400} /\ a \in Places /\ st = 200 /\ a = "running"
    BY DEF Places
  <2> HIDE DEF st, a
  <2>4. r \in Responses
    BY <1>1, <2>2, <2>3 DEF Responses
  <2>5. /\ r.at = a /\ r.status = st /\ r.file = conn[c].file /\ r.out = conn[c].out
        /\ r.sent = conn[c].sent /\ r.pos = conn[c].pos /\ r.length = l
    BY <1>1 DEF Responses
  <2> HIDE DEF r
  <2>6. conn'[c] = r /\ Pending(c)' = 0
    BY <2>1 DEF Inv, Types, Pending, T
  <2>7. Placed(r, 0, disk) /\ Ordered(r)
    BY <1>1, <1>2, <1>4, <2>2, <2>3, <2>5, EmptyFields DEF Placed, Ordered
  <2>8. Position(c)' /\ Content(c)'
    BY <2>1, <2>6, <2>7 DEF Position, Content
  <2>9. Len(r.out) <= BufferSize /\ r.at = "running"
    BY <1>2, <2>3, <2>5, EmptyFields
  <2> QED BY <1>1, <2>1, <2>4, <2>8, <2>9, TakenUp
<1> QED BY <1>3, <1>4 DEF Open

LEMMA CallbackSteps ==
  ASSUME Inv, NEW c \in Conns, Callback(1, c)
  PROVE  Inv'
<1> DEFINE r == [conn[c] EXCEPT !.at = "running"]
<1>1. conn[c] \in Responses /\ conn[c].at = "callback" /\ T.pc = "idle"
      /\ Position(c) /\ Content(c)
  BY DEF Callback, Inv, Types, T
<1>2. /\ conn' = [conn EXCEPT ![c] = r] /\ UNCHANGED <<disk, buffer>>
      /\ thread' = [thread EXCEPT ![1] = [pc |-> "read", conn |-> c, read_length |-> 0]]
  BY DEF Callback
<1>3. /\ r \in Responses /\ r.at = "running" /\ r.status = conn[c].status
      /\ r.file = conn[c].file /\ r.out = conn[c].out /\ r.sent = conn[c].sent
      /\ r.pos = conn[c].pos /\ r.length = conn[c].length
  BY <1>1 DEF Responses, Places
<1>4. conn'[c] = r /\ Pending(c)' = 0 /\ Pending(c) = 0
  BY <1>1, <1>2 DEF Inv, Types, Pending, T
<1> HIDE DEF r
<1>5. Placed(conn[c], 0, disk) /\ Ordered(conn[c])
  BY <1>1, <1>4 DEF Position, Content
<1>6. Placed(r, 0, disk) /\ Ordered(r)
  BY <1>1, <1>3, <1>5 DEF Placed, Ordered
<1>7. Position(c)' /\ Content(c)'
  BY <1>2, <1>4, <1>6 DEF Position, Content
<1>8. Len(r.out) <= BufferSize
  BY <1>3 DEF Inv, Types
<1> QED BY <1>1, <1>2, <1>3, <1>7, <1>8, TakenUp

(* A read stays within the file, and a short one comes to its end.         *)
LEMMA Reads ==
  ASSUME NEW f \in Files, NEW p \in Nat, Len(disk[f]) \in Nat, p <= Len(disk[f])
  PROVE  /\ Available(f, p) \in 0..BufferSize /\ p + Available(f, p) <= Len(disk[f])
         /\ Available(f, p) < BufferSize => p + Available(f, p) = Len(disk[f])
BY DEF Available

LEMMA ReadSteps == Inv /\ read(1) => Inv'
<1> SUFFICES ASSUME Inv, read(1) PROVE Inv'
  OBVIOUS
<1> DEFINE c == T.conn
           f == conn[c].file
           p == conn[c].pos
           n == Available(f, p)
           r == [conn[c] EXCEPT !.pos = p + n]
           b == [i \in 1..BufferSize |->
                   IF i <= n THEN [file |-> f, at |-> p + i, holds |-> disk[f][p + i]]
                   ELSE buffer[handler(f)][i]]
<1>1. /\ T \in ThreadStates /\ T.pc = "read" /\ c \in Conns /\ conn[c].at = "running"
      /\ conn[c] \in Responses
  BY DEF read, Inv, Types, Busy, T
<1>2. /\ f \in Files /\ p \in Nat /\ Len(disk[f]) \in Nat /\ p <= Len(disk[f])
      /\ Len(disk[f]) <= Size /\ (f \notin Dirs => conn[c].length <= Len(disk[f]))
      /\ conn[c].length \in Nat
      /\ conn[c].out = <<>> /\ conn[c].status = 200 /\ Len(conn[c].sent) \in Nat
      /\ Len(conn[c].sent) = p /\ Ordered(conn[c])
  <2>1. Placed(conn[c], 0, disk) /\ Ordered(conn[c])
    BY <1>1 DEF Inv, Position, Content, Pending
  <2> DEFINE q == conn[c]
  <2>2. q.at = "running" /\ Placed(q, 0, disk)
    BY <1>1, <2>1
  <2>3. /\ q.pos \in Nat /\ q.length \in Nat /\ Len(q.sent) \in Nat
        /\ q.sent \in Seq(Units)
    BY <1>1 DEF Responses
  <2> HIDE DEF q
  <2>4. /\ q.status = 200 /\ q.out = <<>> /\ q.file \in Files
        /\ q.file \notin Dirs => q.length <= Len(disk[q.file])
        /\ q.pos <= Len(disk[q.file]) /\ Len(q.sent) + Len(q.out) + 0 = q.pos
    BY <2>2 DEF Placed
  <2>5. Len(q.sent) = q.pos
    BY <2>3, <2>4, EmptyFields
  <2>6. Len(disk[q.file]) \in Nat /\ Len(disk[q.file]) <= Size
    BY <2>4 DEF Inv, Types
  <2> QED BY <2>1, <2>3, <2>4, <2>5, <2>6 DEF q
<1>3. n \in 0..BufferSize /\ p + n <= Len(disk[f]) /\ (n < BufferSize => p + n = Len(disk[f]))
  BY <1>2, Reads
<1>4. /\ conn' = [conn EXCEPT ![c] = r] /\ buffer' = [buffer EXCEPT ![handler(f)] = b]
      /\ thread' = [thread EXCEPT ![1].pc = "write", ![1].read_length = n]
      /\ UNCHANGED disk
  BY DEF read, T
<1>5. T' = [T EXCEPT !.pc = "write", !.read_length = n]
  BY <1>4 DEF Inv, Types, T
<1> HIDE DEF n
<1>6. T'.pc = "write" /\ T'.conn = c /\ T'.read_length = n /\ T' \in ThreadStates
  BY <1>1, <1>3, <1>5 DEF ThreadStates
<1>7. /\ r \in Responses /\ r.pos = p + n /\ r.at = "running" /\ r.status = 200 /\ r.file = f
      /\ r.length = conn[c].length /\ r.sent = conn[c].sent /\ r.out = <<>>
  BY <1>1, <1>2, <1>3 DEF Responses
<1>8. handler(f) \in Handlers
  BY DEF handler, Handlers
<1>9. \A i \in 1..n : i \in 1..BufferSize /\ b[i] \in Units /\ b[i].file = f /\ b[i].at = p + i
  <2> SUFFICES ASSUME NEW i \in 1..n
               PROVE  i \in 1..BufferSize /\ b[i] \in Units /\ b[i].file = f /\ b[i].at = p + i
    OBVIOUS
  <2>1. i \in 1..BufferSize /\ p + i \in 1..Len(disk[f]) /\ p + i \in 1..Size
    <3> DEFINE l == Len(disk[f])
    <3>1. /\ i \in Nat \ {0} /\ i <= n /\ n <= BufferSize /\ n \in Nat /\ p \in Nat
          /\ p + n <= l /\ l <= Size /\ l \in Nat
      BY <1>2, <1>3
    <3> HIDE DEF l, p
    <3>2. i \in 1..BufferSize /\ p + i \in 1..l /\ p + i \in 1..Size
      BY <3>1
    <3> QED BY <3>2 DEF l
  <2>2. disk[f][p + i] \in {"data", "hole"}
    BY <1>2, <2>1 DEF Inv, Types
  <2>3. b[i] = [file |-> f, at |-> p + i, holds |-> disk[f][p + i]]
    BY <1>3, <2>1
  <2> HIDE DEF b
  <2> QED BY <1>2, <2>1, <2>2, <2>3 DEF Units
<1>10. b \in [1..BufferSize -> Units \cup {None}]
  <2>1. \A i \in 1..BufferSize : i <= n => i \in 1..n
    BY <1>3
  <2>2. \A i \in 1..BufferSize : ~(i <= n) => b[i] \in Units \cup {None}
    BY <1>8 DEF Inv, Types
  <2>3. \A i \in 1..BufferSize : b[i] \in Units \cup {None}
    BY <1>9, <2>1, <2>2
  <2> QED BY <2>3
<1>11. buffer'[handler(f)] = b /\ conn'[c] = r /\ \A d \in Conns : d # c => conn'[d] = conn[d]
  BY <1>1, <1>4, <1>8 DEF Inv, Types
<1> HIDE DEF r, b
<1>12. Types'
  <2>1. buffer' \in [Handlers -> [1..BufferSize -> Units \cup {None}]]
    BY <1>4, <1>10 DEF Inv, Types
  <2>2. thread' \in [{1} -> ThreadStates]
    BY <1>4, <1>6 DEF Inv, Types, T
  <2>3. conn' \in [Conns -> Responses] /\ \A d \in Conns : Len(conn'[d].out) <= BufferSize
    <3>1. Len(r.out) <= BufferSize
      BY <1>7, EmptyFields
    <3> QED BY <1>4, <1>7, <3>1 DEF Inv, Types
  <2> QED BY <1>4, <2>1, <2>2, <2>3 DEF Inv, Types
<1>13. Busy'
  BY <1>1, <1>6, <1>7, <1>11 DEF Busy
<1>14. Filled'
  <2>1. \A i \in 1..n : p + i = r.pos - n + i
    BY <1>2, <1>3, <1>7
  <2>2. n < BufferSize /\ r.file \notin Dirs => r.length <= r.pos
    BY <1>2, <1>3, <1>7
  <2> QED BY <1>6, <1>7, <1>9, <1>11, <2>1, <2>2 DEF Filled
<1>15. ASSUME NEW d \in Conns PROVE Position(d)' /\ Content(d)'
  <2>1. CASE d # c
    <3>1. Grown /\ Pending(d)' = Pending(d)
      BY <1>1, <1>4, <1>6, <2>1, NotGrown DEF Inv, Pending
    <3> QED BY <1>11, <2>1, <3>1, LeftAlone
  <2>2. CASE d = c
    <3>1. Pending(d)' = n
      BY <1>6, <2>2 DEF Pending
    <3>2. Len(r.sent) + Len(r.out) + n = r.pos
      BY <1>2, <1>3, <1>7, EmptyFields
    <3>3. Placed(r, n, disk)
      BY <1>2, <1>3, <1>7, <3>2, EmptyFields DEF Placed
    <3>4. Ordered(r)
      BY <1>2, <1>7, EmptyFields DEF Ordered
    <3> QED BY <1>4, <1>11, <2>2, <3>1, <3>3, <3>4 DEF Position, Content
  <2> QED BY <2>1, <2>2
<1> QED BY <1>12, <1>13, <1>14, <1>15 DEF Inv

LEMMA CopySteps == Inv /\ write(1) => Inv'
<1> SUFFICES ASSUME Inv, write(1) PROVE Inv'
  OBVIOUS
<1> DEFINE c == T.conn
           n == T.read_length
           s == [i \in 1..n |-> buffer[handler(conn[c].file)][i]]
           a == IF GoesOn(n) THEN "sending" ELSE "finishing"
           r == [conn[c] EXCEPT !.out = conn[c].out \o s, !.at = a]
<1>1. /\ T.pc = "write" /\ c \in Conns /\ conn[c].at = "running" /\ conn[c] \in Responses
      /\ n \in 0..BufferSize /\ Position(c) /\ Content(c) /\ Pending(c) = n
  BY DEF write, Inv, Types, Busy, Pending, T, ThreadStates
<1>2. /\ conn[c].out = <<>> /\ conn[c].status = 200 /\ conn[c].sent \in Seq(Units)
      /\ Len(conn[c].sent) \in Nat /\ conn[c].pos \in Nat
      /\ Len(conn[c].sent) + n = conn[c].pos
      /\ conn[c].file \in Files
      /\ conn[c].file \notin Dirs => conn[c].length <= Len(disk[conn[c].file])
      /\ conn[c].pos <= Len(disk[conn[c].file])
  <2> DEFINE q == conn[c]
  <2>1. q.at = "running" /\ Placed(q, n, disk)
    BY <1>1 DEF Position
  <2>2. q.pos \in Nat /\ Len(q.sent) \in Nat /\ q.sent \in Seq(Units) /\ n \in Nat
    BY <1>1 DEF Responses
  <2> HIDE DEF q, n
  <2>3. /\ q.status = 200 /\ q.out = <<>> /\ q.file \in Files
        /\ q.file \notin Dirs => q.length <= Len(disk[q.file])
        /\ q.pos <= Len(disk[q.file]) /\ Len(q.sent) + Len(q.out) + n = q.pos
    BY <2>1 DEF Placed
  <2>4. Len(q.sent) + n = q.pos
    BY <2>2, <2>3, EmptyFields
  <2> QED BY <2>2, <2>3, <2>4 DEF q
<1>3. /\ conn' = [conn EXCEPT ![c] = r] /\ thread' = [thread EXCEPT ![1] = IdleThread]
      /\ UNCHANGED <<disk, buffer>>
  BY DEF write, T
<1>4. /\ s \in Seq(Units) /\ Len(s) = n /\ conn[c].out \o s = s
      /\ \A i \in DOMAIN s : s[i].file = conn[c].file /\ s[i].at = Len(conn[c].sent) + i
  <2>1. \A i \in 1..n : /\ s[i] \in Units /\ s[i].file = conn[c].file
                        /\ s[i].at = conn[c].pos - n + i
    BY <1>1 DEF Inv, Filled
  <2>2. s \in [1..n -> Units] /\ n \in Nat
    <3>1. n \in Nat
      BY <1>1
    <3> HIDE DEF n
    <3> QED BY <2>1, <3>1
  <2>3. s \in Seq(Units) /\ Len(s) = n /\ DOMAIN s = 1..n
    BY <2>2
  <2>4. \A i \in 1..n : conn[c].pos - n + i = Len(conn[c].sent) + i
    BY <1>1, <1>2
  <2> HIDE DEF s
  <2>5. conn[c].out \o s = s
    BY <1>2, <2>3
  <2> QED BY <2>1, <2>3, <2>4, <2>5
<1> USE DEF Places
<1>a. a \in Places
  OBVIOUS
<1> HIDE DEF s, Places, a
<1>5. /\ r \in Responses /\ r.out = s /\ r.at = a /\ r.status = 200 /\ r.file = conn[c].file
      /\ r.sent = conn[c].sent /\ r.pos = conn[c].pos /\ r.length = conn[c].length
  BY <1>a, <1>1, <1>2, <1>4 DEF Responses
<1>6. T' = IdleThread
  BY <1>3 DEF Inv, Types, T
<1>7. conn'[c] = r /\ \A d \in Conns : d # c => conn'[d] = conn[d]
  BY <1>1, <1>3 DEF Inv, Types
<1> HIDE DEF r
<1>8. Types'
  <2>1. Len(r.out) <= BufferSize
    BY <1>1, <1>4, <1>5
  <2> QED BY <1>3, <1>5, <2>1, EmptyResponse DEF Inv, Types
<1>9. Busy' /\ Filled'
  BY <1>6 DEF Busy, Filled, IdleThread
<1>10. ASSUME NEW d \in Conns PROVE Position(d)' /\ Content(d)'
  <2>1. CASE d # c
    <3>1. Grown /\ Pending(d)' = Pending(d)
      BY <1>3, <1>6, <2>1, NotGrown DEF Inv, Pending, IdleThread
    <3> QED BY <1>7, <2>1, <3>1, LeftAlone
  <2>2. CASE d = c
    <3>1. Pending(d)' = 0
      BY <1>6 DEF Pending, IdleThread
    <3>2. a \in {"sending", "finishing"} /\ (a = "finishing" /\ r.file \notin Dirs => r.length <= r.pos)
      BY <1>1, <1>5 DEF Inv, Filled, GoesOn, a
    <3>3. Len(r.sent) + Len(r.out) + 0 = r.pos
      <4>1. /\ Len(r.sent) = Len(conn[c].sent) /\ Len(r.out) = n /\ r.pos = conn[c].pos
            /\ Len(conn[c].sent) \in Nat /\ n \in Nat /\ Len(conn[c].sent) + n = conn[c].pos
        BY <1>1, <1>2, <1>4, <1>5
      <4> QED BY <4>1
    <3>4. Placed(r, 0, disk)
      BY <1>2, <1>5, <3>2, <3>3 DEF Placed
    <3>5. Ordered(r)
      BY <1>1, <1>4, <1>5 DEF Ordered, Content
    <3> QED BY <1>3, <1>7, <2>2, <3>1, <3>4, <3>5 DEF Position, Content
  <2> QED BY <2>1, <2>2
<1> QED BY <1>8, <1>9, <1>10 DEF Inv

---------------------------------------------------------------------------
LEMMA NextInv == Inv /\ [Next]_vars => Inv'
<1> SUFFICES ASSUME Inv, [Next]_vars PROVE Inv'
  OBVIOUS
<1>1. CASE UNCHANGED vars
  <2>1. T' = T /\ UNCHANGED <<disk, conn, thread, buffer>>
    BY <1>1 DEF vars, T
  <2>2. \A c \in Conns : Position(c)' /\ Content(c)'
    BY <2>1, NotGrown, LeftAlone DEF Inv, Pending
  <2>3. Types' /\ Busy' /\ Filled'
    BY <2>1 DEF Inv, Types, Busy, Filled
  <2> QED BY <2>2, <2>3 DEF Inv
<1>2. CASE \E f \in Files, i \in 1..Size : WritePiece(f, i)
  BY <1>2, WriteSteps
<1>3. CASE \E c \in Conns : (\E f \in Files \cup {None} : Ask(c, f)) \/ Sent(c) \/ Fails(c) \/ Connect(c)
  BY <1>3, FreshSteps, SentSteps
<1>4. CASE Serve(1)
  BY <1>4, OpenSteps, CallbackSteps, ReadSteps, CopySteps DEF Serve
<1> QED BY <1>1, <1>2, <1>3, <1>4, OneThread DEF Next

LEMMA Reachable == Spec => []Inv
BY InitInv, NextInv, PTL DEF Spec

(* Responses, files, the thread and the buffers are well-typed.            *)
THEOREM TypeCorrect == Spec => []TypeOK
BY Reachable, InvTypes, PTL

LEMMA Unmixed == Inv => StreamsDoNotMix
<1> SUFFICES ASSUME Inv, NEW c \in Conns,
                    NEW i \in DOMAIN (conn[c].sent \o conn[c].out)
             PROVE  /\ (conn[c].sent \o conn[c].out)[i].file = conn[c].file
                    /\ (conn[c].sent \o conn[c].out)[i].at = i
  BY DEF StreamsDoNotMix
<1>1. conn[c].sent \in Seq(Units) /\ conn[c].out \in Seq(Units) /\ Ordered(conn[c])
  BY DEF Inv, Types, Responses, Content
<1> QED BY <1>1, InOrder

(* On one thread, every response is made of the units of its own file in   *)
(* their order, whatever other responses share the handler's buffer.       *)
THEOREM OneThreadDoesNotMix == Spec => []StreamsDoNotMix
BY Reachable, Unmixed, PTL

LEMMA Announced == Inv => BodyAsAnnounced
<1> SUFFICES ASSUME Inv, NEW c \in Conns, conn[c].at = "done", conn[c].status = 200
             PROVE  /\ conn[c].file \in Dirs => conn[c].sent = <<>>
                    /\ conn[c].file \notin Dirs =>
                         /\ Len(conn[c].sent) >= conn[c].length
                         /\ Len(disk[conn[c].file]) = conn[c].length =>
                              Len(conn[c].sent) = conn[c].length
  BY DEF BodyAsAnnounced
<1> DEFINE q == conn[c]
<1>1. q \in Responses /\ Placed(q, 0, disk) /\ q.at = "done" /\ q.status = 200
  BY NothingPending DEF Inv, Types, Position
<1>2. /\ q.pos \in Nat /\ q.length \in Nat /\ q.sent \in Seq(Units)
      /\ Len(q.sent) \in Nat /\ Len(q.sent) = q.pos /\ q.file \in Files
      /\ q.pos <= Len(disk[q.file])
      /\ q.file \notin Dirs => q.length <= q.pos
  <2>1. q.pos \in Nat /\ q.length \in Nat /\ Len(q.sent) \in Nat /\ q.sent \in Seq(Units)
    BY <1>1 DEF Responses
  <2> HIDE DEF q
  <2>2. /\ q.file \in Files /\ (q.file \notin Dirs => q.length <= q.pos)
        /\ q.pos <= Len(disk[q.file])
        /\ q.out = <<>> /\ Len(q.sent) + Len(q.out) + 0 = q.pos
    BY <1>1 DEF Placed
  <2> QED BY <2>1, <2>2, EmptyFields
<1>3. Len(disk[conn[c].file]) \in Nat
  BY <1>2 DEF Inv, Types
<1>4. CASE q.file \in Dirs
  <2>1. Len(disk[q.file]) = 0
    BY <1>4, EmptyFields DEF Inv, Types
  <2> HIDE DEF q
  <2>2. Len(q.sent) = 0
    BY <1>2, <2>1
  <2>3. q.sent = <<>>
    BY <1>2, <2>2
  <2> QED BY <1>4, <2>3 DEF q
<1>5. CASE q.file \notin Dirs
  BY <1>2, <1>3, <1>5
<1> QED BY <1>4, <1>5

(* A response that was sent in full has at least the announced length, and *)
(* no more unless its file grew; that of a directory has no body.          *)
THEOREM AsAnnounced == Spec => []BodyAsAnnounced
BY Reachable, Announced, PTL
===========================================================================
