------------------------ MODULE FastresumeProofs ------------------------
(***************************************************************************)
(* Proofs about Fastresume: what a save promises and a crash costs, for    *)
(* any number of torrents, alerts, saves and starts.                       *)
(***************************************************************************)
EXTENDS Fastresume, FiniteSetTheorems, TLAPS

USE VersionAssumption, BoundsAssumption, NoneAssumption

---------------------------------------------------------------------------
(* Counting the answers in a queue.                                        *)

IsAnswer(a) == a.kind \in {"resume", "failed"}
Count(q)    == Cardinality(AnswersIn(q))

LEMMA CountEmpty == Count(<<>>) = 0
<1>1. AnswersIn(<<>>) = {}
  BY DEF AnswersIn
<1> QED BY <1>1, FS_EmptySet DEF Count

LEMMA CountFinite ==
  ASSUME NEW S, NEW q \in Seq(S)
  PROVE  IsFiniteSet(AnswersIn(q)) /\ Count(q) \in Nat
<1>1. IsFiniteSet(1..Len(q))
  BY FS_Interval
<1>2. AnswersIn(q) \in SUBSET (1..Len(q))
  BY DEF AnswersIn
<1>3. IsFiniteSet(AnswersIn(q))
  BY <1>1, <1>2, FS_Subset
<1> QED BY <1>3, FS_CardinalityType DEF Count

LEMMA CountAppend ==
  ASSUME NEW S, NEW q \in Seq(S), NEW a \in S
  PROVE  Count(Append(q, a)) = IF IsAnswer(a) THEN Count(q) + 1 ELSE Count(q)
<1> DEFINE n == Len(q) + 1
           r == Append(q, a)
<1>1. /\ DOMAIN r = 1..n /\ r[n] = a /\ \A i \in 1..Len(q) : r[i] = q[i]
      /\ DOMAIN q = 1..Len(q) /\ n \in Nat /\ Len(q) \in Nat
  OBVIOUS
<1> HIDE DEF r
<1>2. IsFiniteSet(AnswersIn(q)) /\ Count(q) \in Nat
  BY CountFinite
<1>3. CASE IsAnswer(a)
  <2>1. AnswersIn(r) = AnswersIn(q) \cup {n} /\ n \notin AnswersIn(q)
    BY <1>1, <1>3 DEF AnswersIn, IsAnswer
  <2> HIDE DEF n
  <2> QED BY <1>2, <1>3, <2>1, FS_AddElement DEF Count, r
<1>4. CASE ~IsAnswer(a)
  <2>1. AnswersIn(r) = AnswersIn(q)
    BY <1>1, <1>4 DEF AnswersIn, IsAnswer
  <2> QED BY <1>4, <2>1 DEF Count, r
<1> QED BY <1>3, <1>4

LEMMA CountTail ==
  ASSUME NEW S, NEW q \in Seq(S), q # <<>>
  PROVE  Count(q) = IF IsAnswer(Head(q)) THEN Count(Tail(q)) + 1 ELSE Count(Tail(q))
<1> DEFINE r == Tail(q)
           A == AnswersIn(q) \ {1}
           B == AnswersIn(r)
           f == [i \in B |-> i + 1]
<1>1. /\ r \in Seq(S) /\ DOMAIN q = 1..Len(q) /\ Len(q) \in Nat \ {0} /\ Head(q) = q[1]
      /\ DOMAIN r = 1..(Len(q) - 1) /\ \A i \in 1..(Len(q) - 1) : r[i] = q[i + 1]
  OBVIOUS
<1> HIDE DEF r
<1>2. IsFiniteSet(AnswersIn(q)) /\ Count(q) \in Nat /\ IsFiniteSet(B) /\ Count(r) \in Nat
  BY <1>1, CountFinite
<1>3. \A i \in B : i \in Nat /\ f[i] = i + 1 /\ f[i] \in A
  BY <1>1 DEF AnswersIn
<1>4. \A j \in A : j - 1 \in B /\ j = f[j - 1]
  BY <1>1 DEF AnswersIn
<1> HIDE DEF A, B
<1>5. f \in Bijection(B, A)
  <2>1. f \in [B -> A]
    BY <1>3
  <2>2. f \in Injection(B, A)
    BY <1>3, <2>1 DEF Injection, IsInjective
  <2>3. f \in Surjection(B, A)
    BY <1>4, <2>1 DEF Surjection
  <2> QED BY <2>2, <2>3 DEF Bijection
<1>6. Cardinality(A) = Cardinality(B)
  BY <1>2, <1>5, FS_Bijection DEF ExistsBijection
<1>7. 1 \in AnswersIn(q) <=> IsAnswer(Head(q))
  BY <1>1 DEF AnswersIn, IsAnswer
<1>8. Cardinality(A) = IF 1 \in AnswersIn(q) THEN Count(q) - 1 ELSE Count(q)
  BY <1>2, FS_RemoveElement DEF A, Count
<1>9. Cardinality(B) = Count(r)
  BY DEF B, Count
<1>10. CASE IsAnswer(Head(q))
  <2>1. Cardinality(A) = Count(q) - 1
    BY <1>7, <1>8, <1>10
  <2>2. Count(q) = Count(r) + 1
    BY <1>2, <1>6, <1>9, <2>1
  <2> QED BY <1>10, <2>2 DEF r
<1>11. CASE ~IsAnswer(Head(q))
  BY <1>2, <1>6, <1>7, <1>8, <1>9, <1>11 DEF r
<1> QED BY <1>10, <1>11

---------------------------------------------------------------------------
(* The steps, by what they do.                                             *)

(* Most steps of the main thread only move its program counter.            *)
Turns ==
    \/ mpc = "handle" /\ mpc' = "turn" /\ batch = <<>>
    \/ mpc \in {"turn", "loop", "done"} /\ mpc' \in {"loop", "check", "exited"}
    \/ mpc = "scan" /\ mpc' = "wait"
    \/ mpc = "wait" /\ mpc' = "done"
    \/ mpc = "drain" /\ mpc' = "wait" /\ batch = <<>>
    \/ mpc' \in {mpc, "down"}

Moves ==
    /\ Turns
    /\ UNCHANGED <<disk, libt, alerts, manager, batch, main, clients, request, leaked>>
    /\ shutdown_flag' \in {shutdown_flag, TRUE}

(* The queue is taken over by the main thread.                             *)
Takes ==
    /\ \/ mpc = "check" /\ mpc' = "handle"
       \/ mpc = "wait" /\ mpc' = "drain"
    /\ batch' = alerts /\ alerts' = <<>>
    /\ UNCHANGED <<disk, libt, manager, main, shutdown_flag, clients, request, leaked>>

(* An alert is handled, by check_alerts or inside save_fastresume.         *)
Handles ==
    /\ batch # <<>> /\ mpc \in {"handle", "drain"}
    /\ mpc = "drain" => ~IsAnswer(Head(batch))
    /\ HandleAlert(Head(batch)) /\ batch' = Tail(batch)
    /\ UNCHANGED <<disk, libt, alerts, outstanding_resume_data, mpc, main,
                   shutdown_flag, clients, request>>

(* A save begins.                                                          *)
Begins ==
    /\ mpc \in {"turn", "loop"} /\ BeginSave
    /\ \/ saves' = saves
       \/ saves < MaxSaves /\ saves' = saves + 1
    /\ final' \in {final, TRUE}
    /\ UNCHANGED <<disk, libt, alerts, torrents, batch, writing,
                   shutdown_flag, clients, leaked>>

LEMMA MovesSteps ==
  ASSUME \/ HandleDone \/ NoSaveYet \/ NextTurn \/ SaveDone \/ ScanDone \/ AllAnswered
         \/ Timeout \/ DrainDone \/ Dies \/ Signal \/ Crash \/ Stopped \/ UNCHANGED vars
  PROVE  Moves
<1>1. CASE HandleDone \/ NoSaveYet \/ NextTurn \/ SaveDone \/ ScanDone
  BY <1>1 DEF HandleDone, NoSaveYet, NextTurn, SaveDone, ScanDone, Moves, Turns
<1>2. CASE AllAnswered \/ Timeout \/ DrainDone \/ Dies
  BY <1>2 DEF AllAnswered, Timeout, DrainDone, Dies, Moves, Turns
<1>3. CASE Signal \/ Crash \/ Stopped \/ UNCHANGED vars
  BY <1>3 DEF Signal, Crash, Stopped, vars, Moves, Turns
<1> QED BY <1>1, <1>2, <1>3

LEMMA BatchSteps ==
  /\ CheckAlerts \/ Pop => Takes
  /\ HandleNext \/ DrainOther => Handles
  /\ PeriodicSave \/ ShutdownSave => Begins
<1>1. CheckAlerts \/ Pop => Takes
  BY DEF CheckAlerts, Pop, Takes
<1>2. HandleNext \/ DrainOther => Handles
  BY DEF HandleNext, DrainOther, NextAlert, Handles, IsAnswer
<1>3. PeriodicSave \/ ShutdownSave => Begins
  BY DEF PeriodicSave, ShutdownSave, Begins, main
<1> QED BY <1>1, <1>2, <1>3

LEMMA Steps ==
  ASSUME [Next]_vars
  PROVE  \/ Moves \/ Takes \/ Handles \/ Begins
         \/ DrainFailed \/ DrainResume \/ WriteFile
         \/ Answer \/ OtherAlert \/ EraseTorrent \/ Start
         \/ \E t \in Torrents : \/ ScanAsk(t) \/ ScanSkip(t) \/ SessionAdds(t) \/ Progress(t)
                                \/ AddTorrent(t) \/ RemoveTorrent(t)
BY MovesSteps, BatchSteps DEF Next, Main, Libtorrent, Http

---------------------------------------------------------------------------
(* Types, and what they need: alerts name a torrent, a file that is being  *)
(* written has a name, and the counter is exact.                           *)

Named == {a \in Alerts : a.kind # "other" => a.torrent \in Torrents}

DiskOK ==
    /\ path \in BOOLEAN /\ starts \in 1..MaxStarts
    /\ files \in [Torrents -> Versions \cup {Torn}] /\ best \in [Torrents -> Versions]
    /\ spoilt \subseteq Torrents

SessionOK ==
    /\ adding \subseteq Torrents /\ session \subseteq Torrents
    /\ data \in [Torrents -> Versions] /\ saved \in [Torrents -> Versions]
    /\ asked \in Seq(Torrents)

QueueOK ==
    /\ alerts \in Seq(Named) /\ batch \in Seq(Named)
    /\ mpc \notin {"handle", "drain", "write", "down"} => batch = <<>>

MainOK ==
    /\ torrents \subseteq Torrents
    /\ mpc \in {"check", "handle", "turn", "loop", "scan", "wait", "drain",
                "write", "done", "exited", "down"}
    /\ todo \subseteq Torrents /\ nulled \in BOOLEAN
    /\ saves \in 0..MaxSaves /\ final \in BOOLEAN /\ shutdown_flag \in BOOLEAN
    /\ wanted \in [Torrents -> Versions] /\ refused \subseteq Torrents

WritingOK ==
    /\ writing \in [torrent : Torrents \cup {None}, version : Versions]
    /\ mpc = "write" => writing.torrent \in Torrents
    /\ mpc \notin {"write", "down"} => writing = NoWrite

ClientsOK ==
    /\ removing \in Torrents \cup {None}
    /\ fresh \subseteq Torrents /\ removed \subseteq Torrents

CounterOK ==
    /\ outstanding_resume_data \in Nat /\ leaked \in Nat
    /\ outstanding_resume_data = Len(asked) + Count(alerts) + Count(batch) + leaked

TypeInv ==
    DiskOK /\ SessionOK /\ QueueOK /\ MainOK /\ WritingOK /\ ClientsOK /\ CounterOK

LEMMA NamedAlerts == ASSUME NEW S \in Seq(Named) PROVE S \in Seq(Alerts)
BY DEF Named

LEMMA TypeInvImplies == TypeInv => TypeOK /\ CounterIsExact
<1> SUFFICES ASSUME TypeInv PROVE TypeOK /\ CounterIsExact
  OBVIOUS
<1>1. alerts \in Seq(Alerts) /\ batch \in Seq(Alerts)
  BY NamedAlerts DEF TypeInv, QueueOK
<1>2. TypeOK
  BY <1>1 DEF TypeInv, TypeOK, DiskOK, SessionOK, MainOK, WritingOK, ClientsOK, CounterOK
<1>3. CounterIsExact
  BY DEF TypeInv, CounterOK, CounterIsExact, Count
<1> QED BY <1>2, <1>3

LEMMA TypeInit == Init => TypeInv
<1> SUFFICES ASSUME Init PROVE TypeInv
  OBVIOUS
<1>1. /\ DiskOK
      /\ SessionOK
      /\ MainOK
      /\ ClientsOK
  <2>1. 0 \in Versions /\ 0 \in 0..MaxSaves /\ 1 \in 1..MaxStarts
    BY BoundsAssumption, VersionAssumption DEF Versions
  <2>2. data \in [Torrents -> Versions]
    BY <2>1 DEF Init
  <2>3. DiskOK
    BY <2>1 DEF Init, DiskOK
  <2>4. SessionOK
    BY <2>2 DEF Init, SessionOK
  <2>5. MainOK
    BY <2>1, <2>2 DEF Init, MainOK
  <2> QED BY <2>3, <2>4, <2>5 DEF Init, ClientsOK
<1>2. QueueOK
  BY DEF Init, QueueOK
<1>3. WritingOK
  BY DEF Init, WritingOK, NoWrite, Versions
<1>4. CounterOK
  BY CountEmpty DEF Init, CounterOK
<1> QED BY <1>1, <1>2, <1>3, <1>4 DEF TypeInv

(* Each part of the invariant after each kind of step.                     *)

LEMMA KeptParts ==
  ASSUME TypeInv
  PROVE  /\ UNCHANGED disk => DiskOK'
         /\ UNCHANGED libt => SessionOK'
         /\ UNCHANGED clients => ClientsOK'
<1>1. UNCHANGED disk => DiskOK'
  BY DEF TypeInv, DiskOK, disk
<1>2. UNCHANGED libt => SessionOK'
  BY DEF TypeInv, SessionOK, libt
<1>3. UNCHANGED clients => ClientsOK'
  BY DEF TypeInv, ClientsOK, clients
<1> QED BY <1>1, <1>2, <1>3

LEMMA TypeMoves == ASSUME TypeInv, Moves PROVE TypeInv'
<1>1. DiskOK' /\ SessionOK' /\ ClientsOK'
  BY KeptParts DEF Moves
<1>2. QueueOK'
  BY DEF TypeInv, MainOK, QueueOK, Moves, Turns
<1>3. MainOK'
  BY DEF TypeInv, MainOK, Moves, Turns, main, manager, request
<1>4. WritingOK'
  BY DEF TypeInv, MainOK, WritingOK, Moves, Turns, main
<1>5. CounterOK'
  BY DEF TypeInv, CounterOK, Moves, libt, manager
<1> QED BY <1>1, <1>2, <1>3, <1>4, <1>5 DEF TypeInv

LEMMA TypeTakes == ASSUME TypeInv, Takes PROVE TypeInv'
<1>1. DiskOK' /\ SessionOK' /\ ClientsOK'
  BY KeptParts DEF Takes
<1>2. batch = <<>>
  BY DEF TypeInv, QueueOK, Takes
<1>3. QueueOK'
  BY DEF TypeInv, QueueOK, Takes
<1>4. MainOK'
  BY DEF TypeInv, MainOK, Takes, main, manager, request
<1>5. WritingOK'
  BY DEF TypeInv, WritingOK, Takes, main
<1>6. CounterOK'
  <2>1. Count(batch) = 0 /\ Count(alerts') = 0 /\ batch' = alerts
    BY <1>2, CountEmpty DEF Takes
  <2>2. Count(alerts) \in Nat
    BY CountFinite DEF TypeInv, QueueOK
  <2>3. UNCHANGED <<asked, outstanding_resume_data, leaked>>
    BY DEF Takes, libt, manager
  <2>4. asked \in Seq(Torrents)
    BY DEF TypeInv, SessionOK
  <2> QED BY <2>1, <2>2, <2>3, <2>4 DEF TypeInv, CounterOK
<1> QED BY <1>1, <1>3, <1>4, <1>5, <1>6 DEF TypeInv

LEMMA BatchTail ==
  ASSUME TypeInv, batch # <<>>
  PROVE  /\ Head(batch) \in Named /\ Tail(batch) \in Seq(Named)
         /\ Count(batch) = IF IsAnswer(Head(batch)) THEN Count(Tail(batch)) + 1
                           ELSE Count(Tail(batch))
         /\ Count(alerts) \in Nat /\ Count(batch) \in Nat /\ Count(Tail(batch)) \in Nat
<1>1. batch \in Seq(Named) /\ alerts \in Seq(Named)
  BY DEF TypeInv, QueueOK
<1>2. Head(batch) \in Named /\ Tail(batch) \in Seq(Named)
  BY <1>1
<1> QED BY <1>1, <1>2, CountTail, CountFinite

LEMMA TypeHandles == ASSUME TypeInv, Handles PROVE TypeInv'
<1>1. DiskOK' /\ SessionOK' /\ ClientsOK'
  BY KeptParts DEF Handles
<1>2. /\ Head(batch) \in Named /\ Tail(batch) \in Seq(Named)
      /\ Count(batch) = IF IsAnswer(Head(batch)) THEN Count(Tail(batch)) + 1
                        ELSE Count(Tail(batch))
      /\ Count(alerts) \in Nat /\ Count(batch) \in Nat /\ Count(Tail(batch)) \in Nat
  BY BatchTail DEF Handles
<1>3. QueueOK'
  BY <1>2 DEF TypeInv, QueueOK, Handles
<1>4. MainOK'
  <2>1. torrents' \subseteq Torrents
    BY <1>2 DEF TypeInv, MainOK, Handles, HandleAlert, Named
  <2> QED BY <2>1 DEF TypeInv, MainOK, Handles, main, request
<1>5. WritingOK'
  BY DEF TypeInv, WritingOK, Handles, main
<1>6. CounterOK'
  <2>1. leaked' = IF IsAnswer(Head(batch)) THEN leaked + 1 ELSE leaked
    BY DEF Handles, HandleAlert, IsAnswer
  <2>2. UNCHANGED <<asked, alerts, outstanding_resume_data>> /\ batch' = Tail(batch)
    BY DEF Handles, libt
  <2>3. asked \in Seq(Torrents)
    BY DEF TypeInv, SessionOK
  <2> DEFINE n == Len(asked)
             t == Count(Tail(batch))
  <2>4. n \in Nat /\ n' = n /\ Count(alerts)' = Count(alerts) /\ Count(batch)' = t
    BY <2>2, <2>3
  <2>5. /\ outstanding_resume_data = n + Count(alerts) + Count(batch) + leaked
        /\ outstanding_resume_data \in Nat /\ leaked \in Nat
    BY DEF TypeInv, CounterOK
  <2> HIDE DEF n, t
  <2>6. outstanding_resume_data' = n' + Count(alerts)' + Count(batch)' + leaked'
    BY <1>2, <2>1, <2>2, <2>4, <2>5 DEF t
  <2>7. leaked' \in Nat
    BY <2>1, <2>5
  <2> QED BY <2>2, <2>5, <2>6, <2>7 DEF CounterOK, n
<1> QED BY <1>1, <1>3, <1>4, <1>5, <1>6 DEF TypeInv

LEMMA TypeBegins == ASSUME TypeInv, Begins PROVE TypeInv'
<1>1. DiskOK' /\ SessionOK' /\ ClientsOK'
  BY KeptParts DEF Begins
<1>2. QueueOK'
  BY DEF TypeInv, QueueOK, Begins, BeginSave
<1>3. MainOK'
  <2>1. wanted' \in [Torrents -> Versions] /\ refused' \subseteq Torrents
    BY DEF Begins, BeginSave, StartScan, Versions
  <2>2. saves' \in 0..MaxSaves
    BY DEF TypeInv, MainOK, Begins
  <2>3. final' \in BOOLEAN /\ shutdown_flag' \in BOOLEAN
    BY DEF TypeInv, MainOK, Begins
  <2>4. todo' \subseteq Torrents /\ torrents' \subseteq Torrents /\ mpc' \in {"scan", "done"}
    BY DEF TypeInv, MainOK, Begins, BeginSave, StartScan
  <2>5. nulled' \in BOOLEAN
    BY DEF Begins, BeginSave, StartScan
  <2> QED BY <2>1, <2>2, <2>3, <2>4, <2>5 DEF MainOK
<1>4. WritingOK'
  BY DEF TypeInv, WritingOK, Begins, BeginSave
<1>5. CounterOK'
  BY DEF TypeInv, CounterOK, Begins, BeginSave, StartScan, libt
<1> QED BY <1>1, <1>2, <1>3, <1>4, <1>5 DEF TypeInv

LEMMA Removed ==
  ASSUME NEW S, NEW q \in Seq(S), NEW i \in 1..Len(q)
  PROVE  /\ RemoveAt(q, i) \in Seq(S) /\ Len(RemoveAt(q, i)) = Len(q) - 1
         /\ \A j \in 1..Len(q) : j # i => \E k \in 1..(Len(q) - 1) : RemoveAt(q, i)[k] = q[j]
<1> DEFINE l == SubSeq(q, 1, i - 1)
           r == SubSeq(q, i + 1, Len(q))
<1>0. Len(q) \in Nat /\ i \in Nat /\ 1 <= i /\ i <= Len(q)
  OBVIOUS
<1>1. l \in Seq(S) /\ Len(l) = i - 1 /\ \A k \in 1..(i - 1) : l[k] = q[k]
  OBVIOUS
<1>2. r \in Seq(S) /\ Len(r) = Len(q) - i /\ \A k \in 1..(Len(q) - i) : r[k] = q[k + i]
  OBVIOUS
<1>3. RemoveAt(q, i) = l \o r
  BY DEF RemoveAt
<1> HIDE DEF l, r
<1>4. /\ l \o r \in Seq(S) /\ Len(l \o r) = Len(q) - 1
      /\ \A k \in 1..(i - 1) : (l \o r)[k] = l[k]
      /\ \A k \in i..(Len(q) - 1) : (l \o r)[k] = r[k - (i - 1)]
  BY <1>1, <1>2
<1>5. ASSUME NEW j \in 1..Len(q), j # i
      PROVE  \E k \in 1..(Len(q) - 1) : (l \o r)[k] = q[j]
  <2>1. CASE j < i
    BY <1>1, <1>4, <2>1
  <2>2. CASE j > i
    <3>1. /\ (j - 1) \in i..(Len(q) - 1) /\ (j - 1) - (i - 1) = j - i
          /\ (j - 1) \in 1..(Len(q) - 1)
      BY <1>0, <2>2
    <3>2. (l \o r)[j - 1] = r[j - i] /\ r[j - i] = q[j]
      BY <1>2, <1>4, <2>2, <3>1
    <3> QED BY <3>1, <3>2
  <2>3. j < i \/ j > i
    BY <1>0, <1>5
  <2> QED BY <2>1, <2>2, <2>3
<1> QED BY <1>3, <1>4, <1>5

LEMMA Posted ==
  ASSUME TypeInv, NEW a \in Named, Post(a)
  PROVE  /\ alerts' \in Seq(Named)
         /\ Count(alerts') = IF IsAnswer(a) THEN Count(alerts) + 1 ELSE Count(alerts)
         /\ Count(alerts) \in Nat /\ Count(batch) \in Nat
<1>1. batch \in Seq(Named) /\ alerts \in Seq(Named)
  BY DEF TypeInv, QueueOK
<1> QED BY <1>1, CountAppend, CountFinite DEF Post

LEMMA CounterNow ==
  ASSUME TypeInv
  PROVE  /\ outstanding_resume_data = Len(asked) + Count(alerts) + Count(batch) + leaked
         /\ Len(asked) \in Nat /\ Count(alerts) \in Nat /\ Count(batch) \in Nat
         /\ outstanding_resume_data \in Nat /\ leaked \in Nat
<1>1. batch \in Seq(Named) /\ alerts \in Seq(Named) /\ asked \in Seq(Torrents)
  BY DEF TypeInv, QueueOK, SessionOK
<1> QED BY <1>1, CountFinite DEF TypeInv, CounterOK

(* An answer leaves the batch and is counted.                              *)
LEMMA AnswerTaken ==
  ASSUME TypeInv, batch' = Tail(batch), Count(Tail(batch)) \in Nat,
         Count(batch) = Count(Tail(batch)) + 1, UNCHANGED <<asked, alerts, leaked>>,
         outstanding_resume_data' = outstanding_resume_data - 1
  PROVE  CounterOK'
<1> DEFINE n == Len(asked)
           a == Count(alerts)
           b == Count(batch)
           t == Count(Tail(batch))
<1>1. n \in Nat /\ a \in Nat /\ t \in Nat /\ leaked \in Nat
  BY CounterNow
<1>2. outstanding_resume_data = n + a + b + leaked /\ b = t + 1
  BY CounterNow
<1>3. n' = n /\ a' = a /\ b' = t
  OBVIOUS
<1> HIDE DEF n, a, b, t
<1>4. outstanding_resume_data' = n + a + t + leaked /\ outstanding_resume_data' \in Nat
  BY <1>1, <1>2
<1> QED BY <1>1, <1>3, <1>4 DEF CounterOK, n, a, b, t

LEMMA TypeDrainFailed == ASSUME TypeInv, DrainFailed PROVE TypeInv'
<1>1. DiskOK' /\ SessionOK' /\ ClientsOK'
  BY KeptParts DEF DrainFailed
<1>2. /\ Head(batch) \in Named /\ Tail(batch) \in Seq(Named)
      /\ Head(batch).kind = "failed" /\ Count(batch) = Count(Tail(batch)) + 1
      /\ Count(Tail(batch)) \in Nat /\ batch' = Tail(batch)
  BY BatchTail DEF DrainFailed, NextAlert, IsAnswer
<1>3. QueueOK'
  BY <1>2 DEF TypeInv, QueueOK, DrainFailed
<1>4. MainOK'
  <2>1. refused' \subseteq Torrents
    BY <1>2 DEF TypeInv, MainOK, DrainFailed, NextAlert, Named
  <2> QED BY <2>1 DEF TypeInv, MainOK, DrainFailed, main
<1>5. WritingOK'
  BY DEF TypeInv, WritingOK, DrainFailed, main
<1>6. CounterOK'
  <2>1. UNCHANGED <<asked, alerts, leaked>> /\ outstanding_resume_data' = outstanding_resume_data - 1
    BY DEF DrainFailed, libt
  <2> QED BY <1>2, <2>1, AnswerTaken
<1> QED BY <1>1, <1>3, <1>4, <1>5, <1>6 DEF TypeInv

LEMMA TypeDrainResume == ASSUME TypeInv, DrainResume PROVE TypeInv'
<1>1. SessionOK' /\ ClientsOK'
  BY KeptParts DEF DrainResume
<1>2. /\ Head(batch) \in Named /\ Tail(batch) \in Seq(Named)
      /\ Head(batch).kind = "resume" /\ Count(batch) = Count(Tail(batch)) + 1
      /\ Count(Tail(batch)) \in Nat /\ batch' = Tail(batch)
  BY BatchTail DEF DrainResume, NextAlert, IsAnswer
<1>3. Head(batch).torrent \in Torrents /\ Head(batch).version \in Versions
  BY <1>2 DEF Named, Alerts
<1>4. DiskOK'
  BY <1>3 DEF TypeInv, DiskOK, DrainResume, NextAlert
<1>5. QueueOK'
  BY <1>2 DEF TypeInv, QueueOK, DrainResume
<1>6. MainOK'
  BY <1>3 DEF TypeInv, MainOK, DrainResume, NextAlert
<1>7. WritingOK'
  BY <1>3 DEF TypeInv, WritingOK, DrainResume, NextAlert
<1>8. CounterOK'
  <2>1. UNCHANGED <<asked, alerts, leaked>> /\ outstanding_resume_data' = outstanding_resume_data - 1
    BY DEF DrainResume, libt
  <2> QED BY <1>2, <2>1, AnswerTaken
<1> QED BY <1>1, <1>4, <1>5, <1>6, <1>7, <1>8 DEF TypeInv

LEMMA TypeWriteFile == ASSUME TypeInv, WriteFile PROVE TypeInv'
<1>1. SessionOK' /\ ClientsOK'
  BY KeptParts DEF WriteFile
<1>2. writing.torrent \in Torrents /\ writing.version \in Versions
  BY DEF TypeInv, WritingOK, WriteFile
<1>3. DiskOK'
  BY <1>2 DEF TypeInv, DiskOK, WriteFile
<1>4. QueueOK'
  BY DEF TypeInv, QueueOK, WriteFile
<1>5. MainOK'
  <2>1. refused' \subseteq Torrents
    BY <1>2 DEF TypeInv, MainOK, WriteFile
  <2> QED BY <2>1 DEF TypeInv, MainOK, WriteFile, manager
<1>6. WritingOK'
  <2>1. 0 \in Versions
    BY DEF Versions
  <2> QED BY <2>1 DEF WritingOK, WriteFile, NoWrite
<1>7. CounterOK'
  BY DEF TypeInv, CounterOK, WriteFile, libt, manager
<1> QED BY <1>1, <1>3, <1>4, <1>5, <1>6, <1>7 DEF TypeInv

(* A post that is no answer leaves the counts alone.                       *)
LEMMA TypePosts ==
  ASSUME TypeInv, NEW a \in Named, ~IsAnswer(a), Post(a),
         UNCHANGED <<asked, batch, leaked, outstanding_resume_data, mpc>>
  PROVE  QueueOK' /\ CounterOK'
<1>1. /\ alerts' \in Seq(Named) /\ Count(alerts') = Count(alerts)
  BY Posted
<1>2. QueueOK'
  BY <1>1 DEF TypeInv, QueueOK
<1>3. CounterOK'
  BY <1>1 DEF TypeInv, CounterOK
<1> QED BY <1>2, <1>3

LEMMA TypeSessionAdds ==
  ASSUME TypeInv, NEW t \in Torrents, SessionAdds(t) PROVE TypeInv'
<1>1. DiskOK' /\ ClientsOK'
  BY KeptParts DEF SessionAdds
<1>2. SessionOK'
  BY DEF TypeInv, SessionOK, SessionAdds
<1>3. QueueOK' /\ CounterOK'
  <2> DEFINE a == [kind |-> "added", torrent |-> t, version |-> 0]
  <2>1. a \in Named /\ ~IsAnswer(a)
    BY DEF Named, Alerts, Versions, IsAnswer
  <2>2. Post(a)
    BY DEF SessionAdds
  <2> HIDE DEF a
  <2> QED BY <2>1, <2>2, TypePosts DEF SessionAdds, manager
<1>4. MainOK'
  BY DEF TypeInv, MainOK, SessionAdds, main, manager, request
<1>5. WritingOK'
  BY DEF TypeInv, WritingOK, SessionAdds, main
<1> QED BY <1>1, <1>2, <1>3, <1>4, <1>5 DEF TypeInv

LEMMA TypeOtherAlert == ASSUME TypeInv, OtherAlert PROVE TypeInv'
<1>1. DiskOK' /\ SessionOK' /\ ClientsOK'
  BY KeptParts DEF OtherAlert
<1>2. QueueOK' /\ CounterOK'
  <2> DEFINE a == [kind |-> "other", torrent |-> None, version |-> 0]
  <2>1. a \in Named /\ ~IsAnswer(a)
    BY DEF Named, Alerts, Versions, IsAnswer
  <2>2. Post(a)
    BY DEF OtherAlert
  <2> HIDE DEF a
  <2> QED BY <2>1, <2>2, TypePosts DEF OtherAlert, manager, libt
<1>3. MainOK'
  BY DEF TypeInv, MainOK, OtherAlert, main, manager, request
<1>4. WritingOK'
  BY DEF TypeInv, WritingOK, OtherAlert, main
<1> QED BY <1>1, <1>2, <1>3, <1>4 DEF TypeInv

LEMMA TypeAnswer == ASSUME TypeInv, Answer PROVE TypeInv'
<1>1. DiskOK' /\ ClientsOK'
  BY KeptParts DEF Answer
<1>2. PICK i \in DOMAIN asked :
        /\ asked' = RemoveAt(asked, i)
        /\ \/ /\ Post([kind |-> "failed", torrent |-> asked[i], version |-> 0])
              /\ UNCHANGED saved
           \/ /\ Post([kind |-> "resume", torrent |-> asked[i], version |-> data[asked[i]]])
              /\ saved' = [saved EXCEPT ![asked[i]] = data[asked[i]]]
  BY DEF Answer
<1>3. asked \in Seq(Torrents) /\ i \in 1..Len(asked) /\ asked[i] \in Torrents
  BY DEF TypeInv, SessionOK
<1>4. asked' \in Seq(Torrents) /\ Len(asked') = Len(asked) - 1
  BY <1>2, <1>3, Removed
<1>5. data[asked[i]] \in Versions
  BY <1>3 DEF TypeInv, SessionOK
<1>6. PICK a \in Named : IsAnswer(a) /\ Post(a)
  <2> DEFINE f == [kind |-> "failed", torrent |-> asked[i], version |-> 0]
             r == [kind |-> "resume", torrent |-> asked[i], version |-> data[asked[i]]]
  <2>1. f \in Named /\ IsAnswer(f) /\ r \in Named /\ IsAnswer(r)
    BY <1>3, <1>5 DEF Named, Alerts, Versions, IsAnswer
  <2>2. Post(f) \/ Post(r)
    BY <1>2
  <2> HIDE DEF f, r
  <2> QED BY <2>1, <2>2
<1>7. alerts' \in Seq(Named) /\ Count(alerts') = Count(alerts) + 1
  BY <1>6, Posted
<1>8. SessionOK'
  <2>1. saved' \in [Torrents -> Versions]
    BY <1>2, <1>3, <1>5 DEF TypeInv, SessionOK
  <2> QED BY <1>4, <2>1 DEF TypeInv, SessionOK, Answer
<1>9. QueueOK'
  BY <1>7 DEF TypeInv, QueueOK, Answer
<1>10. MainOK'
  BY DEF TypeInv, MainOK, Answer, main, manager, request
<1>11. WritingOK'
  BY DEF TypeInv, WritingOK, Answer, main
<1>12. CounterOK'
  <2> DEFINE n == Len(asked)
             a0 == Count(alerts)
             b0 == Count(batch)
  <2>1. n \in Nat /\ a0 \in Nat /\ b0 \in Nat /\ outstanding_resume_data = n + a0 + b0 + leaked
        /\ outstanding_resume_data \in Nat /\ leaked \in Nat
    BY CounterNow
  <2>2. n' = n - 1 /\ a0' = a0 + 1 /\ b0' = b0
    BY <1>4, <1>7 DEF Answer
  <2>3. UNCHANGED <<outstanding_resume_data, leaked>>
    BY DEF Answer, manager
  <2> HIDE DEF n, a0, b0
  <2>4. outstanding_resume_data' = n' + a0' + b0' + leaked'
    BY <2>1, <2>2, <2>3
  <2> QED BY <2>1, <2>3, <2>4 DEF CounterOK, n, a0, b0
<1> QED BY <1>1, <1>8, <1>9, <1>10, <1>11, <1>12 DEF TypeInv

LEMMA TypeScanAsk ==
  ASSUME TypeInv, NEW t \in Torrents, ScanAsk(t) PROVE TypeInv'
<1>1. DiskOK' /\ ClientsOK'
  BY KeptParts DEF ScanAsk
<1>2. asked' \in Seq(Torrents) /\ Len(asked') = Len(asked) + 1
  BY DEF TypeInv, SessionOK, ScanAsk, Ask
<1>3. SessionOK'
  BY <1>2 DEF TypeInv, SessionOK, ScanAsk
<1>4. QueueOK'
  BY DEF TypeInv, QueueOK, ScanAsk
<1>5. MainOK'
  <2>1. wanted' \in [Torrents -> Versions]
    BY DEF TypeInv, MainOK, SessionOK, ScanAsk, Ask
  <2> QED BY <2>1 DEF TypeInv, MainOK, ScanAsk, Ask
<1>6. WritingOK'
  BY DEF TypeInv, WritingOK, ScanAsk
<1>7. CounterOK'
  <2> DEFINE n == Len(asked)
             a0 == Count(alerts)
             b0 == Count(batch)
  <2>1. n \in Nat /\ a0 \in Nat /\ b0 \in Nat /\ outstanding_resume_data = n + a0 + b0 + leaked
        /\ outstanding_resume_data \in Nat /\ leaked \in Nat
    BY CounterNow
  <2>2. n' = n + 1 /\ a0' = a0 /\ b0' = b0
    BY <1>2 DEF ScanAsk
  <2>3. outstanding_resume_data' = outstanding_resume_data + 1 /\ leaked' = leaked
    BY DEF ScanAsk, Ask
  <2> HIDE DEF n, a0, b0
  <2>4. outstanding_resume_data' = n' + a0' + b0' + leaked'
    BY <2>1, <2>2, <2>3
  <2> QED BY <2>1, <2>3, <2>4 DEF CounterOK, n, a0, b0
<1> QED BY <1>1, <1>3, <1>4, <1>5, <1>6, <1>7 DEF TypeInv

(* A step that leaves the queue, the requests and the main thread alone.   *)
LEMMA TypeKept ==
  ASSUME TypeInv, UNCHANGED <<asked, alerts, batch, outstanding_resume_data, leaked, mpc, writing>>
  PROVE  QueueOK' /\ WritingOK' /\ CounterOK'
<1>1. QueueOK' /\ WritingOK'
  BY DEF TypeInv, QueueOK, WritingOK
<1>2. CounterOK'
  BY DEF TypeInv, CounterOK
<1> QED BY <1>1, <1>2

LEMMA TypeProgress ==
  ASSUME TypeInv, NEW t \in Torrents, Progress(t) PROVE TypeInv'
<1>1. DiskOK' /\ ClientsOK'
  BY KeptParts DEF Progress
<1>2. QueueOK' /\ WritingOK' /\ CounterOK'
  BY TypeKept DEF Progress, manager, main
<1>3. data' \in [Torrents -> Versions]
  <2>1. data[t] \in Versions
    BY DEF TypeInv, SessionOK
  <2>2. data[t] + 1 \in Versions
    BY <2>1 DEF Versions, Progress
  <2> QED BY <2>2 DEF TypeInv, SessionOK, Progress
<1>4. SessionOK'
  BY <1>3 DEF TypeInv, SessionOK, Progress
<1>5. MainOK'
  BY DEF TypeInv, MainOK, Progress, main, manager, request
<1> QED BY <1>1, <1>2, <1>4, <1>5 DEF TypeInv

LEMMA TypeScanSkip ==
  ASSUME TypeInv, NEW t \in Torrents, ScanSkip(t) PROVE TypeInv'
<1>1. DiskOK' /\ SessionOK' /\ ClientsOK'
  BY KeptParts DEF ScanSkip
<1>2. QueueOK' /\ WritingOK' /\ CounterOK'
  BY TypeKept DEF ScanSkip, manager, libt
<1>3. MainOK'
  BY DEF TypeInv, MainOK, ScanSkip, manager, request
<1> QED BY <1>1, <1>2, <1>3 DEF TypeInv

LEMMA TypeAddTorrent ==
  ASSUME TypeInv, NEW t \in Torrents, AddTorrent(t) PROVE TypeInv'
<1>1. DiskOK'
  BY KeptParts DEF AddTorrent
<1>2. QueueOK' /\ WritingOK' /\ CounterOK'
  BY TypeKept DEF AddTorrent, manager, main
<1>3. SessionOK'
  <2>1. 1 \in Versions
    BY DEF Versions
  <2> QED BY <2>1 DEF TypeInv, SessionOK, AddTorrent
<1>4. MainOK'
  BY DEF TypeInv, MainOK, AddTorrent, main, manager, request
<1>5. ClientsOK'
  BY DEF TypeInv, ClientsOK, AddTorrent
<1> QED BY <1>1, <1>2, <1>3, <1>4, <1>5 DEF TypeInv

LEMMA TypeRemoveTorrent ==
  ASSUME TypeInv, NEW t \in Torrents, RemoveTorrent(t) PROVE TypeInv'
<1>1. DiskOK'
  BY KeptParts DEF RemoveTorrent
<1>2. QueueOK' /\ WritingOK' /\ CounterOK'
  BY TypeKept DEF RemoveTorrent, manager, main
<1>3. SessionOK' /\ ClientsOK'
  BY DEF TypeInv, SessionOK, ClientsOK, RemoveTorrent
<1>4. MainOK'
  BY DEF TypeInv, MainOK, RemoveTorrent, main, manager, request
<1> QED BY <1>1, <1>2, <1>3, <1>4 DEF TypeInv

LEMMA TypeEraseTorrent == ASSUME TypeInv, EraseTorrent PROVE TypeInv'
<1>1. DiskOK' /\ SessionOK'
  BY KeptParts DEF EraseTorrent
<1>2. QueueOK' /\ WritingOK' /\ CounterOK'
  BY TypeKept DEF EraseTorrent, libt
<1>3. ClientsOK'
  BY DEF TypeInv, ClientsOK, EraseTorrent
<1>4. torrents' \subseteq Torrents /\ todo' \subseteq Torrents
  BY DEF TypeInv, MainOK, EraseTorrent, Shift
<1>5. nulled' \in BOOLEAN
  BY DEF TypeInv, MainOK, EraseTorrent, Shift
<1>6. MainOK'
  BY <1>4, <1>5 DEF TypeInv, MainOK, EraseTorrent, request
<1> QED BY <1>1, <1>2, <1>3, <1>6 DEF TypeInv

LEMMA TypeStart == ASSUME TypeInv, Start PROVE TypeInv'
<1>1. DiskOK'
  <2>1. starts' \in 1..MaxStarts
    BY DEF TypeInv, DiskOK, Start
  <2> QED BY <2>1 DEF TypeInv, DiskOK, Start
<1>2. SessionOK'
  <2>1. Loadable \subseteq Torrents /\ \A t \in Loadable : files[t] \in Versions
    BY DEF TypeInv, DiskOK, Loadable, Versions, Torn
  <2>2. data' \in [Torrents -> Versions]
    BY <2>1 DEF Start, Versions
  <2> QED BY <2>1, <2>2 DEF SessionOK, Start
<1>3. QueueOK'
  BY DEF QueueOK, Start
<1>4. MainOK'
  <2>1. wanted' \in [Torrents -> Versions]
    BY DEF Start, Versions
  <2>2. saves' \in 0..MaxSaves
    BY DEF Start
  <2> QED BY <2>1, <2>2 DEF MainOK, Start
<1>5. WritingOK'
  BY DEF WritingOK, Start, NoWrite, Versions
<1>6. ClientsOK'
  BY DEF TypeInv, ClientsOK, Start
<1>7. CounterOK'
  <2>1. Len(asked') = 0 /\ Count(alerts') = 0 /\ Count(batch') = 0
    BY CountEmpty DEF Start
  <2> QED BY <2>1 DEF CounterOK, Start
<1> QED BY <1>1, <1>2, <1>3, <1>4, <1>5, <1>6, <1>7 DEF TypeInv

LEMMA TypeStep == ASSUME TypeInv, [Next]_vars PROVE TypeInv'
BY Steps, TypeMoves, TypeTakes, TypeHandles, TypeBegins, TypeDrainFailed, TypeDrainResume,
   TypeWriteFile, TypeAnswer, TypeOtherAlert, TypeEraseTorrent, TypeStart, TypeScanAsk,
   TypeScanSkip, TypeSessionAdds, TypeProgress, TypeAddTorrent, TypeRemoveTorrent

LEMMA Typed == Spec => []TypeInv
BY TypeInit, TypeStep, PTL DEF Spec

(* Every variable of saving and loading keeps its type.                    *)
THEOREM TypeCorrect == Spec => []TypeOK
BY Typed, TypeInvImplies, PTL

(* The counter of outstanding resume data is exact: requests, answers in   *)
(* either queue and dropped answers add up to it, so it is never decreased *)
(* below zero (save_fastresume, check_alerts).                             *)
THEOREM CounterExact == Spec => []CounterIsExact
BY Typed, TypeInvImplies, PTL

---------------------------------------------------------------------------
(* The queue: what the main thread works off, then what libtorrent holds.  *)

Queue == batch \o alerts

LEMMA QueueType ==
  ASSUME TypeInv
  PROVE  /\ Queue \in Seq(Named) /\ DOMAIN Queue = 1..Len(Queue) /\ Len(Queue) \in Nat
         /\ \A i \in DOMAIN Queue : Queue[i] \in Named
<1>1. batch \in Seq(Named) /\ alerts \in Seq(Named)
  BY DEF TypeInv, QueueOK
<1>2. Queue \in Seq(Named)
  BY <1>1 DEF Queue
<1> QED BY <1>2

LEMMA QueueTaken == ASSUME TypeInv, Takes PROVE Queue' = Queue
<1>1. batch = <<>> /\ alerts \in Seq(Named)
  BY DEF TypeInv, QueueOK, Takes
<1>2. batch' = alerts /\ alerts' = <<>>
  BY DEF Takes
<1> QED BY <1>1, <1>2 DEF Queue

LEMMA QueueDrains ==
  ASSUME TypeInv, batch # <<>>, batch' = Tail(batch), UNCHANGED alerts
  PROVE  /\ Len(Queue) > 0 /\ Head(batch) = Queue[1]
         /\ DOMAIN Queue' = 1..(Len(Queue) - 1)
         /\ \A i \in 1..(Len(Queue) - 1) : Queue'[i] = Queue[i + 1]
<1>1. batch \in Seq(Named) /\ alerts \in Seq(Named)
  BY DEF TypeInv, QueueOK
<1> DEFINE r == Tail(batch)
<1>2. /\ r \in Seq(Named) /\ Len(r) = Len(batch) - 1 /\ Len(batch) > 0
      /\ \A i \in 1..Len(r) : r[i] = batch[i + 1]
      /\ Head(batch) = batch[1]
  BY <1>1
<1>3. Queue' = r \o alerts
  BY DEF Queue
<1> HIDE DEF r
<1>4. /\ Len(Queue) = Len(batch) + Len(alerts) /\ Len(Queue') = Len(Queue) - 1
      /\ Queue' \in Seq(Named) /\ Len(alerts) \in Nat /\ Len(batch) \in Nat
  BY <1>1, <1>2, <1>3 DEF Queue
<1>5. \A i \in 1..Len(batch) : Queue[i] = batch[i]
  BY <1>1 DEF Queue
<1>6. \A i \in 1..(Len(Queue) - 1) : Queue'[i] = Queue[i + 1]
  <2> SUFFICES ASSUME NEW i \in 1..(Len(Queue) - 1) PROVE Queue'[i] = Queue[i + 1]
    OBVIOUS
  <2>1. CASE i <= Len(r)
    <3>1. (r \o alerts)[i] = r[i] /\ i \in 1..Len(r) /\ i + 1 \in 1..Len(batch)
      BY <1>1, <1>2, <1>4, <2>1
    <3>2. r[i] = batch[i + 1]
      BY <1>2, <3>1
    <3>3. Queue[i + 1] = batch[i + 1]
      BY <1>5, <3>1
    <3> QED BY <1>3, <3>1, <3>2, <3>3
  <2>2. CASE i > Len(r)
    <3>1. Queue'[i] = alerts[i - Len(r)]
      BY <1>1, <1>2, <1>3, <1>4, <2>2
    <3>2. Queue[i + 1] = alerts[i + 1 - Len(batch)]
      BY <1>1, <1>2, <1>4, <2>2 DEF Queue
    <3> QED BY <1>2, <1>4, <3>1, <3>2
  <2>3. Len(r) \in Int
    BY <1>2, <1>4
  <2> QED BY <2>1, <2>2, <2>3
<1> QED BY <1>2, <1>4, <1>5, <1>6

LEMMA QueueGrows ==
  ASSUME TypeInv, NEW a \in Named, Post(a), UNCHANGED batch
  PROVE  /\ DOMAIN Queue' = 1..(Len(Queue) + 1) /\ Queue'[Len(Queue) + 1] = a
         /\ \A i \in 1..Len(Queue) : Queue'[i] = Queue[i]
<1>1. batch \in Seq(Named) /\ alerts \in Seq(Named)
  BY DEF TypeInv, QueueOK
<1>2. Queue \in Seq(Named)
  BY QueueType
<1>3. Queue' = Append(Queue, a)
  BY <1>1 DEF Queue, Post
<1> HIDE DEF Queue
<1> QED BY <1>2, <1>3

LEMMA QueueKept == ASSUME UNCHANGED <<alerts, batch>> PROVE Queue' = Queue
BY DEF Queue

---------------------------------------------------------------------------
(* What a torrent's versions are to one another.                           *)

Growing(t) ==
    /\ saved[t] <= data[t] /\ wanted[t] <= data[t]
    /\ t \in fresh => data[t] = 0 /\ best[t] = 0 /\ t \notin adding \cup session
    /\ data[t] # 0 \/ t \in adding \cup session => best[t] <= saved[t]
    /\ files[t] \in {Torn, best[t]}
Grows == \A t \in Torrents : Growing(t)

(* Resume data not yet on disk is as new as what is there, and two answers *)
(* for one torrent come in the order they were given.                      *)
Fits(a) ==
    0 < a.version /\ a.version <= saved[a.torrent] /\ best[a.torrent] <= a.version
InOrder ==
    /\ \A i \in DOMAIN Queue : Queue[i].kind = "resume" => Fits(Queue[i])
    /\ \A i, j \in DOMAIN Queue :
          i < j /\ Queue[i].kind = "resume" /\ Queue[j].kind = "resume"
                /\ Queue[i].torrent = Queue[j].torrent
             => Queue[i].version <= Queue[j].version
WriteInOrder ==
    mpc = "write" =>
       /\ Fits(writing) /\ files[writing.torrent] = Torn
       /\ \A i \in DOMAIN Queue :
             Queue[i].kind = "resume" /\ Queue[i].torrent = writing.torrent
                => writing.version <= Queue[i].version
OrderInv == Grows /\ InOrder /\ WriteInOrder

LEMMA OrderInit == Init => OrderInv
<1> SUFFICES ASSUME Init PROVE OrderInv
  OBVIOUS
<1>1. Grows
  BY DEF Init, Grows, Growing
<1>2. DOMAIN Queue = {}
  BY DEF Init, Queue
<1>3. WriteInOrder
  BY DEF Init, WriteInOrder
<1> QED BY <1>1, <1>2, <1>3 DEF OrderInv, InOrder

(* Versions are numbers.                                                   *)
LEMMA Numbers ==
  ASSUME TypeInv, NEW t \in Torrents
  PROVE  /\ data[t] \in Nat /\ saved[t] \in Nat /\ wanted[t] \in Nat /\ best[t] \in Nat
         /\ files[t] \in Int
<1>1. /\ data[t] \in Versions /\ saved[t] \in Versions /\ wanted[t] \in Versions
      /\ best[t] \in Versions /\ files[t] \in Versions \cup {Torn}
  BY DEF TypeInv, DiskOK, SessionOK, MainOK
<1> QED BY <1>1 DEF Versions, Torn

(* The steps that touch no version and no file.                            *)
Still == UNCHANGED <<files, best, adding, session, data, saved, wanted, fresh>>

LEMMA GrowsKept == ASSUME OrderInv, Still PROVE Grows'
BY DEF OrderInv, Still, Grows, Growing

LEMMA InOrderKept ==
  ASSUME OrderInv, UNCHANGED <<best, saved>>, Queue' = Queue
  PROVE  InOrder'
BY DEF OrderInv, InOrder, Fits

LEMMA InOrderDrains ==
  ASSUME TypeInv, OrderInv, batch # <<>>, batch' = Tail(batch), UNCHANGED <<alerts, best, saved>>
  PROVE  InOrder'
<1>1. /\ DOMAIN Queue = 1..Len(Queue) /\ Len(Queue) \in Nat
      /\ DOMAIN Queue' = 1..(Len(Queue) - 1)
      /\ \A i \in 1..(Len(Queue) - 1) : Queue'[i] = Queue[i + 1] /\ i + 1 \in 1..Len(Queue)
  BY QueueType, QueueDrains
<1> HIDE DEF Queue
<1>2. \A i \in DOMAIN Queue' : Queue'[i].kind = "resume" => Fits(Queue'[i])
  BY <1>1 DEF OrderInv, InOrder
<1>3. \A a : Fits(a)' <=> Fits(a)
  BY DEF Fits
<1>4. \A i, j \in DOMAIN Queue' :
         i < j /\ Queue'[i].kind = "resume" /\ Queue'[j].kind = "resume"
               /\ Queue'[i].torrent = Queue'[j].torrent
            => Queue'[i].version <= Queue'[j].version
  <2> SUFFICES ASSUME NEW i \in DOMAIN Queue', NEW j \in DOMAIN Queue', i < j,
                      Queue'[i].kind = "resume", Queue'[j].kind = "resume",
                      Queue'[i].torrent = Queue'[j].torrent
               PROVE  Queue'[i].version <= Queue'[j].version
    OBVIOUS
  <2>1. /\ i + 1 \in DOMAIN Queue /\ j + 1 \in DOMAIN Queue /\ i + 1 < j + 1
        /\ Queue'[i] = Queue[i + 1] /\ Queue'[j] = Queue[j + 1]
    BY <1>1
  <2> QED BY <2>1 DEF OrderInv, InOrder
<1> QED BY <1>2, <1>3, <1>4 DEF InOrder, Fits

LEMMA WriteInOrderKept ==
  ASSUME OrderInv, UNCHANGED <<best, saved, files, writing>>, Queue' = Queue,
         mpc' = "write" => mpc = "write"
  PROVE  WriteInOrder'
BY DEF OrderInv, WriteInOrder, Fits

(* Outside a write, and into one, WriteInOrder asks for nothing.           *)
LEMMA OrderMoves == ASSUME TypeInv, OrderInv, Moves PROVE OrderInv'
<1>1. Still /\ Queue' = Queue /\ writing' = writing
  BY QueueKept DEF Moves, Still, disk, libt, clients, request, main
<1>2. mpc' = "write" => mpc = "write"
  BY DEF Moves, Turns
<1> QED BY <1>1, <1>2, GrowsKept, InOrderKept, WriteInOrderKept DEF OrderInv, Still

LEMMA OrderTakes == ASSUME TypeInv, OrderInv, Takes PROVE OrderInv'
<1>1. Still /\ Queue' = Queue /\ mpc' # "write"
  BY QueueTaken DEF Takes, Still, disk, libt, clients, request
<1> QED BY <1>1, GrowsKept, InOrderKept DEF OrderInv, Still, WriteInOrder

LEMMA OrderHandles == ASSUME TypeInv, OrderInv, Handles \/ DrainFailed PROVE OrderInv'
<1>1. Still /\ mpc' # "write"
  BY DEF Handles, DrainFailed, Still, disk, libt, clients, request
<1>2. batch # <<>> /\ batch' = Tail(batch) /\ UNCHANGED alerts
  BY DEF Handles, DrainFailed, NextAlert
<1> QED BY <1>1, <1>2, GrowsKept, InOrderDrains DEF OrderInv, Still, WriteInOrder

LEMMA OrderQuiet ==
  ASSUME TypeInv, OrderInv,
         EraseTorrent \/ \E t \in Torrents : ScanSkip(t)
  PROVE  OrderInv'
<1>1. Still /\ Queue' = Queue /\ UNCHANGED <<writing, mpc>>
  BY QueueKept DEF EraseTorrent, ScanSkip, Still, disk, libt, clients, request
<1> QED BY <1>1, GrowsKept, InOrderKept, WriteInOrderKept DEF OrderInv, Still

LEMMA OrderBegins == ASSUME TypeInv, OrderInv, Begins PROVE OrderInv'
<1>1. UNCHANGED <<files, best, adding, session, data, saved, fresh>> /\ Queue' = Queue
  BY QueueKept DEF Begins, disk, libt, clients
<1>2. mpc' # "write" /\ wanted' = [t \in Torrents |-> 0]
  BY DEF Begins, BeginSave, StartScan
<1>3. Grows'
  BY <1>1, <1>2, Numbers DEF OrderInv, Grows, Growing
<1> QED BY <1>1, <1>2, <1>3, InOrderKept DEF OrderInv, WriteInOrder

LEMMA OrderScanAsk ==
  ASSUME TypeInv, OrderInv, NEW u \in Torrents, ScanAsk(u) PROVE OrderInv'
<1>1. UNCHANGED <<files, best, adding, session, data, saved, fresh>> /\ Queue' = Queue
  BY QueueKept DEF ScanAsk, disk, clients
<1>2. mpc' # "write" /\ wanted' = [wanted EXCEPT ![u] = data[u]]
  BY DEF ScanAsk, Ask
<1>3. Grows'
  <2> SUFFICES ASSUME NEW t \in Torrents PROVE Growing(t)'
    BY DEF Grows
  <2>1. wanted'[t] \in {wanted[t], data[t]}
    BY <1>2 DEF TypeInv, MainOK
  <2> QED BY <1>1, <2>1, Numbers DEF OrderInv, Grows, Growing
<1> QED BY <1>1, <1>2, <1>3, InOrderKept DEF OrderInv, WriteInOrder

LEMMA OrderProgress ==
  ASSUME TypeInv, OrderInv, NEW u \in Torrents, Progress(u) PROVE OrderInv'
<1>1. /\ UNCHANGED <<files, best, adding, session, saved, wanted, fresh>> /\ Queue' = Queue
      /\ UNCHANGED <<writing, mpc>>
  BY QueueKept DEF Progress, disk, clients, main, request
<1>2. u \in session /\ data' = [data EXCEPT ![u] = data[u] + 1]
  BY DEF Progress
<1>3. Grows'
  <2> SUFFICES ASSUME NEW t \in Torrents PROVE Growing(t)'
    BY DEF Grows
  <2>1. data'[t] = IF t = u THEN data[t] + 1 ELSE data[t]
    BY <1>2 DEF TypeInv, SessionOK
  <2> QED BY <1>1, <1>2, <2>1, Numbers DEF OrderInv, Grows, Growing
<1> QED BY <1>1, <1>3, InOrderKept, WriteInOrderKept DEF OrderInv

LEMMA OrderAddTorrent ==
  ASSUME TypeInv, OrderInv, NEW u \in Torrents, AddTorrent(u) PROVE OrderInv'
<1>1. /\ UNCHANGED <<files, best, session, saved, wanted>> /\ Queue' = Queue
      /\ UNCHANGED <<writing, mpc>>
  BY QueueKept DEF AddTorrent, disk, main, request
<1>2. u \in fresh /\ fresh' = fresh \ {u} /\ adding' = adding \cup {u}
  BY DEF AddTorrent
<1>3. Grows'
  <2> SUFFICES ASSUME NEW t \in Torrents PROVE Growing(t)'
    BY DEF Grows
  <2>1. data'[t] = data[t] \/ (t = u /\ data'[t] = 1)
    <3>1. data \in [Torrents -> Versions]
      BY DEF TypeInv, SessionOK
    <3>2. data' = data \/ data' = [data EXCEPT ![u] = 1]
      BY DEF AddTorrent
    <3> QED BY <3>1, <3>2
  <2> QED BY <1>1, <1>2, <2>1, Numbers DEF OrderInv, Grows, Growing
<1> QED BY <1>1, <1>3, InOrderKept, WriteInOrderKept DEF OrderInv

LEMMA OrderRemoveTorrent ==
  ASSUME TypeInv, OrderInv, NEW u \in Torrents, RemoveTorrent(u) PROVE OrderInv'
<1>1. /\ UNCHANGED <<files, best, adding, data, saved, wanted, fresh, writing, mpc>>
      /\ Queue' = Queue
  BY QueueKept DEF RemoveTorrent, disk, main, request
<1>2. session' \subseteq session
  BY DEF RemoveTorrent
<1>3. Grows'
  BY <1>1, <1>2 DEF OrderInv, Grows, Growing
<1> QED BY <1>1, <1>3, InOrderKept, WriteInOrderKept DEF OrderInv

(* A new alert goes last: if it is data, nothing before it may be newer.   *)
LEMMA OrderPosts ==
  ASSUME TypeInv, OrderInv, NEW a \in Named, Post(a), UNCHANGED <<batch, best, files, writing, mpc>>,
         \A t \in Torrents : saved'[t] \in Nat /\ saved[t] <= saved'[t],
         a.kind = "resume" => Fits(a)' /\ saved'[a.torrent] = a.version
  PROVE  InOrder' /\ WriteInOrder'
<1>1. /\ DOMAIN Queue = 1..Len(Queue) /\ Len(Queue) \in Nat
      /\ DOMAIN Queue' = 1..(Len(Queue) + 1) /\ Queue'[Len(Queue) + 1] = a
      /\ \A i \in 1..Len(Queue) : Queue'[i] = Queue[i]
      /\ \A i \in 1..Len(Queue) : Queue[i] \in Named
  BY QueueType, QueueGrows
<1> DEFINE n == Len(Queue)
<1> HIDE DEF Queue, n
<1>2. /\ n \in Nat /\ DOMAIN Queue = 1..n /\ DOMAIN Queue' = 1..(n + 1) /\ Queue'[n + 1] = a
      /\ \A i \in 1..n : Queue'[i] = Queue[i] /\ Queue[i] \in Named
  BY <1>1 DEF n
<1>3. ASSUME NEW x, x.torrent \in Torrents, x.version \in Nat, Fits(x) PROVE Fits(x)'
  BY <1>3, Numbers DEF Fits
<1>4. \A x \in Named : x.kind = "resume" => x.torrent \in Torrents /\ x.version \in Nat
  BY DEF Named, Alerts, Versions
<1>5. \A i \in 1..n : Queue[i].kind = "resume" => Fits(Queue[i])
  BY <1>2 DEF OrderInv, InOrder
<1>6. \A i \in 1..(n + 1) : Queue'[i].kind = "resume" => Fits(Queue[i])'
  <2> SUFFICES ASSUME NEW i \in 1..(n + 1), NEW x, x = Queue'[i], x.kind = "resume"
               PROVE  Fits(x)'
    BY DEF Fits
  <2>1. CASE i = n + 1
    BY <1>2, <2>1
  <2>2. CASE i # n + 1
    <3>1. i \in 1..n /\ x = Queue[i] /\ x \in Named
      BY <1>2, <2>2
    <3> QED BY <1>3, <1>4, <1>5, <3>1
  <2> QED BY <2>1, <2>2
<1>7. \A i, j \in 1..(n + 1) :
         i < j /\ Queue'[i].kind = "resume" /\ Queue'[j].kind = "resume"
               /\ Queue'[i].torrent = Queue'[j].torrent
            => Queue'[i].version <= Queue'[j].version
  <2> SUFFICES ASSUME NEW i \in 1..(n + 1), NEW j \in 1..(n + 1), i < j,
                      Queue'[i].kind = "resume", Queue'[j].kind = "resume",
                      Queue'[i].torrent = Queue'[j].torrent
               PROVE  Queue'[i].version <= Queue'[j].version
    OBVIOUS
  <2>1. i \in 1..n /\ Queue'[i] = Queue[i] /\ Queue[i] \in Named
    BY <1>2
  <2>2. CASE j = n + 1
    <3>1. Queue'[i].version <= saved[Queue'[i].torrent] /\ Queue'[i].torrent \in Torrents
          /\ Queue'[i].version \in Nat
      BY <1>4, <1>5, <2>1 DEF Fits
    <3> QED BY <1>2, <2>2, <3>1, Numbers
  <2>3. CASE j # n + 1
    <3>1. j \in 1..n /\ Queue'[j] = Queue[j]
      BY <1>2, <2>3
    <3> QED BY <1>2, <2>1, <3>1 DEF OrderInv, InOrder
  <2> QED BY <2>2, <2>3
<1>8. InOrder'
  BY <1>2, <1>6, <1>7 DEF InOrder, Fits
<1>9. WriteInOrder'
  <2> SUFFICES ASSUME mpc = "write" PROVE WriteInOrder'
    BY DEF WriteInOrder
  <2>1. /\ Fits(writing) /\ files[writing.torrent] = Torn
        /\ \A i \in 1..n : Queue[i].kind = "resume" /\ Queue[i].torrent = writing.torrent
                              => writing.version <= Queue[i].version
    BY <1>2 DEF OrderInv, WriteInOrder
  <2>2. writing.torrent \in Torrents /\ writing.version \in Nat
    BY DEF TypeInv, WritingOK, Versions
  <2>3. Fits(writing)'
    BY <2>1, <2>2, Numbers DEF Fits
  <2>4. ASSUME NEW i \in 1..(n + 1), Queue'[i].kind = "resume",
               Queue'[i].torrent = writing.torrent
        PROVE  writing.version <= Queue'[i].version
    <3>1. CASE i = n + 1
      BY <1>2, <2>1, <2>2, <2>4, <3>1, Numbers DEF Fits
    <3>2. CASE i # n + 1
      BY <1>2, <2>1, <2>4, <3>2
    <3> QED BY <3>1, <3>2
  <2> QED BY <1>2, <2>1, <2>3, <2>4 DEF WriteInOrder
<1> QED BY <1>8, <1>9

LEMMA OrderSessionAdds ==
  ASSUME TypeInv, OrderInv, NEW u \in Torrents, SessionAdds(u) PROVE OrderInv'
<1> DEFINE a == [kind |-> "added", torrent |-> u, version |-> 0]
<1>1. a \in Named /\ a.kind # "resume"
  BY DEF Named, Alerts, Versions
<1>2. Post(a) /\ UNCHANGED <<batch, best, files, writing, mpc, saved, data, wanted, fresh>>
  BY DEF SessionAdds, disk, main, request, clients
<1> HIDE DEF a
<1>3. InOrder' /\ WriteInOrder'
  BY <1>1, <1>2, OrderPosts, Numbers
<1>4. Grows'
  <2>1. adding' \cup session' = adding \cup session
    BY DEF SessionAdds
  <2> QED BY <1>2, <2>1 DEF OrderInv, Grows, Growing
<1> QED BY <1>3, <1>4 DEF OrderInv

LEMMA OrderOtherAlert == ASSUME TypeInv, OrderInv, OtherAlert PROVE OrderInv'
<1> DEFINE a == [kind |-> "other", torrent |-> None, version |-> 0]
<1>1. a \in Named /\ a.kind # "resume"
  BY DEF Named, Alerts, Versions
<1>2. Post(a) /\ UNCHANGED <<batch, writing, mpc>> /\ Still
  BY DEF OtherAlert, Still, disk, libt, main, request, clients
<1> HIDE DEF a
<1>3. InOrder' /\ WriteInOrder'
  BY <1>1, <1>2, OrderPosts, Numbers DEF Still
<1> QED BY <1>2, <1>3, GrowsKept DEF OrderInv

LEMMA OrderAnswer == ASSUME TypeInv, OrderInv, Answer PROVE OrderInv'
<1>1. PICK i \in DOMAIN asked :
        \/ /\ Post([kind |-> "failed", torrent |-> asked[i], version |-> 0])
           /\ UNCHANGED saved
        \/ /\ data[asked[i]] # saved[asked[i]]
           /\ Post([kind |-> "resume", torrent |-> asked[i], version |-> data[asked[i]]])
           /\ saved' = [saved EXCEPT ![asked[i]] = data[asked[i]]]
  BY DEF Answer
<1>2. PICK u \in Torrents : u = asked[i]
  BY DEF TypeInv, SessionOK
<1>3. UNCHANGED <<batch, best, files, writing, mpc, adding, session, data, wanted, fresh>>
  BY DEF Answer, disk, main, request, clients
<1>4. CASE UNCHANGED saved
  <2> DEFINE a == [kind |-> "failed", torrent |-> u, version |-> 0]
  <2>1. a \in Named /\ a.kind # "resume"
    BY DEF Named, Alerts, Versions
  <2>2. CASE Post(a)
    <3> HIDE DEF a
    <3>1. InOrder' /\ WriteInOrder'
      BY <1>3, <1>4, <2>1, <2>2, OrderPosts, Numbers
    <3> QED BY <1>3, <1>4, <3>1, GrowsKept DEF OrderInv, Still
  <2>3. CASE ~Post(a)
    <3>1. data[u] # saved[u] /\ saved' = [saved EXCEPT ![u] = data[u]]
      BY <1>1, <1>2, <2>3
    <3>2. saved'[u] = data[u]
      BY <3>1 DEF TypeInv, SessionOK
    <3> QED BY <1>4, <3>1, <3>2
  <2> QED BY <2>2, <2>3
<1>5. CASE ~UNCHANGED saved
  <2>1. data[u] # saved[u] /\ saved' = [saved EXCEPT ![u] = data[u]]
    BY <1>1, <1>2, <1>5
  <2>2. PICK a \in Named : /\ a.kind = "resume" /\ a.torrent = u /\ a.version = data[u]
                           /\ Post(a)
    <3> DEFINE d == [kind |-> "resume", torrent |-> u, version |-> data[u]]
    <3>1. d \in Named /\ d.kind = "resume" /\ d.torrent = u /\ d.version = data[u]
      BY DEF Named, Alerts, TypeInv, SessionOK
    <3>2. Post(d)
      BY <1>1, <1>2, <1>5
    <3> HIDE DEF d
    <3> QED BY <3>1, <3>2
  <2>3. \A t \in Torrents : saved'[t] = IF t = u THEN data[u] ELSE saved[t]
    BY <2>1 DEF TypeInv, SessionOK
  <2>4. Growing(u)
    BY DEF OrderInv, Grows
  <2>5. 0 < data[u] /\ best[u] <= data[u] /\ saved[u] <= data[u]
    BY <2>1, <2>4, Numbers DEF Growing
  <2>6. Fits(a)' /\ saved'[a.torrent] = a.version
    BY <1>3, <2>2, <2>3, <2>5, Numbers DEF Fits
  <2>7. \A t \in Torrents : saved'[t] \in Nat /\ saved[t] <= saved'[t]
    BY <2>3, <2>5, Numbers
  <2>8. InOrder' /\ WriteInOrder'
    BY <1>3, <2>1, <2>2, <2>6, <2>7, OrderPosts
  <2>9. Grows'
    <3> SUFFICES ASSUME NEW t \in Torrents PROVE Growing(t)'
      BY DEF Grows
    <3>1. saved[t] <= saved'[t] /\ saved'[t] <= data[t]
      BY <2>3, <2>7, Numbers DEF OrderInv, Grows, Growing
    <3> QED BY <1>3, <2>7, <3>1, Numbers DEF OrderInv, Grows, Growing
  <2> QED BY <2>8, <2>9 DEF OrderInv
<1> QED BY <1>4, <1>5

LEMMA OrderDrainResume == ASSUME TypeInv, OrderInv, DrainResume PROVE OrderInv'
<1>1. batch # <<>> /\ batch' = Tail(batch) /\ Head(batch).kind = "resume" /\ UNCHANGED alerts
  BY DEF DrainResume, NextAlert
<1>2. UNCHANGED <<best, adding, session, data, saved, wanted, fresh>>
  BY DEF DrainResume, libt, clients
<1>3. InOrder'
  BY <1>1, <1>2, InOrderDrains
<1>4. Grows'
  <2>1. \A t \in Torrents : files'[t] \in {files[t], Torn}
    BY DEF DrainResume, TypeInv, DiskOK
  <2> QED BY <1>2, <2>1 DEF OrderInv, Grows, Growing
<1>5. WriteInOrder'
  <2> SUFFICES ASSUME mpc' = "write" PROVE WriteInOrder'
    BY DEF WriteInOrder
  <2>1. /\ files' = [files EXCEPT ![Head(batch).torrent] = Torn]
        /\ writing' = [torrent |-> Head(batch).torrent, version |-> Head(batch).version]
    BY DEF DrainResume, NextAlert
  <2>2. Head(batch) = Queue[1] /\ DOMAIN Queue = 1..Len(Queue) /\ Len(Queue) > 0 /\ Len(Queue) \in Nat
        /\ DOMAIN Queue' = 1..(Len(Queue) - 1)
        /\ \A i \in 1..(Len(Queue) - 1) : Queue'[i] = Queue[i + 1]
    BY <1>1, QueueDrains, QueueType
  <2> DEFINE h == Head(batch)
  <2>3. h.torrent \in Torrents /\ writing'.torrent = h.torrent /\ writing'.version = h.version
    BY <1>1, <2>1, BatchTail DEF Named
  <2>4. files'[h.torrent] = Torn
    BY <2>1, <2>3 DEF TypeInv, DiskOK
  <2> HIDE DEF h, Queue
  <2>5. Fits(Queue[1])
    BY <1>1, <2>2 DEF OrderInv, InOrder
  <2>6. Fits(writing)'
    BY <1>2, <2>2, <2>3, <2>5 DEF Fits, h
  <2>7. \A i \in DOMAIN Queue' :
           Queue'[i].kind = "resume" /\ Queue'[i].torrent = h.torrent
              => h.version <= Queue'[i].version
    <3> SUFFICES ASSUME NEW i \in DOMAIN Queue', Queue'[i].kind = "resume",
                        Queue'[i].torrent = h.torrent
                 PROVE  h.version <= Queue'[i].version
      OBVIOUS
    <3>1. 1 \in DOMAIN Queue /\ i + 1 \in DOMAIN Queue /\ 1 < i + 1 /\ Queue'[i] = Queue[i + 1]
      BY <2>2
    <3> QED BY <1>1, <2>2, <3>1 DEF OrderInv, InOrder, h
  <2> QED BY <2>3, <2>4, <2>6, <2>7 DEF WriteInOrder
<1> QED BY <1>3, <1>4, <1>5 DEF OrderInv

LEMMA OrderWriteFile == ASSUME TypeInv, OrderInv, WriteFile PROVE OrderInv'
<1> DEFINE w == writing.torrent
           v == writing.version
<1>1. /\ UNCHANGED <<adding, session, data, saved, wanted, fresh>> /\ Queue' = Queue
      /\ mpc' # "write" /\ mpc = "write"
  BY QueueKept DEF WriteFile, libt, clients, request
<1>2. w \in Torrents /\ v \in Nat
  BY <1>1 DEF TypeInv, WritingOK, Versions
<1> SUFFICES ASSUME ~UNCHANGED <<files, best>> PROVE OrderInv'
  <2>1. UNCHANGED <<files, best>> => Grows'
    BY <1>1, GrowsKept DEF Still
  <2>2. UNCHANGED <<files, best>> => InOrder'
    BY <1>1, InOrderKept
  <2> QED BY <1>1, <2>1, <2>2 DEF OrderInv, WriteInOrder
<1>3. /\ \A t \in Torrents : best'[t] = IF t = w THEN v ELSE best[t]
      /\ \A t \in Torrents : files'[t] = IF t = w THEN v ELSE files[t]
  BY DEF WriteFile, TypeInv, DiskOK
<1>4. /\ 0 < v /\ v <= saved[w] /\ best[w] <= v
      /\ \A i \in DOMAIN Queue :
            Queue[i].kind = "resume" /\ Queue[i].torrent = w => v <= Queue[i].version
  BY <1>1 DEF OrderInv, WriteInOrder, Fits
<1> HIDE DEF w, v, Queue
<1>5. Grows'
  <2> SUFFICES ASSUME NEW t \in Torrents PROVE Growing(t)'
    BY DEF Grows
  <2>1. Growing(t)
    BY DEF OrderInv, Grows
  <2>2. CASE t = w
    BY <1>1, <1>2, <1>3, <1>4, <2>1, <2>2, Numbers DEF Growing
  <2>3. CASE t # w
    BY <1>1, <1>3, <2>1, <2>3 DEF Growing
  <2> QED BY <2>2, <2>3
<1>6. InOrder'
  <2>1. ASSUME NEW i \in DOMAIN Queue, Queue[i].kind = "resume" PROVE Fits(Queue[i])'
    <3>1. Fits(Queue[i])
      BY <2>1 DEF OrderInv, InOrder
    <3>2. Queue[i].torrent \in Torrents
      BY <2>1, QueueType DEF Named
    <3> QED BY <1>1, <1>3, <1>4, <2>1, <3>1, <3>2 DEF Fits
  <2> QED BY <1>1, <2>1 DEF OrderInv, InOrder, Fits
<1> QED BY <1>1, <1>5, <1>6 DEF OrderInv, WriteInOrder

LEMMA OrderStart == ASSUME TypeInv, OrderInv, Start PROVE OrderInv'
<1>1. DOMAIN Queue' = {} /\ mpc' # "write"
  BY DEF Start, Queue
<1>2. Grows'
  <2> SUFFICES ASSUME NEW t \in Torrents PROVE Growing(t)'
    BY DEF Grows
  <2>1. /\ UNCHANGED <<files, best, fresh>> /\ adding' = Loadable /\ session' = {}
        /\ data'[t] = (IF t \in Loadable THEN files[t] ELSE 0)
        /\ saved'[t] = data'[t] /\ wanted'[t] = 0
    BY DEF Start
  <2>2. t \in Loadable => files[t] > 0
    BY DEF Loadable
  <2>3. Growing(t)
    BY DEF OrderInv, Grows
  <2> QED BY <2>1, <2>2, <2>3, Numbers DEF Growing, Torn
<1> QED BY <1>1, <1>2 DEF OrderInv, InOrder, WriteInOrder

LEMMA OrderStep == ASSUME TypeInv, OrderInv, [Next]_vars PROVE OrderInv'
BY Steps, OrderMoves, OrderTakes, OrderHandles, OrderBegins, OrderDrainResume, OrderWriteFile,
   OrderAnswer, OrderOtherAlert, OrderQuiet, OrderStart, OrderScanAsk, OrderSessionAdds,
   OrderProgress, OrderAddTorrent, OrderRemoveTorrent

LEMMA Ordered == Spec => []OrderInv
BY Typed, OrderInit, OrderStep, PTL DEF Spec

---------------------------------------------------------------------------
(* Files are only replaced by newer ones.                                  *)

LEMMA DiskSteps ==
  ASSUME TypeInv, [Next]_vars
  PROVE  /\ UNCHANGED best \/ WriteFile
         /\ UNCHANGED <<files, spoilt>> \/ WriteFile \/ DrainResume
         /\ UNCHANGED starts \/ Start
<1>1. CASE Moves \/ Takes \/ Handles \/ Begins
  BY <1>1 DEF Moves, Takes, Handles, Begins, disk
<1>2. CASE DrainFailed \/ DrainResume \/ WriteFile \/ Answer \/ OtherAlert
  BY <1>2 DEF DrainFailed, DrainResume, WriteFile, Answer, OtherAlert, disk
<1>3. CASE EraseTorrent \/ Start
  BY <1>3 DEF EraseTorrent, Start, disk
<1>4. CASE \E t \in Torrents : \/ ScanAsk(t) \/ ScanSkip(t) \/ SessionAdds(t) \/ Progress(t)
                               \/ AddTorrent(t) \/ RemoveTorrent(t)
  BY <1>4 DEF ScanAsk, ScanSkip, SessionAdds, Progress, AddTorrent, RemoveTorrent, disk
<1> QED BY Steps, <1>1, <1>2, <1>3, <1>4

(* The stutter of vars is one of the steps of Moves, so the action holds   *)
(* of it, too.                                                             *)
THEOREM FilesGrow == Spec => FilesNeverGoBack
<1>1. ASSUME TypeInv, OrderInv, [Next]_vars
      PROVE  \A t \in Torrents : best'[t] >= best[t]
  <2>1. CASE UNCHANGED best
    BY <1>1, <2>1, Numbers
  <2>2. CASE WriteFile
    <3>1. /\ writing.torrent \in Torrents /\ writing.version \in Nat
          /\ best[writing.torrent] <= writing.version
      BY <1>1, <2>2 DEF WriteFile, TypeInv, WritingOK, Versions, OrderInv, WriteInOrder, Fits
    <3>2. best' = best \/ best' = [best EXCEPT ![writing.torrent] = writing.version]
      BY <2>2 DEF WriteFile
    <3>3. best \in [Torrents -> Versions]
      BY <1>1 DEF TypeInv, DiskOK
    <3> QED BY <1>1, <3>1, <3>2, <3>3, Numbers
  <2> QED BY <1>1, <2>1, <2>2, DiskSteps
<1> QED BY <1>1, Typed, Ordered, PTL DEF Spec, FilesNeverGoBack

---------------------------------------------------------------------------
(* Truncated files but for those whose write fell short: one for every     *)
(* start of the program that is over, and one for a write under way.       *)

TornFiles == {t \in Torrents \ spoilt : files[t] = Torn}
TornBound == IF mpc \in {"write", "down"} THEN starts ELSE starts - 1
TornInv ==
    /\ IsFiniteSet(TornFiles) /\ Cardinality(TornFiles) <= TornBound
    /\ mpc = "write" => Cardinality(TornFiles \ {writing.torrent}) <= starts - 1

LEMMA TornInit == Init => TornInv
<1> SUFFICES ASSUME Init PROVE TornInv
  OBVIOUS
<1>1. TornFiles = {}
  BY DEF Init, TornFiles, Torn
<1>2. Cardinality(TornFiles) = 0 /\ IsFiniteSet(TornFiles)
  BY <1>1, FS_EmptySet
<1>3. TornBound = 0 /\ mpc = "loop"
  BY DEF Init, TornBound
<1> QED BY <1>2, <1>3 DEF TornInv

LEMMA TornStep == ASSUME TypeInv, OrderInv, TornInv, [Next]_vars PROVE TornInv'
<1>1. /\ starts \in Nat /\ starts' \in Nat /\ IsFiniteSet(TornFiles)
      /\ Cardinality(TornFiles) \in Nat
  BY TypeStep, FS_CardinalityType DEF TypeInv, DiskOK, TornInv
<1>2. CASE DrainResume
  <2>1. mpc = "drain" /\ starts' = starts
    BY <1>2 DEF DrainResume
  <2>2. CASE UNCHANGED <<files, spoilt, writing, mpc>>
    <3>1. TornFiles' = TornFiles /\ TornBound' = TornBound
      BY <2>1, <2>2 DEF TornFiles, TornBound
    <3> QED BY <2>1, <2>2, <3>1 DEF TornInv
  <2>3. CASE ~UNCHANGED <<files, spoilt, writing, mpc>>
    <3> DEFINE t == Head(batch).torrent
    <3>1. /\ files' = [files EXCEPT ![t] = Torn] /\ writing'.torrent = t /\ mpc' = "write"
          /\ spoilt' = spoilt \ {t}
      BY <1>2, <2>3 DEF DrainResume, NextAlert
    <3>2. t \in Torrents
      BY <1>2, BatchTail DEF DrainResume, NextAlert, Named
    <3>3. files' \in [Torrents -> Versions \cup {Torn}] /\ files'[t] = Torn
          /\ \A u \in Torrents \ {t} : files'[u] = files[u]
      BY <3>1, <3>2 DEF TypeInv, DiskOK
    <3> HIDE DEF t
    <3>4. TornFiles' = TornFiles \cup {t} /\ TornFiles' \ {t} \in SUBSET TornFiles
      BY <3>1, <3>2, <3>3 DEF TornFiles
    <3>5. /\ IsFiniteSet(TornFiles \cup {t})
          /\ Cardinality(TornFiles \cup {t}) <= Cardinality(TornFiles) + 1
          /\ Cardinality(TornFiles' \ {t}) <= Cardinality(TornFiles)
          /\ Cardinality(TornFiles \cup {t}) \in Nat /\ Cardinality(TornFiles' \ {t}) \in Nat
      BY <1>1, <3>4, FS_AddElement, FS_Subset, FS_CardinalityType
    <3>6. Cardinality(TornFiles) <= starts - 1 /\ TornBound' = starts
      BY <2>1, <3>1 DEF TornInv, TornBound
    <3> QED BY <1>1, <2>1, <3>1, <3>4, <3>5, <3>6 DEF TornInv
  <2> QED BY <2>2, <2>3
<1>3. CASE WriteFile
  <2>1. mpc = "write" /\ mpc' = "drain" /\ starts' = starts
        /\ writing.torrent \in Torrents
        /\ \/ files' = [files EXCEPT ![writing.torrent] = writing.version] /\ spoilt' = spoilt
           \/ spoilt' = spoilt \cup {writing.torrent} /\ files' = files
        /\ writing.version # Torn
    BY <1>3 DEF WriteFile, TypeInv, WritingOK, Versions, Torn
  <2>2. TornFiles' = TornFiles \ {writing.torrent}
    BY <2>1 DEF TornFiles, TypeInv, DiskOK
  <2>3. Cardinality(TornFiles') <= starts - 1 /\ TornBound' = starts - 1
    BY <2>1, <2>2 DEF TornInv, TornBound
  <2>4. IsFiniteSet(TornFiles')
    BY <1>1, <2>2, FS_Subset
  <2> QED BY <2>1, <2>3, <2>4 DEF TornInv
<1>4. CASE ~DrainResume /\ ~WriteFile
  <2>1. TornFiles' = TornFiles
    BY <1>4, DiskSteps DEF TornFiles
  <2>2. CASE Start
    <3>1. mpc' = "loop" /\ starts' = starts + 1 /\ TornBound <= starts
      BY <1>1, <2>2 DEF Start, TornBound
    <3>2. TornBound' = starts
      BY <1>1, <3>1 DEF TornBound
    <3>3. TornBound \in Int
      BY <1>1 DEF TornBound
    <3> QED BY <1>1, <2>1, <3>1, <3>2, <3>3 DEF TornInv
  <2>3. CASE ~Start
    <3>1. starts' = starts
      BY <2>3, DiskSteps
    <3>2. mpc = "down" => mpc' = "down"
      BY <1>4, <2>3, Steps
         DEF Moves, Turns, Takes, Handles, Begins, DrainFailed, Answer, OtherAlert,
             EraseTorrent, ScanAsk, ScanSkip, SessionAdds, Progress, AddTorrent, RemoveTorrent
    <3>3. mpc' = "write" => mpc = "write" /\ UNCHANGED writing
      BY <1>4, <2>3, Steps
         DEF Moves, Turns, Takes, Handles, Begins, BeginSave, DrainFailed, Answer, OtherAlert,
             EraseTorrent, ScanAsk, ScanSkip, SessionAdds, Progress, AddTorrent, RemoveTorrent, main
    <3>4. mpc = "write" => mpc' \in {"write", "down"}
      BY <1>4, <2>3, Steps
         DEF Moves, Turns, Takes, Handles, Begins, DrainFailed, Answer, OtherAlert,
             EraseTorrent, ScanAsk, ScanSkip, SessionAdds, Progress, AddTorrent, RemoveTorrent
    <3>5. TornBound \in Int /\ TornBound' \in Int /\ TornBound <= TornBound'
      BY <1>1, <3>1, <3>2, <3>4 DEF TornBound
    <3> QED BY <1>1, <2>1, <3>1, <3>3, <3>5 DEF TornInv
  <2> QED BY <2>2, <2>3
<1> QED BY <1>2, <1>3, <1>4

LEMMA FewTorn == Spec => []TornInv
BY Typed, Ordered, TornInit, TornStep, PTL DEF Spec

(* A crash costs at most the file that was being written: after any number *)
(* of starts no more files than that are truncated, but for those whose    *)
(* write fell short, and every other torrent that was ever written has its *)
(* newest file (save_fastresume).                                          *)
THEOREM CrashesCostLittle == Spec => []CrashCostsOneFile
<1>1. ASSUME TypeInv, OrderInv, TornInv PROVE CrashCostsOneFile
  <2> DEFINE Lost == {t \in Torrents \ spoilt : best[t] > 0 /\ files[t] <= 0}
  <2>1. Lost \in SUBSET TornFiles
    BY <1>1, Numbers DEF TornFiles, OrderInv, Grows, Growing
  <2>2. IsFiniteSet(TornFiles) /\ Cardinality(TornFiles) \in Nat /\ starts \in Nat
    BY <1>1, FS_CardinalityType DEF TornInv, TypeInv, DiskOK
  <2>3. Cardinality(Lost) <= Cardinality(TornFiles) /\ IsFiniteSet(Lost) /\ Cardinality(Lost) \in Nat
    BY <2>1, <2>2, FS_Subset, FS_CardinalityType
  <2>4. Cardinality(TornFiles) <= starts
    BY <1>1, <2>2 DEF TornInv, TornBound
  <2> HIDE DEF Lost
  <2>5. Cardinality(Lost) <= starts
    BY <2>2, <2>3, <2>4
  <2> QED BY <2>5 DEF CrashCostsOneFile, Lost
<1> QED BY <1>1, Typed, Ordered, FewTorn, PTL

---------------------------------------------------------------------------
(* A save accounts for every version it asked for.                         *)

Asked(t)    == \E i \in DOMAIN asked : asked[i] = t
Brings(a, t) == a.torrent = t /\ \/ a.kind = "failed"
                                 \/ a.kind = "resume" /\ a.version >= wanted[t]
Coming(t)   == \E i \in DOMAIN Queue : Brings(Queue[i], t)
BeingWritten(t) == mpc = "write" /\ writing.torrent = t /\ writing.version >= wanted[t]
Due(t) == Asked(t) \/ Coming(t) \/ BeingWritten(t) \/ files[t] >= wanted[t]

Saving == mpc \in {"scan", "wait", "drain", "write"}
SaveInv ==
    /\ Saving => \A t \in Torrents \ refused : wanted[t] > 0 => Due(t)
    /\ SavedMeansOnDisk

LEMMA SaveInit == Init => SaveInv
BY DEF Init, SaveInv, Saving, SavedMeansOnDisk

(* What a step keeps of what is due.                                       *)
LEMMA DueKept ==
  ASSUME TypeInv, SaveInv, Saving \/ ~Saving',
         UNCHANGED <<files, wanted, refused>>, mpc' # "done",
         \A t \in Torrents : Asked(t) => Asked(t)' \/ Coming(t)',
         \A t \in Torrents : Coming(t) => Coming(t)',
         \A t \in Torrents : BeingWritten(t) => BeingWritten(t)'
  PROVE  SaveInv'
BY DEF SaveInv, Saving, SavedMeansOnDisk, Due

LEMMA SaveTakes == ASSUME TypeInv, SaveInv, Takes PROVE SaveInv'
<1>1. Queue' = Queue /\ UNCHANGED <<files, wanted, refused, asked>>
  BY QueueTaken DEF Takes, disk, libt, request
<1>2. Saving \/ ~Saving'
  BY DEF Takes, Saving
<1>3. mpc # "write" /\ mpc' # "done"
  BY DEF Takes
<1> QED BY <1>1, <1>2, <1>3, DueKept DEF Asked, Coming, Brings, BeingWritten

LEMMA SaveMoves == ASSUME TypeInv, SaveInv, Moves PROVE SaveInv'
<1>1. Queue' = Queue /\ UNCHANGED <<files, wanted, refused, asked, writing, outstanding_resume_data>>
  BY QueueKept DEF Moves, disk, libt, request, main, manager
<1>2. \A t \in Torrents : /\ Asked(t)' <=> Asked(t)
                          /\ Coming(t)' <=> Coming(t)
  BY <1>1 DEF Asked, Coming, Brings
<1>3. CASE mpc' = "done" /\ mpc # "done"
  <2>1. mpc = "wait" /\ batch = <<>>
    BY <1>3 DEF Moves, Turns, TypeInv, QueueOK
  <2>2. ASSUME outstanding_resume_data = 0,
               NEW t \in Torrents \ refused, wanted[t] > 0
        PROVE  files[t] >= wanted[t]
    <3>1. Len(asked) = 0 /\ Count(alerts) = 0
      BY <2>2, CounterNow
    <3>2. ~Asked(t)
      BY <3>1 DEF Asked, TypeInv, SessionOK
    <3>3. AnswersIn(alerts) = {} /\ alerts \in Seq(Named)
      BY <3>1, CountFinite, FS_EmptySet DEF Count, TypeInv, QueueOK
    <3>4. ~Coming(t)
      BY <2>1, <3>3 DEF Coming, Brings, Queue, AnswersIn
    <3>5. Due(t)
      BY <2>1, <2>2 DEF SaveInv, Saving
    <3> QED BY <2>1, <3>2, <3>4, <3>5 DEF Due, BeingWritten
  <2> QED BY <1>1, <1>3, <2>2 DEF SaveInv, SavedMeansOnDisk, Saving
<1>4. CASE mpc' = "done" /\ mpc = "done"
  BY <1>1, <1>4 DEF SaveInv, SavedMeansOnDisk, Saving
<1>5. CASE mpc' # "done"
  <2>1. Saving \/ ~Saving'
    BY DEF Moves, Turns, Saving
  <2>2. CASE Saving'
    <3>1. \A t \in Torrents : BeingWritten(t) => BeingWritten(t)'
      BY <1>1, <2>2 DEF Moves, Turns, Saving, BeingWritten
    <3> QED BY <1>1, <1>2, <1>5, <2>1, <3>1, DueKept
  <2>3. CASE ~Saving'
    BY <1>5, <2>3 DEF SaveInv, SavedMeansOnDisk
  <2> QED BY <2>2, <2>3
<1> QED BY <1>3, <1>4, <1>5

LEMMA SaveQuiet ==
  ASSUME TypeInv, SaveInv, UNCHANGED <<files, wanted, refused, asked, alerts, batch, mpc, writing>>,
         outstanding_resume_data' = outstanding_resume_data
  PROVE  SaveInv'
<1>1. Queue' = Queue
  BY QueueKept
<1>2. \A t \in Torrents : Due(t)' <=> Due(t)
  BY <1>1 DEF Due, Asked, Coming, Brings, BeingWritten
<1> QED BY <1>2 DEF SaveInv, Saving, SavedMeansOnDisk

(* What leaves the queue takes nothing along but what is said here.        *)
LEMMA ComingDrains ==
  ASSUME TypeInv, batch # <<>>, batch' = Tail(batch), UNCHANGED <<alerts, wanted>>,
         NEW t \in Torrents, Coming(t)
  PROVE  Coming(t)' \/ Brings(Head(batch), t)
<1>1. /\ DOMAIN Queue = 1..Len(Queue) /\ Len(Queue) \in Nat /\ Len(Queue) > 0
      /\ DOMAIN Queue' = 1..(Len(Queue) - 1) /\ Head(batch) = Queue[1]
      /\ \A i \in 1..(Len(Queue) - 1) : Queue'[i] = Queue[i + 1]
  BY QueueType, QueueDrains
<1>2. PICK i \in DOMAIN Queue : Brings(Queue[i], t)
  BY DEF Coming
<1> HIDE DEF Queue
<1>3. CASE i = 1
  BY <1>1, <1>2, <1>3
<1>4. CASE i # 1
  <2>1. i - 1 \in DOMAIN Queue' /\ Queue'[i - 1] = Queue[i]
    BY <1>1, <1>4
  <2> QED BY <1>2, <2>1 DEF Coming, Brings
<1> QED BY <1>3, <1>4

LEMMA SaveHandles == ASSUME TypeInv, SaveInv, Handles PROVE SaveInv'
<1>1. /\ batch # <<>> /\ batch' = Tail(batch) /\ UNCHANGED alerts /\ mpc' = mpc /\ mpc # "write"
      /\ UNCHANGED <<files, wanted, refused, asked>> /\ mpc # "done"
  BY DEF Handles, disk, libt, request
<1>2. CASE mpc = "drain"
  <2>1. \A t \in Torrents : ~Brings(Head(batch), t)
    BY <1>2 DEF Handles, IsAnswer, Brings
  <2>2. \A t \in Torrents : Coming(t) => Coming(t)'
    BY <1>1, <2>1, ComingDrains
  <2>3. \A t \in Torrents : /\ Asked(t) => Asked(t)'
                            /\ BeingWritten(t) => BeingWritten(t)'
    BY <1>1 DEF Asked, BeingWritten
  <2> QED BY <1>1, <1>2, <2>2, <2>3, DueKept DEF Saving
<1>3. CASE mpc # "drain"
  BY <1>1, <1>3 DEF Handles, SaveInv, Saving, SavedMeansOnDisk
<1> QED BY <1>2, <1>3

LEMMA SaveDrainFailed == ASSUME TypeInv, SaveInv, DrainFailed PROVE SaveInv'
<1>1. /\ batch # <<>> /\ batch' = Tail(batch) /\ UNCHANGED <<alerts, files, wanted, asked>>
      /\ mpc = "drain" /\ mpc' = mpc
      /\ refused' = refused \cup {Head(batch).torrent}
  BY DEF DrainFailed, NextAlert, disk, libt
<1>2. ASSUME NEW t \in Torrents \ refused', wanted[t] > 0 PROVE Due(t)'
  <2>1. Due(t) /\ ~Brings(Head(batch), t)
    BY <1>1, <1>2 DEF SaveInv, Saving, Brings
  <2>2. Coming(t) => Coming(t)'
    BY <1>1, <1>2, <2>1, ComingDrains
  <2> QED BY <1>1, <2>1, <2>2 DEF Due, Asked, BeingWritten
<1> QED BY <1>1, <1>2 DEF SaveInv, SavedMeansOnDisk, Saving

LEMMA SaveDrainResume == ASSUME TypeInv, OrderInv, SaveInv, DrainResume PROVE SaveInv'
<1>1. /\ batch # <<>> /\ batch' = Tail(batch) /\ UNCHANGED <<alerts, wanted, asked>>
      /\ mpc = "drain" /\ mpc' \in {"drain", "write"} /\ Head(batch).kind = "resume"
  BY DEF DrainResume, NextAlert, libt
<1> DEFINE h == Head(batch)
<1>2. h.torrent \in Torrents
  BY <1>1, BatchTail DEF Named
<1>3. ASSUME NEW t \in Torrents \ refused', wanted[t] > 0 PROVE Due(t)'
  <2>1. refused \subseteq refused'
    BY DEF DrainResume
  <2>2. Due(t) /\ ~BeingWritten(t)
    BY <1>1, <1>3, <2>1 DEF SaveInv, Saving, BeingWritten
  <2>3. Coming(t) => Coming(t)' \/ Brings(h, t)
    BY <1>1, <1>3, ComingDrains
  <2>4. CASE t = h.torrent
    <3>1. writing' = [torrent |-> h.torrent, version |-> h.version] /\ mpc' = "write"
      BY <1>3, <2>4 DEF DrainResume, NextAlert
    <3>2. Asked(t) => Asked(t)'
      BY <1>1 DEF Asked
    <3>3. Brings(h, t) => BeingWritten(t)'
      BY <1>1, <2>4, <3>1 DEF Brings, BeingWritten
    <3>4. CASE files[t] >= wanted[t]
      <4>1. files[t] = best[t]
        BY <1>3, <3>4, Numbers DEF OrderInv, Grows, Growing, Torn
      <4>2. h = Queue[1] /\ 1 \in DOMAIN Queue
        BY <1>1, QueueDrains, QueueType
      <4>3. best[t] <= h.version /\ h.version \in Nat
        BY <1>1, <1>2, <2>4, <4>2, Numbers, BatchTail
           DEF OrderInv, InOrder, Fits, Named, Alerts, Versions
      <4>4. h.version >= wanted[t]
        BY <1>3, <3>4, <4>1, <4>3, Numbers
      <4> HIDE DEF h
      <4>5. BeingWritten(t)'
        BY <1>1, <2>4, <3>1, <4>4 DEF BeingWritten
      <4> QED BY <4>5 DEF Due
    <3> QED BY <2>2, <2>3, <3>2, <3>3, <3>4 DEF Due
  <2>5. CASE t # h.torrent
    <3>1. files'[t] = files[t]
      BY <1>2, <2>5 DEF DrainResume, NextAlert, TypeInv, DiskOK
    <3>2. ~Brings(h, t)
      BY <2>5 DEF Brings
    <3> QED BY <1>1, <2>2, <2>3, <3>1, <3>2 DEF Due, Asked
  <2> QED BY <2>4, <2>5
<1> QED BY <1>1, <1>3 DEF SaveInv, SavedMeansOnDisk, Saving

LEMMA SaveWriteFile == ASSUME TypeInv, OrderInv, SaveInv, WriteFile PROVE SaveInv'
<1>1. /\ Queue' = Queue /\ UNCHANGED <<wanted, asked>> /\ refused \subseteq refused'
      /\ mpc = "write" /\ mpc' = "drain"
  BY QueueKept DEF WriteFile, libt
<1> DEFINE w == writing.torrent
<1>2. w \in Torrents
  BY <1>1 DEF TypeInv, WritingOK
<1>3. /\ \A t \in Torrents \ {w} : files'[t] = files[t]
      /\ w \notin refused' => files'[w] = writing.version
  BY <1>2 DEF WriteFile, TypeInv, DiskOK
<1>4. files[w] = Torn
  BY <1>1 DEF OrderInv, WriteInOrder
<1>5. ASSUME NEW t \in Torrents \ refused', wanted[t] > 0 PROVE Due(t)'
  <2>1. Due(t)
    BY <1>1, <1>5 DEF SaveInv, Saving
  <2>2. (Asked(t) => Asked(t)') /\ (Coming(t) => Coming(t)')
    BY <1>1 DEF Asked, Coming, Brings
  <2>3. BeingWritten(t) => files'[t] >= wanted'[t]
    BY <1>1, <1>3, <1>5 DEF BeingWritten
  <2>4. files[t] >= wanted[t] => t # w
    BY <1>4, <1>5, Numbers DEF Torn
  <2> QED BY <1>1, <1>3, <1>5, <2>1, <2>2, <2>3, <2>4 DEF Due
<1> QED BY <1>1, <1>5 DEF SaveInv, SavedMeansOnDisk, Saving

LEMMA ComingPosts ==
  ASSUME TypeInv, NEW a \in Named, Post(a), UNCHANGED <<batch, wanted>>, NEW t \in Torrents
  PROVE  (Coming(t) => Coming(t)') /\ (Brings(a, t) => Coming(t)')
<1>1. /\ DOMAIN Queue = 1..Len(Queue) /\ Len(Queue) \in Nat
      /\ DOMAIN Queue' = 1..(Len(Queue) + 1) /\ Queue'[Len(Queue) + 1] = a
      /\ \A i \in 1..Len(Queue) : Queue'[i] = Queue[i]
  BY QueueType, QueueGrows
<1> HIDE DEF Queue
<1>2. Coming(t) => Coming(t)'
  <2> SUFFICES ASSUME Coming(t) PROVE Coming(t)'
    OBVIOUS
  <2>1. PICK i \in DOMAIN Queue : Brings(Queue[i], t)
    BY DEF Coming
  <2>2. i \in DOMAIN Queue' /\ Queue'[i] = Queue[i]
    BY <1>1
  <2> QED BY <2>1, <2>2 DEF Coming, Brings
<1>3. Brings(a, t) => Coming(t)'
  <2>1. Len(Queue) + 1 \in DOMAIN Queue'
    BY <1>1
  <2> QED BY <1>1, <2>1 DEF Coming, Brings
<1> QED BY <1>2, <1>3

LEMMA SavePosts ==
  ASSUME TypeInv, SaveInv, NEW a \in Named, Post(a),
         UNCHANGED <<batch, asked, wanted, refused, files, writing, mpc, outstanding_resume_data>>
  PROVE  SaveInv'
<1>1. \A t \in Torrents : Coming(t) => Coming(t)'
  BY ComingPosts
<1>2. \A t \in Torrents : Due(t) => Due(t)'
  BY <1>1 DEF Due, Asked, BeingWritten
<1> QED BY <1>2 DEF SaveInv, SavedMeansOnDisk, Saving

LEMMA SaveAnswer == ASSUME TypeInv, OrderInv, SaveInv, Answer PROVE SaveInv'
<1>1. UNCHANGED <<batch, wanted, refused, files, writing, mpc, outstanding_resume_data>>
  BY DEF Answer, disk, main, request, manager
<1>2. PICK i \in DOMAIN asked :
        /\ asked' = RemoveAt(asked, i)
        /\ \/ Post([kind |-> "failed", torrent |-> asked[i], version |-> 0])
           \/ Post([kind |-> "resume", torrent |-> asked[i], version |-> data[asked[i]]])
  BY DEF Answer
<1>3. asked \in Seq(Torrents) /\ i \in 1..Len(asked) /\ asked[i] \in Torrents
  BY DEF TypeInv, SessionOK
<1>4. PICK a \in Named : Post(a) /\ Brings(a, asked[i])
  <2> DEFINE f == [kind |-> "failed", torrent |-> asked[i], version |-> 0]
             r == [kind |-> "resume", torrent |-> asked[i], version |-> data[asked[i]]]
  <2>1. data[asked[i]] \in Versions /\ wanted[asked[i]] <= data[asked[i]]
    BY <1>3 DEF TypeInv, SessionOK, OrderInv, Grows, Growing
  <2>2. f \in Named /\ r \in Named
    BY <1>3, <2>1 DEF Named, Alerts, Versions
  <2>3. Brings(f, asked[i]) /\ Brings(r, asked[i])
    BY <1>3, <2>1, Numbers DEF Brings
  <2>4. Post(f) \/ Post(r)
    BY <1>2
  <2> HIDE DEF f, r
  <2> QED BY <2>2, <2>3, <2>4
<1>5. \A t \in Torrents : Coming(t) => Coming(t)'
  BY <1>1, <1>4, ComingPosts
<1>6. \A t \in Torrents : Asked(t) => Asked(t)' \/ Coming(t)'
  <2> SUFFICES ASSUME NEW t \in Torrents, Asked(t) PROVE Asked(t)' \/ Coming(t)'
    OBVIOUS
  <2>1. CASE t = asked[i]
    BY <1>1, <1>4, <2>1, ComingPosts
  <2>2. CASE t # asked[i]
    <3>1. PICK j \in 1..Len(asked) : asked[j] = t
      BY <1>3 DEF Asked
    <3>2. PICK k \in 1..(Len(asked) - 1) : RemoveAt(asked, i)[k] = t
      BY <1>3, <2>2, <3>1, Removed
    <3>3. k \in DOMAIN asked'
      BY <1>2, <1>3, Removed
    <3> QED BY <1>2, <3>2, <3>3 DEF Asked
  <2> QED BY <2>1, <2>2
<1>7. \A t \in Torrents : Due(t) => Due(t)'
  BY <1>1, <1>5, <1>6 DEF Due, BeingWritten
<1> QED BY <1>1, <1>7 DEF SaveInv, SavedMeansOnDisk, Saving

LEMMA SaveScanAsk ==
  ASSUME TypeInv, SaveInv, NEW u \in Torrents, ScanAsk(u) PROVE SaveInv'
<1>1. /\ Queue' = Queue /\ UNCHANGED <<files, refused, writing, mpc>> /\ mpc = "scan"
      /\ asked' = Append(asked, u) /\ wanted' = [wanted EXCEPT ![u] = data[u]]
  BY QueueKept DEF ScanAsk, Ask, disk
<1>2. asked \in Seq(Torrents)
  BY DEF TypeInv, SessionOK
<1>3. Asked(u)' /\ \A t \in Torrents : Asked(t) => Asked(t)'
  BY <1>1, <1>2 DEF Asked
<1>4. ASSUME NEW t \in Torrents \ refused, wanted'[t] > 0 PROVE Due(t)'
  <2>1. CASE t = u
    BY <1>3, <2>1 DEF Due
  <2>2. CASE t # u
    <3>1. wanted'[t] = wanted[t]
      BY <1>1, <2>2 DEF TypeInv, MainOK
    <3>2. Due(t)
      BY <1>1, <1>4, <3>1 DEF SaveInv, Saving
    <3> QED BY <1>1, <1>3, <3>1, <3>2 DEF Due, Coming, Brings, BeingWritten
  <2> QED BY <2>1, <2>2
<1> QED BY <1>1, <1>4 DEF SaveInv, SavedMeansOnDisk, Saving

LEMMA SaveStep == ASSUME TypeInv, OrderInv, SaveInv, [Next]_vars PROVE SaveInv'
<1>1. CASE Moves \/ Takes \/ Handles \/ DrainFailed \/ DrainResume \/ WriteFile \/ Answer
  BY <1>1, SaveMoves, SaveTakes, SaveHandles, SaveDrainFailed, SaveDrainResume, SaveWriteFile,
     SaveAnswer
<1>2. CASE Begins \/ Start
  <2>1. wanted' = [t \in Torrents |-> 0]
    BY <1>2 DEF Begins, BeginSave, StartScan, Start
  <2> QED BY <2>1 DEF SaveInv, SavedMeansOnDisk
<1>3. CASE OtherAlert
  <2> DEFINE a == [kind |-> "other", torrent |-> None, version |-> 0]
  <2>1. a \in Named /\ Post(a)
    BY <1>3 DEF Named, Alerts, Versions, OtherAlert
  <2> HIDE DEF a
  <2> QED BY <1>3, <2>1, SavePosts DEF OtherAlert, disk, libt, main, request, manager
<1>4. ASSUME NEW t \in Torrents, SessionAdds(t) PROVE SaveInv'
  <2> DEFINE a == [kind |-> "added", torrent |-> t, version |-> 0]
  <2>1. a \in Named /\ Post(a)
    BY <1>4 DEF Named, Alerts, Versions, SessionAdds
  <2> HIDE DEF a
  <2> QED BY <1>4, <2>1, SavePosts DEF SessionAdds, disk, main, request, manager
<1>5. CASE EraseTorrent \/ \E t \in Torrents : \/ ScanSkip(t) \/ Progress(t)
                                               \/ AddTorrent(t) \/ RemoveTorrent(t)
  BY <1>5, SaveQuiet
     DEF EraseTorrent, ScanSkip, Progress, AddTorrent, RemoveTorrent, disk, libt, main, manager, request
<1>6. CASE \E t \in Torrents : ScanAsk(t)
  BY <1>6, SaveScanAsk
<1> QED BY Steps, <1>1, <1>2, <1>3, <1>4, <1>5, <1>6

(* When a save ends with every answer in, every version it asked for is on *)
(* disk, or was refused by libtorrent, by the open or by the write         *)
(* (save_fastresume).                                                      *)
THEOREM SavesReachTheDisk == Spec => []SavedMeansOnDisk
<1>1. SaveInv => SavedMeansOnDisk
  BY DEF SaveInv
<1> QED BY <1>1, Typed, Ordered, SaveInit, SaveStep, PTL DEF Spec
===========================================================================
