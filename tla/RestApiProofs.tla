------------------------- MODULE RestApiProofs -------------------------
(***************************************************************************)
(* Proofs about RestApi: what an answer of the REST API means, for every   *)
(* set of requests, any number of torrents, files and settings, and that   *)
(* its table of torrents is the one of IdTable.                            *)
(***************************************************************************)
EXTENDS RestApi, FiniteSetTheorems, WellFoundedInduction, SequenceTheorems, TLAPS

USE NoneAssumption, BoundsAssumption

---------------------------------------------------------------------------
(* The handlers.                                                           *)

HandlerOK(h, op) ==
    /\ h.does \in {"call", "erase", "status", "get", "info", "configure", "add", "upload"}
    /\ h.ok \in {200, 202} /\ h.error \in Nat \ {0}
    /\ h.empty \in {"all", "list", "none"}
    /\ h.empty = "list" <=> h.does \in {"status", "get", "info"}
    /\ h.empty = "all" => h.does = "call"
    /\ h.does = "configure" <=> op = "torrents_settings_set"
    /\ h.does = "add" <=> h.error = 3200
    /\ h.does = "add" => h.ok = 202
    /\ h.does = "erase" => h.ok = 202

LEMMA Handlers ==
  ASSUME NEW r \in Requests
  PROVE  HandlerOK(define_resources[r.op], r.op)
<1>1. r.op \in DOMAIN define_resources
  BY RequestsAssumption DEF AllRequests
<1> QED
  BY <1>1
     DEF HandlerOK, define_resources, torrents_recheck, torrents_stop, torrents_start,
         torrents_delete, torrents_status_get, torrents_files_get, torrents_peers_get,
         torrents_trackers_get, torrents_info_get, torrents_settings_get,
         torrents_settings_set, queue_torrents_set, torrents_add, torrents_upload_files

(* The settings a request gives last.                                      *)
LEMMA MaxIn ==
  ASSUME NEW n \in Nat, NEW S \in SUBSET (1..n), S # {}
  PROVE  Max(S) \in S /\ \A y \in S : Max(S) >= y
<1> DEFINE Above(x) == {y \in S : y > x}
           T == {Above(x) : x \in S}
<1>1. \A B \in SUBSET S : IsFiniteSet(B)
  <2>1. IsFiniteSet(1..n)
    BY FS_Interval
  <2> QED BY <2>1, FS_Subset
<1>2. IsWellFoundedOn(StrictSubsetOrdering(S), FiniteSubsetsOf(S))
  BY FS_StrictSubsetOrderingWellFounded
<1>3. T \subseteq FiniteSubsetsOf(S) /\ T # {}
  BY <1>1 DEF FiniteSubsetsOf
<1>4. PICK A \in T : \A B \in T : ~(<<B, A>> \in StrictSubsetOrdering(S))
  BY <1>2, <1>3, WFMin
<1>5. PICK x \in S : A = Above(x)
  BY <1>4
<1>6. Above(x) = {}
  <2> SUFFICES ASSUME NEW y \in Above(x) PROVE FALSE
    OBVIOUS
  <2>1. y \in S /\ x \in Int /\ y \in Int /\ y > x /\ \A z \in S : z \in Int
    OBVIOUS
  <2>2. Above(y) \subseteq Above(x) /\ y \notin Above(y)
    <3>1. ASSUME NEW z \in S, z > y PROVE z > x
      BY <2>1, <3>1
    <3>2. ~(y > y)
      BY <2>1
    <3> QED BY <3>1, <3>2
  <2>3. Above(y) \in T /\ Above(x) \subseteq S
    BY <2>1
  <2> HIDE DEF Above, T
  <2>4. <<Above(y), A>> \in StrictSubsetOrdering(S)
    BY <1>5, <2>2, <2>3 DEF StrictSubsetOrdering
  <2> QED BY <1>4, <2>3, <2>4
<1>7. \A y \in S : x >= y
  BY <1>6
<1> QED BY <1>7 DEF Max

---------------------------------------------------------------------------
(* The inductive invariant, part by part.                                  *)

(* The table: every id given out once, all below the next one.             *)
Pos  == Nat \ {0}
Rows == [id : Pos, torrent : Torrents]
TableInv ==
    /\ torrents \in Seq(Rows) /\ greatest_id \in Pos
    /\ \A i \in DOMAIN torrents : torrents[i].id < greatest_id
    /\ \A i, j \in DOMAIN torrents : torrents[i].id = torrents[j].id => i = j

Ts == [Names -> Values \cup {None}]
LibInv ==
    /\ session \subseteq Torrents /\ gone \subseteq Torrents
    /\ session \cap gone = {} /\ metadata \subseteq Torrents
    /\ settings \in [Torrents -> Ts] /\ before \in [Torrents -> Ts]
    /\ adding \in Seq(Atps) /\ alerts \in Seq(Torrents \cup {None})

(* Where in which handler the thread can be, and with what.                *)
Route ==
    /\ hpc \in {"idle", "list", "check", "act", "sweep", "parse", "send", "write", "reply"}
    /\ IF hpc = "idle" THEN req = None ELSE req \in Requests
    /\ hpc # "reply" => answer = NoAnswer
    /\ hpc = "list" => handler.empty = "list" /\ req.ids = <<>>
    /\ hpc \in {"check", "act"} => handler.does \notin {"add", "upload"}
    /\ hpc = "sweep" => handler.does \in {"call", "status"}
    /\ hpc \in {"parse", "send"} => handler.does = "add"
    /\ hpc = "write" => handler.does = "upload"

LocalsInv ==
    /\ ids \in Seq(Ids) /\ k \in Pos /\ pairs \in Seq([id : Ids, ts : Ts])
    /\ atps \in Seq(Atps) /\ fate \in {"alive", "badHandle", "noInfo", "noId", "noFile"}
    /\ answer \in [status : {0, 200, 202, 400, 401, 404}, error : Nat]
    /\ hpc \in {"list", "check"} => k = 1
    /\ hpc = "act" => k <= Len(ids) + 1
    /\ hpc = "send" => k <= Len(atps) + 1

(* Nothing is called, sent or set before everything has been looked at.    *)
Clean == hpc \in {"list", "check", "parse", "write"} =>
            reached = <<>> /\ sent = <<>> /\ settings = before

(* Ids that were looked up stay in the table until their calls are made,   *)
(* those of torrents_settings_set until it is answered.                    *)
NoZero == \A i \in DOMAIN ids : ids[i] # 0
Configuring == /\ hpc = "act" \/ (hpc = "reply" /\ answer.status = 200 /\ NoZero)
               /\ handler.does = "configure"
LookedUp ==
    \/ hpc = "act" /\ handler.does # "erase"
    \/ hpc = "check" /\ handler.does \in Getters /\ req.ids = <<>>
    \/ Configuring
Found == /\ LookedUp => \A i \in DOMAIN ids : Exists(ids[i])
         /\ hpc = "act" => NoZero

(* A request that names id 0, which no torrent has, and is not refused for *)
(* an id before it, has done nothing when it is answered.                  *)
Spared ==
    hpc = "reply" /\ answer.status \in {200, 202}
    /\ handler.does \in {"configure", "erase"} /\ ~NoZero =>
       /\ reached = <<>> /\ settings = before
       /\ \E z \in DOMAIN ids : ids[z] = 0 /\ \A i \in 1..(z - 1) : Exists(ids[i])

GoneBefore(m) ==
    /\ \A i \in DOMAIN ids : ids[i] < greatest_id
    /\ \A i \in DOMAIN ids : i < m => ~Exists(ids[i])
    /\ ToSet(reached) \subseteq gone
Erased ==
    /\ hpc = "act" /\ handler.does = "erase" => GoneBefore(k)
    /\ hpc = "reply" /\ answer.status = 202 /\ handler.does = "erase" /\ NoZero =>
          GoneBefore(Len(ids) + 1)

Matches(fs, a, s) ==
    /\ s.type \in {"magnet", "infohash", "http"} => a.torrent = s.torrent
    /\ s.type = "file" => s.file \in DOMAIN fs /\ a.torrent = fs[s.file]
    /\ s.type = "other" => a.torrent = None
    /\ s.save_path <=> a.path = "save_path"
    /\ (s.type = "other" /\ ~s.save_path) <=> a.path = "none"
Parsed ==
    /\ hpc = "parse" => Len(atps) = k - 1 /\ k <= Len(req.specs) + 1
    /\ hpc = "send" => /\ Len(atps) = Len(req.specs) /\ Len(sent) = k - 1
                       /\ \A i \in 1..(k - 1) : sent[i] = atps[i]
    /\ hpc \in {"parse", "send"} => \A i \in DOMAIN atps : Matches(files, atps[i], req.specs[i])

FilesInv ==
    /\ files \in Seq(Torrents \cup {None}) /\ folder \in BOOLEAN
    /\ wrote \in Seq(1..MaxFiles) /\ told \subseteq 1..MaxFiles
    /\ folder => told \subseteq DOMAIN files
    /\ folder /\ hpc = "write" => ToSet(wrote) \subseteq DOMAIN files

(* What a request may still add and write was there when it was received.  *)
ToAdd == IF hpc = "parse" THEN Len(req.specs)
         ELSE IF hpc = "send" THEN Len(atps) - (k - 1) ELSE 0
WebFrom(j) == {i \in DOMAIN req.specs : i >= j /\ req.specs[i].type = "http"}
ToWrite == IF hpc = "parse" THEN Cardinality(WebFrom(k))
           ELSE IF hpc = "write" THEN Len(req.parts) - (k - 1) ELSE 0
AddBudget  == Len(adding) + Len(alerts) + (greatest_id - 1) + ToAdd <= MaxAdds
FileBudget == ToWrite \in Nat /\ Len(files) + ToWrite <= MaxFiles

AskedUpTo(t, n, m) ==
    LET mine == {i \in 1..m : Named(req.settings[i].id) = t /\ req.settings[i].name = n}
    IN IF mine = {} THEN before[t][n] ELSE req.settings[Max(mine)].value
Applied == IF hpc = "act" THEN k - 1 ELSE Len(req.settings)
Configured ==
    /\ (hpc = "check" /\ handler.does = "configure") \/ Configuring =>
          pairs = PairsOf(req.settings) /\ ids = IdsOf(pairs)
    /\ Configuring =>
          \A t \in Torrents, n \in Names : settings[t][n] = AskedUpTo(t, n, Applied)

PastInv == reached \in Seq(Torrents) /\ sent \in Seq(Atps)
BlankInv == blank \in BOOLEAN

---------------------------------------------------------------------------
(* The steps around the HTTP thread: the table only grows.                 *)

Registers ==
    /\ alerts # <<>> /\ Head(alerts) # None
    /\ torrents' = Append(torrents, [id |-> greatest_id, torrent |-> Head(alerts)])
    /\ greatest_id' = greatest_id + 1
Around ==
    /\ UNCHANGED <<store, hpc, locals, past, settings, gone>>
    /\ UNCHANGED manager \/ Registers

LEMMA AroundSteps ==
  ASSUME \/ SessionAnswers \/ (\E t \in Torrents : MetadataArrives(t)) \/ check_alerts
         \/ update_torrent_console_view \/ DownloadCrash \/ Dead \/ UNCHANGED vars
  PROVE  Around
<1>1. CASE SessionAnswers \/ \E t \in Torrents : MetadataArrives(t)
  BY <1>1 DEF SessionAnswers, MetadataArrives, Around
<1>2. CASE check_alerts
  BY <1>2 DEF check_alerts, Around, Registers
<1>3. CASE update_torrent_console_view \/ DownloadCrash
  BY <1>3 DEF update_torrent_console_view, DownloadCrash, Around, libt
<1>4. CASE Dead \/ UNCHANGED vars
  BY <1>4 DEF Dead, vars, Around, libt
<1> QED BY <1>1, <1>2, <1>3, <1>4

LEMMA Steps ==
  ASSUME [Next]_vars
  PROVE  \/ Around \/ (\E r \in Requests : Receive(r)) \/ List \/ Check \/ Act \/ Sweep
         \/ remove_torrent \/ Done \/ parse_request_to_atp \/ add_torrent_async
         \/ save_request_files_to_disk \/ Reply
BY AroundSteps DEF Next, Http

---------------------------------------------------------------------------
(* The table.                                                              *)

LEMMA Removed ==
  ASSUME NEW S, NEW q \in Seq(S), NEW i \in 1..Len(q)
  PROVE  /\ RemoveAt(q, i) \in Seq(S) /\ DOMAIN RemoveAt(q, i) = 1..(Len(q) - 1)
         /\ \A j \in 1..(Len(q) - 1) : RemoveAt(q, i)[j] = q[IF j < i THEN j ELSE j + 1]
<1> DEFINE l == SubSeq(q, 1, i - 1)
           r == SubSeq(q, i + 1, Len(q))
<1>1. Len(q) \in Nat /\ i \in Nat /\ 1 <= i /\ i <= Len(q)
  OBVIOUS
<1>2. l \in Seq(S) /\ Len(l) = i - 1 /\ \A j \in 1..(i - 1) : l[j] = q[j]
  OBVIOUS
<1>3. r \in Seq(S) /\ Len(r) = Len(q) - i /\ \A j \in 1..(Len(q) - i) : r[j] = q[j + i]
  OBVIOUS
<1>4. RemoveAt(q, i) = l \o r
  BY DEF RemoveAt
<1> HIDE DEF l, r
<1>5. /\ l \o r \in Seq(S) /\ Len(l \o r) = Len(q) - 1
      /\ \A j \in 1..(i - 1) : (l \o r)[j] = l[j]
      /\ \A j \in i..(Len(q) - 1) : (l \o r)[j] = r[j - (i - 1)]
  <2>1. /\ l \o r \in Seq(S) /\ Len(l \o r) = Len(l) + Len(r)
        /\ \A j \in 1..(Len(l) + Len(r)) :
              (l \o r)[j] = IF j <= Len(l) THEN l[j] ELSE r[j - Len(l)]
    BY <1>2, <1>3, ConcatProperties
  <2> QED BY <1>1, <1>2, <1>3, <2>1
<1>6. ASSUME NEW j \in 1..(Len(q) - 1)
      PROVE  (l \o r)[j] = q[IF j < i THEN j ELSE j + 1]
  <2>1. CASE j < i
    BY <1>1, <1>2, <1>5, <2>1
  <2>2. CASE ~(j < i)
    <3>1. j \in i..(Len(q) - 1) /\ j - (i - 1) \in 1..(Len(q) - i) /\ j - (i - 1) + i = j + 1
      BY <1>1, <2>2
    <3> QED BY <1>3, <1>5, <2>2, <3>1
  <2> QED BY <2>1, <2>2
<1> QED BY <1>4, <1>5, <1>6

LEMMA EntriesAre ==
  ASSUME TableInv
  PROVE  /\ \A e : e \in Entries <=> \E i \in DOMAIN torrents : e = torrents[i]
         /\ \A i \in DOMAIN torrents : torrents[i] \in Rows
<1>1. torrents \in Seq(Rows)
  BY DEF TableInv
<1>2. \A i \in DOMAIN torrents : torrents[i] \in Rows
  BY <1>1
<1>3. \A e : e \in Entries <=> \E i \in DOMAIN torrents : e = torrents[i]
  BY DEF Entries, ToSet
<1> QED BY <1>2, <1>3

(* An id of the table names one torrent.                                   *)
LEMMA NamedAre ==
  ASSUME TableInv, NEW id, Exists(id)
  PROVE  \E i \in DOMAIN torrents : /\ torrents[i].id = id /\ Named(id) = torrents[i].torrent
                                    /\ Named(id) \in Torrents
<1> DEFINE e == CHOOSE x \in Entries : x.id = id
<1>1. e \in Entries /\ e.id = id
  BY DEF Exists
<1>2. Named(id) = e.torrent
  BY DEF Named
<1> HIDE DEF e
<1> QED BY <1>1, <1>2, EntriesAre DEF Rows

LEMMA NamedIs ==
  ASSUME TableInv, NEW i \in DOMAIN torrents
  PROVE  Exists(torrents[i].id) /\ Named(torrents[i].id) = torrents[i].torrent
<1>1. torrents[i] \in Entries
  BY EntriesAre
<1>2. Exists(torrents[i].id)
  BY <1>1 DEF Exists
<1>3. PICK j \in DOMAIN torrents : /\ torrents[j].id = torrents[i].id
                                   /\ Named(torrents[i].id) = torrents[j].torrent
  BY <1>2, NamedAre
<1> QED BY <1>2, <1>3 DEF TableInv

LEMMA TableInit == Init => TableInv
BY DEF Init, TableInv, Pos

LEMMA TableStep == ASSUME TableInv, LibInv, [Next]_vars PROVE TableInv'
<1>1. CASE UNCHANGED manager
  BY <1>1 DEF TableInv, manager
<1>2. CASE Registers
  <2> DEFINE n == Len(torrents)
             e == [id |-> greatest_id, torrent |-> Head(alerts)]
  <2>1. e \in Rows
    BY <1>2 DEF Registers, TableInv, LibInv, Rows
  <2>2. torrents' = Append(torrents, e) /\ greatest_id' = greatest_id + 1 /\ e.id = greatest_id
    BY <1>2 DEF Registers
  <2> HIDE DEF e
  <2>3. /\ torrents' \in Seq(Rows) /\ n \in Nat
        /\ DOMAIN torrents' = 1..(n + 1) /\ DOMAIN torrents = 1..n
        /\ torrents'[n + 1] = e /\ \A i \in 1..n : torrents'[i] = torrents[i]
    BY <2>1, <2>2 DEF TableInv
  <2> HIDE DEF n
  <2>4. greatest_id \in Nat /\ greatest_id' \in Pos
    BY <2>2 DEF TableInv, Pos
  <2>5. \A i \in 1..n : torrents[i].id \in Nat /\ torrents[i].id < greatest_id
    BY <2>3, EntriesAre DEF TableInv, Pos, Rows
  <2>6. \A i \in DOMAIN torrents' : torrents'[i].id < greatest_id'
    BY <2>2, <2>3, <2>4, <2>5
  <2>7. \A i, j \in DOMAIN torrents' : torrents'[i].id = torrents'[j].id => i = j
    <3> SUFFICES ASSUME NEW i \in 1..(n + 1), NEW j \in 1..(n + 1),
                        torrents'[i].id = torrents'[j].id
                 PROVE  i = j
      BY <2>3
    <3>1. CASE i \in 1..n /\ j \in 1..n
      BY <2>3, <3>1 DEF TableInv
    <3>2. CASE ~(i \in 1..n /\ j \in 1..n)
      BY <2>2, <2>3, <2>4, <2>5, <3>2
    <3> QED BY <3>1, <3>2
  <2> QED BY <2>3, <2>4, <2>6, <2>7 DEF TableInv
<1>3. CASE remove_torrent
  <2>1. greatest_id' = greatest_id
    BY <1>3 DEF remove_torrent
  <2>2. CASE UNCHANGED torrents
    BY <2>1, <2>2 DEF TableInv
  <2>3. CASE ~UNCHANGED torrents
    <3>1. PICK i \in DOMAIN torrents : torrents' = RemoveAt(torrents, i)
      BY <1>3, <2>3 DEF remove_torrent, Erase
    <3> DEFINE n == Len(torrents)
               f(j) == IF j < i THEN j ELSE j + 1
    <3>2. n \in Nat /\ DOMAIN torrents = 1..n /\ i \in 1..n
      BY DEF TableInv
    <3>3. /\ torrents' \in Seq(Rows) /\ DOMAIN torrents' = 1..(n - 1)
          /\ \A j \in 1..(n - 1) : torrents'[j] = torrents[f(j)]
      <4>1. torrents \in Seq(Rows)
        BY DEF TableInv
      <4> QED BY <3>1, <3>2, <4>1, Removed
    <3> HIDE DEF n
    <3>4. /\ \A j \in 1..(n - 1) : f(j) \in 1..n
          /\ \A j, m \in 1..(n - 1) : f(j) = f(m) => j = m
      BY <3>2
    <3> HIDE DEF f
    <3> QED BY <2>1, <3>2, <3>3, <3>4 DEF TableInv
  <2> QED BY <2>2, <2>3
<1>4. CASE \/ (\E r \in Requests : Receive(r)) \/ List \/ Check \/ Act \/ Sweep
           \/ Done \/ parse_request_to_atp \/ add_torrent_async
           \/ save_request_files_to_disk \/ Reply
  <2>1. UNCHANGED manager
    BY <1>4 DEF Receive, List, Check, Act, Sweep, Done, parse_request_to_atp,
                add_torrent_async, save_request_files_to_disk, Reply
  <2> QED BY <1>1, <2>1
<1> QED BY <1>1, <1>2, <1>3, <1>4, Steps DEF Around

---------------------------------------------------------------------------
(* The handler a request is in.                                            *)

LEMMA RouteInit == Init => Route
BY DEF Init, Route

LEMMA FirstSteps ==
  ASSUME NEW r \in Requests
  PROVE  LET h == define_resources[r.op] IN
         /\ FirstStep(r) \in {"parse", "write", "list", "sweep", "check"}
         /\ FirstStep(r) = "parse" <=> h.does = "add"
         /\ FirstStep(r) = "write" <=> h.does = "upload"
         /\ FirstStep(r) = "list" => h.empty = "list" /\ r.ids = <<>>
         /\ FirstStep(r) = "sweep" => h.does = "call"
         /\ FirstStep(r) = "check" /\ h.empty = "list" => r.ids # <<>>
<1> DEFINE h == define_resources[r.op]
<1>1. HandlerOK(h, r.op)
  BY Handlers
<1>2. FirstStep(r) = IF h.does = "add" THEN "parse"
                     ELSE IF h.does = "upload" THEN "write"
                     ELSE IF h.empty = "list" /\ r.ids = <<>> THEN "list"
                     ELSE IF h.empty = "all" /\ r.ids = <<>> THEN "sweep" ELSE "check"
  <2> HIDE DEF h
  <2>1. FirstStep(r) =
            CASE h.does = "add"    -> "parse"
              [] h.does = "upload" -> "write"
              [] h.empty = "list" /\ r.ids = <<>> -> "list"
              [] h.empty = "all"  /\ r.ids = <<>> -> "sweep"
              [] OTHER -> "check"
    BY DEF FirstStep, h
  <2> QED BY <1>1, <2>1 DEF HandlerOK
<1> HIDE DEF h
<1>3. h = define_resources[r.op]
  BY DEF h
<1> QED BY <1>1, <1>2, <1>3 DEF HandlerOK

LEMMA RouteStep == ASSUME Route, [Next]_vars PROVE Route'
<1>1. CASE Around
  BY <1>1 DEF Around, locals, Route, handler
<1>2. ASSUME NEW r \in Requests, Receive(r) PROVE Route'
  <2>1. CASE hpc' = "reply"
    BY <1>2, <2>1 DEF Receive, Route
  <2>2. CASE hpc' = FirstStep(r) /\ answer' = NoAnswer
    BY <1>2, <2>2, FirstSteps, Handlers DEF Receive, Route, handler, HandlerOK
  <2> QED BY <1>2, <2>1, <2>2 DEF Receive
<1>3. CASE List
  <2>1. hpc = "list" /\ req \in Requests /\ handler.empty = "list"
    BY <1>3 DEF List, Serving, Route
  <2>2. HandlerOK(handler, req.op)
    BY <2>1, Handlers DEF handler
  <2>3. /\ UNCHANGED <<req, answer>> /\ hpc' \in {"check", "sweep"}
        /\ hpc' = "sweep" => handler.does = "status"
    BY <1>3 DEF List
  <2>4. handler' = handler
    BY <2>3 DEF handler
  <2> QED BY <2>1, <2>2, <2>3, <2>4 DEF Route, HandlerOK
<1>4. CASE Check
  BY <1>4 DEF Check, Serving, Answer, Route, handler
<1>5. CASE Act \/ Sweep \/ remove_torrent
  <2>1. UNCHANGED <<req, answer>> /\ hpc' \in {hpc, "reply"} /\ hpc # "idle"
    BY <1>5 DEF Act, Sweep, remove_torrent, Serving, Throw, Reach
  <2> QED BY <2>1 DEF Route, handler
<1>6. CASE Done \/ add_torrent_async \/ parse_request_to_atp \/ save_request_files_to_disk
  <2>1. /\ req' = req /\ hpc # "idle"
        /\ \/ hpc' = "reply" \/ UNCHANGED <<hpc, answer>>
           \/ hpc = "parse" /\ hpc' = "send" /\ answer' = answer
    BY <1>6 DEF Done, add_torrent_async, parse_request_to_atp, save_request_files_to_disk,
                Serving, Answer, Reject
  <2> QED BY <2>1 DEF Route, handler
<1>7. CASE Reply
  BY <1>7 DEF Reply, Route
<1> QED BY <1>1, <1>2, <1>3, <1>4, <1>5, <1>6, <1>7, Steps

LEMMA Busy ==
  ASSUME Route, hpc # "idle"
  PROVE  /\ req \in Requests /\ HandlerOK(handler, req.op) /\ req \in AllRequests
         /\ EntryByEntry(req.settings)
         /\ IF handler.does = "configure" THEN req.ids = <<>> ELSE req.settings = <<>>
<1>1. req \in Requests
  BY DEF Route
<1> QED BY <1>1, Handlers, RequestsAssumption DEF handler, HandlerOK

LEMMA StatusIs ==
  ASSUME NEW error
  PROVE  /\ error # 0 => Answered(error) = [status |-> 404, error |-> error]
         /\ Answered(0) = [status |-> handler.ok, error |-> 0]
BY DEF Answered

(* The three outcomes of the look-up: all ids are there; the first that is *)
(* not is 0, and it is success; or it is another, and it is the error.     *)
LEMMA Checked ==
  ASSUME TableInv, Route, LocalsInv, Check
  PROVE  /\ hpc = "check" /\ k = 1
         /\ UNCHANGED <<manager, libt, store, req, ids, pairs, k, atps, blank, fate, past>>
         /\ \/ /\ hpc' = "act" /\ answer' = answer
               /\ NoZero /\ \A i \in DOMAIN ids : Exists(ids[i])
            \/ /\ hpc' = "reply" /\ answer' = Answered(handler.error)
               /\ answer'.status = 404 /\ handler.error # 0
               /\ \E i \in DOMAIN ids : ~Exists(ids[i])
            \/ /\ hpc' = "reply" /\ answer' = Answered(0) /\ answer'.error = 0
               /\ \E z \in DOMAIN ids : /\ ids[z] = 0 /\ ~Exists(ids[z])
                                        /\ \A i \in 1..(z - 1) : Exists(ids[i])
<1>1. /\ hpc = "check" /\ k = 1
      /\ UNCHANGED <<manager, libt, store, req, ids, pairs, k, atps, blank, fate, past>>
  BY DEF Check, Serving, LocalsInv
<1>2. CASE Unknown = {} /\ hpc' = "act" /\ UNCHANGED answer
  <2>1. \A i \in DOMAIN ids : Exists(ids[i])
    BY <1>2 DEF Unknown
  <2>2. \A i \in DOMAIN ids : ids[i] # 0
    <3>1. \A id : Exists(id) => \E i \in DOMAIN torrents : torrents[i].id = id
      BY NamedAre
    <3>2. \A i \in DOMAIN torrents : torrents[i].id # 0
      BY EntriesAre DEF Rows, Pos
    <3> QED BY <2>1, <3>1, <3>2
  <2> QED BY <1>1, <1>2, <2>1, <2>2 DEF NoZero
<1>3. ASSUME NEW z \in Unknown, \A j \in Unknown : z <= j, Answer(ResultOf(z))
      PROVE  \/ /\ hpc' = "reply" /\ answer' = Answered(handler.error)
                /\ answer'.status = 404 /\ handler.error # 0
                /\ \E i \in DOMAIN ids : ~Exists(ids[i])
             \/ /\ hpc' = "reply" /\ answer' = Answered(0) /\ answer'.error = 0
                /\ \E y \in DOMAIN ids : /\ ids[y] = 0 /\ ~Exists(ids[y])
                                         /\ \A i \in 1..(y - 1) : Exists(ids[i])
  <2>1. z \in DOMAIN ids /\ ~Exists(ids[z]) /\ hpc' = "reply" /\ answer' = Answered(ResultOf(z))
    BY <1>3 DEF Unknown, Answer
  <2>2. \A i \in 1..(z - 1) : Exists(ids[i])
    <3> TAKE i \in 1..(z - 1)
    <3>1. i \in DOMAIN ids /\ ~(z <= i)
      BY <2>1 DEF LocalsInv
    <3> QED BY <1>3, <3>1 DEF Unknown
  <2>3. CASE ids[z] = 0
    <3>1. answer' = Answered(0)
      BY <2>1, <2>3 DEF ResultOf
    <3>2. answer'.error = 0
      BY <3>1, StatusIs
    <3> QED BY <2>1, <2>2, <2>3, <3>1, <3>2
  <2>4. CASE ids[z] # 0
    <3>1. answer' = Answered(handler.error)
      BY <2>1, <2>4 DEF ResultOf
    <3>2. handler.error # 0
      BY <1>1, Busy DEF HandlerOK
    <3>3. answer'.status = 404
      BY <3>1, <3>2, StatusIs
    <3> QED BY <2>1, <3>1, <3>2, <3>3
  <2> QED BY <2>3, <2>4
<1> QED BY <1>1, <1>2, <1>3 DEF Check

LEMMA BlankInit == Init => BlankInv
BY DEF Init, BlankInv

LEMMA BlankStep == ASSUME BlankInv, [Next]_vars PROVE BlankInv'
<1>1. CASE Around \/ List \/ Check \/ Done \/ parse_request_to_atp \/ add_torrent_async
           \/ save_request_files_to_disk
  <2>1. blank' = blank
    BY <1>1 DEF Around, locals, List, Check, Done, parse_request_to_atp, add_torrent_async,
                save_request_files_to_disk
  <2> QED BY <2>1 DEF BlankInv
<1>2. CASE (\E r \in Requests : Receive(r)) \/ Reply
  <2>1. blank' = FALSE
    BY <1>2 DEF Receive, Reply
  <2> QED BY <2>1 DEF BlankInv
<1>3. CASE Act \/ Sweep \/ remove_torrent
  <2>1. blank' = blank \/ \E t : blank' = (blank \/ (handler.does = "info" /\ t \notin metadata))
    BY <1>3 DEF Act, Sweep, remove_torrent, Throw, Reach
  <2> QED BY <2>1 DEF BlankInv
<1> QED BY <1>1, <1>2, <1>3, Steps

---------------------------------------------------------------------------
(* The pairs of torrents_settings_set.                                     *)

Given(body, i, n) == {j \in 1..i : body[j].entry = body[i].entry /\ body[j].name = n}

LEMMA TsAre ==
  ASSUME NEW body \in Seq(Settings), NEW i \in DOMAIN body
  PROVE  /\ TsUpTo(body, i) \in Ts
         /\ \A n \in Names :
               TsUpTo(body, i)[n] = IF Given(body, i, n) = {} THEN None
                                    ELSE body[Max(Given(body, i, n))].value
         /\ \A n \in Names : Given(body, i, n) # {} =>
               /\ Max(Given(body, i, n)) \in Given(body, i, n)
               /\ \A j \in Given(body, i, n) : Max(Given(body, i, n)) >= j
<1>1. i \in Nat /\ \A j \in 1..i : j \in DOMAIN body
  OBVIOUS
<1>2. \A j \in DOMAIN body : body[j] \in Settings
  OBVIOUS
<1>3. \A n \in Names : Given(body, i, n) \in SUBSET (1..i)
  BY DEF Given
<1>4. \A n \in Names : Given(body, i, n) # {} =>
         /\ Max(Given(body, i, n)) \in Given(body, i, n)
         /\ \A j \in Given(body, i, n) : Max(Given(body, i, n)) >= j
  BY <1>1, <1>3, MaxIn
<1>5. TsUpTo(body, i) = [n \in Names |-> IF Given(body, i, n) = {} THEN None
                                         ELSE body[Max(Given(body, i, n))].value]
  BY DEF TsUpTo, Given
<1>6. ASSUME NEW n \in Names, Given(body, i, n) # {}
      PROVE  body[Max(Given(body, i, n))].value \in Values
  <2>1. Max(Given(body, i, n)) \in DOMAIN body
    BY <1>1, <1>3, <1>4, <1>6
  <2> QED BY <1>2, <2>1 DEF Settings
<1>7. TsUpTo(body, i) \in Ts
  BY <1>5, <1>6 DEF Ts
<1> QED BY <1>4, <1>5, <1>7

LEMMA PairsAre ==
  ASSUME NEW body \in Seq(Settings)
  PROVE  /\ PairsOf(body) \in Seq([id : Ids, ts : Ts])
         /\ IdsOf(PairsOf(body)) \in Seq(Ids)
         /\ DOMAIN PairsOf(body) = DOMAIN body
         /\ DOMAIN IdsOf(PairsOf(body)) = DOMAIN body
         /\ \A i \in DOMAIN body : /\ PairsOf(body)[i].ts = TsUpTo(body, i)
                                   /\ IdsOf(PairsOf(body))[i] = body[i].id
<1> DEFINE n == Len(body)
<1>1. n \in Nat /\ DOMAIN body = 1..n /\ \A i \in 1..n : body[i] \in Settings
  OBVIOUS
<1>2. \A i \in 1..n : [id |-> body[i].id, ts |-> TsUpTo(body, i)] \in [id : Ids, ts : Ts]
  BY <1>1, TsAre DEF Settings
<1> HIDE DEF n
<1>3. PairsOf(body) = [i \in 1..n |-> [id |-> body[i].id, ts |-> TsUpTo(body, i)]]
  BY <1>1 DEF PairsOf
<1>4. PairsOf(body) \in [1..n -> [id : Ids, ts : Ts]]
  BY <1>2, <1>3
<1>5. \A i \in 1..n : PairsOf(body)[i].ts = TsUpTo(body, i) /\ PairsOf(body)[i].id = body[i].id
  BY <1>3
<1>6. IdsOf(PairsOf(body)) = [i \in 1..n |-> body[i].id]
  BY <1>3, <1>5 DEF IdsOf
<1>7. IdsOf(PairsOf(body)) \in [1..n -> Ids]
  BY <1>1, <1>6 DEF Settings
<1> HIDE DEF PairsOf, IdsOf
<1>8. \A S : \A f \in [1..n -> S] : f \in Seq(S)
  BY <1>1
<1> QED BY <1>1, <1>4, <1>5, <1>6, <1>7, <1>8

---------------------------------------------------------------------------
(* The locals of a request.                                                *)

LEMMA ListedIds ==
  ASSUME TableInv
  PROVE  /\ get_all_ids \in Seq(Ids)
         /\ \A i \in DOMAIN get_all_ids : Exists(get_all_ids[i])
<1> DEFINE n == Len(torrents)
<1>1. n \in Nat /\ DOMAIN torrents = 1..n
  BY DEF TableInv
<1> HIDE DEF n
<1>2. \A i \in 1..n : torrents[i].id \in Ids
  BY <1>1, EntriesAre DEF Rows, Ids, Pos
<1>3. get_all_ids = [i \in 1..n |-> torrents[i].id]
  BY <1>1 DEF get_all_ids
<1>4. get_all_ids \in [1..n -> Ids]
  BY <1>2, <1>3
<1>5. get_all_ids \in Seq(Ids)
  BY <1>1, <1>4
<1> QED BY <1>1, <1>3, <1>5, NamedIs

LEMMA LocalsInit == Init => LocalsInv
BY DEF Init, LocalsInv, Pos, NoAnswer

LEMMA AnsweredType ==
  ASSUME Route, hpc # "idle", NEW error \in Nat
  PROVE  Answered(error) \in [status : {0, 200, 202, 400, 401, 404}, error : Nat]
<1>1. handler.ok \in {200, 202}
  BY Busy DEF HandlerOK
<1> QED BY <1>1 DEF Answered

LEMMA AtpType ==
  ASSUME FilesInv, NEW s \in Specs, ParseError(s) = 0
  PROVE  AtpOf(s) \in Atps
<1>1. s.type \in {"file", "http", "magnet", "infohash", "other"} /\ s.torrent \in Torrents \cup {None}
  BY DEF Specs
<1>2. s.type = "file" => s.file \in DOMAIN files
  BY DEF ParseError
<1>3. s.type = "file" => files[s.file] \in Torrents \cup {None}
  BY <1>2 DEF FilesInv
<1> DEFINE t == CASE s.type = "file"  -> files[s.file]
                  [] s.type = "other" -> None
                  [] OTHER            -> s.torrent
<1>4. t \in Torrents \cup {None}
  BY <1>1, <1>3
<1> HIDE DEF t
<1>5. AtpOf(s) = [torrent |-> t, info |-> s.type \in {"file", "http"}, path |-> PathOf(s)]
  BY DEF AtpOf, t
<1>6. PathOf(s) \in {"none", "download_path", "save_path"}
  BY DEF PathOf
<1> QED BY <1>4, <1>5, <1>6 DEF Atps

LEMMA LocalsStep ==
  ASSUME TableInv, Route, LocalsInv, FilesInv, [Next]_vars PROVE LocalsInv'
<1>1. CASE Around
  <2>1. fate' \in {"alive", "badHandle", "noInfo", "noId", "noFile"}
    <3>1. fate' = fate \/ fate' \in {"badHandle", "noFile"} \/ ~Around
          \/ List \/ Check \/ Act \/ Sweep \/ remove_torrent \/ Done
      BY DEF Next, Http, vars, SessionAnswers, MetadataArrives, check_alerts,
             update_torrent_console_view, DownloadCrash, Dead, Receive,
             parse_request_to_atp, add_torrent_async, save_request_files_to_disk, Reply
    <3>2. fate' = fate \/ fate' \in {"noInfo", "noId"} \/ ~(List \/ Check \/ Act \/ Sweep
                                                            \/ remove_torrent \/ Done)
      BY DEF List, Check, Act, Sweep, remove_torrent, Done
    <3> QED BY <1>1, <3>1, <3>2 DEF LocalsInv
  <2> QED BY <1>1, <2>1 DEF Around, locals, LocalsInv
<1>2. ASSUME NEW r \in Requests, Receive(r) PROVE LocalsInv'
  <2>1. r \in AllRequests
    BY RequestsAssumption
  <2>2. r.settings \in Seq(Settings) /\ r.ids \in Seq(Ids)
    BY <2>1 DEF AllRequests
  <2>3. pairs' \in Seq([id : Ids, ts : Ts]) /\ ids' \in Seq(Ids)
    BY <1>2, <2>2, PairsAre DEF Receive
  <2>4. answer' \in [status : {0, 200, 202, 400, 401, 404}, error : Nat]
    BY <1>2 DEF Receive, respond_invalid_authorization, respond_invalid_parameter, NoAnswer
  <2>5. hpc' \in {"reply", "parse", "write", "list", "sweep", "check"}
    BY <1>2, FirstSteps DEF Receive
  <2>6. k' = 1 /\ atps' = <<>> /\ fate' = fate
    BY <1>2 DEF Receive
  <2> QED BY <2>3, <2>4, <2>5, <2>6 DEF LocalsInv, Pos
<1>3. CASE List
  <2>1. ids' \in Seq(Ids) /\ hpc' \in {"sweep", "check"} /\ k = 1
    BY <1>3, ListedIds DEF List, Serving, LocalsInv
  <2> QED BY <1>3, <2>1 DEF List, LocalsInv
<1>4. CASE Check
  <2>1. /\ UNCHANGED <<ids, pairs, k, atps, fate>> /\ k = 1 /\ hpc' \in {"act", "reply"}
        /\ \/ answer' = answer \/ answer' = Answered(handler.error) \/ answer' = Answered(0)
    BY <1>4, Checked
  <2>2. answer' \in [status : {0, 200, 202, 400, 401, 404}, error : Nat]
    <3>1. hpc # "idle" /\ handler.error \in Nat
      BY <1>4, Checked, Busy DEF HandlerOK
    <3>2. /\ Answered(handler.error) \in [status : {0, 200, 202, 400, 401, 404}, error : Nat]
          /\ Answered(0) \in [status : {0, 200, 202, 400, 401, 404}, error : Nat]
      BY <3>1, AnsweredType
    <3> QED BY <2>1, <3>2 DEF LocalsInv
  <2>3. Len(ids) \in Nat
    BY DEF LocalsInv
  <2> QED BY <2>1, <2>2, <2>3 DEF LocalsInv
<1>5. CASE Act \/ Sweep \/ remove_torrent
  <2>1. /\ UNCHANGED <<ids, pairs, atps, answer, fate>>
        /\ \/ UNCHANGED k
           \/ k' = k + 1 /\ hpc' = hpc /\ (hpc = "act" => k <= Len(ids))
        /\ hpc \in {"act", "sweep"} /\ hpc' \in {hpc, "reply"}
    BY <1>5 DEF Act, Sweep, remove_torrent, Serving, Throw, Reach
  <2>2. k' \in Pos /\ (hpc' = "act" => k' <= Len(ids) + 1)
    BY <2>1 DEF LocalsInv, Pos
  <2> QED BY <2>1, <2>2 DEF LocalsInv
<1>6. CASE Done
  <2>1. /\ UNCHANGED <<ids, pairs, k, atps>> /\ hpc \in {"act", "sweep"} /\ hpc' \in {hpc, "reply"}
        /\ fate' \in {fate, "noInfo", "noId"} /\ answer' \in {answer, Answered(0)}
    BY <1>6 DEF Done, Serving, Answer
  <2>2. answer' \in [status : {0, 200, 202, 400, 401, 404}, error : Nat]
    BY <2>1, AnsweredType DEF LocalsInv
  <2> QED BY <2>1, <2>2 DEF LocalsInv
<1>7. CASE parse_request_to_atp
  <2>1. req \in AllRequests /\ hpc = "parse"
    BY <1>7, Busy DEF parse_request_to_atp, Serving
  <2>2. CASE k > Len(req.specs)
    BY <1>7, <2>2 DEF parse_request_to_atp, LocalsInv, Pos
  <2>3. CASE ~(k > Len(req.specs))
    <3>1. req.specs[k] \in Specs
      BY <2>1, <2>3 DEF AllRequests, LocalsInv, Pos
    <3>2. ParseError(req.specs[k]) \in {0, 3200, 3240}
      BY DEF ParseError
    <3>3. CASE ParseError(req.specs[k]) # 0
      <4>1. answer' = Answered(ParseError(req.specs[k])) /\ hpc' = "reply"
            /\ UNCHANGED <<k, atps, ids, pairs, fate>>
        BY <1>7, <2>3, <3>3 DEF parse_request_to_atp, Reject, Answer
      <4>2. answer' \in [status : {0, 200, 202, 400, 401, 404}, error : Nat]
        BY <2>1, <3>2, <4>1, AnsweredType
      <4> QED BY <4>1, <4>2 DEF LocalsInv
    <3>4. CASE ParseError(req.specs[k]) = 0
      <4>1. atps' = Append(atps, AtpOf(req.specs[k])) /\ k' = k + 1
            /\ UNCHANGED <<hpc, answer, ids, pairs, fate>>
        BY <1>7, <2>3, <3>4 DEF parse_request_to_atp
      <4>2. AtpOf(req.specs[k]) \in Atps
        BY <3>1, <3>4, AtpType
      <4>3. atps' \in Seq(Atps) /\ k' \in Pos
        BY <4>1, <4>2 DEF LocalsInv, Pos
      <4> QED BY <2>1, <4>1, <4>3 DEF LocalsInv
    <3> QED BY <3>3, <3>4
  <2> QED BY <2>2, <2>3
<1>8. CASE add_torrent_async
  <2>1. /\ UNCHANGED <<ids, pairs, atps, fate>> /\ hpc = "send"
        /\ \/ answer' = Answered(0) /\ hpc' = "reply" /\ k' = k
           \/ UNCHANGED <<hpc, answer>> /\ k' = k + 1 /\ ~(k > Len(atps))
    BY <1>8 DEF add_torrent_async, Serving, Answer
  <2>2. answer' \in [status : {0, 200, 202, 400, 401, 404}, error : Nat]
    <3>1. Answered(0) \in [status : {0, 200, 202, 400, 401, 404}, error : Nat]
      BY <2>1, AnsweredType
    <3> QED BY <2>1, <3>1 DEF LocalsInv
  <2>3. k' \in Pos /\ (hpc' = "send" => k' <= Len(atps) + 1)
    BY <2>1 DEF LocalsInv, Pos
  <2> QED BY <2>1, <2>2, <2>3 DEF LocalsInv
<1>9. CASE save_request_files_to_disk
  <2>1. /\ UNCHANGED <<ids, pairs, atps, fate>> /\ hpc = "write"
        /\ \/ hpc' = "reply" /\ k' = k /\ \E e \in {0, 3180, 3190} : answer' = Answered(e)
           \/ UNCHANGED <<hpc, answer>> /\ k' = k + 1
    <3>1. req \in AllRequests
      BY <1>9, Busy DEF save_request_files_to_disk, Serving
    <3> QED BY <1>9, <3>1 DEF save_request_files_to_disk, Serving, Answer, AllRequests
  <2>2. answer' \in [status : {0, 200, 202, 400, 401, 404}, error : Nat]
    <3>1. \A e \in {0, 3180, 3190} :
             Answered(e) \in [status : {0, 200, 202, 400, 401, 404}, error : Nat]
      <4> TAKE e \in {0, 3180, 3190}
      <4>1. e \in Nat
        OBVIOUS
      <4> QED BY <2>1, <4>1, AnsweredType
    <3> QED BY <2>1, <3>1 DEF LocalsInv
  <2>3. k' \in Pos
    BY <2>1 DEF LocalsInv, Pos
  <2> QED BY <2>1, <2>2, <2>3 DEF LocalsInv
<1>10. CASE Reply
  <2>1. NoAnswer \in [status : {0, 200, 202, 400, 401, 404}, error : Nat]
    BY DEF NoAnswer
  <2> QED BY <1>10, <2>1 DEF Reply, LocalsInv, Pos
<1> QED BY <1>1, <1>2, <1>3, <1>4, <1>5, <1>6, <1>7, <1>8, <1>9, <1>10, Steps
---------------------------------------------------------------------------
(* The calls of a request reach torrents of the table.                     *)

(* The pair a call of torrents_settings_set applies.                       *)
LEMMA PairIs ==
  ASSUME Route, LocalsInv, Configured, hpc = "act", handler.does = "configure", k <= Len(ids)
  PROVE  /\ k \in DOMAIN req.settings /\ req.settings \in Seq(Settings)
         /\ pairs[k].ts = TsUpTo(req.settings, k) /\ pairs[k].ts \in Ts
         /\ ids[k] = req.settings[k].id
<1>1. req.settings \in Seq(Settings)
  BY Busy DEF AllRequests
<1>2. pairs = PairsOf(req.settings) /\ ids = IdsOf(PairsOf(req.settings))
  BY DEF Configured, Configuring
<1>3. DOMAIN ids = DOMAIN req.settings
  BY <1>1, <1>2, PairsAre
<1>4. k \in DOMAIN ids
  BY DEF LocalsInv, Pos
<1> QED BY <1>1, <1>2, <1>3, <1>4, PairsAre, TsAre

LEMMA TsApplied == ASSUME NEW old \in Ts, NEW ts \in Ts PROVE ApplyTs(old, ts) \in Ts
BY DEF ApplyTs, Ts

(* Which torrent a step of the calls is about.                             *)
Calls(t) ==
    /\ t \in Torrents /\ (Throw(t) \/ Reach(t))
    /\ UNCHANGED <<req, ids, pairs, atps, answer, fate, before, sent, wrote, told,
                   greatest_id, adding, alerts, metadata, store>>
    /\ \/ UNCHANGED <<torrents, session, gone>>
       \/ /\ remove_torrent /\ Reach(t)
          /\ session' = session \ {t} /\ gone' = gone \cup {t}

LEMMA ActCalls ==
  ASSUME TableInv, LocalsInv, Found, Act
  PROVE  /\ Calls(Named(ids[k])) /\ hpc = "act" /\ handler.does # "erase"
         /\ k <= Len(ids) /\ Exists(ids[k]) /\ UNCHANGED <<torrents, session, gone>>
<1>1. hpc = "act" /\ handler.does # "erase" /\ k <= Len(ids)
  BY DEF Act, Serving
<1>2. k \in DOMAIN ids
  BY <1>1 DEF LocalsInv, Pos
<1>3. Exists(ids[k])
  BY <1>1, <1>2 DEF Found, LookedUp
<1>4. Named(ids[k]) \in Torrents
  BY <1>3, NamedAre
<1> QED BY <1>1, <1>3, <1>4 DEF Act, Calls, manager, store

LEMMA SweepCalls ==
  ASSUME TableInv, Route, LocalsInv, Sweep
  PROVE  /\ hpc = "sweep" /\ handler.does \in {"call", "status"} /\ k \in DOMAIN torrents
         /\ Calls(torrents[k].torrent) /\ UNCHANGED <<torrents, session, gone>>
<1>1. hpc = "sweep" /\ handler.does \in {"call", "status"} /\ k <= Len(torrents)
  BY DEF Sweep, Serving, Route
<1>2. k \in DOMAIN torrents
  BY <1>1 DEF LocalsInv, Pos, TableInv
<1>3. torrents[k].torrent \in Torrents
  BY <1>2, EntriesAre DEF Rows
<1> QED BY <1>1, <1>2, <1>3 DEF Sweep, Calls, manager, store

LEMMA RemoveCalls ==
  ASSUME TableInv, LocalsInv, remove_torrent
  PROVE  /\ hpc = "act" /\ handler.does = "erase" /\ k <= Len(ids)
         /\ \/ Exists(ids[k]) /\ Calls(Named(ids[k]))
            \/ /\ ~Exists(ids[k]) /\ k' = k + 1
               /\ UNCHANGED <<manager, libt, store, hpc, req, ids, pairs, atps, answer, fate,
                              past>>
<1>1. hpc = "act" /\ handler.does = "erase" /\ k <= Len(ids)
  BY DEF remove_torrent, Serving
<1>2. CASE Exists(ids[k])
  <2>1. Named(ids[k]) \in Torrents
    BY <1>2, NamedAre
  <2> QED BY <1>1, <1>2, <2>1 DEF remove_torrent, Calls, store
<1>3. CASE ~Exists(ids[k])
  BY <1>1, <1>3 DEF remove_torrent, manager, libt, store, past
<1> QED BY <1>2, <1>3

LEMMA LibInit == Init => LibInv /\ PastInv
BY DEF Init, LibInv, PastInv, Ts, Unset

LEMMA CallsLib ==
  ASSUME LibInv, PastInv, Route, LocalsInv, Configured, NEW t, Calls(t), hpc \in {"act", "sweep"},
         handler.does = "configure" => hpc = "act" /\ k <= Len(ids)
  PROVE  (LibInv /\ PastInv)'
<1>1. settings' \in [Torrents -> Ts]
  <2>1. CASE settings' = settings
    BY <2>1 DEF LibInv
  <2>2. CASE settings' # settings
    <3>1. handler.does = "configure" /\ settings' = [settings EXCEPT ![t] = ApplyTs(@, pairs[k].ts)]
      BY <2>2 DEF Calls, Throw, Reach, SetTorrentSettings
    <3>2. pairs[k].ts \in Ts /\ settings[t] \in Ts
      BY <3>1, PairIs DEF Calls, LibInv
    <3>3. ApplyTs(settings[t], pairs[k].ts) \in Ts
      BY <3>2, TsApplied
    <3> QED BY <3>1, <3>3 DEF LibInv
  <2> QED BY <2>1, <2>2
<1>2. reached' \in Seq(Torrents) /\ sent' = sent
  BY DEF Calls, Throw, Reach, PastInv
<1> QED BY <1>1, <1>2 DEF Calls, LibInv, PastInv

LEMMA LibStep ==
  ASSUME TableInv, LibInv, PastInv, Route, LocalsInv, FilesInv, Configured, Found, [Next]_vars
  PROVE  (LibInv /\ PastInv)'
<1>1. CASE SessionAnswers
  <2> DEFINE a == Head(adding)
  <2>1. a \in Atps /\ a.torrent \in Torrents \cup {None}
    <3>1. a \in Atps
      BY <1>1, HeadTailProperties DEF SessionAnswers, LibInv
    <3> HIDE DEF a
    <3> QED BY <3>1 DEF Atps
  <2>2. adding' \in Seq(Atps)
    BY <1>1 DEF SessionAnswers, LibInv
  <2>3. \/ /\ alerts' = Append(alerts, None) /\ UNCHANGED <<session, metadata>>
        \/ /\ a.torrent \in Torrents \ gone /\ alerts' = Append(alerts, a.torrent)
           /\ session' = session \cup {a.torrent}
           /\ metadata' \in {metadata, metadata \cup {a.torrent}}
    BY <1>1, <2>1 DEF SessionAnswers
  <2>4. UNCHANGED <<gone, settings, past>>
    BY <1>1 DEF SessionAnswers
  <2> HIDE DEF a
  <2>5. alerts' \in Seq(Torrents \cup {None})
    <3>1. alerts \in Seq(Torrents \cup {None})
      BY DEF LibInv
    <3>2. \E t \in Torrents \cup {None} : alerts' = Append(alerts, t)
      BY <2>1, <2>3
    <3> QED BY <3>1, <3>2, AppendProperties
  <2>6. /\ session' \subseteq Torrents /\ metadata' \subseteq Torrents
        /\ session' \cap gone = {}
    BY <2>3 DEF LibInv
  <2> QED BY <2>2, <2>4, <2>5, <2>6 DEF LibInv, PastInv, past
<1>2. CASE \E t \in Torrents : MetadataArrives(t)
  BY <1>2 DEF MetadataArrives, LibInv, PastInv, past
<1>3. CASE check_alerts
  <2>1. alerts' \in Seq(Torrents \cup {None})
    BY <1>3 DEF check_alerts, LibInv
  <2> QED BY <1>3, <2>1 DEF check_alerts, LibInv, PastInv, past
<1>4. CASE \/ update_torrent_console_view \/ DownloadCrash \/ Dead \/ UNCHANGED vars
           \/ List \/ Check \/ Done \/ save_request_files_to_disk
  <2>1. UNCHANGED <<libt, before, reached, sent>>
    BY <1>4 DEF update_torrent_console_view, DownloadCrash, Dead, vars, List, Check, Done,
                save_request_files_to_disk, past
  <2> QED BY <2>1 DEF LibInv, PastInv, libt
<1>5. ASSUME NEW r \in Requests, Receive(r) PROVE (LibInv /\ PastInv)'
  BY <1>5 DEF Receive, LibInv, PastInv, libt
<1>6. CASE Act
  BY <1>6, ActCalls, CallsLib
<1>7. CASE Sweep
  <2>1. hpc = "sweep" /\ handler.does # "configure" /\ Calls(torrents[k].torrent)
    BY <1>7, SweepCalls
  <2> QED BY <2>1, CallsLib
<1>8. CASE remove_torrent
  <2>1. CASE Exists(ids[k])
    <3>1. hpc = "act" /\ handler.does # "configure" /\ Calls(Named(ids[k]))
      BY <1>8, <2>1, RemoveCalls
    <3> QED BY <3>1, CallsLib
  <2>2. CASE ~Exists(ids[k])
    <3>1. UNCHANGED <<libt, past>>
      BY <1>8, <2>2, RemoveCalls
    <3> QED BY <3>1 DEF LibInv, PastInv, libt, past
  <2> QED BY <2>1, <2>2
<1>9. CASE parse_request_to_atp
  BY <1>9 DEF parse_request_to_atp, Reject, LibInv, PastInv
<1>10. CASE add_torrent_async
  <2>1. UNCHANGED <<adding, sent>> \/ (/\ ~(k > Len(atps)) /\ adding' = Append(adding, atps[k])
                                       /\ sent' = Append(sent, atps[k]))
    BY <1>10 DEF add_torrent_async
  <2>2. ~(k > Len(atps)) => atps[k] \in Atps
    BY DEF LocalsInv, Pos
  <2>3. adding' \in Seq(Atps) /\ sent' \in Seq(Atps)
    <3>1. CASE UNCHANGED <<adding, sent>>
      BY <3>1 DEF LibInv, PastInv
    <3>2. CASE ~(k > Len(atps)) /\ adding' = Append(adding, atps[k]) /\ sent' = Append(sent, atps[k])
      BY <2>2, <3>2, AppendProperties DEF LibInv, PastInv
    <3> QED BY <2>1, <3>1, <3>2
  <2> QED BY <1>10, <2>3 DEF add_torrent_async, LibInv, PastInv
<1>11. CASE Reply
  BY <1>11 DEF Reply, LibInv, PastInv, libt, Ts, Unset
<1> QED BY <1>1, <1>2, <1>3, <1>4, <1>5, <1>6, <1>7, <1>8, <1>9, <1>10, <1>11 DEF Next, Http

---------------------------------------------------------------------------
(* The files.                                                              *)

(* The steps that neither parse nor write.                                 *)
Aside ==
    /\ UNCHANGED <<store, wrote, told, adding, alerts, greatest_id, req, atps, sent>>
    /\ hpc \notin {"parse", "send", "write"} /\ hpc' \notin {"parse", "send", "write"}

LEMMA AsideSteps ==
  ASSUME List \/ Check \/ Act \/ Sweep \/ remove_torrent \/ Done
  PROVE  Aside
<1>1. CASE List \/ Check \/ Done
  BY <1>1 DEF List, Check, Done, Serving, Answer, manager, libt, past, Aside
<1>2. CASE Act \/ Sweep \/ remove_torrent
  BY <1>2 DEF Act, Sweep, remove_torrent, Serving, Throw, Reach, manager, Aside
<1> QED BY <1>1, <1>2

LEMMA FilesInit == Init => FilesInv /\ FileBudget
BY DEF Init, FilesInv, FileBudget, ToWrite, ToSet

(* Files are only added, and a file is written where Len(files) says.      *)
LEMMA Saved ==
  ASSUME NEW content \in Torrents \cup {None}, SaveFile(content), FilesInv, UNCHANGED folder
  PROVE  /\ files' \in Seq(Torrents \cup {None}) /\ DOMAIN files \subseteq DOMAIN files'
         /\ Len(files') \in Nat /\ Len(files) \in Nat
         /\ Len(files') \in {Len(files), Len(files) + 1}
         /\ Len(files) < MaxFiles => wrote' \in Seq(1..MaxFiles)
         /\ folder /\ ToSet(wrote) \subseteq DOMAIN files => ToSet(wrote') \subseteq DOMAIN files'
<1>1. files \in Seq(Torrents \cup {None}) /\ wrote \in Seq(1..MaxFiles)
  BY DEF FilesInv
<1>2. /\ files' \in Seq(Torrents \cup {None}) /\ DOMAIN files \subseteq DOMAIN files'
      /\ Len(files') \in Nat /\ Len(files) \in Nat
      /\ Len(files') \in {Len(files), Len(files) + 1}
      /\ folder => DOMAIN files' = 1..(Len(files) + 1)
  <2>1. CASE folder
    BY <1>1, <2>1, AppendProperties DEF SaveFile
  <2>2. CASE ~folder
    BY <1>1, <2>2 DEF SaveFile
  <2> QED BY <2>1, <2>2
<1>3. wrote' = Append(wrote, Len(files) + 1)
  BY DEF SaveFile
<1> DEFINE n == Len(files)
<1>4. n \in Nat /\ wrote' = Append(wrote, n + 1)
  BY <1>2, <1>3
<1> HIDE DEF n
<1>5. n < MaxFiles => wrote' \in Seq(1..MaxFiles)
  BY <1>1, <1>4, AppendProperties
<1>6. \A i \in DOMAIN wrote' : wrote'[i] = n + 1 \/ \E j \in DOMAIN wrote : wrote'[i] = wrote[j]
  BY <1>1, <1>4, AppendProperties
<1>7. ASSUME folder, ToSet(wrote) \subseteq DOMAIN files PROVE ToSet(wrote') \subseteq DOMAIN files'
  <2>1. n + 1 \in DOMAIN files'
    BY <1>2, <1>4, <1>7 DEF n
  <2>2. \A j \in DOMAIN wrote : wrote[j] \in DOMAIN files
    BY <1>7 DEF ToSet
  <2> QED BY <1>2, <1>6, <2>1, <2>2 DEF ToSet
<1> QED BY <1>2, <1>4, <1>5, <1>7 DEF n

(* What is left to download when the next spec is one.                     *)
LEMMA WebFromIs ==
  ASSUME Route, hpc # "idle", NEW j \in Pos
  PROVE  /\ Cardinality(WebFrom(j)) \in Nat
         /\ j <= Len(req.specs) =>
              Cardinality(WebFrom(j)) = Cardinality(WebFrom(j + 1))
                                        + (IF req.specs[j].type = "http" THEN 1 ELSE 0)
<1> DEFINE n == Len(req.specs)
<1>1. n \in Nat /\ DOMAIN req.specs = 1..n
  BY Busy DEF AllRequests
<1> HIDE DEF n
<1>2. IsFiniteSet(1..n)
  BY <1>1, FS_Interval
<1>3. \A m \in Pos : IsFiniteSet(WebFrom(m))
  <2> TAKE m \in Pos
  <2>1. WebFrom(m) \subseteq 1..n
    BY <1>1 DEF WebFrom
  <2> QED BY <1>2, <2>1, FS_Subset
<1>4. j \in Nat /\ j + 1 \in Pos
  BY DEF Pos
<1>5. WebFrom(j + 1) = WebFrom(j) \ {j}
  BY <1>1, <1>4 DEF WebFrom
<1>6. j <= n => (j \in WebFrom(j) <=> req.specs[j].type = "http")
  BY <1>1 DEF WebFrom, Pos
<1>7. Cardinality(WebFrom(j)) \in Nat
  BY <1>3, FS_CardinalityType
<1>8. Cardinality(WebFrom(j + 1)) =
         IF j \in WebFrom(j) THEN Cardinality(WebFrom(j)) - 1 ELSE Cardinality(WebFrom(j))
  BY <1>3, <1>5, FS_RemoveElement
<1> QED BY <1>6, <1>7, <1>8 DEF n
LEMMA ParseSpec ==
  ASSUME Route, LocalsInv, parse_request_to_atp
  PROVE  /\ hpc = "parse" /\ req \in AllRequests /\ req' = req /\ Len(req.specs) \in Nat
         /\ k \in Nat /\ k >= 1
         /\ ~(k > Len(req.specs)) =>
              /\ k \in DOMAIN req.specs /\ req.specs[k] \in Specs
              /\ Fetched(req.specs[k]) \in Torrents \cup {None}
<1>1. hpc = "parse" /\ req \in AllRequests /\ req' = req
  BY Busy DEF parse_request_to_atp, Serving
<1>2. req.specs \in Seq(Specs) /\ k \in Pos
  BY <1>1 DEF AllRequests, LocalsInv
<1>3. ~(k > Len(req.specs)) => k \in DOMAIN req.specs /\ req.specs[k] \in Specs
  BY <1>2 DEF Pos
<1>4. \A s \in Specs : Fetched(s) \in Torrents \cup {None}
  BY DEF Fetched, Specs
<1> QED BY <1>1, <1>2, <1>3, <1>4 DEF Pos

LEMMA FilesStep ==
  ASSUME Route, LocalsInv, FilesInv, FileBudget, [Next]_vars PROVE FilesInv'
<1>1. CASE Around
  BY <1>1 DEF Around, past, store, FilesInv
<1>2. ASSUME NEW r \in Requests, Receive(r) PROVE FilesInv'
  BY <1>2 DEF Receive, FilesInv, store, ToSet
<1>3. CASE List \/ Check \/ Act \/ Sweep \/ remove_torrent \/ Done
  <2>1. Aside
    BY <1>3, AsideSteps
  <2> QED BY <2>1 DEF Aside, store, FilesInv
<1>4. CASE parse_request_to_atp
  <2>1. hpc' # "write" /\ UNCHANGED <<folder, told>>
    BY <1>4, ParseSpec DEF parse_request_to_atp, Reject, Answer
  <2>2. CASE UNCHANGED <<files, wrote>>
    BY <2>1, <2>2 DEF FilesInv
  <2>3. CASE ~UNCHANGED <<files, wrote>>
    <3>1. ~(k > Len(req.specs)) /\ req.specs[k].type = "http" /\ SaveFile(Fetched(req.specs[k]))
      BY <1>4, <2>3 DEF parse_request_to_atp
    <3>2. Fetched(req.specs[k]) \in Torrents \cup {None} /\ hpc = "parse" /\ k <= Len(req.specs)
      BY <1>4, <3>1, ParseSpec
    <3>3. Len(files) < MaxFiles
      <4> DEFINE a == Cardinality(WebFrom(k))
                 b == Cardinality(WebFrom(k + 1))
                 n == Len(files)
      <4>1. k \in Pos /\ k + 1 \in Pos
        BY DEF LocalsInv, Pos
      <4>2. a \in Nat /\ b \in Nat /\ a = b + 1
        BY <3>1, <3>2, <4>1, WebFromIs
      <4>3. n + a <= MaxFiles /\ n \in Nat
        BY <3>2 DEF FileBudget, ToWrite, FilesInv
      <4> HIDE DEF a, b, n
      <4>4. n < MaxFiles
        BY <4>2, <4>3
      <4> QED BY <4>4 DEF n
    <3> QED BY <2>1, <3>1, <3>2, <3>3, Saved DEF FilesInv
  <2> QED BY <2>2, <2>3
<1>5. CASE add_torrent_async
  <2>1. UNCHANGED <<store, wrote, told>> /\ hpc' # "write"
    BY <1>5 DEF add_torrent_async, Serving, Answer
  <2> QED BY <2>1 DEF store, FilesInv
<1>6. CASE save_request_files_to_disk
  <2>1. hpc = "write" /\ UNCHANGED folder /\ req \in AllRequests /\ req.parts \in Seq(Torrents \cup {None})
    BY <1>6, Busy DEF save_request_files_to_disk, Serving, AllRequests
  <2>2. CASE req.ends # "noBoundary" /\ k <= Len(req.parts)
    <3>1. SaveFile(req.parts[k]) /\ UNCHANGED told
      BY <1>6, <2>2 DEF save_request_files_to_disk
    <3>2. req.parts[k] \in Torrents \cup {None}
      BY <2>1, <2>2 DEF LocalsInv, Pos
    <3>3. Len(files) < MaxFiles
      <4> DEFINE n == Len(files)
                 m == Len(req.parts)
      <4>1. n \in Nat /\ m \in Nat /\ k \in Nat /\ k <= m /\ n + (m - (k - 1)) <= MaxFiles
        BY <2>1, <2>2 DEF FileBudget, ToWrite, FilesInv, LocalsInv, Pos
      <4> HIDE DEF n, m
      <4>2. n < MaxFiles
        BY <4>1
      <4> QED BY <4>2 DEF n
    <3> QED BY <2>1, <3>1, <3>2, <3>3, Saved DEF FilesInv
  <2>3. CASE ~(req.ends # "noBoundary" /\ k <= Len(req.parts))
    <3>1. hpc' = "reply" /\ UNCHANGED <<files, wrote>> /\ told' \in {told, told \cup ToSet(wrote)}
      BY <1>6, <2>3 DEF save_request_files_to_disk, Answer
    <3>2. ToSet(wrote) \subseteq 1..MaxFiles
      BY DEF FilesInv, ToSet
    <3> QED BY <2>1, <3>1, <3>2 DEF FilesInv
  <2> QED BY <2>2, <2>3
<1>7. CASE Reply
  BY <1>7 DEF Reply, FilesInv, store
<1> QED BY <1>1, <1>2, <1>3, <1>4, <1>5, <1>6, <1>7, Steps

LEMMA FileBudgetStep ==
  ASSUME Route, LocalsInv, FilesInv, FileBudget, [Next]_vars PROVE FileBudget'
<1>0. Len(files) \in Nat /\ Len(files) <= MaxFiles
  <2> DEFINE n == Len(files)
             m == ToWrite
  <2>1. n \in Nat /\ m \in Nat /\ n + m <= MaxFiles
    BY DEF FileBudget, FilesInv
  <2> HIDE DEF n, m
  <2>2. n <= MaxFiles
    BY <2>1
  <2> QED BY <2>1, <2>2 DEF n
<1>1. CASE Around
  <2>1. UNCHANGED <<files, hpc, req, k>>
    BY <1>1 DEF Around, store, locals
  <2>2. WebFrom(k)' = WebFrom(k)
    BY <2>1 DEF WebFrom
  <2>3. ToWrite' = ToWrite
    BY <2>1, <2>2 DEF ToWrite
  <2> QED BY <2>1, <2>3 DEF FileBudget
<1>2. ASSUME NEW r \in Requests, Receive(r) PROVE FileBudget'
  <2> DEFINE w == {i \in DOMAIN r.specs : r.specs[i].type = "http"}
             c == Cardinality(w)
             p == Len(r.parts)
             n == Len(files)
  <2>1. r \in AllRequests
    BY RequestsAssumption
  <2>2. p \in Nat /\ Len(r.specs) \in Nat /\ w \subseteq 1..Len(r.specs)
    BY <2>1 DEF AllRequests
  <2>3. IsFiniteSet(w)
    <3>1. IsFiniteSet(1..Len(r.specs))
      BY <2>2, FS_Interval
    <3> QED BY <2>2, <3>1, FS_Subset
  <2>4. c \in Nat
    BY <2>3, FS_CardinalityType
  <2>5. req' = r /\ k' = 1 /\ files' = files /\ n + (p + c) <= MaxFiles
    BY <1>2 DEF Receive, NewFiles, store
  <2>6. WebFrom(k)' = w
    BY <2>1, <2>2, <2>5 DEF WebFrom
  <2>7. n \in Nat
    BY <1>0
  <2>8. ToWrite' = 0 \/ ToWrite' = c \/ ToWrite' = p
    <3>1. CASE hpc' = "parse"
      BY <2>6, <3>1 DEF ToWrite
    <3>2. CASE hpc' = "write"
      BY <2>2, <2>5, <3>2 DEF ToWrite
    <3>3. CASE hpc' \notin {"parse", "write"}
      BY <3>3 DEF ToWrite
    <3> QED BY <3>1, <3>2, <3>3
  <2> HIDE DEF w, c, p, n
  <2>9. ToWrite' \in Nat /\ n + ToWrite' <= MaxFiles
    <3>1. p \in Nat /\ c \in Nat /\ n \in Nat /\ n + (p + c) <= MaxFiles
      BY <2>2, <2>4, <2>5, <2>7
    <3> QED BY <2>8, <3>1
  <2> QED BY <2>5, <2>9 DEF FileBudget, n
<1>3. CASE hpc' \notin {"parse", "write"} /\ files' = files
  BY <1>0, <1>3 DEF FileBudget, ToWrite
<1>4. CASE List \/ Check \/ Act \/ Sweep \/ remove_torrent \/ Done \/ add_torrent_async \/ Reply
  <2>1. CASE add_torrent_async \/ Reply
    BY <1>3, <2>1 DEF add_torrent_async, Reply, Serving, Answer, store
  <2>2. CASE ~(add_torrent_async \/ Reply)
    BY <1>3, <1>4, <2>2, AsideSteps DEF Aside, store
  <2> QED BY <2>1, <2>2
<1>5. CASE parse_request_to_atp
  <2> DEFINE a == Cardinality(WebFrom(k))
             b == Cardinality(WebFrom(k + 1))
             n == Len(files)
             m == Len(files')
  <2>1. k \in Pos /\ k + 1 \in Pos /\ k \in Nat /\ hpc = "parse" /\ req' = req
    BY <1>5, ParseSpec DEF LocalsInv, Pos
  <2>2. a \in Nat /\ b \in Nat /\ n \in Nat /\ n + a <= MaxFiles
    BY <1>0, <2>1, WebFromIs DEF FileBudget, ToWrite
  <2>3. CASE k > Len(req.specs)
    BY <1>3, <1>5, <2>3 DEF parse_request_to_atp
  <2>4. CASE ~(k > Len(req.specs))
    <3>1. k \in DOMAIN req.specs /\ Fetched(req.specs[k]) \in Torrents \cup {None}
          /\ k <= Len(req.specs)
      BY <1>5, <2>4, ParseSpec
    <3>2. a = b + (IF req.specs[k].type = "http" THEN 1 ELSE 0)
      BY <2>1, <3>1, WebFromIs
    <3>3. m \in Nat /\ (m = n \/ (req.specs[k].type = "http" /\ m = n + 1))
      <4>1. CASE req.specs[k].type = "http"
        <5>1. SaveFile(Fetched(req.specs[k])) /\ UNCHANGED folder
          BY <1>5, <2>4, <4>1 DEF parse_request_to_atp
        <5> QED BY <3>1, <4>1, <5>1, Saved
      <4>2. CASE req.specs[k].type # "http"
        BY <1>5, <1>0, <2>4, <4>2 DEF parse_request_to_atp
      <4> QED BY <4>1, <4>2
    <3>4. \/ hpc' = "reply"
          \/ hpc' = "parse" /\ k' = k + 1
      <4>1. CASE ParseError(req.specs[k]) # 0
        BY <1>5, <2>4, <4>1 DEF parse_request_to_atp, Reject, Answer
      <4>2. CASE ParseError(req.specs[k]) = 0
        BY <1>5, <2>1, <2>4, <4>2 DEF parse_request_to_atp
      <4> QED BY <4>1, <4>2
    <3>5. WebFrom(k + 1)' = {i \in DOMAIN req.specs : i >= k' + 1 /\ req.specs[i].type = "http"}
      BY <2>1 DEF WebFrom
    <3>6. k' = k + 1 => WebFrom(k)' = WebFrom(k + 1)
      BY <2>1 DEF WebFrom
    <3>7. ToWrite' = 0 \/ ToWrite' = b
      BY <3>4, <3>6 DEF ToWrite
    <3>8. n + (IF req.specs[k].type = "http" THEN 1 ELSE 0) + b <= MaxFiles
      <4> HIDE DEF a, b, n
      <4> QED BY <2>2, <3>2
    <3> HIDE DEF a, b, n, m
    <3>9. ToWrite' \in Nat /\ m + ToWrite' <= MaxFiles
      BY <2>2, <3>3, <3>7, <3>8
    <3> QED BY <3>9 DEF FileBudget, m
  <2> QED BY <2>3, <2>4
<1>6. CASE save_request_files_to_disk
  <2> DEFINE n == Len(files)
             m == Len(files')
             p == Len(req.parts)
  <2>1. hpc = "write" /\ req' = req /\ UNCHANGED folder /\ req.parts \in Seq(Torrents \cup {None})
    BY <1>6, Busy DEF save_request_files_to_disk, Serving, AllRequests
  <2>2. p \in Nat /\ k \in Nat /\ k >= 1 /\ n \in Nat /\ n + (p - (k - 1)) <= MaxFiles
    BY <1>0, <2>1 DEF LocalsInv, Pos, FileBudget, ToWrite
  <2>3. CASE req.ends # "noBoundary" /\ k <= p
    <3>1. SaveFile(req.parts[k]) /\ k' = k + 1 /\ hpc' = "write"
      BY <1>6, <2>1, <2>3 DEF save_request_files_to_disk
    <3>2. req.parts[k] \in Torrents \cup {None}
      BY <2>1, <2>2, <2>3
    <3>3. m \in Nat /\ m \in {n, n + 1}
      BY <2>1, <3>1, <3>2, Saved
    <3>4. ToWrite' = p - ((k + 1) - 1)
      BY <2>1, <3>1 DEF ToWrite
    <3> HIDE DEF n, m, p
    <3>5. ToWrite' \in Nat /\ m + ToWrite' <= MaxFiles
      BY <2>2, <2>3, <3>3, <3>4
    <3> QED BY <3>5 DEF FileBudget, m
  <2>4. CASE ~(req.ends # "noBoundary" /\ k <= p)
    BY <1>3, <1>6, <2>4 DEF save_request_files_to_disk, Answer
  <2> QED BY <2>3, <2>4
<1> QED BY <1>1, <1>2, <1>4, <1>5, <1>6, Steps
---------------------------------------------------------------------------
(* Everything is looked at before anything is done.                        *)

LEMMA CleanInit == Init => Clean
BY DEF Init, Clean

LEMMA CleanStep == ASSUME Clean, [Next]_vars PROVE Clean'
<1>1. CASE Around
  BY <1>1 DEF Around, past, Clean
<1>2. ASSUME NEW r \in Requests, Receive(r) PROVE Clean'
  BY <1>2 DEF Receive, Clean, libt
<1>3. CASE List
  BY <1>3 DEF List, Serving, Clean, libt, past
<1>4. CASE \/ Check \/ Act \/ Sweep \/ remove_torrent \/ Done \/ add_torrent_async \/ Reply
  <2>1. hpc' \in {"act", "sweep", "send", "reply", "idle"}
    BY <1>4 DEF Check, Act, Sweep, remove_torrent, Done, add_torrent_async, Reply, Serving,
                Throw, Reach, Answer
  <2> QED BY <2>1 DEF Clean
<1>5. CASE parse_request_to_atp
  <2>1. hpc = "parse" /\ UNCHANGED <<reached, sent, settings, before>>
    BY <1>5 DEF parse_request_to_atp, Serving, Reject
  <2> QED BY <2>1 DEF Clean
<1>6. CASE save_request_files_to_disk
  <2>1. hpc = "write" /\ UNCHANGED <<reached, sent, settings, before>>
    BY <1>6 DEF save_request_files_to_disk, Serving, libt
  <2> QED BY <2>1 DEF Clean
<1> QED BY <1>1, <1>2, <1>3, <1>4, <1>5, <1>6, Steps

---------------------------------------------------------------------------
(* What is parsed is what the request lists, and all of it is passed on.   *)

LEMMA ParsedInit == Init => Parsed
BY DEF Init, Parsed

LEMMA AtpMatches ==
  ASSUME NEW s, ParseError(s) = 0
  PROVE  Matches(files, AtpOf(s), s)
<1>1. s.type = "http" => s.torrent = AtpOf(s).torrent
  BY DEF AtpOf
<1>2. s.type \in {"magnet", "infohash"} => s.torrent = AtpOf(s).torrent
  BY DEF AtpOf
<1>3. s.type = "file" => s.file \in DOMAIN files /\ AtpOf(s).torrent = files[s.file]
  BY DEF AtpOf, ParseError
<1>4. s.type = "other" => AtpOf(s).torrent = None
  BY DEF AtpOf
<1>5. /\ s.save_path <=> AtpOf(s).path = "save_path"
      /\ (s.type = "other" /\ ~s.save_path) <=> AtpOf(s).path = "none"
  <2>1. AtpOf(s).path = PathOf(s)
    BY DEF AtpOf
  <2>2. PathOf(s) = IF s.save_path THEN "save_path"
                    ELSE IF s.type = "other" THEN "none" ELSE "download_path"
    BY DEF PathOf
  <2> QED BY <2>1, <2>2
<1> QED BY <1>1, <1>2, <1>3, <1>4, <1>5 DEF Matches

(* A file that was read is not written again: files are only added.        *)
LEMMA StillMatches ==
  ASSUME FilesInv, FilesInv', \/ UNCHANGED files
                              \/ \E c \in Torrents \cup {None} : SaveFile(c),
         NEW a, NEW s, Matches(files, a, s)
  PROVE  Matches(files', a, s)
<1>1. DOMAIN files \subseteq DOMAIN files' /\ \A i \in DOMAIN files : files'[i] = files[i]
  <2>1. CASE UNCHANGED files
    BY <2>1
  <2>2. ASSUME NEW c \in Torrents \cup {None}, files' = Append(files, c)
        PROVE  DOMAIN files \subseteq DOMAIN files' /\ \A i \in DOMAIN files : files'[i] = files[i]
    BY <2>2, AppendProperties DEF FilesInv
  <2> QED BY <2>1, <2>2 DEF SaveFile
<1> QED BY <1>1 DEF Matches

LEMMA ParsedStep ==
  ASSUME Route, LocalsInv, PastInv, FilesInv, FilesInv', Clean, Parsed, [Next]_vars
  PROVE  Parsed'
<1>1. CASE Around
  BY <1>1 DEF Around, locals, past, store, Parsed, Matches
<1>2. ASSUME NEW r \in Requests, Receive(r) PROVE Parsed'
  <2>1. hpc' # "send" /\ k' = 1 /\ atps' = <<>> /\ req' = r
    BY <1>2, FirstSteps DEF Receive
  <2>2. Len(r.specs) \in Nat
    BY RequestsAssumption DEF AllRequests
  <2> QED BY <2>1, <2>2 DEF Parsed
<1>3. CASE List \/ Check \/ Act \/ Sweep \/ remove_torrent \/ Done
  BY <1>3, AsideSteps DEF Aside, Parsed
<1>4. CASE parse_request_to_atp
  <2>1. /\ hpc = "parse" /\ req' = req /\ Len(req.specs) \in Nat /\ k \in Nat /\ k >= 1
        /\ Len(atps) = k - 1 /\ k <= Len(req.specs) + 1
        /\ \A i \in DOMAIN atps : Matches(files, atps[i], req.specs[i])
    BY <1>4, ParseSpec DEF Parsed
  <2>2. CASE k > Len(req.specs)
    <3>1. hpc' = "send" /\ k' = 1 /\ UNCHANGED <<atps, sent, files>>
      BY <1>4, <2>2 DEF parse_request_to_atp
    <3>2. k - 1 = Len(req.specs)
      BY <2>1, <2>2
    <3>3. sent = <<>>
      BY <2>1 DEF Clean
    <3> QED BY <2>1, <3>1, <3>2, <3>3 DEF Parsed, Matches
  <2>3. CASE ~(k > Len(req.specs)) /\ ParseError(req.specs[k]) # 0
    <3>1. hpc' = "reply"
      BY <1>4, <2>3 DEF parse_request_to_atp, Reject, Answer
    <3> QED BY <3>1 DEF Parsed
  <2>4. CASE ~(k > Len(req.specs)) /\ ParseError(req.specs[k]) = 0
    <3> DEFINE a == AtpOf(req.specs[k])
    <3>1. atps' = Append(atps, a) /\ k' = k + 1 /\ hpc' = "parse"
      BY <1>4, <2>1, <2>4 DEF parse_request_to_atp
    <3>2. /\ Matches(files, a, req.specs[k])
          /\ UNCHANGED files \/ \E c \in Torrents \cup {None} : SaveFile(c)
      BY <1>4, <2>4, AtpMatches, ParseSpec DEF parse_request_to_atp
    <3> HIDE DEF a
    <3>3. /\ Len(atps') = k /\ DOMAIN atps' = 1..k /\ DOMAIN atps = 1..(k - 1) /\ atps'[k] = a
          /\ \A i \in 1..(k - 1) : atps'[i] = atps[i]
      BY <2>1, <3>1 DEF LocalsInv
    <3>4. \A i \in DOMAIN atps' : Matches(files', atps'[i], req.specs[i])
      <4> TAKE i \in DOMAIN atps'
      <4>1. CASE i = k
        BY <3>2, <3>3, <4>1, StillMatches
      <4>2. CASE i # k
        <5>1. i \in 1..(k - 1)
          BY <2>1, <3>3, <4>2
        <5>2. Matches(files, atps[i], req.specs[i]) /\ atps'[i] = atps[i]
          BY <2>1, <3>3, <5>1
        <5> QED BY <3>2, <5>2, StillMatches
      <4> QED BY <4>1, <4>2
    <3>5. Len(atps') = k' - 1 /\ k' <= Len(req.specs) + 1
      BY <2>1, <2>4, <3>1, <3>3
    <3> QED BY <2>1, <3>1, <3>4, <3>5 DEF Parsed, Matches
  <2> QED BY <2>2, <2>3, <2>4
<1>5. CASE add_torrent_async
  <2>1. /\ hpc = "send" /\ UNCHANGED <<req, atps, files>>
        /\ \/ hpc' = "reply"
           \/ hpc' = "send" /\ ~(k > Len(atps)) /\ k' = k + 1 /\ sent' = Append(sent, atps[k])
    BY <1>5 DEF add_torrent_async, Serving, Answer, store
  <2>2. CASE hpc' = "reply"
    BY <2>2 DEF Parsed
  <2>3. CASE hpc' # "reply"
    <3>1. k \in Nat /\ k >= 1 /\ Len(sent) = k - 1 /\ \A i \in 1..(k - 1) : sent[i] = atps[i]
      BY <2>1 DEF Parsed, LocalsInv, Pos
    <3>2. /\ Len(sent') = k /\ sent'[k] = atps[k] /\ \A i \in 1..(k - 1) : sent'[i] = sent[i]
      BY <2>1, <2>3, <3>1 DEF PastInv
    <3>3. \A i \in 1..(k' - 1) : sent'[i] = atps[i]
      <4>1. k' - 1 = k
        BY <2>1, <2>3, <3>1
      <4>2. ASSUME NEW i \in 1..k PROVE sent'[i] = atps[i]
        <5>1. CASE i = k
          BY <3>2, <5>1
        <5>2. CASE i # k
          <6>1. i \in 1..(k - 1)
            BY <3>1, <5>2
          <6> QED BY <3>1, <3>2, <6>1
        <5> QED BY <5>1, <5>2
      <4> QED BY <4>1, <4>2
    <3>4. Len(sent') = k' - 1
      BY <2>1, <2>3, <3>1, <3>2
    <3> QED BY <2>1, <2>3, <3>3, <3>4 DEF Parsed, Matches
  <2> QED BY <2>2, <2>3
<1>6. CASE save_request_files_to_disk \/ Reply
  <2>1. hpc' \in {"write", "reply", "idle"}
    BY <1>6 DEF save_request_files_to_disk, Reply, Serving, Answer
  <2> QED BY <2>1 DEF Parsed
<1> QED BY <1>1, <1>2, <1>3, <1>4, <1>5, <1>6, Steps

---------------------------------------------------------------------------
(* The additions in flight.                                                *)

LEMMA AddBudgetInit == Init => AddBudget
BY DEF Init, AddBudget, ToAdd

LEMMA ToAddIs == ASSUME Route, LocalsInv PROVE ToAdd \in Nat
<1>1. CASE hpc = "parse"
  BY <1>1, Busy DEF ToAdd, AllRequests
<1>2. CASE hpc = "send"
  BY <1>2 DEF ToAdd, LocalsInv, Pos
<1>3. CASE hpc \notin {"parse", "send"}
  BY <1>3 DEF ToAdd
<1> QED BY <1>1, <1>2, <1>3

LEMMA AddBudgetStep ==
  ASSUME TableInv, LibInv, Route, LocalsInv, Parsed, AddBudget, [Next]_vars PROVE AddBudget'
<1> DEFINE a == Len(adding)
           b == Len(alerts)
           n == ToAdd
<1>1. a \in Nat /\ b \in Nat /\ n \in Nat /\ greatest_id \in Nat /\ greatest_id >= 1
  BY ToAddIs DEF LibInv, TableInv, Pos
<1>2. a + b + (greatest_id - 1) + n <= MaxAdds
  BY DEF AddBudget
<1>3. ASSUME UNCHANGED <<req, atps, hpc, k>> PROVE ToAdd' = n
  BY <1>3 DEF ToAdd
<1>4. CASE SessionAnswers
  <2>1. ToAdd' = n
    BY <1>3, <1>4 DEF SessionAnswers, locals
  <2>2. Len(adding') = a - 1
    BY <1>4 DEF SessionAnswers, LibInv
  <2>3. Len(alerts') = b + 1
    <3>1. \E t : alerts' = Append(alerts, t)
      BY <1>4 DEF SessionAnswers
    <3> QED BY <3>1 DEF LibInv
  <2>4. greatest_id' = greatest_id
    BY <1>4 DEF SessionAnswers, manager
  <2> HIDE DEF a, b, n
  <2>5. (a - 1) + (b + 1) + (greatest_id - 1) + n <= MaxAdds
    BY <1>1, <1>2
  <2> QED BY <2>1, <2>2, <2>3, <2>4, <2>5 DEF AddBudget
<1>5. CASE check_alerts
  <2>1. ToAdd' = n
    BY <1>3, <1>5 DEF check_alerts, locals
  <2>2. Len(adding') = a /\ Len(alerts') = b - 1
    BY <1>5 DEF check_alerts, LibInv
  <2>3. greatest_id' = greatest_id \/ greatest_id' = greatest_id + 1
    BY <1>5 DEF check_alerts, manager
  <2> HIDE DEF a, b, n
  <2>4. a + (b - 1) + (greatest_id' - 1) + n <= MaxAdds
    BY <1>1, <1>2, <2>3
  <2> QED BY <2>1, <2>2, <2>4 DEF AddBudget
<1>6. ASSUME UNCHANGED <<adding, alerts, greatest_id>>, ToAdd' = 0 \/ ToAdd' = n
      PROVE  AddBudget'
  <2>1. Len(adding') = a /\ Len(alerts') = b
    BY <1>6
  <2> HIDE DEF a, b, n
  <2>2. a + b + (greatest_id - 1) + ToAdd' <= MaxAdds
    BY <1>1, <1>2, <1>6
  <2> QED BY <1>6, <2>1, <2>2 DEF AddBudget
<1>7. CASE \/ (\E t \in Torrents : MetadataArrives(t)) \/ update_torrent_console_view
           \/ DownloadCrash \/ Dead \/ UNCHANGED vars
  <2>1. UNCHANGED <<req, atps, hpc, k>> /\ UNCHANGED <<adding, alerts, greatest_id>>
    BY <1>7 DEF MetadataArrives, update_torrent_console_view, DownloadCrash, Dead, vars,
                libt, locals, manager
  <2> QED BY <1>3, <1>6, <2>1
<1>8. ASSUME NEW r \in Requests, Receive(r) PROVE AddBudget'
  <2> DEFINE p == Len(r.specs)
  <2>1. p \in Nat
    BY RequestsAssumption DEF AllRequests
  <2>2. a + b + greatest_id - 1 + p <= MaxAdds
    BY <1>8 DEF Receive, InFlight
  <2>3. req' = r /\ hpc' # "send" /\ UNCHANGED <<adding, alerts, greatest_id>>
    BY <1>8, FirstSteps DEF Receive, libt, manager
  <2>4. ToAdd' = 0 \/ ToAdd' = p
    BY <2>3 DEF ToAdd
  <2>5. Len(adding') = a /\ Len(alerts') = b
    BY <2>3
  <2> HIDE DEF a, b, n, p
  <2>6. a + b + (greatest_id - 1) + ToAdd' <= MaxAdds
    BY <1>1, <2>1, <2>2, <2>4
  <2> QED BY <2>3, <2>5, <2>6 DEF AddBudget
<1>9. CASE List \/ Check \/ Act \/ Sweep \/ remove_torrent \/ Done
  <2>1. Aside
    BY <1>9, AsideSteps
  <2>2. ToAdd' = 0
    BY <2>1 DEF Aside, ToAdd
  <2> QED BY <1>6, <2>1, <2>2 DEF Aside
<1>10. CASE parse_request_to_atp
  <2>1. UNCHANGED <<adding, alerts, greatest_id, req>> /\ hpc = "parse"
    BY <1>10 DEF parse_request_to_atp, Serving, Reject, manager
  <2>2. CASE k > Len(req.specs)
    <3>1. hpc' = "send" /\ k' = 1 /\ atps' = atps
      BY <1>10, <2>2 DEF parse_request_to_atp
    <3>2. Len(atps) = Len(req.specs) /\ Len(req.specs) \in Nat
      BY <1>10, <2>1, <2>2, ParseSpec DEF Parsed
    <3>3. ToAdd' = Len(req.specs)
      BY <3>1, <3>2 DEF ToAdd
    <3>4. ToAdd' = n
      BY <2>1, <3>3 DEF ToAdd
    <3> QED BY <1>6, <2>1, <3>4
  <2>3. CASE ~(k > Len(req.specs)) /\ ParseError(req.specs[k]) # 0
    <3>1. hpc' = "reply"
      BY <1>10, <2>3 DEF parse_request_to_atp, Reject, Answer
    <3>2. ToAdd' = 0
      BY <3>1 DEF ToAdd
    <3> QED BY <1>6, <2>1, <3>2
  <2>4. CASE ~(k > Len(req.specs)) /\ ParseError(req.specs[k]) = 0
    <3>1. hpc' = "parse"
      BY <1>10, <2>1, <2>4 DEF parse_request_to_atp
    <3>2. ToAdd' = n
      BY <2>1, <3>1 DEF ToAdd
    <3> QED BY <1>6, <2>1, <3>2
  <2> QED BY <2>2, <2>3, <2>4
<1>11. CASE add_torrent_async
  <2>1. UNCHANGED <<alerts, greatest_id, atps>> /\ hpc = "send"
    BY <1>11 DEF add_torrent_async, Serving, manager
  <2>2. CASE k > Len(atps)
    <3>1. hpc' = "reply" /\ adding' = adding
      BY <1>11, <2>2 DEF add_torrent_async, Answer
    <3>2. ToAdd' = 0
      BY <3>1 DEF ToAdd
    <3> QED BY <1>6, <2>1, <3>1, <3>2
  <2>3. CASE ~(k > Len(atps))
    <3>1. hpc' = "send" /\ k' = k + 1 /\ adding' = Append(adding, atps[k])
      BY <1>11, <2>1, <2>3 DEF add_torrent_async
    <3>2. Len(adding') = a + 1 /\ Len(alerts') = b
      BY <2>1, <3>1 DEF LibInv
    <3>3. n = Len(atps) - (k - 1) /\ ToAdd' = Len(atps) - ((k + 1) - 1)
      BY <2>1, <3>1 DEF ToAdd
    <3>4. k \in Nat /\ Len(atps) \in Nat
      BY DEF LocalsInv, Pos
    <3>5. ToAdd' = n - 1
      BY <3>3, <3>4
    <3> HIDE DEF a, b, n
    <3>6. (a + 1) + b + (greatest_id - 1) + (n - 1) <= MaxAdds
      BY <1>1, <1>2
    <3> QED BY <2>1, <3>2, <3>5, <3>6 DEF AddBudget
  <2> QED BY <2>2, <2>3
<1>12. CASE save_request_files_to_disk \/ Reply
  <2>1. UNCHANGED <<adding, alerts, greatest_id>> /\ hpc' \in {"write", "reply", "idle"}
    BY <1>12 DEF save_request_files_to_disk, Reply, Serving, Answer, libt, manager
  <2>2. ToAdd' = 0
    BY <2>1 DEF ToAdd
  <2> QED BY <1>6, <2>1, <2>2
<1> QED BY <1>4, <1>5, <1>7, <1>8, <1>9, <1>10, <1>11, <1>12 DEF Next, Http
---------------------------------------------------------------------------
(* Ids that were looked up.                                                *)

(* An id of the table stays there, with its torrent, unless it is erased.  *)
LEMMA Kept ==
  ASSUME TableInv, TableInv', UNCHANGED torrents \/ Registers, NEW id, Exists(id)
  PROVE  Exists(id)' /\ Named(id)' = Named(id)
<1>1. PICK i \in DOMAIN torrents : torrents[i].id = id /\ Named(id) = torrents[i].torrent
  BY NamedAre
<1>2. i \in DOMAIN torrents' /\ torrents'[i] = torrents[i]
  <2>1. CASE UNCHANGED torrents
    BY <2>1
  <2>2. CASE Registers
    BY <2>2 DEF Registers, TableInv
  <2> QED BY <2>1, <2>2
<1>3. torrents' \in Seq(Rows)
  BY DEF TableInv
<1>4. \A j \in DOMAIN torrents' : torrents'[j].id = id => torrents'[j].torrent = Named(id)
  BY <1>1, <1>2 DEF TableInv
<1>5. \A e : e \in Entries' <=> \E j \in DOMAIN torrents' : e = torrents'[j]
  BY DEF Entries, ToSet
<1>6. torrents'[i] \in Entries' /\ torrents'[i].id = id
  BY <1>1, <1>2, <1>5
<1>7. Exists(id)'
  BY <1>6 DEF Exists
<1>8. \A e \in Entries' : e.id = id => e.torrent = Named(id)
  BY <1>4, <1>5
<1>9. Named(id)' = (CHOOSE e \in Entries' : e.id = id).torrent
  BY DEF Named
<1> QED BY <1>6, <1>7, <1>8, <1>9

LEMMA FoundInit == Init => Found
BY DEF Init, Found, LookedUp, Configuring

LEMMA FoundStep ==
  ASSUME TableInv, TableInv', Route, LocalsInv, Found, [Next]_vars PROVE Found'
<1>0. ASSUME UNCHANGED <<hpc, req, answer, ids>>, UNCHANGED torrents \/ Registers PROVE Found'
  <2>1. LookedUp' = LookedUp
    BY <1>0 DEF LookedUp, Configuring, NoZero, handler
  <2> SUFFICES ASSUME LookedUp', NEW i \in DOMAIN ids' PROVE Exists(ids[i])'
    BY <1>0 DEF Found, NoZero
  <2>2. i \in DOMAIN ids /\ Exists(ids[i]) /\ ids' = ids
    BY <1>0, <2>1 DEF Found
  <2> DEFINE id == ids[i]
  <2>3. Exists(id) /\ ids'[i] = id
    BY <2>2
  <2>4. \A x : Exists(x) => Exists(x)'
    BY <1>0, Kept
  <2> QED BY <2>3, <2>4 DEF Exists
<1>1. CASE Around
  <2>1. UNCHANGED <<hpc, req, answer, ids>>
    BY <1>1 DEF Around, locals
  <2>2. UNCHANGED torrents \/ Registers
    BY <1>1 DEF Around, manager
  <2> QED BY <1>0, <2>1, <2>2
<1>2. ASSUME NEW r \in Requests, Receive(r) PROVE Found'
  <2>1. req' = r /\ HandlerOK(handler', r.op) /\ handler' = define_resources[r.op]
    BY <1>2, Handlers DEF Receive, handler
  <2>2. \/ hpc' = "reply" /\ answer'.status \in {400, 401}
        \/ hpc' = FirstStep(r)
    BY <1>2 DEF Receive, respond_invalid_parameter, respond_invalid_authorization
  <2>3. FirstStep(r) = "check" /\ handler'.does \in {"status", "get", "info"} => r.ids # <<>>
    BY <2>1, FirstSteps DEF HandlerOK
  <2>4. FirstStep(r) \in {"parse", "write", "list", "sweep", "check"}
    BY FirstSteps
  <2>5. ~LookedUp'
    BY <2>1, <2>2, <2>3, <2>4 DEF LookedUp, Configuring, Getters
  <2>6. hpc' # "act"
    BY <2>2, <2>4
  <2> QED BY <2>5, <2>6 DEF Found
<1>3. CASE List
  <2>1. ids' = get_all_ids /\ UNCHANGED torrents
    BY <1>3 DEF List, manager
  <2>2. \A i \in DOMAIN ids' : Exists(ids'[i])
    BY <2>1, ListedIds
  <2>3. hpc' # "act"
    BY <1>3 DEF List
  <2> QED BY <2>1, <2>2, <2>3 DEF Found, Exists, Entries
<1>4. CASE Check
  <2>1. UNCHANGED <<req, ids, torrents>>
    BY <1>4, Checked DEF manager
  <2>2. CASE hpc' = "act"
    <3>1. NoZero /\ \A i \in DOMAIN ids : Exists(ids[i])
      BY <1>4, <2>2, Checked
    <3> QED BY <2>1, <3>1 DEF Found, Exists, Entries, NoZero
  <2>3. CASE hpc' # "act"
    <3>1. hpc' = "reply" /\ (answer'.status = 404 \/ ~NoZero)
      BY <1>4, <2>3, Checked DEF NoZero
    <3> QED BY <2>1, <3>1 DEF Found, LookedUp, Configuring, NoZero
  <2> QED BY <2>2, <2>3
<1>5. CASE Act
  <2>1. hpc = "act" /\ handler.does # "erase" /\ UNCHANGED <<req, ids, torrents>>
    BY <1>5 DEF Act, Serving, manager
  <2>2. NoZero /\ \A i \in DOMAIN ids : Exists(ids[i])
    BY <2>1 DEF Found, LookedUp
  <2> QED BY <2>1, <2>2 DEF Found, Exists, Entries, NoZero
<1>6. CASE Sweep \/ remove_torrent
  <2>1. /\ hpc # "idle" /\ UNCHANGED <<req, ids, answer>> /\ handler.does # "configure"
        /\ hpc' = "reply" \/ (hpc' = hpc /\ (hpc = "sweep" \/ handler.does = "erase"))
        /\ hpc \in {"act", "sweep"}
    <3>1. CASE Sweep
      BY <1>6, <3>1 DEF Sweep, Serving, Throw, Reach, Route
    <3>2. CASE remove_torrent
      BY <1>6, <3>2 DEF remove_torrent, Serving, Throw, Reach
    <3> QED BY <1>6, <3>1, <3>2
  <2>2. ~LookedUp'
    BY <2>1 DEF LookedUp, Configuring, handler
  <2>3. hpc' = "act" => NoZero'
    BY <2>1 DEF Found, NoZero
  <2> QED BY <2>2, <2>3 DEF Found
<1>7. CASE Done
  <2>1. /\ UNCHANGED <<req, ids, torrents>>
        /\ hpc \in {"act", "sweep"} /\ hpc' \in {hpc, "reply"}
    BY <1>7 DEF Done, Serving, Answer, manager
  <2>2. LookedUp' => hpc = "act" /\ handler.does # "erase"
    <3>1. hpc = "sweep" => handler.does # "configure"
      BY DEF Route
    <3> QED BY <2>1, <3>1 DEF LookedUp, Configuring, handler
  <2>3. LookedUp' => \A i \in DOMAIN ids : Exists(ids[i])
    BY <2>2 DEF Found, LookedUp
  <2>4. hpc' = "act" => NoZero'
    BY <2>1 DEF Found, NoZero
  <2> QED BY <2>1, <2>3, <2>4 DEF Found, Exists, Entries
<1>8. CASE \/ parse_request_to_atp \/ add_torrent_async \/ save_request_files_to_disk
           \/ Reply
  <2>1. /\ hpc' \notin {"act", "check"}
        /\ hpc' = "reply" => handler.does # "configure" /\ req' = req
    BY <1>8 DEF parse_request_to_atp, add_torrent_async, save_request_files_to_disk, Reply,
                Serving, Answer, Reject, Route
  <2> QED BY <2>1 DEF Found, LookedUp, Configuring, handler
<1> QED BY <1>1, <1>2, <1>3, <1>4, <1>5, <1>6, <1>7, <1>8, Steps
---------------------------------------------------------------------------
(* Ids that were erased stay away.                                         *)

LEMMA ErasedInit == Init => Erased
BY DEF Init, Erased, NoAnswer

(* Removing the row of an id removes the id.                               *)
LEMMA RemovedId ==
  ASSUME TableInv, NEW i \in DOMAIN torrents, torrents' = Erase(torrents, i)
  PROVE  /\ \A id : id = torrents[i].id => ~Exists(id)'
         /\ \A id : ~Exists(id) => ~Exists(id)'
<1> DEFINE n == Len(torrents)
           f(j) == IF j < i THEN j ELSE j + 1
<1>1. n \in Nat /\ DOMAIN torrents = 1..n /\ i \in 1..n
  BY DEF TableInv
<1>2. DOMAIN torrents' = 1..(n - 1) /\ \A j \in 1..(n - 1) : torrents'[j] = torrents[f(j)]
  <2>1. torrents \in Seq(Rows) /\ torrents' = RemoveAt(torrents, i)
    BY DEF TableInv, Erase
  <2> QED BY <1>1, <2>1, Removed
<1> HIDE DEF n
<1>3. \A j \in 1..(n - 1) : f(j) \in 1..n /\ f(j) # i
  BY <1>1
<1> HIDE DEF f
<1>4. \A e \in Entries' : \E j \in 1..n : e = torrents[j] /\ j # i
  BY <1>2, <1>3 DEF Entries, ToSet
<1>5. Entries' \subseteq Entries
  BY <1>1, <1>4, EntriesAre
<1>6. \A e \in Entries' : e.id # torrents[i].id
  BY <1>1, <1>4 DEF TableInv
<1>7. \A id : ~Exists(id) => ~Exists(id)'
  BY <1>5 DEF Exists
<1>8. \A id : id = torrents[i].id => ~Exists(id)'
  BY <1>6 DEF Exists
<1> QED BY <1>7, <1>8

LEMMA Below == ASSUME TableInv, NEW id, Exists(id) PROVE id < greatest_id
BY NamedAre DEF TableInv

LEMMA ErasedStep ==
  ASSUME TableInv, Route, LocalsInv, Clean, Found, Erased, [Next]_vars PROVE Erased'
<1>1. CASE Around
  <2>1. UNCHANGED <<hpc, req, answer, ids, k, reached, gone>>
    BY <1>1 DEF Around, locals, past
  <2>2. handler' = handler /\ NoZero' = NoZero
    BY <2>1 DEF handler, NoZero
  <2>3. CASE UNCHANGED manager
    BY <2>1, <2>2, <2>3 DEF manager, Erased, GoneBefore, Exists, Entries
  <2>4. CASE Registers
    <3>1. greatest_id \in Nat /\ greatest_id' = greatest_id + 1 /\ ids \in Seq(Ids)
      BY <2>4 DEF Registers, TableInv, Pos, LocalsInv
    <3>2. \A e \in Entries' : e \in Entries \/ e.id = greatest_id
      <4> DEFINE r == [id |-> greatest_id, torrent |-> Head(alerts)]
      <4>1. torrents' = Append(torrents, r) /\ r.id = greatest_id /\ torrents \in Seq(Rows)
        BY <2>4 DEF Registers, TableInv
      <4> HIDE DEF r
      <4>2. \A j \in DOMAIN torrents' : torrents'[j] = r \/ \E m \in DOMAIN torrents : torrents'[j] = torrents[m]
        BY <4>1
      <4> QED BY <4>1, <4>2 DEF Entries, ToSet
    <3>3. \A id : ~Exists(id) /\ id # greatest_id => ~Exists(id)'
      BY <3>2 DEF Exists
    <3>4. ASSUME NEW m, GoneBefore(m) PROVE GoneBefore(m)'
      <4>1. \A i \in DOMAIN ids : ids[i] < greatest_id /\ ids[i] \in Nat
        BY <3>1, <3>4 DEF GoneBefore, Ids
      <4>2. \A i \in DOMAIN ids : ids[i] < greatest_id' /\ ids[i] # greatest_id
        BY <3>1, <4>1
      <4>3. \A i \in DOMAIN ids : i < m => ~Exists(ids[i])
        BY <3>4 DEF GoneBefore
      <4>4. \A i \in DOMAIN ids' : i < m => ~Exists(ids[i])'
        BY <2>1, <3>3, <4>2, <4>3 DEF Exists
      <4>5. ToSet(reached)' \subseteq gone'
        BY <2>1, <3>4 DEF GoneBefore
      <4> QED BY <2>1, <4>2, <4>4, <4>5 DEF GoneBefore
    <3>5. GoneBefore(k) => GoneBefore(k)'
      <4>1. GoneBefore(k) => \A m : m = k => GoneBefore(m)'
        BY <3>4
      <4> QED BY <2>1, <4>1 DEF GoneBefore
    <3>6. GoneBefore(Len(ids) + 1) => GoneBefore(Len(ids) + 1)'
      <4>1. GoneBefore(Len(ids) + 1) => \A m : m = Len(ids) + 1 => GoneBefore(m)'
        BY <3>4
      <4> QED BY <2>1, <4>1 DEF GoneBefore
    <3> QED BY <2>1, <2>2, <3>5, <3>6 DEF Erased
  <2> QED BY <1>1, <2>3, <2>4 DEF Around
<1>2. ASSUME NEW r \in Requests, Receive(r) PROVE Erased'
  <2>1. \/ hpc' = "reply" /\ answer'.status \in {400, 401}
        \/ hpc' = FirstStep(r)
    BY <1>2 DEF Receive, respond_invalid_parameter, respond_invalid_authorization
  <2>2. hpc' # "act" /\ (hpc' = "reply" => answer'.status # 202)
    BY <2>1, FirstSteps
  <2> QED BY <2>2 DEF Erased
<1>3. CASE List
  BY <1>3 DEF List, Erased
<1>4. CASE Check
  <2>1. UNCHANGED <<manager, gone, reached, req, ids, k>> /\ hpc = "check" /\ k = 1
    BY <1>4, Checked DEF libt, past
  <2>2. CASE hpc' = "act"
    <3>1. \A i \in DOMAIN ids : Exists(ids[i])
      BY <1>4, <2>2, Checked
    <3>2. \A i \in DOMAIN ids : ids[i] < greatest_id
      BY <3>1, Below
    <3>3. reached = <<>> /\ \A i \in DOMAIN ids : ~(i < 1)
      BY <2>1 DEF LocalsInv, Clean
    <3>4. GoneBefore(k)'
      BY <2>1, <3>2, <3>3 DEF GoneBefore, manager, ToSet
    <3> QED BY <2>2, <3>4 DEF Erased
  <2>3. CASE hpc' # "act"
    <3>1. hpc' = "reply" /\ (answer'.status = 404 \/ ~NoZero)
      BY <1>4, <2>3, Checked DEF NoZero
    <3> QED BY <2>1, <3>1 DEF Erased, NoZero
  <2> QED BY <2>2, <2>3
<1>5. CASE Act \/ Sweep
  <2>1. req' = req /\ handler.does # "erase"
    BY <1>5 DEF Act, Sweep, Serving, Route
  <2> QED BY <2>1 DEF Erased, handler
<1>6. CASE remove_torrent
  <2>1. /\ hpc = "act" /\ handler.does = "erase" /\ k <= Len(ids) /\ GoneBefore(k)
        /\ UNCHANGED <<req, ids, answer, greatest_id>> /\ answer = NoAnswer
    BY <1>6 DEF remove_torrent, Serving, Erased, Route
  <2>2. ids \in Seq(Ids) /\ k \in Nat /\ k \in DOMAIN ids
    BY <2>1 DEF LocalsInv, Pos
  <2>3. CASE hpc' = "reply"
    <3>1. answer'.status = 0
      BY <2>1 DEF NoAnswer
    <3> QED BY <2>3, <3>1 DEF Erased
  <2>4. CASE hpc' # "reply"
    <3>1. hpc' = "act" /\ k' = k + 1
      BY <1>6, <2>1, <2>4 DEF remove_torrent, Throw, Reach
    <3>2. /\ \A id : id = ids[k] => ~Exists(id)'
          /\ \A id : ~Exists(id) => ~Exists(id)'
          /\ ToSet(reached') \subseteq gone'
      <4>1. CASE ~Exists(ids[k])
        <5>1. UNCHANGED <<torrents, gone, reached>>
          BY <1>6, <2>1, <4>1 DEF remove_torrent
        <5> QED BY <2>1, <4>1, <5>1 DEF Exists, Entries, GoneBefore
      <4>2. CASE Exists(ids[k])
        <5> DEFINE t == Named(ids[k])
        <5>1. PICK i \in DOMAIN torrents : torrents[i].id = ids[k] /\ torrents' = Erase(torrents, i)
          BY <1>6, <2>4, <4>2 DEF remove_torrent, Throw
        <5>2. gone' = gone \cup {t} /\ reached' = Append(reached, t)
          BY <1>6, <2>4, <4>2 DEF remove_torrent, Throw, Reach
        <5>3. /\ \A id : id = torrents[i].id => ~Exists(id)'
              /\ \A id : ~Exists(id) => ~Exists(id)'
          BY <5>1, RemovedId
        <5>4. \A id : id = ids[k] => ~Exists(id)'
          BY <5>1, <5>3
        <5> HIDE DEF t
        <5>5. ToSet(reached') \subseteq ToSet(reached) \cup {t}
          BY <5>2 DEF ToSet
        <5> QED BY <2>1, <5>2, <5>3, <5>4, <5>5 DEF GoneBefore
      <4> QED BY <4>1, <4>2
    <3>3. \A i \in DOMAIN ids : i < k + 1 => ~Exists(ids[i])'
      <4> TAKE i \in DOMAIN ids
      <4> HAVE i < k + 1
      <4> DEFINE id == ids[i]
      <4>1. i = k \/ i < k
        BY <2>2
      <4>2. CASE i = k
        BY <2>1, <3>2, <4>2 DEF Exists
      <4>3. CASE i < k
        <5>1. ~Exists(id)
          BY <2>1, <4>3 DEF GoneBefore
        <5>2. ~(\E e \in Entries' : e.id = id)
          BY <3>2, <5>1 DEF Exists
        <5> QED BY <2>1, <5>2 DEF Exists
      <4> QED BY <4>1, <4>2, <4>3
    <3>4. GoneBefore(k)'
      BY <2>1, <3>1, <3>2, <3>3 DEF GoneBefore
    <3> QED BY <3>1, <3>4 DEF Erased
  <2> QED BY <2>3, <2>4
<1>7. CASE Done
  <2>1. UNCHANGED <<manager, gone, reached, req, ids, k>>
    BY <1>7 DEF Done, libt, past
  <2>2. CASE UNCHANGED <<hpc, answer>>
    BY <2>1, <2>2 DEF Erased, GoneBefore, NoZero, Exists, Entries, manager, handler
  <2>3. CASE ~UNCHANGED <<hpc, answer>>
    <3>1. hpc' = "reply"
      BY <1>7, <2>3 DEF Done, Answer
    <3> SUFFICES ASSUME handler.does = "erase" PROVE GoneBefore(Len(ids) + 1)'
      BY <2>1, <3>1 DEF Erased, handler
    <3>2. hpc = "act" /\ k > Len(ids)
      BY <1>7 DEF Done, Serving, Route
    <3>3. k = Len(ids) + 1
      BY <3>2 DEF LocalsInv, Pos
    <3>4. GoneBefore(Len(ids) + 1)
      BY <3>2, <3>3 DEF Erased
    <3> QED BY <2>1, <3>4 DEF GoneBefore, Exists, Entries, manager
  <2> QED BY <2>2, <2>3
<1>8. CASE \/ parse_request_to_atp \/ add_torrent_async \/ save_request_files_to_disk
           \/ Reply
  <2>1. /\ hpc' # "act"
        /\ hpc' = "reply" => handler.does # "erase" /\ req' = req
    BY <1>8 DEF parse_request_to_atp, add_torrent_async, save_request_files_to_disk, Reply,
                Serving, Answer, Reject, Route
  <2> QED BY <2>1 DEF Erased, handler
<1> QED BY <1>1, <1>2, <1>3, <1>4, <1>5, <1>6, <1>7, <1>8, Steps
---------------------------------------------------------------------------
(* A request that names id 0 and is not refused has done nothing.          *)

LEMMA SparedInit == Init => Spared
BY DEF Init, Spared

LEMMA SparedStep ==
  ASSUME TableInv, TableInv', Route, LocalsInv, Clean, Found, Spared, [Next]_vars
  PROVE  Spared'
<1>1. CASE Around
  <2>1. UNCHANGED <<hpc, req, answer, ids, reached, settings, before>>
    BY <1>1 DEF Around, locals, past
  <2>2. handler' = handler /\ NoZero' = NoZero
    BY <2>1 DEF handler, NoZero
  <2>3. \A id : Exists(id) => Exists(id)'
    BY <1>1, Kept DEF Around, manager
  <2>4. \A i : Exists(ids[i]) => Exists(ids[i])'
    <3> TAKE i
    <3> DEFINE id == ids[i]
    <3>1. Exists(id) => \E e \in Entries' : e.id = id
      BY <2>3 DEF Exists
    <3> QED BY <2>1, <3>1 DEF Exists
  <2> QED BY <2>1, <2>2, <2>4 DEF Spared
<1>2. ASSUME NEW r \in Requests, Receive(r) PROVE Spared'
  <2>1. \/ hpc' = "reply" /\ answer'.status \in {400, 401}
        \/ hpc' = FirstStep(r)
    BY <1>2 DEF Receive, respond_invalid_parameter, respond_invalid_authorization
  <2>2. hpc' = "reply" => answer'.status \notin {200, 202}
    BY <2>1, FirstSteps
  <2> QED BY <2>2 DEF Spared
<1>3. CASE Check
  <2>1. /\ UNCHANGED <<req, ids, torrents, reached, settings, before>>
        /\ reached = <<>> /\ settings = before
    BY <1>3, Checked DEF manager, libt, past, Clean
  <2>2. CASE \E z \in DOMAIN ids : ids[z] = 0 /\ \A i \in 1..(z - 1) : Exists(ids[i])
    <3>1. \A id : Exists(id)' <=> Exists(id)
      BY <2>1 DEF Exists, Entries
    <3>2. \A i : Exists(ids[i])' <=> Exists(ids[i])
      BY <2>1 DEF Exists, Entries
    <3> QED BY <2>1, <2>2, <3>2 DEF Spared
  <2>3. CASE hpc' = "act" \/ answer'.status = 404
    BY <2>3 DEF Spared
  <2> QED BY <1>3, <2>2, <2>3, Checked
<1>4. CASE Act \/ Sweep \/ remove_torrent
  <2>1. answer' = NoAnswer
    BY <1>4 DEF Act, Sweep, remove_torrent, Serving, Route
  <2> QED BY <2>1 DEF Spared, NoAnswer
<1>5. CASE Done
  <2>1. UNCHANGED <<req, ids>> /\ hpc \in {"act", "sweep"}
    BY <1>5 DEF Done, Serving
  <2>2. CASE hpc = "act"
    BY <2>1, <2>2 DEF Found, Spared, NoZero
  <2>3. CASE hpc = "sweep"
    BY <2>1, <2>3 DEF Route, Spared, handler
  <2> QED BY <2>1, <2>2, <2>3
<1>6. CASE List \/ Reply
  <2>1. hpc' # "reply"
    BY <1>6 DEF List, Reply
  <2> QED BY <2>1 DEF Spared
<1>7. CASE parse_request_to_atp \/ add_torrent_async \/ save_request_files_to_disk
  <2>1. req' = req /\ handler.does \notin {"configure", "erase"}
    BY <1>7 DEF parse_request_to_atp, add_torrent_async, save_request_files_to_disk,
                Serving, Route
  <2> QED BY <2>1 DEF Spared, handler
<1> QED BY <1>1, <1>2, <1>3, <1>4, <1>5, <1>6, <1>7, Steps
---------------------------------------------------------------------------
(* torrents_settings_set: after the calls of the first m pairs a torrent   *)
(* has the last of the first m values it is given.                         *)

Mine(t, n, m) ==
    {i \in 1..m : Named(req.settings[i].id) = t /\ req.settings[i].name = n}

LEMMA AskedIs ==
  ASSUME NEW t, NEW n, NEW m
  PROVE  AskedUpTo(t, n, m) = IF Mine(t, n, m) = {} THEN before[t][n]
                              ELSE req.settings[Max(Mine(t, n, m))].value
BY DEF AskedUpTo, Mine

LEMMA ConfiguredInit == Init => Configured
BY DEF Init, Configured, Configuring

(* The settings of one entry stand together, so the last value its pair    *)
(* has for a setting is the last one the torrent is given so far.          *)
LEMMA LastOfEntry ==
  ASSUME NEW body \in Seq(Settings), EntryByEntry(body), req.settings = body,
         NEW m \in DOMAIN body, NEW n \in Names, NEW t, Named(body[m].id) = t
  PROVE  IF Given(body, m, n) = {} THEN Mine(t, n, m) = Mine(t, n, m - 1)
         ELSE /\ Mine(t, n, m) # {}
              /\ Max(Mine(t, n, m)) = Max(Given(body, m, n))
              /\ body[Max(Given(body, m, n))].value \in Values
<1>1. m \in Nat /\ m >= 1 /\ \A j \in 1..m : j \in DOMAIN body /\ j \in Nat
  OBVIOUS
<1>0. \A j \in DOMAIN body : body[j].entry \in Nat /\ body[j].value \in Values
  <2>1. \A j \in DOMAIN body : body[j] \in Settings
    OBVIOUS
  <2> QED BY <2>1 DEF Settings
<1>2. CASE Given(body, m, n) = {}
  <2>1. body[m].name # n
    <3>1. body[m].name = n => m \in Given(body, m, n)
      BY <1>1 DEF Given
    <3> QED BY <1>2, <3>1
  <2>2. \A i \in 1..m : body[i].name = n => i \in 1..(m - 1)
    BY <1>1, <2>1
  <2>3. \A i \in 1..(m - 1) : i \in 1..m
    BY <1>1
  <2>4. Mine(t, n, m) = Mine(t, n, m - 1)
    BY <2>2, <2>3 DEF Mine
  <2> QED BY <1>2, <2>4
<1>3. CASE Given(body, m, n) # {}
  <2> DEFINE g == Max(Given(body, m, n))
             p == Max(Mine(t, n, m))
  <2>1. g \in Given(body, m, n) /\ \A j \in Given(body, m, n) : g >= j
    BY <1>3, TsAre
  <2>2. g \in 1..m /\ body[g].entry = body[m].entry /\ body[g].name = n
    BY <2>1 DEF Given
  <2>3. body[g].id = body[m].id
    BY <1>1, <2>2 DEF EntryByEntry
  <2>4. g \in Mine(t, n, m)
    BY <2>2, <2>3 DEF Mine
  <2>5. Mine(t, n, m) \in SUBSET (1..m)
    BY DEF Mine
  <2>6. p \in Mine(t, n, m) /\ \A y \in Mine(t, n, m) : p >= y
    BY <1>1, <2>4, <2>5, MaxIn
  <2>7. body[p].entry = body[m].entry
    <3>1. p \in 1..m /\ g \in 1..m /\ p >= g /\ m \in DOMAIN body
      BY <2>2, <2>4, <2>5, <2>6
    <3>2. g <= p /\ p <= m /\ g \in DOMAIN body /\ p \in DOMAIN body
      BY <1>1, <3>1
    <3> HIDE DEF g, p
    <3>3. body[g].entry <= body[p].entry /\ body[p].entry <= body[m].entry
      BY <3>2 DEF EntryByEntry
    <3>4. body[p].entry \in Nat /\ body[m].entry \in Nat
      BY <1>0, <3>2
    <3> QED BY <2>2, <3>3, <3>4
  <2>8. p \in Given(body, m, n)
    BY <2>5, <2>6, <2>7 DEF Given, Mine
  <2>9. p = g
    <3>1. p \in Nat /\ g \in Nat /\ p >= g /\ g >= p
      BY <1>1, <2>1, <2>2, <2>4, <2>5, <2>6, <2>8
    <3> QED BY <3>1
  <2>10. body[g].value \in Values
    BY <1>0, <1>1, <2>2
  <2> QED BY <1>3, <2>4, <2>9, <2>10
<1> QED BY <1>2, <1>3

(* One call.                                                               *)
LEMMA OneCall ==
  ASSUME LibInv, Route, LocalsInv, Configured, hpc = "act", handler.does = "configure",
         k <= Len(ids), Reach(Named(ids[k])), NEW t \in Torrents, NEW n \in Names,
         settings[t][n] = AskedUpTo(t, n, k - 1), Named(ids[k]) \in Torrents
  PROVE  settings'[t][n] = AskedUpTo(t, n, k)
<1> DEFINE body == req.settings
           own == Named(ids[k])
<1>1. /\ k \in DOMAIN body /\ body \in Seq(Settings) /\ pairs[k].ts = TsUpTo(body, k)
      /\ ids[k] = body[k].id /\ EntryByEntry(body) /\ k \in Nat /\ k >= 1
  BY PairIs, Busy
<1>2. settings' = [settings EXCEPT ![own] = ApplyTs(@, TsUpTo(body, k))]
  BY <1>1 DEF Reach, SetTorrentSettings
<1>3. CASE t # own
  <2>1. settings'[t] = settings[t]
    BY <1>2, <1>3 DEF LibInv
  <2>2. \A i \in 1..k : Named(body[i].id) = t => i \in 1..(k - 1)
    BY <1>1, <1>3
  <2>3. \A i \in 1..(k - 1) : i \in 1..k
    BY <1>1
  <2>4. Mine(t, n, k) = Mine(t, n, k - 1)
    BY <2>2, <2>3 DEF Mine
  <2> QED BY <2>1, <2>4, AskedIs
<1>4. CASE t = own
  <2>1. settings'[t] = ApplyTs(settings[t], TsUpTo(body, k))
    BY <1>2, <1>4 DEF LibInv
  <2>2. settings'[t][n] = IF TsUpTo(body, k)[n] = None THEN settings[t][n] ELSE TsUpTo(body, k)[n]
    BY <2>1 DEF ApplyTs
  <2>3. TsUpTo(body, k)[n] = IF Given(body, k, n) = {} THEN None
                             ELSE body[Max(Given(body, k, n))].value
    BY <1>1, TsAre
  <2>4. Named(body[k].id) = t
    BY <1>1, <1>4
  <2>5. CASE Given(body, k, n) = {}
    <3>1. Mine(t, n, k) = Mine(t, n, k - 1)
      BY <1>1, <2>4, <2>5, LastOfEntry
    <3> QED BY <2>2, <2>3, <2>5, <3>1, AskedIs
  <2>6. CASE Given(body, k, n) # {}
    <3>1. /\ Mine(t, n, k) # {} /\ Max(Mine(t, n, k)) = Max(Given(body, k, n))
          /\ body[Max(Given(body, k, n))].value \in Values
      BY <1>1, <2>4, <2>6, LastOfEntry
    <3>2. TsUpTo(body, k)[n] = body[Max(Given(body, k, n))].value
      BY <2>3, <2>6
    <3> HIDE DEF body
    <3>3. settings'[t][n] = body[Max(Given(body, k, n))].value
      BY <2>2, <3>1, <3>2
    <3> QED BY <3>1, <3>3, AskedIs DEF body
  <2> QED BY <2>5, <2>6
<1> QED BY <1>3, <1>4
LEMMA BodyIds ==
  ASSUME Route, LocalsInv, Configured, Configuring
  PROVE  /\ req.settings \in Seq(Settings) /\ Len(ids) = Len(req.settings)
         /\ Len(ids) \in Nat /\ DOMAIN ids = DOMAIN req.settings
         /\ \A i \in DOMAIN req.settings : ids[i] = req.settings[i].id
         /\ Applied \in Nat /\ Applied <= Len(req.settings)
<1>1. req.settings \in Seq(Settings)
  BY Busy DEF Configuring, AllRequests
<1>2. ids = IdsOf(PairsOf(req.settings))
  BY DEF Configured
<1>3. /\ DOMAIN ids = DOMAIN req.settings
      /\ \A i \in DOMAIN req.settings : ids[i] = req.settings[i].id
  BY <1>1, <1>2, PairsAre
<1>4. ids \in Seq(Ids) /\ Len(ids) \in Nat
  BY DEF LocalsInv
<1>5. Len(ids) = Len(req.settings)
  BY <1>1, <1>3, <1>4
<1>6. Applied \in Nat /\ Applied <= Len(req.settings)
  BY <1>4, <1>5 DEF Applied, LocalsInv, Pos, Configuring
<1> QED BY <1>1, <1>3, <1>4, <1>5, <1>6

LEMMA SameAsked ==
  ASSUME TableInv, TableInv', UNCHANGED torrents \/ Registers, UNCHANGED <<req, before>>,
         Route, LocalsInv, Found, Configured, Configuring,
         NEW t, NEW n, NEW m \in Nat, m <= Len(req.settings)
  PROVE  AskedUpTo(t, n, m)' = AskedUpTo(t, n, m)
<1>1. \A i \in 1..m : i \in DOMAIN req.settings
  BY BodyIds
<1>2. \A i \in 1..m : Exists(req.settings[i].id)
  BY <1>1, BodyIds DEF Found, LookedUp
<1>3. \A id : Exists(id) => Named(id)' = Named(id)
  BY Kept
<1>4. \A i \in 1..m : Named(req.settings[i].id)' = Named(req.settings[i].id)
  <2> TAKE i \in 1..m
  <2> DEFINE id == req.settings[i].id
  <2>1. Exists(id) /\ req' = req
    BY <1>2
  <2> QED BY <1>3, <2>1 DEF Named
<1>5. Mine(t, n, m)' = Mine(t, n, m)
  BY <1>4 DEF Mine
<1>6. AskedUpTo(t, n, m)' = IF Mine(t, n, m)' = {} THEN before'[t][n]
                            ELSE req'.settings[Max(Mine(t, n, m)')].value
  BY DEF AskedUpTo, Mine
<1> QED BY <1>5, <1>6, AskedIs

LEMMA AskedAt ==
  ASSUME NEW t, NEW n, NEW x, Applied' = x
  PROVE  AskedUpTo(t, n, Applied)' = AskedUpTo(t, n, x)'
<1> DEFINE S(y) == {i \in 1..y : Named(req.settings[i].id)' = t /\ req'.settings[i].name = n}
<1>1. AskedUpTo(t, n, Applied)' = IF S(Applied') = {} THEN before'[t][n]
                                  ELSE req'.settings[Max(S(Applied'))].value
  BY DEF AskedUpTo
<1>2. AskedUpTo(t, n, x)' = IF S(x) = {} THEN before'[t][n]
                            ELSE req'.settings[Max(S(x))].value
  BY DEF AskedUpTo
<1> HIDE DEF S
<1> QED BY <1>1, <1>2

LEMMA ConfiguredStep ==
  ASSUME TableInv, TableInv', LibInv, Route, LocalsInv, Clean, Found, Configured, [Next]_vars
  PROVE  Configured'
<1> DEFINE Set(x) == \A t \in Torrents, n \in Names : settings[t][n] = AskedUpTo(t, n, x)
<1>0. ASSUME ~Configuring', ~(hpc' = "check" /\ handler'.does = "configure") PROVE Configured'
  BY <1>0 DEF Configured
(* Steps that leave the request and its settings alone.                    *)
<1>1. ASSUME UNCHANGED <<req, ids, pairs, settings, before>>,
             UNCHANGED torrents \/ Registers, Configuring, Configuring', Applied' = Applied
      PROVE  Configured'
  <2> DEFINE m == Applied
  <2>1. m \in Nat /\ m <= Len(req.settings)
    BY <1>1, BodyIds
  <2>2. \A t \in Torrents, n \in Names : settings[t][n] = AskedUpTo(t, n, m)
    BY <1>1 DEF Configured
  <2>3. \A x \in Nat : x <= Len(req.settings) =>
           \A t \in Torrents, n \in Names : AskedUpTo(t, n, x)' = AskedUpTo(t, n, x)
    BY <1>1, SameAsked
  <2> HIDE DEF m
  <2>4. \A x : x = m =>
           \A t \in Torrents, n \in Names : settings'[t][n] = AskedUpTo(t, n, x)'
    BY <1>1, <2>1, <2>2, <2>3
  <2>5. \A t \in Torrents, n \in Names : settings'[t][n] = AskedUpTo(t, n, Applied)'
    BY <1>1, <2>4, AskedAt DEF m
  <2>6. pairs' = PairsOf(req'.settings) /\ ids' = IdsOf(pairs')
    BY <1>1 DEF Configured
  <2> QED BY <2>5, <2>6 DEF Configured
<1>2. CASE Around
  <2>1. /\ UNCHANGED <<req, ids, pairs, settings, before>> /\ UNCHANGED <<hpc, answer, k>>
        /\ UNCHANGED torrents \/ Registers
    BY <1>2 DEF Around, locals, past, manager
  <2>2. Applied' = Applied /\ Configuring' = Configuring /\ handler' = handler
    BY <2>1 DEF Applied, Configuring, NoZero, handler
  <2>3. CASE Configuring
    BY <1>1, <2>1, <2>2, <2>3
  <2>4. CASE ~Configuring
    BY <2>1, <2>2, <2>4 DEF Configured
  <2> QED BY <2>3, <2>4
<1>3. ASSUME NEW r \in Requests, Receive(r) PROVE Configured'
  <2>1. \/ hpc' = "reply" /\ answer'.status \in {400, 401}
        \/ hpc' = FirstStep(r)
    BY <1>3 DEF Receive, respond_invalid_parameter, respond_invalid_authorization
  <2>2. ~Configuring'
    BY <2>1, FirstSteps DEF Configuring
  <2>3. ASSUME handler'.does = "configure"
        PROVE  pairs' = PairsOf(req'.settings) /\ ids' = IdsOf(pairs')
    <3>1. req' = r /\ pairs' = PairsOf(r.settings)
          /\ ids' = IF r.settings # <<>> THEN IdsOf(pairs') ELSE r.ids
      BY <1>3 DEF Receive
    <3>2. r \in AllRequests /\ r.ids = <<>>
      BY <2>3, <3>1, Handlers, RequestsAssumption DEF handler, HandlerOK
    <3>3. CASE r.settings # <<>>
      BY <3>1, <3>3
    <3>4. CASE r.settings = <<>>
      <4>1. r.settings \in Seq(Settings)
        BY <3>2 DEF AllRequests
      <4>2. IdsOf(pairs') \in Seq(Ids) /\ DOMAIN IdsOf(pairs') = DOMAIN r.settings
        BY <3>1, <4>1, PairsAre
      <4>3. IdsOf(pairs') = <<>>
        BY <3>4, <4>2
      <4> QED BY <3>1, <3>2, <3>4, <4>3
    <3> QED BY <3>3, <3>4
  <2> QED BY <2>2, <2>3 DEF Configured
<1>4. CASE List
  <2>1. req' = req /\ handler.does # "configure"
    BY <1>4, Busy DEF List, Serving, Route, HandlerOK
  <2> QED BY <1>0, <2>1 DEF Configuring, handler
<1>5. CASE Check
  <2>1. UNCHANGED <<req, ids, pairs, settings, before, k>> /\ hpc = "check" /\ k = 1
        /\ settings = before
    BY <1>5, Checked DEF libt, past, Clean
  <2>2. CASE hpc' = "reply"
    <3>1. answer'.status = 404 \/ ~NoZero
      BY <1>5, <2>2, Checked DEF NoZero
    <3>2. ids' = ids
      BY <2>1
    <3> QED BY <1>0, <2>2, <3>1, <3>2 DEF Configuring, NoZero
  <2>3. CASE hpc' # "reply"
    <3>1. hpc' = "act"
      BY <1>5, <2>3, Checked
    <3>2. Applied' = 0
      BY <2>1, <3>1 DEF Applied
    <3>3. \A t \in Torrents, n \in Names : AskedUpTo(t, n, Applied)' = before'[t][n]
      BY <3>2 DEF AskedUpTo
    <3>4. Configuring' => pairs' = PairsOf(req'.settings) /\ ids' = IdsOf(pairs')
      BY <2>1 DEF Configuring, Configured, handler
    <3> QED BY <2>1, <3>1, <3>3, <3>4 DEF Configured
  <2> QED BY <2>2, <2>3
<1>6. CASE Act
  <2>1. /\ hpc = "act" /\ k <= Len(ids) /\ UNCHANGED <<req, ids, pairs, before, answer, torrents>>
        /\ \/ Throw(Named(ids[k]))
           \/ Reach(Named(ids[k])) /\ Named(ids[k]) \in Torrents
    BY <1>6, ActCalls DEF Calls
  <2>2. CASE handler.does # "configure"
    <3>1. hpc' \in {"act", "reply"}
      BY <2>1 DEF Throw, Reach
    <3> QED BY <1>0, <2>1, <2>2, <3>1 DEF Configuring, handler
  <2>3. CASE handler.does = "configure" /\ Throw(Named(ids[k]))
    <3>1. hpc' = "reply" /\ answer'.status = 0
      BY <2>1, <2>3 DEF Throw, Route, NoAnswer
    <3> QED BY <1>0, <3>1 DEF Configuring
  <2>4. CASE handler.does = "configure" /\ Reach(Named(ids[k])) /\ Named(ids[k]) \in Torrents
    <3>1. hpc' = "act" /\ k' = k + 1 /\ Configuring
      BY <2>1, <2>4 DEF Reach, Configuring
    <3>2. k \in Nat /\ k <= Len(req.settings)
      BY <2>1, <3>1, BodyIds DEF LocalsInv, Pos
    <3>3. Applied = k - 1 /\ Applied' = k
      BY <2>1, <3>1, <3>2 DEF Applied
    <3>4. \A t \in Torrents, n \in Names : settings[t][n] = AskedUpTo(t, n, k - 1)
      BY <3>1, <3>3 DEF Configured
    <3>5. \A t \in Torrents, n \in Names : settings'[t][n] = AskedUpTo(t, n, k)
      BY <2>1, <2>4, <3>4, OneCall
    <3>6. \A x \in Nat : x <= Len(req.settings) =>
             \A t \in Torrents, n \in Names : AskedUpTo(t, n, x)' = AskedUpTo(t, n, x)
      BY <2>1, <3>1, SameAsked
    <3>7. \A x : x = k =>
             \A t \in Torrents, n \in Names : settings'[t][n] = AskedUpTo(t, n, x)'
      BY <3>2, <3>5, <3>6
    <3>8. \A t \in Torrents, n \in Names : settings'[t][n] = AskedUpTo(t, n, Applied)'
      BY <3>3, <3>7, AskedAt
    <3>9. pairs' = PairsOf(req'.settings) /\ ids' = IdsOf(pairs')
      BY <2>1, <3>1 DEF Configured
    <3> QED BY <3>8, <3>9 DEF Configured
  <2> QED BY <2>1, <2>2, <2>3, <2>4
<1>7. CASE Sweep \/ remove_torrent
  <2>1. req' = req /\ handler.does # "configure"
    BY <1>7 DEF Sweep, remove_torrent, Serving, Route
  <2> QED BY <1>0, <2>1 DEF Configuring, handler
<1>8. CASE Done
  <2>1. /\ UNCHANGED <<req, ids, pairs, settings, before, torrents, k>>
        /\ hpc \in {"act", "sweep"} /\ (hpc = "act" => k > Len(ids))
        /\ hpc' = "reply" \/ UNCHANGED <<hpc, answer>>
    BY <1>8 DEF Done, Serving, Answer, manager, libt, past
  <2>2. CASE ~Configuring'
    <3>1. hpc' # "check"
      BY <2>1
    <3> QED BY <1>0, <2>2, <3>1
  <2>3. CASE Configuring'
    <3>1. hpc = "act" /\ Configuring
      BY <2>1, <2>3 DEF Configuring, handler, Route
    <3>2. k \in Nat /\ k - 1 = Len(req.settings)
      <4>1. k \in Nat /\ k > Len(ids) /\ k <= Len(ids) + 1
        BY <2>1, <3>1 DEF LocalsInv, Pos
      <4>2. Len(ids) \in Nat /\ Len(ids) = Len(req.settings)
        BY <3>1, BodyIds
      <4> QED BY <4>1, <4>2
    <3>3. Applied' = Applied
      BY <2>1, <3>1, <3>2 DEF Applied
    <3> QED BY <1>1, <2>1, <2>3, <3>1, <3>3
  <2> QED BY <2>2, <2>3
<1>9. CASE \/ parse_request_to_atp \/ add_torrent_async \/ save_request_files_to_disk
           \/ Reply
  <2>1. /\ hpc' \notin {"act", "check"}
        /\ hpc' = "reply" => handler.does # "configure" /\ req' = req
    BY <1>9 DEF parse_request_to_atp, add_torrent_async, save_request_files_to_disk, Reply,
                Serving, Answer, Reject, Route
  <2> QED BY <1>0, <2>1 DEF Configuring, handler
<1> QED BY <1>2, <1>3, <1>4, <1>5, <1>6, <1>7, <1>8, <1>9, Steps
---------------------------------------------------------------------------
(* What an answer means.                                                   *)

LEMMA AnswersInit ==
  Init => ErrorChangesNothing /\ AddsAsAsked /\ ListingNeverMisses /\ UploadsCanBeAdded
BY DEF Init, ErrorChangesNothing, AddsAsAsked, ListingNeverMisses, UploadsCanBeAdded

(* Steps after which there is no new answer.                               *)
LEMMA SameAnswer ==
  ASSUME Around \/ hpc' # "reply", ErrorChangesNothing, AddsAsAsked, ListingNeverMisses,
         UploadsCanBeAdded
  PROVE  (ErrorChangesNothing /\ AddsAsAsked /\ ListingNeverMisses /\ UploadsCanBeAdded)'
<1>1. CASE Around
  <2>1. /\ UNCHANGED <<hpc, req, answer, told, files, folder>>
        /\ UNCHANGED <<reached, sent, settings, before>>
    BY <1>1 DEF Around, locals, past, store
  <2>2. handler' = handler
    BY <2>1 DEF handler
  <2> QED BY <2>1, <2>2 DEF ErrorChangesNothing, AddsAsAsked, ListingNeverMisses,
                            UploadsCanBeAdded
<1>2. CASE hpc' # "reply"
  BY <1>2 DEF ErrorChangesNothing, AddsAsAsked, ListingNeverMisses, UploadsCanBeAdded
<1> QED BY <1>1, <1>2

(* Answers without an error of the handler, and when they are given.       *)
LEMMA NoError ==
  ASSUME hpc' = "reply", answer'.error = 0,
         handler'.does = "add" /\ answer'.status = 202 =>
            /\ Len(sent') = Len(req'.specs)
            /\ \A i \in DOMAIN sent' : Matches(files', sent'[i], req'.specs[i])
  PROVE  (ErrorChangesNothing /\ AddsAsAsked /\ ListingNeverMisses /\ UploadsCanBeAdded)'
<1>1. ErrorChangesNothing' /\ ListingNeverMisses' /\ UploadsCanBeAdded'
  BY DEF ErrorChangesNothing, ListingNeverMisses, UploadsCanBeAdded
<1>2. AddsAsAsked'
  BY DEF AddsAsAsked, Matches
<1> QED BY <1>1, <1>2

(* Answers with an error.                                                  *)
LEMMA AnError ==
  ASSUME hpc' = "reply", answer'.status # 202,
         reached' = <<>>, sent' = <<>>, settings' = before',
         handler'.does \in Getters /\ req'.ids = <<>> =>
            answer'.error \notin {3140, 3160, 3170, 3250, 3260},
         folder' /\ handler'.does = "add" /\ answer'.error = 3200 =>
            \E i \in DOMAIN req'.specs : req'.specs[i].type = "file"
                                         /\ req'.specs[i].file \notin told'
  PROVE  (ErrorChangesNothing /\ AddsAsAsked /\ ListingNeverMisses /\ UploadsCanBeAdded)'
<1>1. ErrorChangesNothing' /\ AddsAsAsked'
  BY DEF ErrorChangesNothing, AddsAsAsked
<1>2. ListingNeverMisses' /\ UploadsCanBeAdded'
  BY DEF ListingNeverMisses, UploadsCanBeAdded
<1> QED BY <1>1, <1>2

LEMMA AnswersStep ==
  ASSUME TableInv, Route, LocalsInv, FilesInv, Clean, Found, Parsed, PastInv, [Next]_vars,
         ErrorChangesNothing, AddsAsAsked, ListingNeverMisses, UploadsCanBeAdded
  PROVE  (ErrorChangesNothing /\ AddsAsAsked /\ ListingNeverMisses /\ UploadsCanBeAdded)'
<1>1. CASE Around \/ List \/ Reply
  BY <1>1, SameAnswer DEF List, Reply
<1>2. ASSUME NEW r \in Requests, Receive(r)
      PROVE  (ErrorChangesNothing /\ AddsAsAsked /\ ListingNeverMisses /\ UploadsCanBeAdded)'
  <2>1. CASE hpc' # "reply"
    BY <2>1, SameAnswer
  <2>2. CASE hpc' = "reply"
    <3>1. answer' = [status |-> 401, error |-> 4150] \/ answer' = [status |-> 400, error |-> 4100]
      BY <1>2, <2>2, FirstSteps DEF Receive, respond_invalid_parameter,
                                    respond_invalid_authorization
    <3>2. answer'.status # 202 /\ answer'.error \notin {3140, 3160, 3170, 3250, 3260, 3200}
      BY <3>1
    <3>3. reached' = <<>> /\ sent' = <<>> /\ settings' = before'
      BY <1>2 DEF Receive, libt
    <3> QED BY <2>2, <3>2, <3>3, AnError
  <2> QED BY <2>1, <2>2
<1>3. CASE Check
  <2>1. /\ UNCHANGED <<req, reached, sent, settings, before>> /\ hpc = "check"
        /\ reached = <<>> /\ sent = <<>> /\ settings = before
    BY <1>3 DEF Check, Serving, libt, past, Clean
  <2>2. HandlerOK(handler, req.op) /\ handler' = handler /\ handler.does # "add"
    BY <2>1, Busy DEF handler, Route
  <2>3. CASE hpc' = "act"
    BY <2>3, SameAnswer
  <2>4. CASE /\ hpc' = "reply" /\ answer' = Answered(handler.error)
             /\ answer'.status = 404 /\ \E i \in DOMAIN ids : ~Exists(ids[i])
    <3>1. ~(handler.does \in Getters /\ req.ids = <<>>)
      BY <2>1, <2>4 DEF Found, LookedUp
    <3> QED BY <2>1, <2>2, <2>4, <3>1, AnError
  <2>5. CASE hpc' = "reply" /\ answer'.error = 0
    BY <2>2, <2>5, NoError
  <2> QED BY <1>3, <2>3, <2>4, <2>5, Checked
<1>4. CASE Act \/ Sweep \/ remove_torrent
  <2>1. CASE hpc' # "reply"
    BY <2>1, SameAnswer
  <2>2. CASE hpc' = "reply"
    <3>1. answer' = NoAnswer
      BY <1>4 DEF Act, Sweep, remove_torrent, Serving, Route
    <3>2. answer'.error = 0 /\ answer'.status = 0
      BY <3>1 DEF NoAnswer
    <3> QED BY <2>2, <3>2, NoError
  <2> QED BY <2>1, <2>2
<1>5. CASE Done
  <2>1. CASE hpc' # "reply"
    BY <2>1, SameAnswer
  <2>2. CASE hpc' = "reply"
    <3>1. hpc \in {"act", "sweep"} /\ answer' = Answered(0) /\ req' = req
      BY <1>5, <2>2 DEF Done, Serving, Answer
    <3>2. handler'.does # "add"
      BY <3>1 DEF handler, Route
    <3>3. answer'.error = 0
      BY <3>1, StatusIs
    <3> QED BY <2>2, <3>2, <3>3, NoError
  <2> QED BY <2>1, <2>2
<1>6. CASE parse_request_to_atp
  <2>1. CASE hpc' # "reply"
    BY <2>1, SameAnswer
  <2>2. CASE hpc' = "reply"
    <3> DEFINE s == req.specs[k]
               e == ParseError(s)
    <3>1. hpc = "parse" /\ req' = req /\ handler' = handler /\ handler.does = "add"
      BY <1>6, ParseSpec DEF handler, Route
    <3>2. ~(k > Len(req.specs)) /\ e # 0
      BY <1>6, <2>2, <3>1 DEF parse_request_to_atp
    <3>3. /\ k \in DOMAIN req.specs /\ s = req.specs[k]
      BY <1>6, <3>2, ParseSpec
    <3>4. answer' = Answered(e) /\ UNCHANGED <<sent, reached, settings, before, folder, told>>
      BY <1>6, <3>2 DEF parse_request_to_atp, Reject, Answer
    <3>5. answer'.status = 404 /\ answer'.error = e
      BY <3>2, <3>4, StatusIs
    <3>6. reached = <<>> /\ sent = <<>> /\ settings = before
      BY <3>1 DEF Clean
    <3>7. e = 3200 => s.type = "file" /\ s.file \notin DOMAIN files
      BY DEF ParseError
    <3>8. folder => told \subseteq DOMAIN files
      BY DEF FilesInv
    <3>9. handler'.does \notin Getters
      BY <3>1 DEF Getters
    <3> HIDE DEF s, e
    <3>10. folder' /\ answer'.error = 3200 =>
              \E i \in DOMAIN req'.specs : req'.specs[i].type = "file"
                                           /\ req'.specs[i].file \notin told'
      BY <3>1, <3>3, <3>4, <3>5, <3>7, <3>8
    <3> QED BY <2>2, <3>4, <3>5, <3>6, <3>9, <3>10, AnError
  <2> QED BY <2>1, <2>2
<1>7. CASE add_torrent_async
  <2>1. CASE hpc' # "reply"
    BY <2>1, SameAnswer
  <2>2. CASE hpc' = "reply"
    <3>1. /\ hpc = "send" /\ k > Len(atps) /\ answer' = Answered(0)
          /\ UNCHANGED <<req, sent, files>>
      BY <1>7, <2>2 DEF add_torrent_async, Serving, Answer, store
    <3>2. answer'.error = 0
      BY <3>1, StatusIs
    <3>3. /\ Len(atps) = Len(req.specs) /\ Len(sent) = k - 1 /\ k \in Nat /\ Len(atps) \in Nat
          /\ k <= Len(atps) + 1
          /\ \A i \in 1..(k - 1) : sent[i] = atps[i]
          /\ \A i \in DOMAIN atps : Matches(files, atps[i], req.specs[i])
      BY <3>1 DEF Parsed, LocalsInv, Pos
    <3>4. k - 1 = Len(atps)
      BY <3>1, <3>3
    <3>5. DOMAIN sent = 1..(k - 1) /\ DOMAIN atps = 1..(k - 1)
      BY <3>3, <3>4 DEF PastInv, LocalsInv
    <3>6. /\ Len(sent') = Len(req'.specs)
          /\ \A i \in DOMAIN sent' : Matches(files', sent'[i], req'.specs[i])
      BY <3>1, <3>3, <3>4, <3>5
    <3> QED BY <2>2, <3>2, <3>6, NoError
  <2> QED BY <2>1, <2>2
<1>8. CASE save_request_files_to_disk
  <2>1. CASE hpc' # "reply"
    BY <2>1, SameAnswer
  <2>2. CASE hpc' = "reply"
    <3>1. hpc = "write" /\ UNCHANGED <<req, reached, sent, settings, before>>
      BY <1>8 DEF save_request_files_to_disk, Serving, libt
    <3>2. reached = <<>> /\ sent = <<>> /\ settings = before
      BY <3>1 DEF Clean
    <3>3. handler'.does = "upload"
      BY <3>1 DEF handler, Route
    <3>4. \E e \in {0, 3180, 3190} : answer' = Answered(e)
      <4>1. req \in AllRequests
        BY <3>1, Busy
      <4> QED BY <1>8, <2>2, <3>1, <4>1 DEF save_request_files_to_disk, Answer, AllRequests
    <3>5. answer'.error = 0 \/ answer'.status = 404
      BY <3>4, StatusIs
    <3>6. handler'.does \notin Getters
      BY <3>3 DEF Getters
    <3>7. CASE answer'.error = 0
      BY <2>2, <3>3, <3>7, NoError
    <3>8. CASE answer'.status = 404
      BY <2>2, <3>1, <3>2, <3>3, <3>6, <3>8, AnError
    <3> QED BY <3>5, <3>7, <3>8
  <2> QED BY <2>1, <2>2
<1> QED BY <1>1, <1>2, <1>3, <1>4, <1>5, <1>6, <1>7, <1>8, Steps

---------------------------------------------------------------------------
(* The inductive invariant, and what follows from it.                      *)

Inv ==
    /\ TableInv /\ LibInv /\ PastInv /\ BlankInv /\ Route /\ LocalsInv /\ FilesInv
    /\ Clean /\ Found /\ Erased /\ Spared /\ Parsed /\ Configured /\ AddBudget /\ FileBudget
    /\ ErrorChangesNothing /\ AddsAsAsked /\ ListingNeverMisses /\ UploadsCanBeAdded

LEMMA InvInit == Init => Inv
BY TableInit, LibInit, BlankInit, RouteInit, LocalsInit, FilesInit, CleanInit, FoundInit,
   ErasedInit, SparedInit, ParsedInit, ConfiguredInit, AddBudgetInit, AnswersInit DEF Inv

LEMMA InvStep == Inv /\ [Next]_vars => Inv'
<1> SUFFICES ASSUME Inv, [Next]_vars PROVE Inv'
  OBVIOUS
<1>1. /\ TableInv /\ LibInv /\ PastInv /\ BlankInv /\ Route /\ LocalsInv /\ FilesInv
      /\ Clean /\ Found /\ Erased /\ Spared /\ Parsed /\ Configured /\ AddBudget /\ FileBudget
      /\ ErrorChangesNothing /\ AddsAsAsked /\ ListingNeverMisses /\ UploadsCanBeAdded
  BY DEF Inv
<1>2. TableInv' /\ (LibInv /\ PastInv)' /\ BlankInv' /\ Route'
  BY <1>1, TableStep, LibStep, BlankStep, RouteStep
<1>3. LocalsInv' /\ FilesInv' /\ FileBudget'
  BY <1>1, LocalsStep, FilesStep, FileBudgetStep
<1>4. Clean' /\ Parsed' /\ AddBudget'
  BY <1>1, <1>3, CleanStep, ParsedStep, AddBudgetStep
<1>5. Found' /\ Erased' /\ Spared' /\ Configured'
  BY <1>1, <1>2, FoundStep, ErasedStep, SparedStep, ConfiguredStep
<1>6. (ErrorChangesNothing /\ AddsAsAsked /\ ListingNeverMisses /\ UploadsCanBeAdded)'
  BY <1>1, AnswersStep
<1> QED BY <1>2, <1>3, <1>4, <1>5, <1>6 DEF Inv

LEMMA Invariant == Spec => []Inv
BY InvInit, InvStep, PTL DEF Spec

LEMMA TypeFollows == Inv => TypeOK
<1> SUFFICES ASSUME Inv PROVE TypeOK
  OBVIOUS
<1>1. /\ TableInv /\ LibInv /\ PastInv /\ BlankInv /\ Route /\ LocalsInv /\ FilesInv
      /\ AddBudget /\ FileBudget
  BY DEF Inv
<1>2. greatest_id \in 1..(MaxAdds + 1)
  <2> DEFINE a == Len(adding)
             b == Len(alerts)
             n == ToAdd
  <2>1. a \in Nat /\ b \in Nat /\ n \in Nat /\ greatest_id \in Nat /\ greatest_id >= 1
    BY <1>1, ToAddIs DEF LibInv, TableInv, Pos
  <2>2. a + b + (greatest_id - 1) + n <= MaxAdds
    BY <1>1 DEF AddBudget
  <2> HIDE DEF a, b, n
  <2> QED BY <2>1, <2>2
<1>3. torrents \in Seq([id : 1..MaxAdds, torrent : Torrents])
  <2> DEFINE n == Len(torrents)
             R == [id : 1..MaxAdds, torrent : Torrents]
  <2>1. n \in Nat /\ torrents \in [1..n -> Rows]
    BY <1>1 DEF TableInv
  <2>2. \A i \in 1..n : torrents[i].id < greatest_id
    BY <1>1 DEF TableInv
  <2>3. ASSUME NEW i \in 1..n PROVE torrents[i] \in R
    <3>1. torrents[i] \in Rows
      BY <2>1
    <3>2. torrents[i].id \in Nat /\ torrents[i].id >= 1 /\ torrents[i].torrent \in Torrents
          /\ torrents[i] = [id |-> torrents[i].id, torrent |-> torrents[i].torrent]
      BY <3>1 DEF Rows, Pos
    <3>3. torrents[i].id \in 1..MaxAdds
      <4> DEFINE x == torrents[i].id
      <4>1. x \in Nat /\ x >= 1 /\ x < greatest_id
        BY <2>2, <3>2
      <4> HIDE DEF x
      <4>2. x \in 1..MaxAdds
        BY <1>2, <4>1
      <4> QED BY <4>2 DEF x
    <3> QED BY <3>2, <3>3
  <2> HIDE DEF n, R
  <2>4. torrents \in [1..n -> R]
    BY <2>1, <2>3
  <2>5. \A S : \A f \in [1..n -> S] : f \in Seq(S)
    BY <2>1
  <2>6. torrents \in Seq(R)
    BY <2>4, <2>5
  <2> QED BY <2>6 DEF R
<1>4. files \in Seq(Torrents \cup {None}) /\ Len(files) <= MaxFiles
  <2> DEFINE n == Len(files)
             m == ToWrite
  <2>1. n \in Nat /\ m \in Nat /\ n + m <= MaxFiles
    BY <1>1 DEF FileBudget, FilesInv
  <2> HIDE DEF n, m
  <2>2. n <= MaxFiles
    BY <2>1
  <2> QED BY <1>1, <2>2 DEF FilesInv, n
<1>5. req \in Requests \cup {None}
  BY <1>1 DEF Route
<1>6. ids \in Seq(Nat)
  <2>1. Ids \subseteq Nat
    BY DEF Ids
  <2> QED BY <1>1, <2>1, SeqMonotonic DEF LocalsInv
<1>7. pairs \in Seq([id : Nat, ts : [Names -> Values \cup {None}]])
  <2> DEFINE A == [id : Ids, ts : Ts]
             B == [id : Nat, ts : Ts]
  <2>1. A \subseteq B /\ pairs \in Seq(A)
    BY <1>1 DEF LocalsInv, Ids
  <2> HIDE DEF A, B
  <2>2. pairs \in Seq(B)
    BY <2>1, SeqMonotonic
  <2> QED BY <2>2 DEF Ts, B
<1>8. /\ session \subseteq Torrents /\ gone \subseteq Torrents
      /\ session \cap gone = {} /\ metadata \subseteq Torrents
      /\ settings \in [Torrents -> [Names -> Values \cup {None}]]
      /\ before \in [Torrents -> [Names -> Values \cup {None}]]
      /\ adding \in Seq(Atps) /\ alerts \in Seq(Torrents \cup {None})
  BY <1>1 DEF LibInv, Ts
<1>9. /\ k \in Nat \ {0} /\ atps \in Seq(Atps)
      /\ fate \in {"alive", "badHandle", "noInfo", "noId", "noFile"}
      /\ answer \in [status : {0, 200, 202, 400, 401, 404}, error : Nat]
  BY <1>1 DEF LocalsInv, Pos
<1>10. /\ hpc \in {"idle", "list", "check", "act", "sweep", "parse", "send", "write", "reply"}
       /\ folder \in BOOLEAN /\ wrote \in Seq(1..MaxFiles) /\ told \subseteq 1..MaxFiles
       /\ reached \in Seq(Torrents) /\ sent \in Seq(Atps) /\ blank \in BOOLEAN
  BY <1>1 DEF Route, FilesInv, PastInv, BlankInv
<1> QED BY <1>2, <1>3, <1>4, <1>5, <1>6, <1>7, <1>8, <1>9, <1>10 DEF TypeOK

LEMMA SettingsFollow == Inv => SettingsAsAsked
<1> SUFFICES ASSUME Inv, hpc = "reply", answer.status = 200, handler.does = "configure"
             PROVE  IF NoZero
                    THEN \A t \in Torrents, n \in Names : settings[t][n] = AskedFor(t, n)
                    ELSE settings = before
  BY DEF SettingsAsAsked, NoZero
<1>1. CASE ~NoZero
  BY <1>1 DEF Inv, Spared
<1>2. CASE NoZero
  <2> SUFFICES ASSUME NEW t \in Torrents, NEW n \in Names
               PROVE  settings[t][n] = AskedFor(t, n)
    BY <1>2
  <2>1. Configuring /\ Route /\ LocalsInv /\ Configured
    BY <1>2 DEF Configuring, Inv
  <2>2. req.settings \in Seq(Settings) /\ Applied = Len(req.settings)
    BY <2>1, BodyIds DEF Applied
  <2>3. Mine(t, n, Applied) = {i \in DOMAIN req.settings :
                                  Named(req.settings[i].id) = t /\ req.settings[i].name = n}
    BY <2>2 DEF Mine
  <2>4. settings[t][n] = AskedUpTo(t, n, Applied)
    BY <2>1 DEF Configured
  <2> QED BY <2>3, <2>4, AskedIs DEF AskedFor
<1> QED BY <1>1, <1>2

LEMMA DeletesFollow == Inv => DeleteIsAllOrNothing
<1> SUFFICES ASSUME Inv, hpc = "reply", answer.status = 202, handler.does = "erase"
             PROVE  \/ /\ \A i \in DOMAIN ids : ids[i] # 0 /\ ~Exists(ids[i])
                       /\ ToSet(reached) \subseteq gone
                    \/ \E z \in DOMAIN ids :
                          /\ ids[z] = 0 /\ \A i \in 1..(z - 1) : Exists(ids[i])
                          /\ reached = <<>>
  BY DEF DeleteIsAllOrNothing
<1>1. CASE ~NoZero
  BY <1>1 DEF Inv, Spared
<1>2. CASE NoZero
  <2>1. GoneBefore(Len(ids) + 1) /\ ids \in Seq(Ids)
    BY <1>2 DEF Inv, Erased, LocalsInv
  <2>2. \A i \in DOMAIN ids : i < Len(ids) + 1
    BY <2>1
  <2> QED BY <1>2, <2>1, <2>2 DEF GoneBefore, NoZero
<1> QED BY <1>1, <1>2

(* Table, session, queues, locals and answers of the thread that works off *)
(* requests keep their types, and within their bounds: what a request may  *)
(* still add or write was counted when it was received.                    *)
THEOREM TypeCorrect == Spec => []TypeOK
BY Invariant, TypeFollows, PTL

(* An answered error has changed nothing: ids are looked up before a call  *)
(* is made, and specs are parsed before one is added.                      *)
THEOREM ErrorsChangeNothing == Spec => []ErrorChangesNothing
<1>1. Inv => ErrorChangesNothing
  BY DEF Inv
<1> QED BY <1>1, Invariant, PTL

(* torrents_settings_set leaves each torrent with the last value it is     *)
(* given for each setting, although ts grows along the settings of an      *)
(* entry and is applied after each, and several entries may be about one   *)
(* torrent; a request with an entry for id 0 is answered alike, and sets   *)
(* nothing.                                                                *)
THEOREM SettingsApplied == Spec => []SettingsAsAsked
BY Invariant, SettingsFollow, PTL

(* An accepted torrents_add has passed on what the request lists, in its   *)
(* order: the torrent of the magnet, the download or the uploaded file,    *)
(* with its path, and of an entry of an unknown type nothing, nowhere.     *)
THEOREM AddsPassedOn == Spec => []AddsAsAsked
<1>1. Inv => AddsAsAsked
  BY DEF Inv
<1> QED BY <1>1, Invariant, PTL

(* A getter without ids finds every torrent it lists: between its two      *)
(* readings of the table the main thread only adds to it.                  *)
THEOREM ListingsFind == Spec => []ListingNeverMisses
<1>1. Inv => ListingNeverMisses
  BY DEF Inv
<1> QED BY <1>1, Invariant, PTL

(* An accepted torrents_delete leaves no id it names, and their torrents   *)
(* are out of the session, ids being never given out twice; or it names    *)
(* id 0 and has removed nothing at all.  It never removes some of them.    *)
THEOREM DeletesAllOrNothing == Spec => []DeleteIsAllOrNothing
BY Invariant, DeletesFollow, PTL

(* A name a client was told stands for a file torrents_add finds.          *)
THEOREM UploadsFound == Spec => []UploadsCanBeAdded
<1>1. Inv => UploadsCanBeAdded
  BY DEF Inv
<1> QED BY <1>1, Invariant, PTL

---------------------------------------------------------------------------
(* The table of RestApi, which changes in one step, is the one IdTable     *)
(* promises, which the vector of TorrentRegistry implements until its two  *)
(* threads collide.                                                        *)

Table == {[id |-> e.id, handle |-> e.torrent] : e \in Entries}
Promised == INSTANCE IdTable WITH Handles <- Torrents, table <- Table,
                                  nextId <- greatest_id, broken <- FALSE
ImplementsIdTable == Promised!Spec

Entry(i) == [id |-> torrents[i].id, handle |-> torrents[i].torrent]

LEMMA TableIs ==
  ASSUME TableInv
  PROVE  \A e : e \in Table <=> \E i \in DOMAIN torrents : e = Entry(i)
BY EntriesAre DEF Table, Entry

LEMMA TableKept == UNCHANGED manager => UNCHANGED <<Table, greatest_id>>
BY DEF manager, Table, Entries

LEMMA RegisterAdds ==
  ASSUME TableInv, TableInv', LibInv, Registers
  PROVE  Promised!Register(Head(alerts)) /\ Head(alerts) \in Torrents
<1> DEFINE n == Len(torrents)
           h == Head(alerts)
<1>1. h \in Torrents
  BY DEF Registers, LibInv
<1>2. /\ n \in Nat /\ DOMAIN torrents = 1..n /\ DOMAIN torrents' = 1..(n + 1)
      /\ torrents'[n + 1] = [id |-> greatest_id, torrent |-> h]
      /\ \A i \in 1..n : torrents'[i] = torrents[i]
  BY <1>1 DEF Registers, TableInv, Rows
<1> HIDE DEF n
<1>3. \A e : (\E i \in DOMAIN torrents' : e = Entry(i)')
                <=> (\E i \in DOMAIN torrents : e = Entry(i))
                     \/ e = [id |-> greatest_id, handle |-> h]
  <2>1. \A i \in 1..n : Entry(i)' = Entry(i)
    BY <1>2 DEF Entry
  <2>2. [id |-> torrents'[n + 1].id, handle |-> torrents'[n + 1].torrent]
          = [id |-> greatest_id, handle |-> h]
    BY <1>2
  <2>3. \A i \in 1..(n + 1) : i \in 1..n \/ i = n + 1
    BY <1>2
  <2>4. 1..n \subseteq 1..(n + 1) /\ n + 1 \in 1..(n + 1)
    BY <1>2
  <2> QED BY <1>2, <2>1, <2>2, <2>3, <2>4 DEF Entry
<1>4. Table' = Table \cup {[id |-> greatest_id, handle |-> h]}
  <2>1. \A e : e \in Table' <=> \E i \in DOMAIN torrents' : e = Entry(i)'
    BY DEF Table, Entries, ToSet, Entry
  <2> QED BY <1>3, <2>1, TableIs
<1> QED BY <1>1, <1>4 DEF Promised!Register, Registers

LEMMA EraseTakes ==
  ASSUME TableInv, NEW i \in DOMAIN torrents, torrents' = Erase(torrents, i),
         UNCHANGED greatest_id
  PROVE  Entry(i) \in Table /\ Promised!Unregister(Entry(i))
<1> DEFINE n == Len(torrents)
           f(j) == IF j < i THEN j ELSE j + 1
           g(j) == IF j < i THEN j ELSE j - 1
<1>1. n \in Nat /\ DOMAIN torrents = 1..n /\ i \in 1..n
  BY DEF TableInv
<1>2. DOMAIN torrents' = 1..(n - 1) /\ \A j \in 1..(n - 1) : torrents'[j] = torrents[f(j)]
  <2>1. torrents \in Seq(Rows) /\ torrents' = RemoveAt(torrents, i)
    BY DEF TableInv, Erase
  <2> QED BY <1>1, <2>1, Removed
<1> HIDE DEF n
<1>3. /\ \A j \in 1..(n - 1) : f(j) \in 1..n /\ f(j) # i
      /\ \A j \in 1..n : j # i => g(j) \in 1..(n - 1) /\ f(g(j)) = j
  BY <1>1
<1> HIDE DEF f, g
<1>4. \A j \in 1..(n - 1) : Entry(j)' = Entry(f(j))
  BY <1>2 DEF Entry
<1>5. \A e : e \in Table' <=> \E j \in 1..(n - 1) : e = Entry(f(j))
  <2>1. \A e : e \in Table' <=> \E j \in DOMAIN torrents' : e = Entry(j)'
    BY DEF Table, Entries, ToSet, Entry
  <2> QED BY <1>2, <1>4, <2>1
<1>6. \A j \in 1..n : j # i => Entry(j) # Entry(i)
  <2>1. \A j \in 1..n : Entry(j).id = torrents[j].id
    BY DEF Entry
  <2> QED BY <1>1, <2>1 DEF TableInv
<1>7. Table' = Table \ {Entry(i)}
  <2>1. \A e : e \in Table' => e \in Table /\ e # Entry(i)
    BY <1>1, <1>3, <1>5, <1>6, TableIs
  <2>2. ASSUME NEW e \in Table, e # Entry(i) PROVE e \in Table'
    <3>1. PICK j \in 1..n : e = Entry(j)
      BY <1>1, TableIs
    <3>2. g(j) \in 1..(n - 1) /\ e = Entry(f(g(j)))
      BY <1>3, <2>2, <3>1
    <3> QED BY <1>5, <3>2
  <2> QED BY <2>1, <2>2
<1>8. Entry(i) \in Table
  BY TableIs
<1> QED BY <1>7, <1>8 DEF Promised!Unregister

LEMMA TableSteps ==
  ASSUME TableInv, TableInv', LibInv, [Next]_vars
  PROVE  [Promised!Next]_<<Table, greatest_id, FALSE>>
<1>1. CASE UNCHANGED manager
  BY <1>1, TableKept
<1>2. CASE Registers
  BY <1>2, RegisterAdds DEF Promised!Next
<1>3. CASE remove_torrent /\ ~UNCHANGED torrents
  <2>1. PICK i \in DOMAIN torrents : torrents' = Erase(torrents, i)
    BY <1>3 DEF remove_torrent
  <2>2. UNCHANGED greatest_id
    BY <1>3 DEF remove_torrent
  <2> QED BY <2>1, <2>2, EraseTakes DEF Promised!Next
<1>4. CASE remove_torrent /\ UNCHANGED torrents
  BY <1>1, <1>4 DEF remove_torrent, manager
<1>5. CASE \/ (\E r \in Requests : Receive(r)) \/ List \/ Check \/ Act \/ Sweep
           \/ Done \/ parse_request_to_atp \/ add_torrent_async
           \/ save_request_files_to_disk \/ Reply
  BY <1>1, <1>5 DEF Receive, List, Check, Act, Sweep, Done, parse_request_to_atp,
                    add_torrent_async, save_request_files_to_disk, Reply
<1> QED BY <1>1, <1>2, <1>3, <1>4, <1>5, Steps DEF Around

(* Whatever the requests do with it, the table clients know by its ids     *)
(* gives each registered torrent a fresh id, and loses one entry per       *)
(* removal and no other: the abstract table, of which TorrentRegistry is   *)
(* the detailed implementation.                                            *)
THEOREM RestApiKeepsIdTable == Spec => ImplementsIdTable
<1>1. Init => Promised!Init
  BY DEF Init, Promised!Init, Table, Entries, ToSet
<1>2. Inv /\ Inv' /\ [Next]_vars => [Promised!Next]_<<Table, greatest_id, FALSE>>
  BY TableSteps DEF Inv
<1> QED BY <1>1, <1>2, Invariant, PTL DEF Spec, ImplementsIdTable, Promised!Spec
===========================================================================
