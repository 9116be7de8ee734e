--------------------------- MODULE WebUIProofs ---------------------------
(***************************************************************************)
(* Proofs about WebUI: the types of the store, what a client that was      *)
(* logged out may still do, and when the selection moves, for every set of *)
(* kinds of data, any number of torrents and any number of requests that   *)
(* overlap.                                                                *)
(***************************************************************************)
EXTENDS WebUI, FiniteSetTheorems, TLAPS

USE DEF vars, server, store, router

---------------------------------------------------------------------------
(* Types, in the parts the actions change together.                        *)

ServerTypes ==
    /\ table \in SUBSET Server!Entries /\ Torrents \subseteq 1..(nextId - 1)
    /\ nextId \in 1..(MaxId + 1) /\ broken = FALSE
    /\ version \in Versions

SlotTypes == slot \in [Kinds -> [Slots -> {Idle, Asked} \cup Answers]]

StatusTypes ==
    data_torrents_status \in [torrents : SUBSET Ids, version : Versions \cup {Missing}]

ListTypes ==
    /\ DOMAIN torrentsList \subseteq Ids
    /\ \A i \in DOMAIN torrentsList : torrentsList[i] \in [Kinds -> Versions \cup {Missing}]

PaneTypes ==
    pane \in [Kinds -> [of : Ids \cup {NoTorrent}, version : Versions \cup {Missing}]]

RouterTypes ==
    /\ page \in {"dashboard", "exception", "login"}
    /\ interval \in BOOLEAN
    /\ authority \in {"admin", "guest"}

LEMMA Parts ==
  TypeOK <=> /\ ServerTypes /\ SlotTypes /\ StatusTypes /\ ListTypes /\ PaneTypes
             /\ RouterTypes /\ lastSelectedRow \in 0..MaxId
BY DEF TypeOK, ServerTypes, SlotTypes, StatusTypes, ListTypes, PaneTypes, RouterTypes

(* No table of torrents has more rows than there are ids.                  *)
LEMMA FewRows ==
  ASSUME NEW rows \in SUBSET Ids
  PROVE  Cardinality(rows) \in 0..MaxId
<1>1. IsFiniteSet(Ids) /\ Cardinality(Ids) = MaxId
  <2>1. MaxId \in Nat /\ 1 \in Int /\ MaxId \in Int
    BY BoundsAssumption
  <2>2. Cardinality(1..MaxId) = IF 1 > MaxId THEN 0 ELSE MaxId - 1 + 1
    BY <2>1, FS_Interval, Zenon
  <2>3. IsFiniteSet(1..MaxId)
    BY <2>1, FS_Interval, Zenon
  <2> QED BY <2>1, <2>2, <2>3 DEF Ids
<1>2. IsFiniteSet(rows) /\ Cardinality(rows) <= MaxId
  BY <1>1, FS_Subset
<1>3. Cardinality(rows) \in Nat
  BY <1>2, FS_CardinalityType
<1> QED BY <1>2, <1>3, BoundsAssumption

LEMMA InitTypes == Init => TypeOK
<1> SUFFICES ASSUME Init PROVE TypeOK
  OBVIOUS
<1> USE BoundsAssumption
<1>1. ServerTypes
  BY DEF Init, ServerTypes, Torrents, Versions, Server!Entries
<1>2. SlotTypes /\ PaneTypes /\ RouterTypes
  BY DEF Init, SlotTypes, PaneTypes, RouterTypes, NoRequests, NoPanes, Empty
<1>3. StatusTypes /\ ListTypes
  BY DEF Init, StatusTypes, ListTypes, NoStatus, NoTorrents
<1>4. lastSelectedRow \in 0..MaxId
  BY DEF Init, NoRow
<1> QED BY <1>1, <1>2, <1>3, <1>4, Parts

(* A pane drawn again from a well-typed store is well-typed, whichever     *)
(* row is selected.                                                        *)
LEMMA PaneDrawn ==
  ASSUME TypeOK, ListTypes', NEW k \in Kinds
  PROVE  changeSelectedTorrent(k) \in [of : Ids \cup {NoTorrent}, version : Versions \cup {Missing}]
<1> DEFINE i == row(data_torrents_status'.torrents, lastSelectedRow')
<1>1. pane[k] \in [of : Ids \cup {NoTorrent}, version : Versions \cup {Missing}]
  BY DEF TypeOK
<1>2. Empty \in [of : Ids \cup {NoTorrent}, version : Versions \cup {Missing}]
  BY DEF Empty
<1>3. ASSUME i \in DOMAIN torrentsList'
      PROVE  [of |-> i, version |-> torrentsList'[i][k]]
               \in [of : Ids \cup {NoTorrent}, version : Versions \cup {Missing}]
  BY <1>3 DEF ListTypes
<1> HIDE DEF i
<1> QED BY <1>1, <1>2, <1>3 DEF changeSelectedTorrent, i

---------------------------------------------------------------------------
(* Nobody is a guest on any page but the one to log in, and the timer runs *)
(* on the dashboard only.                                                  *)

GuestsLogIn ==
    /\ interval => page = "dashboard"
    /\ authority = "guest" => page = "login"

WebInv == TypeOK /\ GuestsLogIn

LEMMA InitInv == Init => WebInv
BY InitTypes DEF WebInv, GuestsLogIn, Init

LEMMA Shown ==
  ASSUME NEW p \in {"dashboard", "exception", "login"}, Show(p),
         authority' \in {"admin", "guest"}
  PROVE  RouterTypes' /\ GuestsLogIn'
BY DEF Show, RouterTypes, GuestsLogIn

LEMMA ServerSteps == WebInv /\ (Change \/ Poll) => WebInv'
<1> SUFFICES ASSUME WebInv PROVE Change \/ Poll => WebInv'
  OBVIOUS
<1> USE DEF WebInv
<1>1. ASSUME Change PROVE WebInv'
  <2>1. ServerTypes'
    <3> USE BoundsAssumption DEF ServerTypes, Torrents, Versions, Server!Entries
    <3>1. ServerTypes /\ version' \in Versions
      BY <1>1, Parts DEF Change
    <3>2. CASE nextId <= MaxId /\ \E h \in Handles : Server!Register(h)
      BY <3>1, <3>2 DEF Server!Register
    <3>3. CASE \E e \in table : Server!Unregister(e)
      BY <3>1, <3>3 DEF Server!Unregister
    <3>4. CASE UNCHANGED <<table, nextId, broken>>
      BY <3>1, <3>4
    <3> QED BY <1>1, <3>2, <3>3, <3>4 DEF Change
  <2> QED BY <1>1, <2>1 DEF Change, TypeOK, GuestsLogIn, ServerTypes
<1>2. ASSUME Poll PROVE WebInv'
  <2>1. SlotTypes'
    BY <1>2 DEF Poll, TypeOK, SlotTypes
  <2> QED BY <1>2, <2>1 DEF Poll, TypeOK, GuestsLogIn, SlotTypes, Torrents
<1> QED BY <1>1, <1>2

LEMMA AnswerSteps ==
  ASSUME WebInv, NEW k \in Kinds, NEW s \in Slots, Answer(k, s) \/ Apply(k, s)
  PROVE  WebInv'
<1> USE BoundsAssumption DEF WebInv
<1>1. CASE Answer(k, s)
  <2>1. Torrents \subseteq Ids
    BY DEF TypeOK, Ids
  <2>2. SlotTypes'
    BY <1>1, <2>1 DEF Answer, TypeOK, SlotTypes, Answers
  <2> QED BY <1>1, <2>2 DEF Answer, TypeOK, GuestsLogIn, SlotTypes, Torrents
<1>2. CASE Apply(k, s)
  <2> DEFINE a == slot[k][s]
  <2>1. a \in Answers
    BY <1>2 DEF Apply, TypeOK, Idle, Asked
  <2>2. a.torrents \subseteq Ids /\ a.version \in Versions
    BY <2>1 DEF Answers
  <2>3. SlotTypes'
    BY <1>2 DEF Apply, TypeOK, SlotTypes
  <2>4. ListTypes'
    <3>1. torrentsList' = saveAllTorrents(k, a)
      BY <1>2 DEF Apply
    <3>2. NoFields \in [Kinds -> Versions \cup {Missing}]
      BY DEF NoFields
    <3> QED BY <2>2, <3>1, <3>2 DEF saveAllTorrents, ListTypes, TypeOK
  <2>5. StatusTypes'
    BY <1>2, <2>2 DEF Apply, StatusTypes, TypeOK
  <2>6. PaneTypes'
    BY <1>2, <2>4, PaneDrawn DEF Apply, TypeOK, PaneTypes
  <2> QED
    BY <1>2, <2>3, <2>4, <2>5, <2>6
    DEF Apply, TypeOK, GuestsLogIn, SlotTypes, ListTypes, StatusTypes, PaneTypes, Torrents
<1> QED BY <1>1, <1>2

LEMMA FailSteps ==
  ASSUME WebInv, NEW k \in Kinds, NEW s \in Slots, Fail(k, s)
  PROVE  WebInv'
<1> USE DEF WebInv
<1>1. SlotTypes'
  BY DEF Fail, TypeOK, SlotTypes
<1>2. ListTypes' /\ UNCHANGED <<table, nextId, broken, version, torrentsList,
                                data_torrents_status, lastSelectedRow>>
  BY DEF Fail, TypeOK, ListTypes
<1>3. PaneTypes'
  BY <1>2, PaneDrawn DEF Fail, TypeOK, PaneTypes
<1>4. RouterTypes' /\ GuestsLogIn'
  <2>1. CASE UNCHANGED <<page, interval, authority>>
    BY <2>1 DEF TypeOK, RouterTypes, GuestsLogIn
  <2>2. CASE logout
    BY <2>2, Shown DEF logout
  <2>3. CASE UNCHANGED authority /\ Show("exception")
    BY <2>3, Shown DEF TypeOK
  <2> QED BY <2>1, <2>2, <2>3 DEF Fail
<1> QED
  BY <1>1, <1>2, <1>3, <1>4
  DEF TypeOK, SlotTypes, PaneTypes, RouterTypes, Torrents

LEMMA UserSteps == WebInv /\ (setLastSelectedRow \/ Logout \/ Return \/ Reload) => WebInv'
<1> SUFFICES ASSUME WebInv
             PROVE  setLastSelectedRow \/ Logout \/ Return \/ Reload => WebInv'
  OBVIOUS
<1> USE BoundsAssumption DEF WebInv
<1>1. ASSUME setLastSelectedRow PROVE WebInv'
  <2>1. lastSelectedRow' \in 0..MaxId
    BY <1>1, FewRows DEF setLastSelectedRow, TypeOK
  <2>2. ListTypes' /\ UNCHANGED <<table, nextId, broken, version, slot, torrentsList,
                                  data_torrents_status, page, interval, authority>>
    BY <1>1 DEF setLastSelectedRow, TypeOK, ListTypes
  <2>3. PaneTypes'
    BY <1>1, <2>2, PaneDrawn DEF setLastSelectedRow, PaneTypes
  <2> QED BY <2>1, <2>2, <2>3 DEF TypeOK, GuestsLogIn, PaneTypes, Torrents
<1>2. ASSUME Logout PROVE WebInv'
  <2>1. RouterTypes' /\ GuestsLogIn'
    BY <1>2, Shown DEF Logout, logout
  <2> QED BY <1>2, <2>1 DEF Logout, TypeOK, RouterTypes, Torrents
<1>3. ASSUME Return PROVE WebInv'
  <2>1. RouterTypes' /\ GuestsLogIn'
    BY <1>3, Shown DEF Return, TypeOK
  <2> QED BY <1>3, <2>1 DEF Return, TypeOK, RouterTypes, Torrents
<1>4. ASSUME Reload PROVE WebInv'
  <2>1. RouterTypes' /\ GuestsLogIn'
    BY <1>4, Shown DEF Reload, TypeOK
  <2>2. SlotTypes' /\ PaneTypes'
    BY <1>4 DEF Reload, SlotTypes, PaneTypes, NoRequests, NoPanes, Empty
  <2>3. StatusTypes' /\ ListTypes' /\ lastSelectedRow' \in 0..MaxId
    BY <1>4 DEF Reload, StatusTypes, ListTypes, NoStatus, NoTorrents, NoRow
  <2> QED
    BY <1>4, <2>1, <2>2, <2>3
    DEF Reload, TypeOK, RouterTypes, SlotTypes, PaneTypes, StatusTypes, ListTypes, Torrents
<1> QED BY <1>1, <1>2, <1>3, <1>4

LEMMA NextInv == WebInv /\ [Next]_vars => WebInv'
<1> SUFFICES ASSUME WebInv, [Next]_vars PROVE WebInv'
  OBVIOUS
<1>1. CASE UNCHANGED vars
  BY <1>1 DEF WebInv, TypeOK, GuestsLogIn, Torrents
<1>2. CASE Next
  BY <1>2, ServerSteps, AnswerSteps, FailSteps, UserSteps DEF Next
<1> QED BY <1>1, <1>2

(* The store of the web interface is well-typed, whatever order answers    *)
(* and errors come in, for any number of torrents and requests.            *)
THEOREM TypeCorrect == Spec => []TypeOK
<1>1. WebInv => TypeOK
  BY DEF WebInv
<1> QED BY <1>1, InitInv, NextInv, PTL DEF Spec

---------------------------------------------------------------------------
(* Only the timer asks, and it runs on the dashboard only: no step of a    *)
(* guest adds a request to those on the way.                               *)
LEMMA GuestsAskNothing ==
  ASSUME WebInv, [Next]_vars, authority = "guest"
  PROVE  Unanswered' \subseteq Unanswered
<1>1. ~interval
  BY DEF WebInv, GuestsLogIn
<1>2. \A k \in Kinds : slot[k] \in [Slots -> {Idle, Asked} \cup Answers]
  BY DEF WebInv, TypeOK
<1>3. slot \in [Kinds -> [Slots -> {Idle, Asked} \cup Answers]]
  BY DEF WebInv, TypeOK
<1>4. CASE UNCHANGED slot
  BY <1>4 DEF Unanswered
<1>5. CASE Poll
  BY <1>1, <1>5 DEF Poll
<1>6. CASE \E k \in Kinds, s \in Slots : Answer(k, s)
  BY <1>3, <1>6 DEF Answer, Unanswered, Asked, Idle
<1>7. CASE \E k \in Kinds, s \in Slots : Apply(k, s) \/ Fail(k, s)
  <2>1. PICK k \in Kinds, s \in Slots : slot' = [slot EXCEPT ![k][s] = Idle]
    BY <1>7 DEF Apply, Fail
  <2> QED BY <1>3, <2>1 DEF Unanswered, Asked, Idle
<1>8. CASE Reload
  BY <1>8 DEF Reload, NoRequests, Unanswered, Asked, Idle
<1> QED
  BY <1>4, <1>5, <1>6, <1>7, <1>8
  DEF Next, Change, setLastSelectedRow, Logout, Return

(* A client that was logged out, by its user or by a 401, asks nothing any *)
(* more, with any kinds of data and any number of requests on the way.     *)
THEOREM NothingAsked == Spec => NothingAskedAfterLogout
<1>1. WebInv /\ [Next]_vars => [authority = "guest" => Unanswered' \subseteq Unanswered]_vars
  BY GuestsAskNothing
<1> QED BY <1>1, InitInv, NextInv, PTL DEF Spec, NothingAskedAfterLogout

---------------------------------------------------------------------------
(* The rows of the table.  That there is an n-th row is shown without      *)
(* induction: it comes before the least id with more than n rows below it. *)

(* A set of numbers has a least one.                                       *)
LEMMA LeastElement ==
  ASSUME NEW T \in SUBSET Nat, T # {}
  PROVE  \E x \in T : \A y \in T : x <= y
<1> DEFINE R == OpToRel(<, Nat)
<1>1. IsWellFoundedOn(R, Nat)
  BY NatLessThanWellFounded, Zenon
<1>2. \A x, y \in Nat : x < y => <<x, y>> \in R
  BY DEF OpToRel
<1> HIDE DEF R
<1>3. PICK x \in T : \A y \in T : ~ (<<y, x>> \in R)
  BY <1>1, WFMin
<1>4. \A y \in T : ~ (y < x)
  BY <1>2, <1>3
<1>5. \A y \in T : x <= y
  BY <1>4
<1> QED BY <1>5

(* How many rows come before an id.                                        *)
Before(rows, i) == Cardinality({j \in rows : j < i})

LEMMA BeforeType ==
  ASSUME NEW rows \in SUBSET Ids
  PROVE  /\ IsFiniteSet(rows)
         /\ Cardinality(rows) \in Nat
         /\ \A i : Before(rows, i) \in Nat
<1>1. IsFiniteSet(Ids)
  BY BoundsAssumption, FS_Interval, 1 \in Int, MaxId \in Int, Zenon DEF Ids
<1>2. IsFiniteSet(rows)
  BY <1>1, FS_Subset
<1>3. \A i : IsFiniteSet({j \in rows : j < i})
  BY <1>2, FS_Subset
<1> QED BY <1>2, <1>3, FS_CardinalityType DEF Before

LEMMA BeforeNext ==
  ASSUME NEW rows \in SUBSET Ids, NEW i \in Nat
  PROVE  /\ i \in rows => Before(rows, i + 1) = Before(rows, i) + 1
         /\ i \notin rows => Before(rows, i + 1) = Before(rows, i)
<1> DEFINE B == {j \in rows : j < i}
<1>0. Ids \subseteq Nat
  BY BoundsAssumption DEF Ids
<1>1. IsFiniteSet(B) /\ i \notin B
  BY <1>0, BeforeType, FS_Subset
<1>2. \A j \in rows : j < i + 1 <=> j < i \/ j = i
  <2>1. \A j \in rows : j \in Nat
    BY <1>0
  <2> QED BY <2>1
<1>3. ASSUME i \in rows PROVE Before(rows, i + 1) = Before(rows, i) + 1
  <2>1. {j \in rows : j < i + 1} = B \cup {i}
    BY <1>3, <1>2
  <2> HIDE DEF B
  <2>2. Cardinality(B \cup {i}) = Cardinality(B) + 1
    BY <1>1, FS_AddElement
  <2> QED BY <2>1, <2>2 DEF Before, B
<1>4. ASSUME i \notin rows PROVE Before(rows, i + 1) = Before(rows, i)
  <2>1. \A j \in rows : j < i + 1 <=> j < i
    BY <1>4, <1>2
  <2>2. {j \in rows : j < i + 1} = B
    BY <2>1
  <2> QED BY <2>2 DEF Before
<1> QED BY <1>3, <1>4

(* Later ids have more rows before them.                                   *)
LEMMA BeforeGrows ==
  ASSUME NEW rows \in SUBSET Ids, NEW i \in rows, NEW h \in Nat, i < h
  PROVE  Before(rows, i) < Before(rows, h)
<1>0. Ids \subseteq Nat
  BY BoundsAssumption DEF Ids
<1>1. i \in Nat /\ \A j \in rows : j \in Nat
  BY <1>0
<1>2. \A j \in rows : j < i + 1 => j < h
  BY <1>1
<1>3. {j \in rows : j < i + 1} \subseteq {j \in rows : j < h}
  BY <1>2
<1>4. IsFiniteSet({j \in rows : j < h})
  BY BeforeType, FS_Subset
<1>5. Before(rows, i + 1) <= Before(rows, h)
  BY <1>3, <1>4, FS_Subset DEF Before
<1>6. Before(rows, i + 1) = Before(rows, i) + 1
  BY <1>1, BeforeNext
<1>7. Before(rows, i) \in Nat /\ Before(rows, h) \in Nat
  BY BeforeType
<1> QED BY <1>5, <1>6, <1>7

(* The row with n rows before it is there, and is the only one.            *)
LEMMA RowExists ==
  ASSUME NEW rows \in SUBSET Ids, NEW n \in Nat, n < Cardinality(rows)
  PROVE  \E i \in rows : Before(rows, i) = n
<1> USE BoundsAssumption
<1>0. Ids \subseteq Nat
  BY DEF Ids
<1> DEFINE T == {i \in Nat : Before(rows, i) > n}
<1>1. {j \in rows : j < MaxId + 1} = rows
  <2>1. \A j \in rows : j < MaxId + 1
    BY DEF Ids
  <2> QED BY <2>1
<1>2. MaxId + 1 \in T
  BY <1>1 DEF Before
<1>3. PICK h \in T : \A y \in T : h <= y
  BY <1>2, LeastElement
<1>4. {j \in rows : j < 0} = {}
  <2>1. \A j \in rows : j \in Nat /\ ~ (j < 0)
    BY <1>0
  <2> QED BY <2>1
<1>5. Before(rows, 0) = 0
  BY <1>4, FS_EmptySet DEF Before
<1>6. h # 0
  BY <1>3, <1>5
<1>7. PICK i \in Nat : h = i + 1
  <2>1. h \in Nat
    BY <1>3
  <2>2. h - 1 \in Nat /\ h = (h - 1) + 1
    BY <2>1, <1>6
  <2> QED BY <2>2
<1>8. ~ (Before(rows, i) > n)
  BY <1>3, <1>7
<1>9. Before(rows, i + 1) > n
  BY <1>3, <1>7
<1>10. i \in rows /\ Before(rows, i + 1) = Before(rows, i) + 1
  BY <1>8, <1>9, BeforeNext
<1>11. Before(rows, i) = n
  BY <1>8, <1>9, <1>10, BeforeType
<1> QED BY <1>10, <1>11

LEMMA RowUnique ==
  ASSUME NEW rows \in SUBSET Ids, NEW i \in rows
  PROVE  row(rows, Before(rows, i)) = i
<1>0. Ids \subseteq Nat
  BY BoundsAssumption DEF Ids
<1>1. \A j \in rows : Before(rows, j) = Before(rows, i) => j = i
  <2> SUFFICES ASSUME NEW j \in rows, j # i PROVE Before(rows, j) # Before(rows, i)
    OBVIOUS
  <2>1. j < i \/ i < j
    BY <1>0
  <2> QED BY <1>0, <2>1, BeforeGrows, BeforeType
<1> DEFINE b == Before(rows, i)
<1>2. row(rows, b) = CHOOSE j \in rows : Before(rows, j) = b
  BY DEF row, Before
<1> HIDE DEF b
<1>3. \A j \in rows : Before(rows, j) = b => j = i
  BY <1>1 DEF b
<1>4. Before(rows, i) = b
  BY DEF b
<1>5. (CHOOSE j \in rows : Before(rows, j) = b) = i
  BY <1>3, <1>4
<1> QED BY <1>2, <1>5 DEF b

(* Rows that agree up to the n-th have the same n-th row.                  *)
LEMMA SameRow ==
  ASSUME NEW old \in SUBSET Ids, NEW new \in SUBSET Ids, NEW n, HasRow(old, n),
         \A i \in Ids : i <= row(old, n) => (i \in old <=> i \in new)
  PROVE  HasRow(new, n) /\ row(new, n) = row(old, n)
<1>0. Ids \subseteq Nat
  BY BoundsAssumption DEF Ids
<1>1. n \in Nat /\ n < Cardinality(old)
  BY BeforeType DEF HasRow
<1>2. PICK r \in old : Before(old, r) = n
  BY <1>1, RowExists
<1>3. row(old, n) = r
  BY <1>2, RowUnique
<1>4. \A i \in Ids : i <= r => (i \in old <=> i \in new)
  BY <1>3
<1>5. r \in Ids /\ r <= r /\ \A i \in Ids : i < r => i <= r
  BY <1>0
<1>6. r \in new /\ {j \in old : j < r} = {j \in new : j < r}
  <2>1. r \in new
    BY <1>4, <1>5
  <2>2. \A i \in Ids : i < r => (i \in old <=> i \in new)
    BY <1>4, <1>5
  <2> QED BY <2>1, <2>2
<1>7. Before(new, r) = n
  BY <1>2, <1>6 DEF Before
<1>8. row(new, n) = r
  BY <1>6, <1>7, RowUnique
<1>9. Before(new, r + 1) = n + 1
  BY <1>0, <1>6, <1>7, BeforeNext
<1>10. Before(new, r + 1) <= Cardinality(new)
  BY BeforeType, FS_Subset DEF Before
<1>11. n \in 0..(Cardinality(new) - 1)
  BY <1>1, <1>9, <1>10, BeforeType
<1> QED BY <1>3, <1>8, <1>11 DEF HasRow

(* What happens behind the selected row does not move the selection.       *)
LEMMA SelectionStays ==
  ASSUME TypeOK, TypeOK', lastSelectedRow' = lastSelectedRow, Selected # NoTorrent,
         \A i \in Ids : i <= Selected => (i \in Rows <=> i \in Rows')
  PROVE  Selected' = Selected
<1>1. Rows \in SUBSET Ids /\ Rows' \in SUBSET Ids
  BY DEF TypeOK, Rows
<1>2. HasRow(Rows, lastSelectedRow) /\ Selected = row(Rows, lastSelectedRow)
  BY DEF Selected
<1>3. HasRow(Rows', lastSelectedRow) /\ row(Rows', lastSelectedRow) = Selected
  BY <1>1, <1>2, SameRow
<1> QED BY <1>3 DEF Selected

(* An answer that adds torrents, or takes newer ones away, does not move   *)
(* the selection of the table of torrents to another torrent: only a       *)
(* torrent that is not newer than the selected one does, when it goes or   *)
(* comes back.                                                             *)
THEOREM SelectionKept == Spec => SelectionMovesWithOlderRows
<1> DEFINE Moves == (lastSelectedRow' = lastSelectedRow /\ Selected # NoTorrent /\ Selected' # Selected)
                      => \E i \in Ids : i <= Selected /\ ((i \in Rows) # (i \in Rows'))
<1>1. ASSUME WebInv, WebInv', [Next]_vars PROVE [Moves]_vars
  BY <1>1, SelectionStays DEF WebInv
<1> HIDE DEF Moves
<1>2. Spec => [][Moves]_vars
  BY <1>1, InitInv, NextInv, PTL DEF Spec
<1> QED BY <1>2 DEF Moves, SelectionMovesWithOlderRows
===========================================================================
