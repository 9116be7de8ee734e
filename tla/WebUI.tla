----------------------------- MODULE WebUI -----------------------------
(***************************************************************************)
(* The web interface: the dva model "torrents", the requests that feed it  *)
(* and the dashboard page that polls.  Every three seconds the page asks   *)
(* the REST API for one listing of all torrents per kind of data, whether  *)
(* or not the last ones were answered, so that answers arrive in any       *)
(* order.  An effect takes its answer into the store, a list of torrents   *)
(* with a field per kind, and draws the pane of its kind again, for the    *)
(* torrent in the selected row.  A reducer that throws leaves the store as *)
(* it is, and the effect goes on.                                          *)
(*                                                                         *)
(* The server below is the table of ids the registry implements, IdTable.  *)
(***************************************************************************)
EXTENDS Naturals, FiniteSets

CONSTANTS
    Kinds,          \* kinds of data the dashboard asks for
    Handles,
    MaxId,          \* bound: ids the server gives out
    MaxVersion,     \* bound: changes of what the server has to show
    MaxPending      \* bound: unanswered requests of a kind

ASSUME KindsAssumption ==
    "status" \in Kinds /\ Kinds \subseteq {"status", "files", "peers", "trackers", "settings"}
ASSUME BoundsAssumption ==
    MaxId \in Nat /\ {MaxVersion, MaxPending} \subseteq Nat \ {0}

VARIABLES
    table, nextId, broken,  \* the registry of the program, as its clients know it
    version,                \* counts the changes of the torrents and their data
    slot,                   \* for each kind its requests on the way
    torrentsList,           \* the store: the torrents, with a field per kind
    data_torrents_status,   \* the rows of the table of torrents
    lastSelectedRow,        \* index of a row; -1 in the code is NoRow here
    pane,                   \* data_torrents_details, _files ... below the table
    page,                   \* what the router shows
    interval,               \* the timer of the dashboard is set
    authority               \* antd-pro-authority, kept by the browser

Server == INSTANCE IdTable

server == <<table, nextId, broken, version>>
store  == <<torrentsList, data_torrents_status, lastSelectedRow, pane>>
router == <<page, interval, authority>>
vars   == <<server, slot, store, router>>

Ids       == 1..MaxId
Slots     == 1..MaxPending
Versions  == 1..MaxVersion
NoRow     == MaxId                  \* no table has that many rows
NoTorrent == 0
Missing   == 0                      \* a field no answer has brought yet

Torrents == {e.id : e \in table}

Idle    == [at |-> "idle", version |-> 0, torrents |-> {}]
Asked   == [Idle EXCEPT !.at = "asked"]
Answers == [at : {"answered"}, version : Versions, torrents : SUBSET Ids]

Empty     == [of |-> NoTorrent, version |-> Missing]
NoFields  == [k \in Kinds |-> Missing]
NoStatus  == [torrents |-> {}, version |-> Missing]

TypeOK ==
    /\ table \in SUBSET Server!Entries /\ Torrents \subseteq 1..(nextId - 1)
    /\ nextId \in 1..(MaxId + 1) /\ broken = FALSE
    /\ version \in Versions
    /\ slot \in [Kinds -> [Slots -> {Idle, Asked} \cup Answers]]
    /\ DOMAIN torrentsList \subseteq Ids
    /\ \A i \in DOMAIN torrentsList : torrentsList[i] \in [Kinds -> Versions \cup {Missing}]
    /\ data_torrents_status \in [torrents : SUBSET Ids, version : Versions \cup {Missing}]
    /\ lastSelectedRow \in 0..MaxId
    /\ pane \in [Kinds -> [of : Ids \cup {NoTorrent}, version : Versions \cup {Missing}]]
    /\ page \in {"dashboard", "exception", "login"}
    /\ interval \in BOOLEAN
    /\ authority \in {"admin", "guest"}

NoTorrents == [i \in {} |-> NoFields]
NoPanes    == [k \in Kinds |-> Empty]
NoRequests == [k \in Kinds |-> [s \in Slots |-> Idle]]

(* The browser opens the interface of a program that has run for a while.  *)
Init ==
    /\ nextId \in 1..(MaxId + 1)
    /\ table \in SUBSET [id : 1..(nextId - 1), handle : Handles]
    /\ \A e, f \in table : e.id = f.id => e = f
    /\ broken = FALSE /\ version = 1
    /\ slot = NoRequests
    /\ torrentsList = NoTorrents /\ data_torrents_status = NoStatus
    /\ lastSelectedRow = NoRow /\ pane = NoPanes
    /\ page = "dashboard" /\ interval = TRUE /\ authority = "admin"

---------------------------------------------------------------------------
(* The program: torrents come, go, and make progress.                      *)
Change ==
    /\ version < MaxVersion /\ version' = version + 1
    /\ \/ nextId <= MaxId /\ \E h \in Handles : Server!Register(h)
       \/ \E e \in table : Server!Unregister(e)
       \/ UNCHANGED <<table, nextId, broken>>
    /\ UNCHANGED <<slot, store, router>>

(* It answers a listing of one kind with all its torrents.                 *)
Answer(k, s) ==
    /\ slot[k][s] = Asked
    /\ slot' = [slot EXCEPT ![k][s] =
         [at |-> "answered", version |-> version, torrents |-> Torrents]]
    /\ UNCHANGED <<server, store, router>>

---------------------------------------------------------------------------
(* The store.  saveAllTorrentsStatus, -Files, -Peers, -Trackers and        *)
(* -Settings make the list anew from the torrents of the answer, with the  *)
(* fields the list had already; the field of the answer's kind is new.     *)
fields_of_answer(k, a) ==                                       \* mutant
    [i \in a.torrents |-> [x \in {k} |-> a.version]]

old_fields_win(k, a) ==                                         \* mutant
    [i \in a.torrents |->
       IF i \in DOMAIN torrentsList THEN torrentsList[i]
       ELSE [NoFields EXCEPT ![k] = a.version]]

saveAllTorrents(k, a) ==
    [i \in a.torrents |->
       [(IF i \in DOMAIN torrentsList THEN torrentsList[i] ELSE NoFields)
          EXCEPT ![k] = a.version]]

(* The rows are in the order of the keys of an object: ascending ids.      *)
newest_first(rows, n) ==                                        \* mutant
    CHOOSE i \in rows : Cardinality({j \in rows : j > i}) = n

row(rows, n) == CHOOSE i \in rows : Cardinality({j \in rows : j < i}) = n

HasRow(rows, n) == n \in 0..(Cardinality(rows) - 1)

(* changeSelectedTorrentDetails, -Files, -Peers, -Trackers, -Settings: the *)
(* id in the selected row throws when there is no such row, and settings   *)
(* are read without looking whether they have come.                        *)
changeSelectedTorrent(k) ==
    IF ~HasRow(data_torrents_status'.torrents, lastSelectedRow') THEN pane[k]
    ELSE LET i == row(data_torrents_status'.torrents, lastSelectedRow') IN
         IF i \notin DOMAIN torrentsList' THEN Empty
         ELSE IF torrentsList'[i][k] = Missing
              THEN (IF k = "settings" THEN pane[k] ELSE Empty)
              ELSE [of |-> i, version |-> torrentsList'[i][k]]

---------------------------------------------------------------------------
(* The timer of the dashboard: one request per kind.                       *)
Free(k) == {s \in Slots : slot[k][s] = Idle}

Poll ==
    /\ interval
    /\ \E k \in Kinds : Free(k) # {}
    /\ slot' = [k \in Kinds |-> [s \in Slots |->
         IF s \in Free(k) /\ (\A t \in Free(k) : s <= t) THEN Asked ELSE slot[k][s]]]
    /\ UNCHANGED <<server, store, router>>

(* getStatus, getFiles ... go on with the answer.                          *)
Apply(k, s) ==
    LET a == slot[k][s] IN
    /\ a.at = "answered"
    /\ slot' = [slot EXCEPT ![k][s] = Idle]
    /\ torrentsList' = saveAllTorrents(k, a)
    /\ data_torrents_status' =
         IF k = "status" THEN [torrents |-> a.torrents, version |-> a.version]
         ELSE data_torrents_status
    /\ UNCHANGED lastSelectedRow
    /\ pane' = [pane EXCEPT ![k] = changeSelectedTorrent(k)]
    /\ UNCHANGED <<server, router>>

(* The router shows a page to those who may see it; the dashboard sets its *)
(* timer when it is mounted, and clears it when another page replaces it.  *)
guests_anywhere(p) ==                                           \* mutant
    /\ page' = p
    /\ interval' = (page' = "dashboard")

Show(p) ==
    /\ page' = IF authority' = "guest" THEN "login" ELSE p
    /\ interval' = (page' = "dashboard")

logout ==
    authority' = "guest" /\ Show("login")

(* request: an error of the server or the network is caught, some errors   *)
(* lead to another page, and the effect goes on with no answer at all: the *)
(* reducer that should save it throws, the pane is drawn again.            *)
Fail(k, s) ==
    /\ slot[k][s] = Asked
    /\ slot' = [slot EXCEPT ![k][s] = Idle]
    /\ \/ UNCHANGED router                                  \* no connection
       \/ logout                                            \* 401
       \/ UNCHANGED authority /\ Show("exception")          \* 403, 404-421, 500-504
    /\ UNCHANGED <<torrentsList, data_torrents_status, lastSelectedRow>>
    /\ pane' = [pane EXCEPT ![k] = changeSelectedTorrent(k)]
    /\ UNCHANGED server

(* The user selects a row, logs out, goes back to the dashboard, or loads  *)
(* the page anew; only the authority survives that.                        *)
setLastSelectedRow ==
    /\ page = "dashboard"
    /\ lastSelectedRow' \in 0..(Cardinality(data_torrents_status.torrents) - 1)
    /\ UNCHANGED <<torrentsList, data_torrents_status>>
    /\ pane' = [k \in Kinds |-> changeSelectedTorrent(k)]
    /\ UNCHANGED <<server, slot, router>>

Logout == page # "login" /\ logout /\ UNCHANGED <<server, slot, store>>

Return ==
    /\ page = "exception"
    /\ UNCHANGED authority /\ Show("dashboard")
    /\ UNCHANGED <<server, slot, store>>

Reload ==
    /\ slot' = NoRequests
    /\ torrentsList' = NoTorrents /\ data_torrents_status' = NoStatus
    /\ lastSelectedRow' = NoRow /\ pane' = NoPanes
    /\ UNCHANGED authority /\ Show("dashboard")
    /\ UNCHANGED server

Next ==
    \/ Change \/ Poll \/ setLastSelectedRow \/ Logout \/ Return \/ Reload
    \/ \E k \in Kinds, s \in Slots : Answer(k, s) \/ Apply(k, s) \/ Fail(k, s)

Spec == Init /\ [][Next]_vars

(* The timer fires as long as it is set, an answer that arrived is taken   *)
(* in, and a program that is asked again and again answers now and then.   *)
Fairness ==
    /\ WF_vars(Poll)
    /\ \A k \in Kinds, s \in Slots : SF_vars(Answer(k, s)) /\ WF_vars(Apply(k, s))

FairSpec == Spec /\ Fairness

---------------------------------------------------------------------------
Unanswered == {r \in Kinds \X Slots : slot[r[1]][r[2]] = Asked}

(* Once a client is logged out, by the user or by a 401, nothing asks the  *)
(* server any more, however late other answers and errors come and         *)
(* wherever they lead: the timer of the dashboard went with its page.      *)
NothingAskedAfterLogout ==
    [][authority = "guest" => Unanswered' \subseteq Unanswered]_vars

Rows     == data_torrents_status.torrents
Selected == IF HasRow(Rows, lastSelectedRow) THEN row(Rows, lastSelectedRow)
            ELSE NoTorrent

(* The selection is the index of a row.  An answer that adds torrents does *)
(* not select another one: the selection moves without a click only when a *)
(* torrent that is not newer than the selected one goes, or is brought     *)
(* back by a late answer.                                                  *)
SelectionMovesWithOlderRows ==
    [][(lastSelectedRow' = lastSelectedRow /\ Selected # NoTorrent /\ Selected' # Selected)
       => \E i \in Ids : i <= Selected /\ ((i \in Rows) # (i \in Rows'))]_vars

(* What the server has to show is all shown, and nothing else.             *)
UpToDate ==
    /\ data_torrents_status = [torrents |-> Torrents, version |-> version]
    /\ torrentsList = [i \in Torrents |-> [k \in Kinds |-> version]]
    /\ Selected # NoTorrent =>
         pane = [k \in Kinds |-> [of |-> Selected, version |-> version]]

(* Late answers may bring back what is gone and take away what is there,   *)
(* and answers of one kind may come without those of another: a dashboard  *)
(* that is left open shows, in the end, what the server has.               *)
Converges ==
    (<>[](page = "dashboard") /\ <>[][~Reload]_vars) => <>[]UpToDate
===========================================================================
