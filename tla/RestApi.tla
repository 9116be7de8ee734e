---------------------------- MODULE RestApi ----------------------------
(***************************************************************************)
(* The requests of the REST API that concern torrents, as its one server   *)
(* thread works them off: authorization, query parameters, ids, the calls  *)
(* into TorrentManager, the status code.  Between any two steps the main   *)
(* thread may register a torrent and libtorrent may go on.                 *)
(*                                                                         *)
(* TorrentRegistry looks at the slots of the vector; here it is an ordered *)
(* table that changes in one step.  Of what calls do to a torrent only the *)
(* settings are kept; for the others, that they reached it.  Bodies are    *)
(* well-formed JSON with the members the handlers read.                    *)
(***************************************************************************)
EXTENDS Integers, Sequences, SequencesExt, FiniteSets

CONSTANTS
    Torrents,       \* what clients add: torrents, by info-hash
    Names, Values,  \* the settings of a torrent and their values
    Requests,       \* what clients may send
    MaxAdds,        \* bound: additions in flight plus ids given out
    MaxFiles,       \* bound: files in torrent_file_path
    None

ASSUME NoneAssumption ==
    None \notin Torrents /\ None \notin Values /\ None \notin Requests
ASSUME BoundsAssumption == MaxAdds \in Nat /\ MaxFiles \in Nat

VARIABLES
    torrents, greatest_id,              \* TorrentManager
    \* libtorrent: the session, torrents that left it, those with metadata,
    \* their settings, additions not answered yet, alerts
    session, gone, metadata, settings, adding, alerts,
    files, folder,                      \* what torrent_file_path holds; whether
                                        \* it is a folder that can be written
    \* HTTP thread: the request, its locals, the answer
    hpc, req, ids, pairs, k, atps, answer,
    blank,                              \* an info it holds is a null pointer
    fate,                               \* what ended the process
    \* the past: settings when the request came, torrents its calls reached,
    \* additions it passed on, files it wrote, file names told to clients
    before, reached, sent, wrote, told

manager == <<torrents, greatest_id>>
libt    == <<session, gone, metadata, settings, adding, alerts>>
locals  == <<req, ids, pairs, k, atps, answer, blank>>
past    == <<before, reached, sent, wrote, told>>
store   == <<files, folder>>
vars    == <<manager, libt, store, hpc, locals, fate, past>>

---------------------------------------------------------------------------
(* The handlers: what each does, what an empty list of ids means, whether  *)
(* it validates a query parameter, its status and its error code.          *)

torrents_recheck ==
    [does |-> "call", empty |-> "all", param |-> FALSE, ok |-> 200, error |-> 3130]
torrents_stop ==
    [does |-> "call", empty |-> "all", param |-> TRUE, ok |-> 202, error |-> 3100]
torrents_start ==
    [does |-> "call", empty |-> "all", param |-> FALSE, ok |-> 202, error |-> 3120]
torrents_delete ==
    [does |-> "erase", empty |-> "none", param |-> TRUE, ok |-> 202, error |-> 3110]
torrents_status_get ==
    [does |-> "status", empty |-> "list", param |-> FALSE, ok |-> 200, error |-> 3170]
torrents_files_get ==
    [does |-> "get", empty |-> "list", param |-> TRUE, ok |-> 200, error |-> 3140]
torrents_peers_get ==
    [does |-> "get", empty |-> "list", param |-> FALSE, ok |-> 200, error |-> 3160]
torrents_trackers_get ==
    [does |-> "get", empty |-> "list", param |-> FALSE, ok |-> 200, error |-> 3250]
torrents_info_get ==
    [does |-> "info", empty |-> "list", param |-> FALSE, ok |-> 200, error |-> 3170]
torrents_settings_get ==
    [does |-> "get", empty |-> "list", param |-> FALSE, ok |-> 200, error |-> 3260]
torrents_settings_set ==
    [does |-> "configure", empty |-> "none", param |-> FALSE, ok |-> 200, error |-> 3270]
queue_torrents_set ==
    [does |-> "call", empty |-> "none", param |-> FALSE, ok |-> 200, error |-> 3290]
torrents_add ==
    [does |-> "add", empty |-> "none", param |-> FALSE, ok |-> 202, error |-> 3200]
torrents_upload_files ==
    [does |-> "upload", empty |-> "none", param |-> FALSE, ok |-> 200, error |-> 3190]

(* The routes.                                                             *)
define_resources ==
    [torrents_recheck      |-> torrents_recheck,
     torrents_stop         |-> torrents_stop,
     torrents_start        |-> torrents_start,
     torrents_delete       |-> torrents_delete,
     torrents_status_get   |-> torrents_status_get,
     torrents_files_get    |-> torrents_files_get,
     torrents_peers_get    |-> torrents_peers_get,
     torrents_trackers_get |-> torrents_trackers_get,
     torrents_info_get     |-> torrents_info_get,
     torrents_settings_get |-> torrents_settings_get,
     torrents_settings_set |-> torrents_settings_set,
     queue_torrents_set    |-> queue_torrents_set,
     torrents_add          |-> torrents_add,
     torrents_upload_files |-> torrents_upload_files]

(* What a client can send, ids of no torrent included, and id 0.  The      *)
(* settings of a torrents_settings_set are in the order of its body, each  *)
(* with the entry it stands in.                                            *)
Ids      == Nat
Settings == [entry : Nat, id : Ids, name : Names, value : Values]
Specs    == [type : {"file", "http", "magnet", "infohash", "other"},
             torrent : Torrents \cup {None}, file : Nat,
             reachable : BOOLEAN, save_path : BOOLEAN]
AllRequests ==
    [op : DOMAIN define_resources, auth : BOOLEAN, param : {"valid", "invalid"},
     ids : Seq(Ids), settings : Seq(Settings), specs : Seq(Specs),
     parts : Seq(Torrents \cup {None}),
     ends : {"complete", "truncated", "noBoundary"}]
EntryByEntry(body) ==
    \A i, j \in DOMAIN body :
       /\ i <= j => body[i].entry <= body[j].entry
       /\ body[i].entry = body[j].entry => body[i].id = body[j].id

ASSUME RequestsAssumption ==
    \A r \in Requests :
       /\ r \in AllRequests /\ EntryByEntry(r.settings)
       /\ IF r.op = "torrents_settings_set" THEN r.ids = <<>> ELSE r.settings = <<>>
       /\ r.op = "queue_torrents_set" => Len(r.ids) = 1

handler == define_resources[req.op]
Getters == {"status", "get", "info"}

validate_authorization(r)     == r.auth
validate_all_parameters(r)    == define_resources[r.op].param => r.param # "invalid"
respond_invalid_authorization == [status |-> 401, error |-> 4150]
respond_invalid_parameter     == [status |-> 400, error |-> 4100]
AnsweredByCode(error) ==          \* mutant: an internal error is 500
    IF error = 0 THEN [status |-> handler.ok, error |-> 0]
    ELSE IF error = 3200 THEN [status |-> 500, error |-> error]
    ELSE [status |-> 404, error |-> error]
Answered(error) == IF error = 0 THEN [status |-> handler.ok, error |-> 0]
                   ELSE [status |-> 404, error |-> error]
NoAnswer == [status |-> 0, error |-> 0]

Entries   == ToSet(torrents)
Exists(id) == \E e \in Entries : e.id = id
Named(id) == (CHOOSE e \in Entries : e.id = id).torrent

Unset == [n \in Names |-> None]
Atps  == [torrent : Torrents \cup {None}, info : BOOLEAN,
          path : {"none", "download_path", "save_path"}]

TypeOK ==
    /\ torrents \in Seq([id : 1..MaxAdds, torrent : Torrents])
    /\ greatest_id \in 1..(MaxAdds + 1)
    /\ session \subseteq Torrents /\ gone \subseteq Torrents
    /\ session \cap gone = {} /\ metadata \subseteq Torrents
    /\ settings \in [Torrents -> [Names -> Values \cup {None}]]
    /\ adding \in Seq(Atps)
    /\ alerts \in Seq(Torrents \cup {None})
    /\ files \in Seq(Torrents \cup {None}) /\ Len(files) <= MaxFiles
    /\ folder \in BOOLEAN
    /\ hpc \in {"idle", "list", "check", "act", "sweep", "parse", "send",
                "write", "reply"}
    /\ req \in Requests \cup {None} /\ ids \in Seq(Nat) /\ k \in Nat \ {0}
    /\ pairs \in Seq([id : Nat, ts : [Names -> Values \cup {None}]])
    /\ atps \in Seq(Atps) /\ fate \in {"alive", "badHandle", "noInfo", "noId", "noFile"}
    /\ answer \in [status : {0, 200, 202, 400, 401, 404}, error : Nat]
    /\ blank \in BOOLEAN
    /\ before \in [Torrents -> [Names -> Values \cup {None}]]
    /\ reached \in Seq(Torrents) /\ sent \in Seq(Atps)
    /\ wrote \in Seq(1..MaxFiles) /\ told \subseteq 1..MaxFiles

Init ==
    /\ torrents = <<>> /\ greatest_id = 1
    /\ session = {} /\ gone = {} /\ metadata = {}
    /\ settings = [t \in Torrents |-> Unset] /\ before = settings
    /\ adding = <<>> /\ alerts = <<>> /\ files = <<>> /\ folder \in BOOLEAN
    /\ hpc = "idle" /\ req = None
    /\ ids = <<>> /\ pairs = <<>> /\ k = 1 /\ atps = <<>>
    /\ answer = NoAnswer /\ blank = FALSE /\ fate = "alive"
    /\ reached = <<>> /\ sent = <<>> /\ wrote = <<>> /\ told = {}

---------------------------------------------------------------------------
(* libtorrent.  A torrent that is in the session already is answered with  *)
(* its handle and no error; an empty add_torrent_params is an error.       *)
(* Bound: a torrent that left the session has no second life here; adding  *)
(* it again fails.                                                         *)

SessionAnswers ==
    /\ fate = "alive" /\ adding # <<>>
    /\ adding' = Tail(adding)
    /\ LET t == Head(adding).torrent IN
       IF t \in gone \cup {None}
       THEN alerts' = Append(alerts, None) /\ UNCHANGED <<session, metadata>>
       ELSE /\ alerts' = Append(alerts, t)
            /\ session' = session \cup {t}
            /\ metadata' = IF Head(adding).info /\ t \notin session
                           THEN metadata \cup {t} ELSE metadata
    /\ UNCHANGED <<manager, gone, settings, store, hpc, locals, fate, past>>

(* A magnet or an info-hash gets its metadata; a file has it.              *)
MetadataArrives(t) ==
    /\ fate = "alive" /\ t \in session \ metadata
    /\ metadata' = metadata \cup {t}
    /\ UNCHANGED <<manager, session, gone, settings, adding, alerts, store, hpc,
                   locals, fate, past>>

(* Main thread: check_alerts, and a console view that cannot get the       *)
(* status of a torrent that left the session.                              *)
check_alerts ==
    /\ fate = "alive" /\ alerts # <<>>
    /\ alerts' = Tail(alerts)
    /\ IF Head(alerts) = None THEN UNCHANGED manager
       ELSE /\ torrents' = Append(torrents, [id |-> greatest_id,
                                             torrent |-> Head(alerts)])
            /\ greatest_id' = greatest_id + 1
    /\ UNCHANGED <<session, gone, metadata, settings, adding, store, hpc,
                   locals, fate, past>>

update_torrent_console_view ==
    /\ fate = "alive" /\ \E e \in Entries : e.torrent \in gone
    /\ fate' = "badHandle"
    /\ UNCHANGED <<manager, libt, store, hpc, locals, past>>

---------------------------------------------------------------------------
(* HTTP thread: every handler first.                                       *)

Serving(pc) == fate = "alive" /\ hpc = pc

InFlight(r) == Len(adding) + Len(alerts) + greatest_id - 1 + Len(r.specs)
NewFiles(r) ==
    Len(r.parts) + Cardinality({i \in DOMAIN r.specs : r.specs[i].type = "http"})

(* torrents_settings_set: one pair per setting; ts grows along those of an *)
(* entry, which gives a setting twice at will.                             *)
TsUpTo(body, i) ==
    [n \in Names |->
       LET given == {j \in 1..i : body[j].entry = body[i].entry /\ body[j].name = n}
       IN IF given = {} THEN None ELSE body[Max(given)].value]
PairsOf(body) == [i \in DOMAIN body |-> [id |-> body[i].id, ts |-> TsUpTo(body, i)]]
IdsOf(ps) == [i \in DOMAIN ps |-> ps[i].id]

FirstStep(r) ==
    LET h == define_resources[r.op] IN
    CASE h.does = "add"    -> "parse"
      [] h.does = "upload" -> "write"
      [] h.empty = "list" /\ r.ids = <<>> -> "list"
      [] h.empty = "all"  /\ r.ids = <<>> -> "sweep"
      [] OTHER -> "check"

Receive(r) ==
    /\ Serving("idle")
    /\ InFlight(r) <= MaxAdds /\ Len(files) + NewFiles(r) <= MaxFiles
    /\ req' = r /\ k' = 1 /\ atps' = <<>> /\ blank' = FALSE
    /\ pairs' = PairsOf(r.settings)
    /\ ids' = IF r.settings # <<>> THEN IdsOf(pairs') ELSE r.ids
    /\ before' = settings /\ reached' = <<>> /\ sent' = <<>> /\ wrote' = <<>>
    /\ \/ /\ ~validate_authorization(r)
          /\ answer' = respond_invalid_authorization /\ hpc' = "reply"
       \/ /\ validate_authorization(r) /\ ~validate_all_parameters(r)
          /\ answer' = respond_invalid_parameter /\ hpc' = "reply"
       \/ /\ validate_authorization(r) /\ validate_all_parameters(r)
          /\ answer' = NoAnswer /\ hpc' = FirstStep(r)
    /\ UNCHANGED <<manager, libt, store, fate, told>>

(* The end of a manager call or of a parse: what the handler answers.      *)
Answer(error) == answer' = Answered(error) /\ hpc' = "reply"

(* get_all_ids.  Later the main thread may have registered more.           *)
ListFromGreatestId == [i \in 1..(greatest_id - 1) |-> i]   \* mutant
get_all_ids == [i \in DOMAIN torrents |-> torrents[i].id]

List ==
    /\ Serving("list")
    /\ ids' = get_all_ids
    /\ hpc' = IF handler.does = "status" /\ ids' = <<>> THEN "sweep" ELSE "check"
    /\ UNCHANGED <<manager, libt, store, req, pairs, k, atps, answer, blank, fate,
                   past>>

(* "Check if all torrents in ids in fact exist".  The manager returns the  *)
(* first that does not, and 0 for success: an unknown id 0 is success, and *)
(* nothing is done.                                                        *)
Unknown == {i \in DOMAIN ids : ~Exists(ids[i])}
ResultOf(i) == IF ids[i] = 0 THEN 0 ELSE handler.error

Check ==
    /\ Serving("check")
    /\ \/ Unknown = {} /\ hpc' = "act" /\ UNCHANGED answer
       \/ \E i \in Unknown :
            (\A j \in Unknown : i <= j) /\ Answer(ResultOf(i))
    /\ UNCHANGED <<manager, libt, store, req, ids, pairs, k, atps, blank, fate, past>>

---------------------------------------------------------------------------
(* The calls into libtorrent, one torrent at a time.  A call on a torrent  *)
(* that left the session may throw; the server catches it and the client   *)
(* gets no answer (status 0).                                              *)

Throw(t) ==
    /\ t \in gone
    /\ hpc' = "reply" /\ UNCHANGED <<k, reached, settings, blank>>

ApplyAllTs(old, ts) == ts         \* mutant: settings are not optional
ApplyTs(old, ts) == [n \in Names |-> IF ts[n] = None THEN old[n] ELSE ts[n]]

SetTorrentSettings(t) ==
    settings' = IF handler.does # "configure" THEN settings
                ELSE [settings EXCEPT ![t] = ApplyTs(@, pairs[k].ts)]

(* A getter of infos takes the pointer the torrent has now.                *)
Reach(t) ==
    /\ SetTorrentSettings(t)
    /\ blank' = (blank \/ (handler.does = "info" /\ t \notin metadata))
    /\ reached' = Append(reached, t) /\ k' = k + 1 /\ UNCHANGED hpc

Act ==
    /\ Serving("act") /\ k <= Len(ids) /\ handler.does # "erase"
    /\ LET t == Named(ids[k]) IN Throw(t) \/ Reach(t)
    /\ UNCHANGED <<manager, session, gone, metadata, adding, alerts, store, req,
                   ids, pairs, atps, answer, fate, before, sent, wrote, told>>

(* Every torrent of the table, those registered meanwhile included.        *)
Sweep ==
    /\ Serving("sweep") /\ k <= Len(torrents)
    /\ LET t == torrents[k].torrent IN Throw(t) \/ Reach(t)
    /\ UNCHANGED <<manager, session, gone, metadata, adding, alerts, store, req,
                   ids, pairs, atps, answer, fate, before, sent, wrote, told>>

(* A handle stays usable for a moment after its torrent was removed, so a  *)
(* second id of the torrent may be erased, too, or throw.  An id named     *)
(* twice is passed by the second time.                                     *)
ErasePopsBack(es, i) == Front(es) \* mutant: the last one goes
Erase(es, i) == RemoveAt(es, i)

remove_torrent ==
    /\ Serving("act") /\ k <= Len(ids) /\ handler.does = "erase"
    /\ \/ /\ Exists(ids[k])
          /\ \/ Throw(Named(ids[k])) /\ UNCHANGED <<torrents, session, gone>>
             \/ /\ session' = session \ {Named(ids[k])}
                /\ gone' = gone \cup {Named(ids[k])}
                /\ \E i \in DOMAIN torrents :
                      /\ torrents[i].id = ids[k]
                      /\ torrents' = Erase(torrents, i)
                /\ Reach(Named(ids[k]))
       \/ /\ ~Exists(ids[k]) /\ k' = k + 1
          /\ UNCHANGED <<torrents, session, gone, settings, reached, blank, hpc>>
    /\ UNCHANGED <<greatest_id, metadata, adding, alerts, store, req, ids,
                   pairs, atps, answer, fate, before, sent, wrote, told>>

(* torrents_info_get reads every torrent_info, torrents_status_get an id   *)
(* for every status.                                                       *)
NoId   == handler.does = "status" /\ Len(reached) > Len(ids)

Done ==
    /\ \/ Serving("act") /\ k > Len(ids)
       \/ Serving("sweep") /\ k > Len(torrents)
    /\ \/ ~blank /\ Answer(0) /\ UNCHANGED fate
       \/ /\ blank /\ fate' = "noInfo"
          /\ UNCHANGED <<hpc, answer>>
       \/ /\ NoId /\ fate' = "noId"
          /\ UNCHANGED <<hpc, answer>>
    /\ UNCHANGED <<manager, libt, store, req, ids, pairs, k, atps, blank, past>>

---------------------------------------------------------------------------
(* torrents_add: the specs are parsed one by one, and nothing is added     *)
(* until all are.                                                          *)

(* download_file has no failure: what cannot be fetched is an empty file.  *)
Fetched(s) == IF s.reachable THEN s.torrent ELSE None

(* 3200: no such file; 3240: not a torrent.                                *)
ParseError(s) ==
    CASE s.type = "file" /\ s.file \notin DOMAIN files -> 3200
      [] s.type = "file" /\ s.file \in DOMAIN files -> IF files[s.file] = None
                                                       THEN 3240 ELSE 0
      [] s.type = "http" -> IF Fetched(s) = None THEN 3240 ELSE 0
      [] OTHER -> 0

(* Every known type sets the default path, and an option replaces it.      *)
PathOf(s) == CASE s.save_path -> "save_path"
               [] ~s.save_path /\ s.type = "other" -> "none"
               [] OTHER -> "download_path"

AtpOfSticky(s) ==                 \* mutant: options stay for the next spec
    [torrent |-> CASE s.type = "file"  -> files[s.file]
                   [] s.type = "other" -> None
                   [] OTHER            -> s.torrent,
     info    |-> s.type \in {"file", "http"},
     path    |-> IF s.save_path \/ \E i \in DOMAIN atps : atps[i].path = "save_path"
                 THEN "save_path" ELSE PathOf(s)]
AtpOf(s) ==
    [torrent |-> CASE s.type = "file"  -> files[s.file]
                   [] s.type = "other" -> None
                   [] OTHER            -> s.torrent,
     info    |-> s.type \in {"file", "http"},
     path    |-> PathOf(s)]

(* The first error ends the parse, and torrents_add adds nothing.          *)
RejectAddsParsed(error) ==        \* mutant: what was parsed is added
    Answer(error) /\ adding' = adding \o atps /\ sent' = atps
Reject(error) == Answer(error) /\ UNCHANGED <<adding, sent>>

(* Whether a file could be opened to write to is not looked at.            *)
SaveElsewhere(content) ==         \* mutant: not where torrents_add reads
    wrote' = Append(wrote, Len(files) + 1) /\ UNCHANGED files
SaveFile(content) ==
    /\ files' = IF folder THEN Append(files, content) ELSE files
    /\ wrote' = Append(wrote, Len(files) + 1)

(* For a download that is a null FILE pointer, to fclose at the latest.    *)
Downloads == k <= Len(req.specs) /\ req.specs[k].type = "http"

DownloadCrash ==
    /\ Serving("parse") /\ Downloads /\ ~folder
    /\ fate' = "noFile"
    /\ UNCHANGED <<manager, libt, store, hpc, locals, past>>

parse_request_to_atp ==
    /\ Serving("parse") /\ (Downloads => folder)
    /\ IF k > Len(req.specs)
       THEN /\ hpc' = "send" /\ k' = 1
            /\ UNCHANGED <<adding, files, atps, answer, sent, wrote>>
       ELSE LET s == req.specs[k] IN
            /\ IF s.type = "http" THEN SaveFile(Fetched(s))
               ELSE UNCHANGED <<files, wrote>>
            /\ IF ParseError(s) # 0
               THEN Reject(ParseError(s)) /\ UNCHANGED <<k, atps>>
               ELSE /\ atps' = Append(atps, AtpOf(s)) /\ k' = k + 1
                    /\ UNCHANGED <<adding, sent, hpc, answer>>
    /\ UNCHANGED <<manager, session, gone, metadata, settings, alerts, folder, req,
                   ids, pairs, blank, fate, before, reached, told>>

add_torrent_async ==
    /\ Serving("send")
    /\ IF k > Len(atps)
       THEN Answer(0) /\ UNCHANGED <<k, adding, sent>>
       ELSE /\ adding' = Append(adding, atps[k])
            /\ sent' = Append(sent, atps[k])
            /\ k' = k + 1 /\ UNCHANGED <<hpc, answer>>
    /\ UNCHANGED <<manager, session, gone, metadata, settings, alerts, store,
                   req, ids, pairs, atps, blank, fate, before, reached, wrote, told>>

(* torrents_upload_files: each part that ends is a file; the request may   *)
(* break off inside a part, or have no boundary at all.  What was written  *)
(* stays.                                                                  *)
save_request_files_to_disk ==
    /\ Serving("write")
    /\ IF req.ends # "noBoundary" /\ k <= Len(req.parts)
       THEN /\ SaveFile(req.parts[k]) /\ k' = k + 1
            /\ UNCHANGED <<hpc, answer, told>>
       ELSE /\ Answer(CASE req.ends = "complete"   -> 0
                        [] req.ends = "noBoundary" -> 3180
                        [] req.ends = "truncated"  -> 3190)
            /\ told' = IF answer'.error = 0 THEN told \cup ToSet(wrote) ELSE told
            /\ UNCHANGED <<files, wrote, k>>
    /\ UNCHANGED <<manager, libt, folder, req, ids, pairs, atps, blank, fate, before,
                   reached, sent>>

Reply ==
    /\ Serving("reply") /\ hpc' = "idle"
    /\ req' = None /\ ids' = <<>> /\ pairs' = <<>> /\ k' = 1 /\ atps' = <<>>
    /\ answer' = NoAnswer /\ blank' = FALSE
    /\ before' = [t \in Torrents |-> Unset]
    /\ reached' = <<>> /\ sent' = <<>> /\ wrote' = <<>>
    /\ UNCHANGED <<manager, libt, store, fate, told>>

Http == \/ \E r \in Requests : Receive(r)
        \/ List \/ Check \/ Act \/ Sweep \/ remove_torrent \/ Done
        \/ parse_request_to_atp \/ DownloadCrash \/ add_torrent_async
        \/ save_request_files_to_disk \/ Reply

Dead == fate # "alive" /\ UNCHANGED vars

Next == Http \/ SessionAnswers \/ (\E t \in Torrents : MetadataArrives(t))
        \/ check_alerts \/ update_torrent_console_view \/ Dead

Spec == Init /\ [][Next]_vars

---------------------------------------------------------------------------
(* Properties.                                                             *)

(* A request that is answered with an error has called no torrent, changed *)
(* no setting and added nothing, although add and settings are worked off  *)
(* in loops of several calls (restAPI.cpp:1431-1435, 2375).                *)
ErrorChangesNothing ==
    hpc = "reply" /\ answer.error # 0 =>
       reached = <<>> /\ sent = <<>> /\ settings = before

(* After an answered torrents_settings_set each torrent has the last value *)
(* the request gives for each setting, under whichever id, and keeps the   *)
(* settings it does not mention (restAPI.cpp:2346-2373).  A request that   *)
(* names id 0 is answered the same, and changes none: the manager's result *)
(* for an unknown id is the id (torrentManager.cpp:824-825).               *)
AskedFor(t, n) ==
    LET mine == {i \in DOMAIN req.settings :
                   Named(req.settings[i].id) = t /\ req.settings[i].name = n}
    IN IF mine = {} THEN before[t][n] ELSE req.settings[Max(mine)].value

SettingsAsAsked ==
    hpc = "reply" /\ answer.status = 200 /\ handler.does = "configure" =>
       IF \E i \in DOMAIN ids : ids[i] = 0 THEN settings = before
       ELSE \A t \in Torrents, n \in Names : settings[t][n] = AskedFor(t, n)

(* An accepted torrents_add has passed on what the request lists, in its   *)
(* order: the torrent of the magnet, the download or the named file, and   *)
(* the path the entry names or the default one.  An entry of an unknown    *)
(* type is accepted, too, as an addition of nothing to nowhere             *)
(* (restAPI.cpp:1153-1243).                                                *)
AddsAsAsked ==
    hpc = "reply" /\ answer.status = 202 /\ handler.does = "add" =>
       /\ Len(sent) = Len(req.specs)
       /\ \A i \in DOMAIN sent :
            LET s == req.specs[i] IN
            /\ s.type \in {"magnet", "infohash", "http"} =>
                  sent[i].torrent = s.torrent
            /\ s.type = "file" => sent[i].torrent = files[s.file]
            /\ s.type = "other" => sent[i].torrent = None
            /\ s.save_path <=> sent[i].path = "save_path"
            /\ s.type = "other" /\ ~s.save_path <=> sent[i].path = "none"

(* A getter without ids is about the torrents there are, so it never       *)
(* answers that one is missing, although it reads the table twice.         *)
ListingNeverMisses ==
    hpc = "reply" /\ handler.does \in Getters /\ req.ids = <<>> =>
       answer.error \notin {3140, 3160, 3170, 3250, 3260}

(* After an accepted torrents_delete either no id it names is left and     *)
(* their torrents are no longer in the session; or it names id 0, and then *)
(* nothing at all was removed, although every id before that one exists    *)
(* (torrentManager.cpp:238-262, restAPI.cpp:1089-1090).                    *)
DeleteIsAllOrNothing ==
    hpc = "reply" /\ answer.status = 202 /\ handler.does = "erase" =>
       \/ /\ \A i \in DOMAIN ids : ids[i] # 0 /\ ~Exists(ids[i])
          /\ ToSet(reached) \subseteq gone
       \/ \E z \in DOMAIN ids :
             /\ ids[z] = 0 /\ \A i \in 1..(z - 1) : Exists(ids[i])
             /\ reached = <<>>

(* Files a client was told it uploaded can be added by the names it was    *)
(* told: the answer is not that there is no such file, if torrent_file_path*)
(* can be written (restAPI.cpp:1311-1316 does not look).                   *)
UploadsCanBeAdded ==
    folder /\ hpc = "reply" /\ handler.does = "add" /\ answer.error = 3200 =>
       \E i \in DOMAIN req.specs : req.specs[i].type = "file"
                                   /\ req.specs[i].file \notin told
===========================================================================
