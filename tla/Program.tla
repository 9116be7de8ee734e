----------------------------- MODULE Program -----------------------------
(***************************************************************************)
(* The program from start to exit: main, ConfigManager, the settings of    *)
(* the session, and the server thread.  A start reads config.toml, or      *)
(* makes a default one, or renames one it cannot parse and exits; while    *)
(* the server runs, requests change the settings; a signal makes main save *)
(* the session state and the configuration, and only then stop the server. *)
(* The program may crash at any moment and is started again.               *)
(*                                                                         *)
(* Of the configuration only the keys the threads look up are kept, and    *)
(* the value of the one a request can set.  Saving fastresume data and     *)
(* handling alerts are the subject of Fastresume.                          *)
(***************************************************************************)
EXTENDS Naturals, Sequences, FiniteSets

CONSTANTS
    Paths,              \* values of directory.download_path
    DefaultPath,        \* "./" of the default configuration
    Names, Values,      \* settings of the session
    Default,            \* libtorrent's value for each
    Requests,           \* what clients may send
    MaxStarts,          \* bound: starts of the program
    None

ASSUME PathAssumption == DefaultPath \in Paths /\ None \notin Paths
ASSUME ValueAssumption == Default \in Values /\ None \notin Values
ASSUME StartsAssumption == MaxStarts \in Nat \ {0}
ASSUME NamesAssumption == "default_download_path" \notin Names
ASSUME RequestAssumption ==
    \A r \in Requests :
       /\ r # None /\ r.auth \in BOOLEAN /\ r.op \in {"set", "add"}
       /\ r.settings \in Seq([name : Names, value : Values]
                      \cup [name : {"default_download_path"}, value : Paths])

VARIABLES
    config_file, session_file,          \* the disk
    writable,                           \* config.toml's directory, for main
    mpc, config_toml, shutdown_flag,    \* main thread
    session,                            \* the session's settings
    download_path,                      \* RestAPI's copy of the configured one
    acceptor,                           \* ServerBase::acceptor
    hpc, req, k, pack, answer,          \* HTTP thread
    \* the past: the path last set, starts, starts in a row that could not
    \* parse, whether the first start found a configuration, which writes of
    \* config.toml were cut short, whether the last run did not get to write
    \* it, whether that run set a path after save_config
    last, starts, failed, configured, torn, unsaved, late

disk    == <<config_file, session_file, writable>>
main    == <<config_toml, shutdown_flag>>
http    == <<hpc, req, k, pack, answer>>
history == <<starts, failed, configured, torn, unsaved>>
vars    == <<disk, mpc, main, session, download_path, acceptor, http, last,
             late, history>>

Running == mpc \notin {"down", "load_config"}

---------------------------------------------------------------------------
(* config.toml.  The default one has fewer keys than the one in the        *)
(* repository; a file that was truncated and not yet written is an empty   *)
(* table, and parses.                                                      *)

AllKeys     == {"download_path", "torrent_file_path", "session_state_path",
                "database_path", "port"}
directory   == AllKeys \ {"port"}
DefaultKeys == {"download_path", "torrent_file_path", "port"}

Table(keys, path) == [kind |-> "table", keys |-> keys, path |-> path]
Absent    == [kind |-> "absent", keys |-> {}, path |-> None]
Malformed == [kind |-> "malformed", keys |-> {}, path |-> None]
Empty     == Table({}, None)

create_default_config_file == Table(DefaultKeys, DefaultPath)

(* What a write that ends early may leave of a table: text that does not   *)
(* parse, or some of the keys.                                             *)
CutShort(t) ==
    {Malformed} \cup
    {Table(ks, IF "download_path" \in ks THEN t.path ELSE None) : ks \in SUBSET t.keys}

(* session.state.  save_session_state prints the entry with <<, which is   *)
(* not bencoding.                                                          *)
NoState  == [form |-> "absent", settings |-> [n \in Names |-> Default]]
Printed(settings)  == [form |-> "printed", settings |-> settings]
Decodes(f) == f.form = "bencoded"

Configs  == [kind : {"absent", "malformed", "table"}, keys : SUBSET AllKeys,
             path : Paths \cup {None}]
Settings == [Names -> Values]

TypeOK ==
    /\ config_file \in Configs /\ config_toml \in Configs
    /\ session_file.form \in {"absent", "printed"}
    /\ session_file.settings \in Settings /\ session \in Settings
    /\ writable \in BOOLEAN /\ shutdown_flag \in BOOLEAN
    /\ mpc \in {"down", "load_config", "load_session_state", "RestAPI", "loop",
                "save_session_state", "save_config", "write", "stop_server", "join"}
    /\ download_path \in Paths \cup {None}
    /\ acceptor \in {"none", "starting", "open", "closed"}
    /\ hpc \in {"idle", "set", "apply", "add", "reply"}
    /\ req \in Requests \cup {None} /\ k \in Nat \ {0}
    /\ pack \in [Names -> Values \cup {None}]
    /\ answer \in [status : {0, 200, 202, 401}, save_path : Paths \cup {None}]
    /\ last \in Paths \cup {None} /\ starts \in 0..MaxStarts /\ failed \in Nat
    /\ configured \in BOOLEAN /\ torn \subseteq {"default", "saved"}
    /\ unsaved \in BOOLEAN /\ late \in BOOLEAN

NoAnswer  == [status |-> 0, save_path |-> None]
EmptyPack == [n \in Names |-> None]

Init ==
    /\ config_file \in {Absent, Malformed} \cup {Table(AllKeys, p) : p \in Paths}
    /\ session_file = NoState /\ writable \in BOOLEAN
    /\ mpc = "down" /\ config_toml = Empty /\ shutdown_flag = FALSE
    /\ session = NoState.settings /\ download_path = None /\ acceptor = "none"
    /\ hpc = "idle" /\ req = None /\ k = 1 /\ pack = EmptyPack /\ answer = NoAnswer
    /\ last = config_file.path /\ starts = 0 /\ failed = 0
    /\ configured = (config_file.kind = "table")
    /\ torn = {} /\ unsaved = FALSE /\ late = FALSE

---------------------------------------------------------------------------
(* Main thread: start.                                                     *)

Start ==
    /\ mpc = "down" /\ starts < MaxStarts
    /\ mpc' = "load_config" /\ starts' = starts + 1
    /\ config_toml' = Empty /\ shutdown_flag' = FALSE
    /\ session' = NoState.settings /\ download_path' = None
    /\ acceptor' = "none"
    /\ last' = IF late \/ unsaved THEN config_file.path ELSE last
    /\ late' = FALSE /\ unsaved' = FALSE
    /\ UNCHANGED <<disk, http, failed, configured, torn>>

(* A file that is not there is created, and what was written is parsed.    *)
CreateDefault ==
    /\ mpc = "load_config" /\ config_file.kind = "absent" /\ writable
    /\ \/ config_file' = create_default_config_file /\ UNCHANGED torn
       \/ /\ config_file' \in CutShort(create_default_config_file)
          /\ torn' = torn \cup {"default"}
    /\ last' = DefaultPath
    /\ UNCHANGED <<session_file, writable, mpc, main, session, download_path,
                   acceptor, http, starts, failed, configured, unsaved, late>>

load_config ==
    /\ mpc = "load_config" /\ config_file.kind = "table"
    /\ config_toml' = config_file /\ failed' = 0
    /\ mpc' = "load_session_state"
    /\ UNCHANGED <<disk, shutdown_flag, session, download_path, acceptor, http,
                   starts, configured, torn, unsaved, last, late>>

(* parse_exception: the file is moved to config.toml.old, if that is       *)
(* allowed, and main returns 2.                                            *)
KeepMalformed(f) == f               \* mutant: no rename
RenameToOld(f) == IF writable THEN Absent ELSE f

ParseFails ==
    /\ mpc = "load_config"
    /\ \/ config_file.kind = "malformed"
       \/ config_file.kind = "absent" /\ ~writable
    /\ config_file' = RenameToOld(config_file)
    /\ failed' = failed + 1 /\ mpc' = "down"
    /\ UNCHANGED <<session_file, writable, main, session, download_path, acceptor,
                   http, starts, configured, torn, unsaved, last, late>>

load_session_state ==
    /\ mpc = "load_session_state" /\ mpc' = "RestAPI"
    /\ session' = IF /\ "session_state_path" \in config_toml.keys
                     /\ Decodes(session_file)
                  THEN session_file.settings ELSE session
    /\ UNCHANGED <<disk, main, download_path, acceptor, http, last, late, history>>

(* The constructor keeps a copy of the path.  start_server returns while   *)
(* the server thread is still to open its acceptor.                        *)
RestAPI ==
    /\ mpc = "RestAPI" /\ mpc' = "loop"
    /\ download_path' = IF {"torrent_file_path", "download_path"}
                              \subseteq config_toml.keys
                        THEN config_toml.path ELSE None
    /\ acceptor' = "starting"
    /\ UNCHANGED <<disk, main, session, http, last, late, history>>

start_server ==
    /\ mpc # "down" /\ acceptor = "starting" /\ acceptor' = "open"
    /\ UNCHANGED <<disk, mpc, main, session, download_path, http, last, late,
                   history>>

---------------------------------------------------------------------------
(* Main thread: shutdown, with the server still running.                   *)

shutdown_program ==
    /\ mpc = "loop" /\ ~shutdown_flag /\ shutdown_flag' = TRUE
    /\ UNCHANGED <<disk, mpc, config_toml, session, download_path, acceptor, http,
                   last, late, history>>

LeaveLoop ==
    /\ mpc = "loop" /\ shutdown_flag /\ mpc' = "save_session_state"
    /\ UNCHANGED <<disk, main, session, download_path, acceptor, http, last, late,
                   history>>

(* A file that cannot be opened keeps what it had.                         *)
save_session_state ==
    /\ mpc = "save_session_state" /\ mpc' = "save_config"
    /\ \/ "session_state_path" \in config_toml.keys /\ session_file' = Printed(session)
       \/ UNCHANGED session_file
    /\ UNCHANGED <<config_file, writable, main, session, download_path, acceptor,
                   http, last, late, history>>

(* save_config: opening the file truncates it; one that cannot be opened   *)
(* stays as it is, which is logged.  What a table this small prints reaches *)
(* the disk when the file is closed, and nobody looks whether all of it    *)
(* did.  A request may set the path meanwhile, unsynchronized: the writer  *)
(* gets either value, or dies (Crash).                                     *)
save_config ==
    /\ mpc = "save_config"
    /\ \/ mpc' = "write" /\ config_file' = Empty /\ UNCHANGED unsaved
       \/ mpc' = "stop_server" /\ unsaved' = TRUE /\ UNCHANGED config_file
    /\ UNCHANGED <<session_file, writable, main, session, download_path, acceptor,
                   http, last, late, starts, failed, configured, torn>>

WrittenAtStart(toml) ==             \* mutant: what the constructor read
    [toml EXCEPT !.path = download_path]
Written(toml) == toml

Write ==
    /\ mpc = "write" /\ mpc' = "stop_server"
    /\ \/ config_file' = Written(config_toml) /\ UNCHANGED torn
       \/ /\ config_file' \in CutShort(Written(config_toml))
          /\ torn' = torn \cup {"saved"}
    /\ UNCHANGED <<session_file, writable, main, session, download_path, acceptor,
                   http, last, late, starts, failed, configured, unsaved>>

(* ServerBase::stop does nothing before there is an acceptor.  A handler   *)
(* that runs goes on.                                                      *)
CloseOnly(a) == "open"              \* mutant: io_service is not stopped
Stopped(a) == IF a = "open" THEN "closed" ELSE a

stop_server ==
    /\ mpc = "stop_server" /\ mpc' = "join"
    /\ acceptor' = Stopped(acceptor)
    /\ UNCHANGED <<disk, main, session, download_path, http, last, late, history>>

(* The server thread ends when its io_service is stopped.                  *)
Join ==
    /\ mpc = "join" /\ acceptor = "closed" /\ hpc = "idle"
    /\ mpc' = "down"
    /\ UNCHANGED <<disk, main, session, download_path, acceptor, http, last, late,
                   history>>

Crash ==
    /\ mpc # "down" /\ mpc' = "down"
    /\ torn' = IF mpc = "write" THEN torn \cup {"saved"} ELSE torn
    /\ unsaved' = \/ unsaved
                  \/ Running /\ mpc \notin {"write", "stop_server", "join"}
    /\ hpc' = "idle" /\ req' = None /\ k' = 1
    /\ pack' = EmptyPack /\ answer' = NoAnswer
    /\ UNCHANGED <<disk, main, session, download_path, acceptor, last, late,
                   starts, failed, configured>>

---------------------------------------------------------------------------
(* HTTP thread.                                                            *)

OnlyUser(r) == r.auth               \* mutant: there is always a database
is_authorization_valid(r) == r.auth /\ "database_path" \in config_toml.keys

Receive(r) ==
    /\ hpc = "idle" /\ acceptor = "open" /\ mpc # "down"
    /\ req' = r /\ k' = 1 /\ pack' = EmptyPack
    /\ \/ /\ ~is_authorization_valid(r)
          /\ hpc' = "reply" /\ answer' = [status |-> 401, save_path |-> None]
       \/ /\ is_authorization_valid(r)
          /\ hpc' = r.op /\ UNCHANGED answer
    /\ UNCHANGED <<disk, mpc, main, session, download_path, acceptor, last, late,
                   history>>

(* program_settings_set works off the members of "settings" in order:      *)
(* numbers are collected, the path goes into the configuration at once.    *)
NewTable(path) ==                   \* mutant: the table is replaced
    Table((config_toml.keys \ directory) \cup {"download_path"}, path)
set_config(path) ==
    [config_toml EXCEPT !.keys = @ \cup {"download_path"}, !.path = path]

program_settings_set ==
    /\ hpc = "set"
    /\ IF k > Len(req.settings)
       THEN hpc' = "apply" /\ UNCHANGED <<k, pack, config_toml, last, late>>
       ELSE LET s == req.settings[k] IN
            /\ k' = k + 1 /\ UNCHANGED hpc
            /\ \/ /\ s.name \in Names
                  /\ pack' = [pack EXCEPT ![s.name] = s.value]
                  /\ UNCHANGED <<config_toml, last, late>>
               \/ /\ s.name = "default_download_path"
                  /\ config_toml' = set_config(s.value) /\ last' = s.value
                  /\ late' = (late \/ mpc \in {"stop_server", "join"})
                  /\ UNCHANGED pack
    /\ UNCHANGED <<disk, mpc, shutdown_flag, session, download_path, acceptor, req,
                   answer, history>>

(* apply_settings: members that are not set keep their value.              *)
WholePack(p) == p                   \* mutant: all of the pack is applied
Applied(p)   == [n \in Names |-> IF p[n] = None THEN session[n] ELSE p[n]]

set_session_settings ==
    /\ hpc = "apply" /\ hpc' = "reply"
    /\ session' = Applied(pack)
    /\ answer' = [status |-> 200, save_path |-> None]
    /\ UNCHANGED <<disk, mpc, main, download_path, acceptor, req, k, pack, last,
                   late, history>>

(* torrents_add, for a torrent without a save_path of its own.             *)
torrents_add ==
    /\ hpc = "add" /\ hpc' = "reply"
    /\ answer' = [status |-> 202, save_path |-> download_path]
    /\ UNCHANGED <<disk, mpc, main, session, download_path, acceptor, req, k, pack,
                   last, late, history>>

Reply ==
    /\ hpc = "reply" /\ hpc' = "idle"
    /\ req' = None /\ k' = 1 /\ pack' = EmptyPack /\ answer' = NoAnswer
    /\ UNCHANGED <<disk, mpc, main, session, download_path, acceptor, last, late,
                   history>>

Main == CreateDefault \/ load_config \/ ParseFails \/ load_session_state \/ RestAPI
        \/ LeaveLoop \/ save_session_state \/ save_config \/ Write \/ stop_server \/ Join
Handler == program_settings_set \/ set_session_settings \/ torrents_add \/ Reply

Over == mpc = "down" /\ starts = MaxStarts /\ UNCHANGED vars

Next == \/ Start \/ Main \/ start_server \/ shutdown_program \/ Crash
        \/ (\E r \in Requests : Receive(r)) \/ Handler \/ Over

Spec == Init /\ [][Next]_vars

(* The operating system runs both threads.                                 *)
Fairness == WF_vars(Main) /\ WF_vars(start_server) /\ WF_vars(Handler)
FairSpec == Spec /\ Fairness

---------------------------------------------------------------------------
(* Properties.                                                             *)

(* A program that was once configured keeps every key it was started with  *)
(* over any number of requests, stops, crashes and starts; only a write of *)
(* config.toml that is cut short can take them (config.cpp:8-11 truncates  *)
(* the file, rewrites it and does not look at the result).                 *)
KeysLostOnlyByTornWrite ==
    Running /\ configured /\ torn = {} => config_toml.keys = AllKeys

(* Where no write was cut short, the path last set by a request, in this   *)
(* run or an earlier one, is the configured one, unless the run that set   *)
(* it never wrote it: it had saved the configuration before                *)
(* (torrentine.cpp:82-84), crashed first, or could not open the file       *)
(* (config.cpp:14-16).  The file then still has the path this run found.   *)
PathSurvivesRestarts ==
    torn = {} =>
       /\ Running => config_toml.path = last
       /\ mpc \in {"stop_server", "join"} /\ ~late /\ ~unsaved =>
             config_file.path = last
       /\ unsaved /\ download_path # None => config_file.path = download_path

(* set_config does not check that the table it inserts into is there       *)
(* (config.h:47-49).  It is: the same table has the path of the database   *)
(* that authorized the request.                                            *)
SetConfigFindsTheTable ==
    hpc = "set" /\ mpc # "down" => config_toml.keys \cap directory # {}

(* "so next time program starts it creates a new default config file"      *)
(* (torrentine.cpp:32): where the file can be moved away and the default   *)
(* one was always written whole, no two starts in a row fail.              *)
OneFailedStart == writable /\ "default" \notin torn => failed <= 1

(* Once the acceptor is open, stop_server returns and the program exits,   *)
(* whatever request is being served (torrentine.cpp:84).                   *)
StopReturns == (mpc = "stop_server" /\ acceptor = "open") ~> (mpc = "down")

(* A shutdown that has begun ends.                                         *)
ShutdownReturns == (mpc = "save_session_state") ~> (mpc = "down")
===========================================================================
