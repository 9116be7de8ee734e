-------------------------- MODULE ProgramProofs --------------------------
(***************************************************************************)
(* Proofs about Program: what requests, stops, starts and crashes may do   *)
(* to the configuration, for every set of paths, settings and requests.    *)
(***************************************************************************)
EXTENDS Program, TLAPS

USE DEF vars, disk, main, http, history, Main, Handler

---------------------------------------------------------------------------
(* Types.  A handler has a request.                                        *)

TypeInv == TypeOK /\ (hpc # "idle" => req \in Requests)

LEMMA InitTypes == Init => TypeInv
<1> SUFFICES ASSUME Init PROVE TypeInv
  OBVIOUS
<1> USE PathAssumption, ValueAssumption, StartsAssumption
<1>1. config_file \in Configs /\ last \in Paths \cup {None}
  BY DEF Init, Absent, Malformed, Table, AllKeys, Configs
<1>2. config_toml \in Configs
  BY DEF Init, Empty, Table, Configs
<1>3. session_file.form = "absent" /\ session_file.settings \in Settings
      /\ session \in Settings
  BY DEF Init, NoState, Settings
<1>4. pack \in [Names -> Values \cup {None}] /\ answer.status = 0
      /\ answer \in [status : {0, 200, 202, 401}, save_path : Paths \cup {None}]
  BY DEF Init, EmptyPack, NoAnswer
<1>5. configured \in BOOLEAN
  BY DEF Init
<1>6. shutdown_flag \in BOOLEAN /\ torn \subseteq {"default", "saved"}
      /\ unsaved \in BOOLEAN /\ late \in BOOLEAN /\ writable \in BOOLEAN
  BY DEF Init
<1>7. starts \in 0..MaxStarts /\ failed \in Nat /\ k \in Nat \ {0}
  BY DEF Init
<1>8. hpc = "idle" /\ req = None /\ mpc = "down" /\ acceptor = "none"
      /\ download_path = None
  BY DEF Init
<1> QED
  BY <1>1, <1>2, <1>3, <1>4, <1>5, <1>6, <1>7, <1>8 DEF TypeInv, TypeOK

LEMMA StartTypes == TypeInv /\ (Start \/ Crash \/ start_server \/ shutdown_program) => TypeInv'
<1> SUFFICES ASSUME TypeInv PROVE (Start \/ Crash \/ start_server \/ shutdown_program) => TypeInv'
  OBVIOUS
<1> USE PathAssumption, ValueAssumption, StartsAssumption DEF TypeInv, TypeOK
<1>1. ASSUME Start PROVE TypeInv'
  <2>1. config_toml' \in Configs
    BY <1>1 DEF Start, Empty, Table, Configs
  <2>2. session' \in Settings
    BY <1>1 DEF Start, NoState, Settings
  <2>3. last' \in Paths \cup {None}
    BY <1>1 DEF Start, Configs
  <2>4. starts' \in 0..MaxStarts
    BY <1>1 DEF Start
  <2>5. /\ mpc' = "load_config" /\ download_path' = None /\ acceptor' = "none"
        /\ shutdown_flag' = FALSE /\ late' = FALSE /\ unsaved' = FALSE
        /\ UNCHANGED <<disk, http, failed, configured, torn>>
    BY <1>1 DEF Start
  <2>6. /\ hpc' \in {"idle", "set", "apply", "add", "reply"} /\ k' \in Nat \ {0}
        /\ req' \in Requests \cup {None} /\ pack' \in [Names -> Values \cup {None}]
        /\ answer' \in [status : {0, 200, 202, 401}, save_path : Paths \cup {None}]
        /\ hpc' # "idle" => req' \in Requests
    BY <2>5
  <2>7. /\ config_file' \in Configs /\ session_file'.form \in {"absent", "printed"}
        /\ session_file'.settings \in Settings /\ writable' \in BOOLEAN
        /\ failed' \in Nat /\ configured' \in BOOLEAN
        /\ torn' \subseteq {"default", "saved"}
    BY <2>5
  <2>8. /\ shutdown_flag' \in BOOLEAN /\ late' \in BOOLEAN /\ unsaved' \in BOOLEAN
        /\ mpc' \in {"down", "load_config", "load_session_state", "RestAPI", "loop",
                     "save_session_state", "save_config", "write", "stop_server", "join"}
        /\ download_path' \in Paths \cup {None}
        /\ acceptor' \in {"none", "starting", "open", "closed"}
    BY <2>5
  <2> QED BY <2>1, <2>2, <2>3, <2>4, <2>6, <2>7, <2>8
<1>2. ASSUME Crash PROVE TypeInv'
  <2>1. pack' \in [Names -> Values \cup {None}]
        /\ answer' \in [status : {0, 200, 202, 401}, save_path : Paths \cup {None}]
    BY <1>2 DEF Crash, EmptyPack, NoAnswer
  <2>2. torn' \subseteq {"default", "saved"} /\ unsaved' \in BOOLEAN
    BY <1>2 DEF Crash
  <2> QED BY <1>2, <2>1, <2>2 DEF Crash
<1>3. ASSUME start_server PROVE TypeInv'
  BY <1>3 DEF start_server
<1>4. ASSUME shutdown_program PROVE TypeInv'
  BY <1>4 DEF shutdown_program
<1> QED BY <1>1, <1>2, <1>3, <1>4

(* What is left of a table is a table of the same kind, or does not parse. *)
LEMMA CutShortTypes ==
  ASSUME NEW f \in Configs PROVE CutShort(f) \subseteq Configs
<1>1. Malformed \in Configs
  BY DEF Malformed, Configs
<1>2. f.keys \subseteq AllKeys /\ f.path \in Paths \cup {None}
  BY DEF Configs
<1>3. ASSUME NEW ks \in SUBSET f.keys
      PROVE  Table(ks, IF "download_path" \in ks THEN f.path ELSE None) \in Configs
  BY <1>2, <1>3 DEF Table, Configs
<1> QED BY <1>1, <1>3 DEF CutShort

LEMMA TornTypes ==
  \A s, u : /\ s \subseteq {"default", "saved"}
            /\ u = s \/ u = s \cup {"default"} \/ u = s \cup {"saved"}
            => u \subseteq {"default", "saved"}
OBVIOUS

LEMMA MainTypes == TypeInv /\ Main => TypeInv'
<1> SUFFICES ASSUME TypeInv PROVE Main => TypeInv'
  OBVIOUS
<1> USE PathAssumption, ValueAssumption, StartsAssumption DEF TypeInv, TypeOK
<1>11. ASSUME CreateDefault PROVE TypeInv'
  <2>1. create_default_config_file \in Configs
    BY DEF create_default_config_file, Table, DefaultKeys, AllKeys, Configs
  <2>2. config_file' \in Configs
    BY <1>11, <2>1, CutShortTypes DEF CreateDefault
  <2>3. torn' \subseteq {"default", "saved"}
    <3>1. torn' = torn \/ torn' = torn \cup {"default"}
      BY <1>11 DEF CreateDefault
    <3>2. torn \subseteq {"default", "saved"}
      OBVIOUS
    <3> HIDE DEF TypeInv, TypeOK
    <3> QED BY <3>1, <3>2, TornTypes
  <2> QED BY <1>11, <2>2, <2>3 DEF CreateDefault
<1>1. ASSUME load_config PROVE TypeInv'
  BY <1>1 DEF load_config
<1>2. ASSUME ParseFails PROVE TypeInv'
  <2>1. config_file' \in Configs
    BY <1>2 DEF ParseFails, RenameToOld, Absent, Configs
  <2> QED BY <1>2, <2>1 DEF ParseFails
<1>3. ASSUME load_session_state PROVE TypeInv'
  BY <1>3 DEF load_session_state
<1>4. ASSUME RestAPI PROVE TypeInv'
  BY <1>4 DEF RestAPI, Configs
<1>5. ASSUME LeaveLoop PROVE TypeInv'
  BY <1>5 DEF LeaveLoop
<1>6. ASSUME save_session_state PROVE TypeInv'
  BY <1>6 DEF save_session_state, Printed
<1>7. ASSUME save_config PROVE TypeInv'
  <2>1. config_file' \in Configs
    BY <1>7 DEF save_config, Empty, Table, Configs
  <2>2. mpc' \in {"write", "stop_server"} /\ unsaved' \in BOOLEAN /\ UNCHANGED torn
    BY <1>7 DEF save_config
  <2> QED BY <1>7, <2>1, <2>2 DEF save_config
<1>8. ASSUME Write PROVE TypeInv'
  <2>1. config_file' \in Configs
    BY <1>8, CutShortTypes DEF Write, Written
  <2>2. torn' \subseteq {"default", "saved"}
    <3>1. torn' = torn \/ torn' = torn \cup {"saved"}
      BY <1>8 DEF Write
    <3>2. torn \subseteq {"default", "saved"}
      OBVIOUS
    <3> HIDE DEF TypeInv, TypeOK
    <3> QED BY <3>1, <3>2, TornTypes
  <2> QED BY <1>8, <2>1, <2>2 DEF Write
<1>9. ASSUME stop_server PROVE TypeInv'
  BY <1>9 DEF stop_server, Stopped
<1>10. ASSUME Join PROVE TypeInv'
  BY <1>10 DEF Join
<1> QED BY <1>1, <1>2, <1>3, <1>4, <1>5, <1>6, <1>7, <1>8, <1>9, <1>10, <1>11

(* The member that is worked off names the path or a setting.              *)
LEMMA MemberTypes ==
  ASSUME NEW r \in Requests, NEW i \in Nat \ {0}, i <= Len(r.settings)
  PROVE  /\ r.settings[i].name \in Names => r.settings[i].value \in Values
         /\ r.settings[i].name = "default_download_path" =>
               r.settings[i].value \in Paths
<1> DEFINE S == [name : Names, value : Values]
                   \cup [name : {"default_download_path"}, value : Paths]
<1>1. r.settings \in Seq(S)
  BY RequestAssumption
<1>2. i \in 1..Len(r.settings)
  BY <1>1
<1>3. r.settings[i] \in S
  BY <1>1, <1>2
<1> QED BY <1>3, NamesAssumption

LEMMA HttpTypes ==
  TypeInv /\ ((\E r \in Requests : Receive(r)) \/ Handler) => TypeInv'
<1> SUFFICES ASSUME TypeInv
             PROVE  (\E r \in Requests : Receive(r)) \/ Handler => TypeInv'
  OBVIOUS
<1> USE PathAssumption, ValueAssumption, StartsAssumption DEF TypeInv, TypeOK
<1>1. ASSUME NEW r \in Requests, Receive(r) PROVE TypeInv'
  <2>1. pack' \in [Names -> Values \cup {None}]
    BY <1>1 DEF Receive, EmptyPack
  <2>2. answer' \in [status : {0, 200, 202, 401}, save_path : Paths \cup {None}]
    BY <1>1 DEF Receive
  <2>3. hpc' \in {"set", "add", "reply"}
    BY <1>1, RequestAssumption DEF Receive
  <2> QED BY <1>1, <2>1, <2>2, <2>3 DEF Receive
<1>2. ASSUME program_settings_set PROVE TypeInv'
  <2>1. req \in Requests
    BY <1>2 DEF program_settings_set
  <2>2. CASE k > Len(req.settings)
    BY <1>2, <2>2 DEF program_settings_set
  <2>3. CASE ~(k > Len(req.settings))
    <3> DEFINE s == req.settings[k]
    <3>1. k <= Len(req.settings)
      <4>1. Len(req.settings) \in Nat
        BY <2>1, RequestAssumption
      <4> QED BY <2>3, <4>1
    <3>2. /\ s.name \in Names => s.value \in Values
          /\ s.name = "default_download_path" => s.value \in Paths
      BY <2>1, <3>1, MemberTypes
    <3>3. k' = k + 1 /\ hpc' = hpc
          /\ \/ /\ s.name \in Names
                /\ pack' = [pack EXCEPT ![s.name] = s.value]
                /\ UNCHANGED <<config_toml, last, late>>
             \/ /\ s.name = "default_download_path"
                /\ config_toml' = set_config(s.value) /\ last' = s.value
                /\ late' = (late \/ mpc \in {"stop_server", "join"})
                /\ UNCHANGED pack
      BY <1>2, <2>3 DEF program_settings_set
    <3>4. pack' \in [Names -> Values \cup {None}]
      BY <3>2, <3>3
    <3>5. config_toml' \in Configs
      <4>1. CASE config_toml' = config_toml
        BY <4>1
      <4>2. CASE s.value \in Paths /\ config_toml' = set_config(s.value)
        BY <4>2 DEF set_config, Configs, AllKeys
      <4> QED BY <3>2, <3>3, <4>1, <4>2
    <3>6. last' \in Paths \cup {None}
      BY <3>2, <3>3
    <3>7. late' \in BOOLEAN
      BY <3>3
    <3> QED BY <1>2, <3>3, <3>4, <3>5, <3>6, <3>7 DEF program_settings_set
  <2> QED BY <2>2, <2>3
<1>3. ASSUME set_session_settings PROVE TypeInv'
  <2>1. session' \in Settings
    BY <1>3 DEF set_session_settings, Applied, Settings
  <2> QED BY <1>3, <2>1 DEF set_session_settings
<1>4. ASSUME torrents_add PROVE TypeInv'
  BY <1>4 DEF torrents_add
<1>5. ASSUME Reply PROVE TypeInv'
  <2>1. pack' \in [Names -> Values \cup {None}]
        /\ answer' \in [status : {0, 200, 202, 401}, save_path : Paths \cup {None}]
    BY <1>5 DEF Reply, EmptyPack, NoAnswer
  <2> QED BY <1>5, <2>1 DEF Reply
<1> QED BY <1>1, <1>2, <1>3, <1>4, <1>5

LEMMA NextTypes == TypeInv /\ [Next]_vars => TypeInv'
<1>1. TypeInv /\ (Over \/ UNCHANGED vars) => TypeInv'
  <2>1. Over => UNCHANGED vars
    BY DEF Over
  <2>2. UNCHANGED vars => UNCHANGED <<torn, unsaved, configured, failed, starts>>
    OBVIOUS
  <2>3. TypeInv /\ UNCHANGED vars => TypeInv'
    BY <2>2 DEF TypeInv, TypeOK
  <2> QED BY <2>1, <2>3
<1> QED BY <1>1, StartTypes, MainTypes, HttpTypes DEF Next

(* The variables of the threads and of the disk keep their types, whatever *)
(* clients send.                                                           *)
THEOREM TypeCorrect == Spec => []TypeOK
<1>1. TypeInv => TypeOK
  BY DEF TypeInv
<1> QED BY InitTypes, NextTypes, <1>1, PTL DEF Spec
---------------------------------------------------------------------------
(* The configuration.                                                      *)

(* No request is served before the server runs; the one that sets the      *)
(* configuration was authorized by it.                                     *)
Served ==
    /\ mpc \in {"down", "load_config", "load_session_state", "RestAPI"} =>
          hpc = "idle"
    /\ acceptor \in {"starting", "open"} /\ mpc # "down" =>
          mpc \notin {"load_config", "load_session_state", "RestAPI"}
    /\ hpc = "set" => "database_path" \in config_toml.keys

(* All keys are in the file, except while it is being written.             *)
KeysOnDisk ==
    /\ Running => config_toml.kind = "table"
    /\ configured /\ torn = {} =>
         /\ mpc # "write" => config_file.kind = "table"
                             /\ config_file.keys = AllKeys
         /\ Running => config_toml.keys = AllKeys

(* A run begins with what the file has; until it writes the file, the file *)
(* has the path the run found there.                                       *)
FoundOnDisk ==
    /\ mpc \in {"load_config", "load_session_state", "RestAPI"} =>
          download_path = None /\ ~late /\ ~unsaved
    /\ mpc \in {"load_session_state", "RestAPI"} => config_toml = config_file
    /\ unsaved => mpc \in {"down", "stop_server", "join"}
    /\ torn = {} /\ download_path # None
       /\ (unsaved \/ mpc \in {"loop", "save_session_state", "save_config"}) =>
          config_file.path = download_path

(* The path last set is in memory while the program runs, and in the file  *)
(* when it does not.                                                       *)
PathOnDisk ==
    /\ config_file.kind # "table" => config_file.path = None
    /\ torn = {} =>
         /\ Running => config_toml.path = last
         /\ mpc \in {"down", "load_config", "stop_server", "join"}
              /\ ~late /\ ~unsaved =>
            config_file.path = last

(* After a failed start the file is gone, unless it cannot be renamed.     *)
FailedOnce ==
    /\ Running => failed = 0
    /\ writable /\ "default" \notin torn =>
          \/ failed = 0
          \/ failed = 1 /\ config_file.kind = "absent"
          \/ failed = 1 /\ mpc \in {"load_config", "down"} /\ config_file.kind = "table"

LEMMA SetConfig ==
  ASSUME config_toml \in Configs, NEW p
  PROVE  /\ set_config(p).keys = config_toml.keys \cup {"download_path"}
         /\ set_config(p).kind = config_toml.kind /\ set_config(p).path = p
<1>1. PICK kd, ks, pa : config_toml = [kind |-> kd, keys |-> ks, path |-> pa]
  BY DEF Configs
<1> QED BY <1>1 DEF set_config

LEMMA InitConfig ==
  Init => Served /\ KeysOnDisk /\ FoundOnDisk /\ PathOnDisk /\ FailedOnce
<1> SUFFICES ASSUME Init
             PROVE  Served /\ KeysOnDisk /\ FoundOnDisk /\ PathOnDisk /\ FailedOnce
  OBVIOUS
<1>1. Served BY DEF Init, Served
<1>2. KeysOnDisk
  <2>1. config_file \in {Absent, Malformed}
        \/ \E p \in Paths : config_file = Table(AllKeys, p)
    BY DEF Init
  <2>2. config_file.kind = "table" => config_file.keys = AllKeys
    BY <2>1 DEF Absent, Malformed, Table
  <2> QED BY <2>2 DEF Init, KeysOnDisk, Running
<1>3. PathOnDisk
  <2>1. config_file \in {Absent, Malformed}
        \/ \E p \in Paths : config_file = Table(AllKeys, p)
    BY DEF Init
  <2>2. config_file.kind # "table" => config_file.path = None
    BY <2>1 DEF Absent, Malformed, Table
  <2> QED BY <2>2 DEF Init, PathOnDisk, Running
<1>4. FailedOnce BY DEF Init, FailedOnce, Running
<1>5. FoundOnDisk BY DEF Init, FoundOnDisk
<1> QED BY <1>1, <1>2, <1>3, <1>4, <1>5

LEMMA NextServed == TypeInv /\ Served /\ [Next]_vars => Served'
<1> SUFFICES ASSUME TypeInv, Served, [Next]_vars PROVE Served'
  OBVIOUS
<1> USE DEF Served
<1>1. CASE Start BY <1>1 DEF Start
<1>2. CASE load_config BY <1>2 DEF load_config
<1>3. CASE ParseFails BY <1>3 DEF ParseFails
<1>4. CASE load_session_state BY <1>4 DEF load_session_state
<1>5. CASE RestAPI BY <1>5 DEF RestAPI
<1>6. CASE start_server BY <1>6 DEF start_server
<1>7. CASE shutdown_program BY <1>7 DEF shutdown_program
<1>8. CASE LeaveLoop BY <1>8 DEF LeaveLoop
<1>9. CASE save_session_state BY <1>9 DEF save_session_state
<1>10. CASE save_config BY <1>10 DEF save_config
<1>11. CASE Write BY <1>11 DEF Write
<1>12. CASE stop_server
  BY <1>12 DEF stop_server, Stopped
<1>13. CASE Join BY <1>13 DEF Join
<1>14. CASE Crash BY <1>14 DEF Crash
<1>15. CASE \E r \in Requests : Receive(r)
  <2> PICK r \in Requests : Receive(r) BY <1>15
  <2> QED BY RequestAssumption DEF Receive, is_authorization_valid
<1>16. CASE program_settings_set
  <2>1. UNCHANGED config_toml \/ \E p : config_toml' = set_config(p)
    BY <1>16 DEF program_settings_set
  <2>2. config_toml' = config_toml
          \/ config_toml'.keys = config_toml.keys \cup {"download_path"}
    BY <2>1, SetConfig DEF TypeInv, TypeOK
  <2> QED BY <1>16, <2>2 DEF program_settings_set
<1>17. CASE set_session_settings BY <1>17 DEF set_session_settings
<1>18. CASE torrents_add BY <1>18 DEF torrents_add
<1>19. CASE Reply BY <1>19 DEF Reply
<1>20. CASE Over BY <1>20 DEF Over
<1>21. CASE UNCHANGED vars BY <1>21
<1>22. CASE CreateDefault BY <1>22 DEF CreateDefault
<1> QED
  BY <1>1, <1>2, <1>3, <1>4, <1>5, <1>6, <1>7, <1>8, <1>9, <1>10,
     <1>11, <1>12, <1>13, <1>14, <1>15, <1>16, <1>17, <1>18, <1>19, <1>20, <1>21,
     <1>22 DEF Next

LEMMA NextKeys == TypeInv /\ Served /\ KeysOnDisk /\ [Next]_vars => KeysOnDisk'
<1> SUFFICES ASSUME TypeInv, Served, KeysOnDisk, [Next]_vars PROVE KeysOnDisk'
  OBVIOUS
<1> USE DEF KeysOnDisk, Running
<1>1. CASE Start BY <1>1 DEF Start
<1>2. CASE load_config BY <1>2 DEF load_config
<1>3. CASE ParseFails BY <1>3 DEF ParseFails
<1>4. CASE load_session_state BY <1>4 DEF load_session_state
<1>5. CASE RestAPI BY <1>5 DEF RestAPI
<1>6. CASE start_server BY <1>6 DEF start_server
<1>7. CASE shutdown_program BY <1>7 DEF shutdown_program
<1>8. CASE LeaveLoop BY <1>8 DEF LeaveLoop
<1>9. CASE save_session_state BY <1>9 DEF save_session_state
<1>10. CASE save_config BY <1>10 DEF save_config
<1>11. CASE Write
  <2>1. torn' = {} => torn = {} /\ config_file' = config_toml
    BY <1>11 DEF Write, Written
  <2> QED BY <1>11, <2>1 DEF Write
<1>12. CASE stop_server BY <1>12 DEF stop_server
<1>13. CASE Join BY <1>13 DEF Join
<1>14. CASE Crash
  <2>1. torn' = {} => torn = {} /\ mpc # "write"
    BY <1>14 DEF Crash
  <2> QED BY <1>14, <2>1 DEF Crash
<1>15. CASE \E r \in Requests : Receive(r)
  <2> PICK r \in Requests : Receive(r) BY <1>15
  <2> QED BY RequestAssumption DEF Receive
<1>16. CASE program_settings_set
  <2>1. UNCHANGED config_toml \/ \E p : config_toml' = set_config(p)
    BY <1>16 DEF program_settings_set
  <2>2. config_toml' = config_toml
          \/ /\ config_toml'.keys = config_toml.keys \cup {"download_path"}
             /\ config_toml'.kind = config_toml.kind
    BY <2>1, SetConfig DEF TypeInv, TypeOK
  <2>3. config_toml.keys = AllKeys => config_toml'.keys = AllKeys
    BY <2>2 DEF AllKeys
  <2> QED BY <1>16, <2>2, <2>3 DEF program_settings_set
<1>17. CASE set_session_settings BY <1>17 DEF set_session_settings
<1>18. CASE torrents_add BY <1>18 DEF torrents_add
<1>19. CASE Reply BY <1>19 DEF Reply
<1>20. CASE Over BY <1>20 DEF Over
<1>21. CASE UNCHANGED vars BY <1>21
<1>22. CASE CreateDefault
  <2>1. torn' = {} => torn = {}
    BY <1>22 DEF CreateDefault
  <2> QED BY <1>22, <2>1 DEF CreateDefault
<1> QED
  BY <1>1, <1>2, <1>3, <1>4, <1>5, <1>6, <1>7, <1>8, <1>9, <1>10,
     <1>11, <1>12, <1>13, <1>14, <1>15, <1>16, <1>17, <1>18, <1>19, <1>20, <1>21,
     <1>22 DEF Next

LEMMA NextFound == TypeInv /\ Served /\ FoundOnDisk /\ [Next]_vars => FoundOnDisk'
<1> SUFFICES ASSUME TypeInv, Served, FoundOnDisk, [Next]_vars PROVE FoundOnDisk'
  OBVIOUS
<1> USE DEF FoundOnDisk, Running
<1>1. CASE Start BY <1>1 DEF Start
<1>2. CASE load_config BY <1>2 DEF load_config
<1>3. CASE ParseFails BY <1>3 DEF ParseFails
<1>4. CASE load_session_state BY <1>4 DEF load_session_state
<1>5. CASE RestAPI BY <1>5 DEF RestAPI
<1>6. CASE start_server BY <1>6 DEF start_server
<1>7. CASE shutdown_program BY <1>7 DEF shutdown_program
<1>8. CASE LeaveLoop BY <1>8 DEF LeaveLoop
<1>9. CASE save_session_state BY <1>9 DEF save_session_state
<1>10. CASE save_config BY <1>10 DEF save_config
<1>11. CASE Write BY <1>11 DEF Write
<1>12. CASE stop_server BY <1>12 DEF stop_server
<1>13. CASE Join BY <1>13 DEF Join
<1>14. CASE Crash
  <2>1. torn' = {} => torn = {} /\ mpc # "write"
    BY <1>14 DEF Crash
  <2>2. unsaved' => unsaved \/ mpc \in {"load_session_state", "RestAPI", "loop",
                                       "save_session_state", "save_config"}
    BY <1>14 DEF Crash, TypeInv, TypeOK
  <2> QED BY <1>14, <2>1, <2>2 DEF Crash
<1>15. CASE \E r \in Requests : Receive(r)
  <2> PICK r \in Requests : Receive(r) BY <1>15
  <2> QED BY RequestAssumption DEF Receive
<1>16. CASE program_settings_set
  <2>1. mpc \notin {"down", "load_config", "load_session_state", "RestAPI"}
    BY <1>16 DEF program_settings_set, Served
  <2> QED BY <1>16, <2>1 DEF program_settings_set
<1>17. CASE set_session_settings BY <1>17 DEF set_session_settings
<1>18. CASE torrents_add BY <1>18 DEF torrents_add
<1>19. CASE Reply BY <1>19 DEF Reply
<1>20. CASE Over BY <1>20 DEF Over
<1>21. CASE UNCHANGED vars BY <1>21
<1>22. CASE CreateDefault BY <1>22 DEF CreateDefault
<1> QED
  BY <1>1, <1>2, <1>3, <1>4, <1>5, <1>6, <1>7, <1>8, <1>9, <1>10,
     <1>11, <1>12, <1>13, <1>14, <1>15, <1>16, <1>17, <1>18, <1>19, <1>20, <1>21,
     <1>22 DEF Next

LEMMA NextPath ==
  TypeInv /\ Served /\ KeysOnDisk /\ FoundOnDisk /\ PathOnDisk /\ [Next]_vars => PathOnDisk'
<1> SUFFICES ASSUME TypeInv, Served, KeysOnDisk, FoundOnDisk, PathOnDisk, [Next]_vars
             PROVE  PathOnDisk'
  OBVIOUS
<1> USE DEF PathOnDisk, Running
<1>1. CASE Start
  <2>1. mpc = "down" /\ config_file' = config_file /\ torn' = torn
    BY <1>1 DEF Start
  <2>2. torn = {} => last' = config_file.path
    BY <1>1 DEF Start
  <2> QED BY <1>1, <2>1, <2>2 DEF Start
<1>2. CASE load_config BY <1>2 DEF load_config, FoundOnDisk
<1>3. CASE ParseFails
  <2>1. config_file' = config_file \/ (config_file'.path = None /\ config_file.path = None)
    BY <1>3 DEF ParseFails, RenameToOld, Absent
  <2> QED BY <1>3, <2>1 DEF ParseFails
<1>4. CASE load_session_state BY <1>4 DEF load_session_state
<1>5. CASE RestAPI BY <1>5 DEF RestAPI
<1>6. CASE start_server BY <1>6 DEF start_server
<1>7. CASE shutdown_program BY <1>7 DEF shutdown_program
<1>8. CASE LeaveLoop BY <1>8 DEF LeaveLoop
<1>9. CASE save_session_state BY <1>9 DEF save_session_state
<1>10. CASE save_config BY <1>10 DEF save_config, Empty, Table
<1>11. CASE Write
  <2>1. torn' = {} => torn = {} /\ config_file' = config_toml
    BY <1>11 DEF Write, Written
  <2>2. config_file'.kind # "table" => config_file'.path = None
    <3>1. \A f \in CutShort(config_toml) : f.kind # "table" => f.path = None
      BY DEF CutShort, Malformed, Table
    <3> QED BY <1>11, <3>1 DEF Write, Written, KeysOnDisk
  <2> QED BY <1>11, <2>1, <2>2 DEF Write
<1>12. CASE stop_server BY <1>12 DEF stop_server
<1>13. CASE Join BY <1>13 DEF Join
<1>14. CASE Crash
  <2>1. torn' = {} => torn = {} /\ mpc # "write"
    BY <1>14 DEF Crash
  <2> QED BY <1>14, <2>1 DEF Crash
<1>15. CASE \E r \in Requests : Receive(r)
  <2> PICK r \in Requests : Receive(r) BY <1>15
  <2> QED BY RequestAssumption DEF Receive
<1>16. CASE program_settings_set
  <2>1. \/ UNCHANGED <<config_toml, last, late>>
        \/ \E p : /\ config_toml' = set_config(p) /\ last' = p
                 /\ late' = (late \/ mpc \in {"stop_server", "join"})
    BY <1>16 DEF program_settings_set
  <2>2. \/ UNCHANGED <<config_toml, last, late>>
        \/ /\ config_toml'.path = last'
           /\ mpc \in {"stop_server", "join"} => late'
    <3>1. ASSUME NEW p, config_toml' = set_config(p), last' = p
          PROVE  config_toml'.path = last'
      BY <3>1, SetConfig DEF TypeInv, TypeOK
    <3> QED BY <2>1, <3>1
  <2>3. mpc \notin {"down", "load_config"}
    BY <1>16 DEF program_settings_set, Served
  <2> QED BY <1>16, <2>2, <2>3 DEF program_settings_set
<1>17. CASE set_session_settings BY <1>17 DEF set_session_settings
<1>18. CASE torrents_add BY <1>18 DEF torrents_add
<1>19. CASE Reply BY <1>19 DEF Reply
<1>20. CASE Over BY <1>20 DEF Over
<1>21. CASE UNCHANGED vars BY <1>21
<1>22. CASE CreateDefault
  <2>1. /\ create_default_config_file.kind = "table"
        /\ create_default_config_file.path = DefaultPath
    BY DEF create_default_config_file, Table
  <2>2. \A f \in CutShort(create_default_config_file) :
           f.kind # "table" => f.path = None
    BY DEF CutShort, Malformed, Table
  <2>3. torn' = {} => torn = {} /\ config_file' = create_default_config_file
    BY <1>22 DEF CreateDefault
  <2>4. config_file'.kind # "table" => config_file'.path = None
    BY <1>22, <2>1, <2>2 DEF CreateDefault
  <2> QED BY <1>22, <2>1, <2>3, <2>4 DEF CreateDefault
<1> QED
  BY <1>1, <1>2, <1>3, <1>4, <1>5, <1>6, <1>7, <1>8, <1>9, <1>10,
     <1>11, <1>12, <1>13, <1>14, <1>15, <1>16, <1>17, <1>18, <1>19, <1>20, <1>21,
     <1>22 DEF Next

LEMMA NextFailed == TypeInv /\ Served /\ FailedOnce /\ [Next]_vars => FailedOnce'
<1> SUFFICES ASSUME TypeInv, Served, FailedOnce, [Next]_vars PROVE FailedOnce'
  OBVIOUS
<1> USE DEF FailedOnce, Running
<1>1. CASE Start BY <1>1 DEF Start
<1>2. CASE load_config BY <1>2 DEF load_config
<1>3. CASE ParseFails
  BY <1>3 DEF ParseFails, RenameToOld, Absent
<1>4. CASE load_session_state BY <1>4 DEF load_session_state
<1>5. CASE RestAPI BY <1>5 DEF RestAPI
<1>6. CASE start_server BY <1>6 DEF start_server
<1>7. CASE shutdown_program BY <1>7 DEF shutdown_program
<1>8. CASE LeaveLoop BY <1>8 DEF LeaveLoop
<1>9. CASE save_session_state BY <1>9 DEF save_session_state
<1>10. CASE save_config BY <1>10 DEF save_config
<1>11. CASE Write BY <1>11 DEF Write
<1>12. CASE stop_server BY <1>12 DEF stop_server
<1>13. CASE Join BY <1>13 DEF Join
<1>14. CASE Crash BY <1>14 DEF Crash
<1>15. CASE \E r \in Requests : Receive(r)
  <2> PICK r \in Requests : Receive(r) BY <1>15
  <2> QED BY RequestAssumption DEF Receive
<1>16. CASE program_settings_set
  BY <1>16 DEF program_settings_set, Served
<1>17. CASE set_session_settings BY <1>17 DEF set_session_settings
<1>18. CASE torrents_add BY <1>18 DEF torrents_add
<1>19. CASE Reply BY <1>19 DEF Reply
<1>20. CASE Over BY <1>20 DEF Over
<1>21. CASE UNCHANGED vars BY <1>21
<1>22. CASE CreateDefault
  <2>1. create_default_config_file.kind = "table"
    BY DEF create_default_config_file, Table
  <2>2. "default" \notin torn' =>
           "default" \notin torn /\ config_file' = create_default_config_file
    BY <1>22 DEF CreateDefault
  <2> QED BY <1>22, <2>1, <2>2 DEF CreateDefault
<1> QED
  BY <1>1, <1>2, <1>3, <1>4, <1>5, <1>6, <1>7, <1>8, <1>9, <1>10,
     <1>11, <1>12, <1>13, <1>14, <1>15, <1>16, <1>17, <1>18, <1>19, <1>20, <1>21,
     <1>22 DEF Next

---------------------------------------------------------------------------
(* The theorems.                                                           *)

IInv == TypeInv /\ Served /\ KeysOnDisk /\ FoundOnDisk /\ PathOnDisk /\ FailedOnce

LEMMA Invariant == Spec => []IInv
<1>1. Init => IInv
  BY InitTypes, InitConfig DEF IInv
<1>2. IInv /\ [Next]_vars => IInv'
  BY NextTypes, NextServed, NextKeys, NextFound, NextPath, NextFailed DEF IInv
<1> QED BY <1>1, <1>2, PTL DEF Spec

(* A program that was once configured keeps every key of its configuration *)
(* through all requests, stops, crashes and starts; only a write that is   *)
(* cut short takes them.                                                   *)
THEOREM KeysKept == Spec => []KeysLostOnlyByTornWrite
<1>1. IInv => KeysLostOnlyByTornWrite
  BY DEF IInv, KeysOnDisk, KeysLostOnlyByTornWrite
<1> QED BY Invariant, <1>1, PTL

(* Where no write was cut short, the path a request sets stays set, in     *)
(* this run and in the next ones, unless its run did not write the file or *)
(* had written it before; a run that does not write it leaves the path it  *)
(* found.                                                                  *)
THEOREM PathKept == Spec => []PathSurvivesRestarts
<1>1. IInv => PathSurvivesRestarts
  BY DEF IInv, FoundOnDisk, PathOnDisk, PathSurvivesRestarts
<1> QED BY Invariant, <1>1, PTL

(* set_config always finds its table, although it does not look: the       *)
(* request was authorized with a key of that table.                        *)
THEOREM TableFound == Spec => []SetConfigFindsTheTable
<1>1. IInv => SetConfigFindsTheTable
  BY DEF IInv, Served, SetConfigFindsTheTable, directory, AllKeys
<1> QED BY Invariant, <1>1, PTL

(* A configuration that cannot be parsed costs one start, unless the       *)
(* default one was not written whole.                                      *)
THEOREM FailsOnce == Spec => []OneFailedStart
<1>1. IInv => OneFailedStart
  BY DEF IInv, FailedOnce, OneFailedStart
<1> QED BY Invariant, <1>1, PTL
===========================================================================
