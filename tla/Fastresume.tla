--------------------------- MODULE Fastresume ---------------------------
(***************************************************************************)
(* Saving and loading fastresume data.  Once a minute, and once more at    *)
(* shutdown, the main thread asks libtorrent for the resume data of every  *)
(* torrent that changed, counts the requests in outstanding_resume_data,   *)
(* and writes each answer to <info_hash>.fastresume; the next start adds   *)
(* the torrents it finds there.  Meanwhile libtorrent works on, and the    *)
(* HTTP thread adds and removes torrents.                                  *)
(*                                                                         *)
(* The vector of torrents is the set `torrents' here: what the two threads *)
(* do to its slots is the subject of TorrentRegistry.  Resume data is a    *)
(* version: the number of changes the torrent has seen, 0 while it has no  *)
(* metadata.                                                               *)
(***************************************************************************)
EXTENDS Integers, Sequences, SequencesExt, FiniteSets

CONSTANTS
    Torrents,
    MaxVersion,    \* bound: changes of one torrent
    MaxAlerts,     \* bound: alerts libtorrent has queued
    MaxSaves,      \* bound: periodic saves of one run of the program
    MaxStarts,     \* bound: starts of the program
    None

ASSUME VersionAssumption == MaxVersion \in Nat \ {0}
ASSUME BoundsAssumption == MaxSaves \in Nat /\ MaxStarts \in Nat \ {0}
ASSUME NoneAssumption == None \notin Torrents

VARIABLES
    path,          \* directory.fastresume_path is in the configuration
    files,         \* the .fastresume files: a version, or Torn
    \* libtorrent: torrents added asynchronously, torrents in the session,
    \* their state, the state they think saved, requests for resume data
    adding, session, data, saved, asked, alerts,
    \* TorrentManager
    torrents, outstanding_resume_data,
    \* main thread; nulled: an erase left the end of its scan a null pointer
    mpc, batch, todo, nulled, writing, saves, final, shutdown_flag,
    \* HTTP thread: the torrent it is removing
    removing,
    \* the past: torrents clients added and removed, newest version ever
    \* written, torrents whose last write fell short, version asked for in this
    \* save, torrents it could not save, answers check_alerts dropped
    fresh, removed, best, spoilt, wanted, refused, leaked, starts

disk    == <<path, files, best, spoilt, starts>>
libt    == <<adding, session, data, saved, asked>>
main    == <<todo, nulled, writing, saves, final>>
manager == <<torrents, outstanding_resume_data>>
clients == <<fresh, removed, removing>>
request == <<wanted, refused>>
vars    == <<disk, libt, alerts, manager, mpc, batch, main, shutdown_flag,
             clients, request, leaked>>

Torn     == -1             \* truncated, not yet written
Versions == 0..MaxVersion  \* 0 is no file, or no metadata

Alerts == [kind : {"resume", "failed", "added", "other"},
           torrent : Torrents \cup {None}, version : Versions]
AnswersIn(q) == {i \in DOMAIN q : q[i].kind \in {"resume", "failed"}}

TypeOK ==
    /\ path \in BOOLEAN
    /\ files \in [Torrents -> Versions \cup {Torn}]
    /\ adding \subseteq Torrents /\ session \subseteq Torrents
    /\ data \in [Torrents -> Versions] /\ saved \in [Torrents -> Versions]
    /\ asked \in Seq(Torrents)
    /\ alerts \in Seq(Alerts) /\ batch \in Seq(Alerts)
    /\ torrents \subseteq Torrents /\ outstanding_resume_data \in Nat
    /\ mpc \in {"check", "handle", "turn", "loop", "scan", "wait", "drain",
                "write", "done", "exited", "down"}
    /\ todo \subseteq Torrents /\ nulled \in BOOLEAN
    /\ writing \in [torrent : Torrents \cup {None}, version : Versions]
    /\ saves \in 0..MaxSaves /\ final \in BOOLEAN /\ shutdown_flag \in BOOLEAN
    /\ removing \in Torrents \cup {None}
    /\ fresh \subseteq Torrents /\ removed \subseteq Torrents
    /\ best \in [Torrents -> Versions] /\ wanted \in [Torrents -> Versions]
    /\ refused \subseteq Torrents /\ spoilt \subseteq Torrents
    /\ leaked \in Nat /\ starts \in 1..MaxStarts

NoWrite == [torrent |-> None, version |-> 0]

Init ==
    /\ path \in BOOLEAN
    /\ files = [t \in Torrents |-> 0] /\ best = files /\ starts = 1
    /\ adding = {} /\ session = {}
    /\ data = [t \in Torrents |-> 0] /\ saved = data
    /\ asked = <<>> /\ alerts = <<>> /\ batch = <<>>
    /\ torrents = {} /\ outstanding_resume_data = 0
    /\ mpc = "loop" /\ todo = {} /\ nulled = FALSE /\ writing = NoWrite
    /\ saves = 0 /\ final = FALSE /\ shutdown_flag = FALSE
    /\ removing = None /\ fresh = Torrents /\ removed = {}
    /\ wanted = data /\ refused = {} /\ spoilt = {} /\ leaked = 0

Alive == mpc \notin {"exited", "down"}

---------------------------------------------------------------------------
(* libtorrent.                                                             *)

Post(a) == Len(alerts) < MaxAlerts /\ alerts' = Append(alerts, a)

(* An added torrent joins the session; add_torrent_alert tells.            *)
SessionAdds(t) ==
    /\ Alive /\ t \in adding
    /\ adding' = adding \ {t} /\ session' = session \cup {t}
    /\ Post([kind |-> "added", torrent |-> t, version |-> 0])
    /\ UNCHANGED <<disk, data, saved, asked, manager, mpc, batch, main,
                   shutdown_flag, clients, request, leaked>>

(* The torrent changes; the first change of a magnet is its metadata.      *)
(* A paused session is quiet.                                              *)
Progress(t) ==
    /\ Alive /\ ~final /\ t \in session /\ data[t] < MaxVersion
    /\ data' = [data EXCEPT ![t] = @ + 1]
    /\ UNCHANGED <<disk, adding, session, saved, asked, alerts, manager, mpc,
                   batch, main, shutdown_flag, clients, request, leaked>>

(* A request is answered by one alert, in any order between torrents.  An  *)
(* unchanged torrent gives save_resume_data_failed_alert; a changed one    *)
(* may, too.                                                               *)
Answer ==
    /\ Alive
    /\ \E i \in DOMAIN asked :
         LET t == asked[i] IN
         /\ \A j \in 1..(i - 1) : asked[j] # t
         /\ asked' = RemoveAt(asked, i)
         /\ \/ /\ Post([kind |-> "failed", torrent |-> t, version |-> 0])
               /\ UNCHANGED saved
            \/ /\ data[t] # saved[t]
               /\ Post([kind |-> "resume", torrent |-> t, version |-> data[t]])
               /\ saved' = [saved EXCEPT ![t] = data[t]]
    /\ UNCHANGED <<disk, adding, session, data, manager, mpc, batch, main,
                   shutdown_flag, clients, request, leaked>>

(* Any other alert.                                                        *)
OtherAlert ==
    /\ Alive
    /\ Post([kind |-> "other", torrent |-> None, version |-> 0])
    /\ UNCHANGED <<disk, libt, manager, mpc, batch, main, shutdown_flag,
                   clients, request, leaked>>

---------------------------------------------------------------------------
(* The main loop.                                                          *)

(* check_alerts with no argument pops; the batch is then worked off.       *)
CheckAlerts ==
    /\ mpc = "check"
    /\ batch' = alerts /\ alerts' = <<>> /\ mpc' = "handle"
    /\ UNCHANGED <<disk, libt, manager, main, shutdown_flag, clients, request,
                   leaked>>

(* One alert in check_alerts: resume data has no case in its switch.       *)
HandleAlert(a) ==
    /\ torrents' = IF a.kind = "added" THEN torrents \cup {a.torrent}
                   ELSE torrents
    /\ leaked' = IF a.kind \in {"resume", "failed"} THEN leaked + 1 ELSE leaked

HandleNext ==
    /\ mpc = "handle" /\ batch # <<>>
    /\ HandleAlert(Head(batch)) /\ batch' = Tail(batch)
    /\ UNCHANGED <<disk, libt, alerts, outstanding_resume_data, mpc, main,
                   shutdown_flag, clients, request>>

HandleDone ==
    /\ mpc = "handle" /\ batch = <<>>
    /\ mpc' = "turn"
    /\ UNCHANGED <<disk, libt, alerts, manager, batch, main, shutdown_flag,
                   clients, request, leaked>>

StartScanResets ==          \* mutant: every save counts from 0
    /\ todo' = torrents /\ nulled' = FALSE
    /\ wanted' = [t \in Torrents |-> 0] /\ refused' = {}
    /\ outstanding_resume_data' = 0
StartScan ==
    /\ todo' = torrents /\ nulled' = FALSE
    /\ wanted' = [t \in Torrents |-> 0] /\ refused' = {}
    /\ UNCHANGED outstanding_resume_data
BeginSave == StartScan /\ mpc' = IF path THEN "scan" ELSE "done"

(* After wait_for_alert: a minute has passed since the last save, or not.  *)
PeriodicSave ==
    /\ mpc = "turn" /\ saves < MaxSaves
    /\ BeginSave /\ saves' = saves + 1
    /\ UNCHANGED <<disk, libt, alerts, torrents, batch, writing, final,
                   shutdown_flag, clients, leaked>>

NoSaveYet ==
    /\ mpc = "turn" /\ mpc' = "loop"
    /\ UNCHANGED <<disk, libt, alerts, manager, batch, main, shutdown_flag,
                   clients, request, leaked>>

NextTurn ==
    /\ mpc = "loop" /\ ~shutdown_flag /\ mpc' = "check"
    /\ UNCHANGED <<disk, libt, alerts, manager, batch, main, shutdown_flag,
                   clients, request, leaked>>

(* pause_session and the last save.                                        *)
ShutdownSave ==
    /\ mpc = "loop" /\ shutdown_flag
    /\ BeginSave /\ final' = TRUE
    /\ UNCHANGED <<disk, libt, alerts, torrents, batch, writing, saves,
                   shutdown_flag, clients, leaked>>

SaveDone ==
    /\ mpc = "done" /\ mpc' = IF final THEN "exited" ELSE "loop"
    /\ UNCHANGED <<disk, libt, alerts, manager, batch, main, shutdown_flag,
                   clients, request, leaked>>

---------------------------------------------------------------------------
(* save_fastresume.                                                        *)

Ask(t) ==
    /\ asked' = Append(asked, t)
    /\ outstanding_resume_data' = outstanding_resume_data + 1
    /\ wanted' = [wanted EXCEPT ![t] = data[t]] /\ UNCHANGED refused

NeedsSave(t) == data[t] # 0 /\ data[t] # saved[t]

ScanAsk(t) ==
    /\ mpc = "scan" /\ t \in todo /\ NeedsSave(t)
    /\ Ask(t) /\ todo' = todo \ {t}
    /\ UNCHANGED <<disk, adding, session, data, saved, alerts, torrents, mpc,
                   batch, nulled, writing, saves, final, shutdown_flag,
                   clients, leaked>>

(* No metadata, nothing to save, or no longer a valid handle.              *)
ScanSkip(t) ==
    /\ mpc = "scan" /\ t \in todo
    /\ ~NeedsSave(t) \/ t \notin session
    /\ todo' = todo \ {t}
    /\ UNCHANGED <<disk, libt, alerts, manager, mpc, batch, nulled, writing,
                   saves, final, shutdown_flag, clients, request, leaked>>

ScanDone ==
    /\ mpc = "scan" /\ todo = {} /\ ~nulled /\ mpc' = "wait"
    /\ UNCHANGED <<disk, libt, alerts, manager, batch, main, shutdown_flag,
                   clients, request, leaked>>

AllAnswered ==
    /\ mpc = "wait" /\ outstanding_resume_data = 0 /\ mpc' = "done"
    /\ UNCHANGED <<disk, libt, alerts, manager, batch, main, shutdown_flag,
                   clients, request, leaked>>

(* No alert for 10 seconds: the loop ends, the counter keeps its value.    *)
Timeout ==
    /\ mpc = "wait" /\ outstanding_resume_data > 0 /\ alerts = <<>>
    /\ mpc' = "done"
    /\ UNCHANGED <<disk, libt, alerts, manager, batch, main, shutdown_flag,
                   clients, request, leaked>>

Pop ==
    /\ mpc = "wait" /\ outstanding_resume_data > 0 /\ alerts # <<>>
    /\ batch' = alerts /\ alerts' = <<>> /\ mpc' = "drain"
    /\ UNCHANGED <<disk, libt, manager, main, shutdown_flag, clients, request,
                   leaked>>

NextAlertIsLast == [first |-> Last(batch), rest |-> Front(batch)]  \* mutant
NextAlert == [first |-> Head(batch), rest |-> Tail(batch)]

DrainOther ==
    /\ mpc = "drain" /\ batch # <<>>
    /\ NextAlert.first.kind \notin {"resume", "failed"}
    /\ HandleAlert(NextAlert.first) /\ batch' = NextAlert.rest
    /\ UNCHANGED <<disk, libt, alerts, outstanding_resume_data, mpc, main,
                   shutdown_flag, clients, request>>

DrainFailedUncounted ==      \* mutant: only answers with data are counted
    /\ mpc = "drain" /\ batch # <<>> /\ NextAlert.first.kind = "failed"
    /\ refused' = refused \cup {NextAlert.first.torrent}
    /\ batch' = NextAlert.rest
    /\ UNCHANGED <<disk, libt, alerts, manager, mpc, main, shutdown_flag,
                   clients, wanted, leaked>>
DrainFailed ==
    /\ mpc = "drain" /\ batch # <<>> /\ NextAlert.first.kind = "failed"
    /\ outstanding_resume_data' = outstanding_resume_data - 1
    /\ refused' = refused \cup {NextAlert.first.torrent}
    /\ batch' = NextAlert.rest
    /\ UNCHANGED <<disk, libt, alerts, torrents, mpc, main, shutdown_flag,
                   clients, wanted, leaked>>

WriteFileUnflushed ==        \* mutant: the stream is flushed later
    /\ mpc = "write"
    /\ best' = [best EXCEPT ![writing.torrent] = writing.version]
    /\ writing' = NoWrite /\ mpc' = "drain"
    /\ UNCHANGED <<path, starts, files, spoilt, libt, alerts, manager, batch,
                   todo, nulled, saves, final, shutdown_flag, clients, request,
                   leaked>>

(* An answer with data: the file is opened, which empties it, or cannot be.*)
DrainResume ==
    /\ mpc = "drain" /\ batch # <<>> /\ NextAlert.first.kind = "resume"
    /\ outstanding_resume_data' = outstanding_resume_data - 1
    /\ batch' = NextAlert.rest
    /\ LET t == NextAlert.first.torrent IN
       \/ /\ files' = [files EXCEPT ![t] = Torn]
          /\ writing' = [torrent |-> t, version |-> NextAlert.first.version]
          /\ spoilt' = spoilt \ {t}
          /\ mpc' = "write" /\ UNCHANGED refused
       \/ /\ refused' = refused \cup {t}
          /\ UNCHANGED <<files, spoilt, writing, mpc>>
    /\ UNCHANGED <<path, best, starts, libt, alerts, torrents, todo, nulled,
                   saves, final, shutdown_flag, clients, wanted, leaked>>

(* Nobody looks at the stream afterwards: what falls short of the whole    *)
(* (a full disk) leaves a file that does not decode and counts as saved.   *)
WriteFile ==
    /\ mpc = "write"
    /\ \/ /\ files' = [files EXCEPT ![writing.torrent] = writing.version]
          /\ best' = [best EXCEPT ![writing.torrent] = writing.version]
          /\ UNCHANGED <<spoilt, refused>>
       \/ /\ spoilt' = spoilt \cup {writing.torrent}
          /\ refused' = refused \cup {writing.torrent}
          /\ UNCHANGED <<files, best>>
    /\ writing' = NoWrite /\ mpc' = "drain"
    /\ UNCHANGED <<path, starts, libt, alerts, manager, batch, todo, nulled,
                   saves, final, shutdown_flag, clients, wanted, leaked>>

DrainDone ==
    /\ mpc = "drain" /\ batch = <<>> /\ mpc' = "wait"
    /\ UNCHANGED <<disk, libt, alerts, manager, batch, main, shutdown_flag,
                   clients, request, leaked>>

(* status() of a torrent that left the session may throw, in the scan and  *)
(* for an answer; neither save_fastresume nor main catches.  And the scan  *)
(* goes on to the end there was when it began, now a null pointer.         *)
Dies ==
    /\ \/ mpc = "scan" /\ \E t \in todo : t \notin session
       \/ mpc = "scan" /\ todo = {} /\ nulled
       \/ /\ mpc = "drain" /\ batch # <<>> /\ NextAlert.first.kind = "resume"
          /\ NextAlert.first.torrent \notin session
    /\ mpc' = "down"
    /\ UNCHANGED <<disk, libt, alerts, manager, batch, main, shutdown_flag,
                   clients, request, leaked>>

---------------------------------------------------------------------------
(* Clients, the signal handler, a crash, and the next start.               *)

(* Bound: a client adds each torrent once, for a second addition would     *)
(* start its versions anew.                                                *)
AddTorrent(t) ==
    /\ Alive /\ t \in fresh
    /\ fresh' = fresh \ {t} /\ adding' = adding \cup {t}
    /\ data' \in {data, [data EXCEPT ![t] = 1]}     \* a magnet, or a file
    /\ UNCHANGED <<disk, session, saved, asked, alerts, manager, mpc, batch,
                   main, shutdown_flag, removed, removing, request, leaked>>

(* remove_torrent: out of the session first, then out of the vector.       *)
RemoveTorrent(t) ==
    /\ Alive /\ removing = None /\ t \in torrents \cap session
    /\ session' = session \ {t} /\ removing' = t
    /\ UNCHANGED <<disk, adding, data, saved, asked, alerts, manager, mpc,
                   batch, main, shutdown_flag, fresh, removed, request, leaked>>

(* Erasing shifts the torrents behind down by a slot.  A scan that has     *)
(* torrents before it goes by the old end, a null pointer now, and, if it  *)
(* is past the erased one, misses the torrent that was next.               *)
Shift ==
    /\ nulled' = (nulled \/ todo # {})
    /\ \/ removing \in todo /\ todo' = todo \ {removing}
       \/ removing \notin todo /\ \E missed \in todo : todo' = todo \ {missed}
       \/ todo = {} /\ UNCHANGED todo

EraseTorrent ==
    /\ Alive /\ removing # None
    /\ torrents' = torrents \ {removing}
    /\ Shift
    /\ removed' = removed \cup {removing} /\ removing' = None
    /\ UNCHANGED <<disk, libt, alerts, outstanding_resume_data, mpc, batch,
                   writing, saves, final, shutdown_flag, fresh, request, leaked>>

Signal ==
    /\ Alive /\ ~shutdown_flag /\ shutdown_flag' = TRUE
    /\ UNCHANGED <<disk, libt, alerts, manager, mpc, batch, main, clients,
                   request, leaked>>

Crash ==
    /\ Alive /\ mpc' = "down"
    /\ UNCHANGED <<disk, libt, alerts, manager, batch, main, shutdown_flag,
                   clients, request, leaked>>

(* load_fastresume adds what it can decode.                                *)
Loadable == IF path THEN {t \in Torrents : files[t] > 0} ELSE {}

Start ==
    /\ ~Alive /\ starts < MaxStarts
    /\ starts' = starts + 1
    /\ adding' = Loadable /\ session' = {}
    /\ data' = [t \in Torrents |-> IF t \in Loadable THEN files[t] ELSE 0]
    /\ saved' = data'
    /\ asked' = <<>> /\ alerts' = <<>> /\ batch' = <<>>
    /\ torrents' = {} /\ outstanding_resume_data' = 0
    /\ mpc' = "loop" /\ todo' = {} /\ nulled' = FALSE /\ writing' = NoWrite
    /\ saves' = 0 /\ final' = FALSE /\ shutdown_flag' = FALSE
    /\ removing' = None /\ wanted' = [t \in Torrents |-> 0]
    /\ refused' = {} /\ leaked' = 0
    /\ UNCHANGED <<path, files, best, spoilt, fresh, removed>>

Stopped == ~Alive /\ starts = MaxStarts /\ UNCHANGED vars

Main ==
    \/ CheckAlerts \/ HandleNext \/ HandleDone \/ PeriodicSave \/ NoSaveYet
    \/ NextTurn \/ ShutdownSave \/ SaveDone
    \/ (\E t \in Torrents : ScanAsk(t) \/ ScanSkip(t))
    \/ ScanDone \/ AllAnswered \/ Timeout \/ Pop
    \/ DrainOther \/ DrainFailed \/ DrainResume \/ WriteFile \/ DrainDone
    \/ Dies

Libtorrent == \/ Answer \/ OtherAlert
              \/ \E t \in Torrents : SessionAdds(t) \/ Progress(t)

Http == EraseTorrent \/ \E t \in Torrents : AddTorrent(t) \/ RemoveTorrent(t)

Next == Main \/ Libtorrent \/ Http \/ Signal \/ Crash \/ Start \/ Stopped

(* The main thread is scheduled and libtorrent answers every request; no   *)
(* other alert, client, signal or crash need come.                         *)
Fairness == WF_vars(Main) /\ SF_vars(Answer)

Spec == Init /\ [][Next]_vars /\ Fairness

---------------------------------------------------------------------------
(* Properties.                                                             *)

(* outstanding_resume_data counts the answers still to come, wherever they *)
(* are, plus those that came when nobody counted: alerts of a save that    *)
(* timed out, dropped later by check_alerts.  So the unsigned counter      *)
(* never passes below zero (torrentManager.cpp:517-541).                   *)
CounterIsExact ==
    outstanding_resume_data =
        Len(asked) + Cardinality(AnswersIn(alerts))
                   + Cardinality(AnswersIn(batch)) + leaked

(* When save_fastresume returns because every answer came, the version of  *)
(* each torrent it asked for is on disk, unless libtorrent refused, the    *)
(* file could not be opened, or the write fell short and nobody looked.    *)
SavedMeansOnDisk ==
    mpc = "done" /\ outstanding_resume_data = 0 =>
       \A t \in Torrents \ refused :
          wanted[t] > 0 => files[t] >= wanted[t]

(* A complete file is only replaced by one that is as new, whatever order  *)
(* answers to earlier and later saves come in.                             *)
FilesNeverGoBack == [][\A t \in Torrents : best'[t] >= best[t]]_vars

(* A crash costs at most the torrent whose file was being written; every   *)
(* other torrent that was ever written is loaded by the next start, unless *)
(* its last write fell short.                                              *)
CrashCostsOneFile ==
    Cardinality({t \in Torrents \ spoilt : best[t] > 0 /\ files[t] <= 0}) <= starts

(* save_fastresume returns, whatever other alerts come, unless an answer   *)
(* was dropped before: then the counter never comes down to zero and only  *)
(* 10 quiet seconds end the loop.                                          *)
SaveReturns ==
    mpc \in {"scan", "wait", "drain", "write"} ~>
       mpc \in {"done", "down"} \/ leaked > 0

(* A torrent a client removed is not there again after a restart.          *)
RemovedStaysGone == removed \cap session = {}

(* The last save, when it ends without a timeout, leaves valid data for    *)
(* every torrent that has any and whose file could be written.             *)
ValidOnceFinished ==
    mpc = "exited" /\ path /\ outstanding_resume_data = 0 =>
       \A t \in (torrents \cap session) \ refused :
          data[t] > 0 => files[t] = data[t]
===========================================================================
