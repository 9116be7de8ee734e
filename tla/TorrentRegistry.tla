------------------------- MODULE TorrentRegistry -------------------------
(***************************************************************************)
(* TorrentManager::torrents, a std::vector<std::shared_ptr<Torrent>> that  *)
(* two threads use without a lock: the main thread (torrentine.cpp:57-74)  *)
(* walks it for the console view and appends to it when libtorrent answers *)
(* an asynchronous addition; the HTTP thread (one thread of                *)
(* SimpleWeb::Server) looks ids up in it and erases from it.               *)
(*                                                                         *)
(* The vector is modelled at the level of its memory: slots (Null is an    *)
(* empty shared_ptr), size, capacity, and the number of reallocations      *)
(* `gen', which tells an iterator into the current buffer from one into a  *)
(* freed buffer.  A thread touches one slot per step.                      *)
(***************************************************************************)
EXTENDS Integers, Sequences

CONSTANTS
    MaxAdds,   \* bound: additions in flight plus ids given out
    Requests,  \* the id lists a client may name in a URL
    Null       \* an empty slot

ASSUME MaxAddsAssumption == MaxAdds \in Nat
ASSUME RequestsAssumption == Requests \subseteq Seq(Nat)
ASSUME NullAssumption == Null \notin [id : 1..MaxAdds, handle : 1..MaxAdds]

VARIABLES
    \* the vector
    slots, size, cap, gen,
    greatest_id,
    \* libtorrent: torrents in the session, handles made so far, additions it
    \* has not answered, alerts it has queued
    session, handles, adding, alerts,
    \* main thread
    mpc, mit, mend, batch,
    \* HTTP thread: handler and its locals
    hpc, op, ids, k, it, hend, hgen, found, out, result,
    \* what ended the process, and two facts about the past
    fate, overlap, aliased

vector    == <<slots, size, cap, gen>>
libt      == <<session, handles, adding, alerts>>
main      == <<mpc, mit, mend, batch>>
http      == <<hpc, op, ids, k, it, hend, hgen, found, out, result>>
history   == <<overlap, aliased>>
vars      == <<vector, greatest_id, libt, main, http, fate, history>>

Torrents  == [id : 1..MaxAdds, handle : 1..MaxAdds]   \* a Torrent object
Error     == 0                  \* an add_torrent_alert that carries an error

Ops       == {"remove", "apply", "get", "status"}
Looping   == {"collect", "sweep", "check", "act"}
Erasing   == {"reset", "shift"}
HttpInVector == hpc \in Looping \cup Erasing
MainInVector == mpc \in {"console", "publish"}

Slot(i)   == IF i \in 1..MaxAdds THEN slots[i] ELSE Null
Table     == {slots[i] : i \in 1..MaxAdds} \ {Null}
Stale     == hgen # gen

VectorOK ==
    /\ slots \in [1..MaxAdds -> Torrents \cup {Null}]
    /\ size \in Int /\ cap \in Nat /\ gen \in Nat
    /\ greatest_id \in 1..(MaxAdds + 1)

SessionOK ==
    /\ session \subseteq 1..MaxAdds
    /\ handles \in 0..MaxAdds /\ adding \in 0..MaxAdds
    /\ alerts \in Seq(0..MaxAdds)

MainOK ==
    /\ mpc \in {"console", "check", "alerts", "publish"}
    /\ mit \in Nat \ {0} /\ mend \in Int
    /\ batch \in Seq(0..MaxAdds)

HttpOK ==
    /\ hpc \in {"idle", "reply"} \cup Looping \cup Erasing
    /\ op \in Ops
    /\ ids \in Seq(Nat) /\ out \in Seq(Nat)
    /\ k \in Nat /\ it \in Nat \ {0} /\ hend \in Int /\ hgen \in Nat
    /\ result \in Nat

HistoryOK ==
    /\ fate \in {"alive", "nullSlot", "badHandle", "noId"}
    /\ found \in BOOLEAN /\ overlap \in BOOLEAN /\ aliased \in BOOLEAN

TypeOK == VectorOK /\ SessionOK /\ MainOK /\ HttpOK /\ HistoryOK

(* load_fastresume has asked for `adding' torrents before any thread runs. *)
Init ==
    /\ slots = [i \in 1..MaxAdds |-> Null]
    /\ size = 0 /\ cap = 0 /\ gen = 0
    /\ greatest_id = 1
    /\ session = {} /\ handles = 0
    /\ adding \in 0..MaxAdds
    /\ alerts = <<>>
    /\ mpc = "console" /\ mit = 1 /\ mend = 0 /\ batch = <<>>
    /\ hpc = "idle" /\ op = "get" /\ ids = <<>>
    /\ k = 1 /\ it = 1 /\ hend = 0 /\ hgen = 0
    /\ found = FALSE /\ out = <<>> /\ result = 0
    /\ fate = "alive"
    /\ overlap = FALSE /\ aliased = FALSE

---------------------------------------------------------------------------
(* libtorrent: answers an async_add_torrent.  A torrent already in the     *)
(* session gives its existing handle and no error.                         *)

InFlight == adding + Len(alerts) + Len(batch) + greatest_id - 1

SessionAnswers ==
    /\ fate = "alive"
    /\ adding > 0
    /\ adding' = adding - 1
    /\ \/ /\ handles < MaxAdds
          /\ handles' = handles + 1
          /\ session' = session \cup {handles'}
          /\ alerts' = Append(alerts, handles')
       \/ \E h \in session \cup {Error} :
            /\ alerts' = Append(alerts, h)
            /\ UNCHANGED <<session, handles>>
    /\ UNCHANGED <<vector, greatest_id, main, http, fate, history>>

---------------------------------------------------------------------------
(* Main thread.                                                            *)

(* update_torrent_console_view: a range-for, its end fixed at its start.   *)
ConsoleStep ==
    /\ fate = "alive" /\ mpc = "console" /\ mit <= mend
    /\ LET t == Slot(mit) IN
       \/ /\ t = Null
          /\ fate' = "nullSlot" /\ UNCHANGED mit
       \/ /\ t # Null /\ t.handle \notin session     \* status() throws,
          /\ fate' = "badHandle" /\ UNCHANGED mit    \* nobody catches
       \/ /\ t # Null
          /\ mit' = mit + 1 /\ UNCHANGED fate
    /\ UNCHANGED <<vector, greatest_id, libt, mpc, mend, batch, http, history>>

ConsoleDone ==
    /\ fate = "alive" /\ mpc = "console" /\ mit > mend
    /\ mpc' = "check"
    /\ UNCHANGED <<vector, greatest_id, libt, mit, mend, batch, http, fate,
                   history>>

(* check_alerts: session.pop_alerts takes everything queued so far.        *)
PopAlerts ==
    /\ fate = "alive" /\ mpc = "check"
    /\ batch' = alerts /\ alerts' = <<>>
    /\ mpc' = "alerts"
    /\ UNCHANGED <<vector, greatest_id, session, handles, adding, mit, mend,
                   http, fate, history>>

AlertErrorLeavesLoop ==           \* mutant: the break leaves the for loop
    /\ fate = "alive" /\ mpc = "alerts" /\ batch # <<>> /\ Head(batch) = Error
    /\ batch' = <<>>
    /\ UNCHANGED <<vector, greatest_id, libt, mpc, mit, mend, http, fate,
                   history>>

AlertError ==
    /\ fate = "alive" /\ mpc = "alerts" /\ batch # <<>> /\ Head(batch) = Error
    /\ batch' = Tail(batch)
    /\ UNCHANGED <<vector, greatest_id, libt, mpc, mit, mend, http, fate,
                   history>>

\* Two mutants: an id taken from the size, and ids that start at 0.
NewTorrentIdFromSize == [id |-> size + 1, handle |-> Head(batch)]
NewTorrentIdFromZero == [id |-> greatest_id - 1, handle |-> Head(batch)]
NewTorrent == [id |-> greatest_id, handle |-> Head(batch)]
Grown      == IF cap = 0 THEN 1 ELSE 2 * cap

(* push_back with room: construct at _M_finish, then store _M_finish + 1.  *)
PushConstruct ==
    /\ fate = "alive" /\ mpc = "alerts" /\ batch # <<>> /\ Head(batch) # Error
    /\ size < cap
    /\ greatest_id' = greatest_id + 1
    /\ slots' = [slots EXCEPT ![size + 1] = NewTorrent]
    /\ mend' = size + 1
    /\ batch' = Tail(batch)
    /\ mpc' = "publish"
    /\ overlap' = (overlap \/ HttpInVector)
    /\ UNCHANGED <<size, cap, gen, libt, mit, http, fate, aliased>>

PushPublish ==
    /\ fate = "alive" /\ mpc = "publish"
    /\ size' = mend
    /\ mpc' = "alerts"
    /\ overlap' = (overlap \/ HttpInVector)
    /\ UNCHANGED <<slots, cap, gen, greatest_id, libt, mit, mend, batch, http,
                   fate, aliased>>

(* push_back without room: everything moves to a new buffer, in one step   *)
(* here; what falls between its copies is not modelled.                    *)
PushRealloc ==
    /\ fate = "alive" /\ mpc = "alerts" /\ batch # <<>> /\ Head(batch) # Error
    /\ size = cap
    /\ greatest_id' = greatest_id + 1
    /\ slots' = [slots EXCEPT ![size + 1] = NewTorrent]
    /\ size' = size + 1 /\ cap' = Grown /\ gen' = gen + 1
    /\ batch' = Tail(batch)
    /\ overlap' = (overlap \/ HttpInVector)
    /\ UNCHANGED <<libt, mpc, mit, mend, http, fate, aliased>>

(* wait_for_alert, with or without an alert, and around the loop.          *)
NextRound ==
    /\ fate = "alive" /\ mpc = "alerts" /\ batch = <<>>
    /\ mpc' = "console" /\ mit' = 1 /\ mend' = size
    /\ overlap' = (overlap \/ hpc \in Erasing)
    /\ UNCHANGED <<vector, greatest_id, libt, batch, http, fate, aliased>>

Main == ConsoleStep \/ ConsoleDone \/ PopAlerts \/ AlertError
        \/ PushConstruct \/ PushPublish \/ PushRealloc \/ NextRound

---------------------------------------------------------------------------
(* HTTP thread: torrents_add.                                              *)

AddRequest ==
    /\ fate = "alive" /\ hpc = "idle"
    /\ InFlight < MaxAdds
    /\ adding' = adding + 1
    /\ UNCHANGED <<vector, greatest_id, session, handles, alerts, main, http,
                   fate, history>>

---------------------------------------------------------------------------
(* HTTP thread: the requests that name torrents by id.                     *)

NoRewind == it' = it /\ hgen' = gen         \* mutant: `it' not reset
Rewind == it' = 1 /\ hgen' = gen            \* it = torrents.begin()

(* What a handler does first.  Without ids, the getters list all ids, stop,*)
(* start and recheck visit every torrent, and remove has nothing to do.    *)
Receive(o, req) ==
    /\ fate = "alive" /\ hpc = "idle"
    /\ op' = o /\ ids' = req
    /\ k' = 1 /\ found' = FALSE /\ out' = <<>> /\ result' = 0
    /\ Rewind /\ hend' = size
    /\ hpc' = IF req # <<>> THEN "check"
              ELSE CASE o = "remove" -> "reply"
                     [] o = "apply"  -> "sweep"
                     [] OTHER        -> "collect"
    /\ UNCHANGED <<vector, greatest_id, libt, main, fate, history>>

(* End of a loop: a range-for compares with the end it fixed, the others   *)
(* with torrents.end(), which an iterator into a freed buffer never equals.*)
LoopOverPastEnd == IF hpc = "collect" THEN it = hend + 2   \* mutant
                   ELSE ~Stale /\ it = size + 2
LoopOver == IF hpc = "collect" THEN it = hend + 1
            ELSE ~Stale /\ it = size + 1

(* Dereferencing an empty slot, or (perhaps) a slot of a freed buffer; one *)
(* that can still be read is taken to hold what the slots hold now.        *)
DerefCrash ==
    /\ fate = "alive" /\ hpc \in Looping /\ ~LoopOver
    /\ Stale \/ Slot(it) = Null
    /\ fate' = "nullSlot"
    /\ UNCHANGED <<vector, greatest_id, libt, main, http, history>>

Reading(pc) == fate = "alive" /\ hpc = pc /\ ~LoopOver /\ Slot(it) # Null
Finished(pc) == fate = "alive" /\ hpc = pc /\ LoopOver

(* get_all_ids *)
CollectStep ==
    /\ Reading("collect")
    /\ ids' = Append(ids, Slot(it).id)
    /\ it' = it + 1
    /\ UNCHANGED <<vector, greatest_id, libt, main, hpc, op, k, hend, hgen,
                   found, out, result, fate, history>>

(* get_torrents_status treats an empty list as "all torrents"; the other   *)
(* getters have nothing to look up and answer at once.                     *)
CollectDone ==
    /\ Finished("collect")
    /\ Rewind
    /\ hpc' = IF ids # <<>> THEN "check"
              ELSE IF op = "status" THEN "sweep" ELSE "reply"
    /\ UNCHANGED <<vector, greatest_id, libt, main, op, ids, k, hend, found,
                   out, result, fate, history>>

(* Use the torrent's handle.  A handle whose torrent left the session may  *)
(* throw; the server catches it and the client gets an empty answer.       *)
Use(t, after) ==
    \/ /\ t.handle \notin session
       /\ hpc' = "idle" /\ UNCHANGED <<out, it>>
    \/ /\ out' = Append(out, t.id)
       /\ it' = it + 1 /\ hpc' = after

SweepStep ==
    /\ Reading("sweep")
    /\ Use(Slot(it), "sweep")
    /\ UNCHANGED <<vector, greatest_id, libt, main, op, ids, k, hend, hgen,
                   found, result, fate, history>>

SweepDone ==
    /\ Finished("sweep")
    /\ hpc' = "reply"
    /\ UNCHANGED <<vector, greatest_id, libt, main, op, ids, k, it, hend, hgen,
                   found, out, result, fate, history>>

(* "Check if all torrents in ids in fact exist": every slot, for each id.  *)
CheckStep ==
    /\ Reading("check")
    /\ found' = (found \/ Slot(it).id = ids[k])
    /\ it' = it + 1
    /\ UNCHANGED <<vector, greatest_id, libt, main, hpc, op, ids, k, hend,
                   hgen, out, result, fate, history>>

CheckNext ==
    /\ Finished("check") /\ found
    /\ found' = FALSE
    /\ IF k < Len(ids) THEN k' = k + 1 /\ UNCHANGED hpc
       ELSE k' = 1 /\ hpc' = "act"
    /\ Rewind
    /\ UNCHANGED <<vector, greatest_id, libt, main, op, ids, hend, out, result,
                   fate, history>>

CheckMissing ==
    /\ Finished("check") /\ ~found
    /\ result' = ids[k]
    /\ hpc' = "reply"
    /\ UNCHANGED <<vector, greatest_id, libt, main, op, ids, k, it, hend, hgen,
                   found, out, fate, history>>

(* The second loop over ids and slots: pass by, use, or erase.             *)
ActSkip ==
    /\ Reading("act") /\ Slot(it).id # ids[k]
    /\ it' = it + 1
    /\ UNCHANGED <<vector, greatest_id, libt, main, hpc, op, ids, k, hend,
                   hgen, found, out, result, fate, history>>

ActUse ==
    /\ Reading("act") /\ Slot(it).id = ids[k] /\ op # "remove"
    /\ Use(Slot(it), "act")
    /\ UNCHANGED <<vector, greatest_id, libt, main, op, ids, k, hend, hgen,
                   found, result, fate, history>>

NextIdRechecks == IF k < Len(ids) THEN k' = k + 1 /\ hpc' = "check"
                  ELSE k' = k /\ hpc' = "reply"     \* mutant: check on the fly
NextIdRepeats == k' = k /\ hpc' = "act"              \* mutant: k not advanced
NextId == IF k < Len(ids) THEN k' = k + 1 /\ hpc' = "act"
          ELSE k' = k /\ hpc' = "reply"

ActDone ==
    /\ Finished("act")
    /\ NextId
    /\ Rewind
    /\ UNCHANGED <<vector, greatest_id, libt, main, op, ids, hend, found, out,
                   result, fate, history>>

(* session.remove_torrent(handle): throws when the torrent left already.   *)
Shared(t) == \/ \E i \in 1..MaxAdds : Slot(i) \notin {Null, t}
                                      /\ Slot(i).handle = t.handle
             \/ \E i \in 1..Len(alerts) : alerts[i] = t.handle
             \/ \E i \in 1..Len(batch) : batch[i] = t.handle

ActErase ==
    /\ Reading("act") /\ Slot(it).id = ids[k] /\ op = "remove"
    /\ \/ /\ Slot(it).handle \notin session
          /\ hpc' = "idle" /\ UNCHANGED <<session, history>>
       \/ /\ session' = session \ {Slot(it).handle}
          /\ aliased' = (aliased \/ Shared(Slot(it)))
          /\ overlap' = (overlap \/ MainInVector)
          /\ hpc' = "reset"
    /\ UNCHANGED <<vector, greatest_id, handles, adding, alerts, main, op, ids,
                   k, it, hend, hgen, found, out, result, fate>>

(* it->reset().  In a freed buffer the store reaches nobody.               *)
EraseReset ==
    /\ fate = "alive" /\ hpc = "reset"
    /\ slots' = IF Stale THEN slots ELSE [slots EXCEPT ![it] = Null]
    /\ hend' = size
    /\ hpc' = "shift"
    /\ overlap' = (overlap \/ MainInVector)
    /\ UNCHANGED <<size, cap, gen, greatest_id, libt, main, op, ids, k, it,
                   hgen, found, out, result, fate, aliased>>

(* vector::erase moves the tail down one slot at a time ...                *)
EraseShift ==
    /\ fate = "alive" /\ hpc = "shift" /\ it < hend /\ ~Stale
    /\ slots' = [slots EXCEPT ![it] = Slot(it + 1), ![it + 1] = Null]
    /\ it' = it + 1
    /\ overlap' = (overlap \/ MainInVector)
    /\ UNCHANGED <<size, cap, gen, greatest_id, libt, main, hpc, op, ids, k,
                   hend, hgen, found, out, result, fate, aliased>>

(* ... lowers _M_finish and destroys the slot it then points to.           *)
ErasePop ==
    /\ fate = "alive" /\ hpc = "shift" /\ (it >= hend \/ Stale)
    /\ size' = size - 1
    /\ slots' = [slots EXCEPT ![size] = Null]
    /\ out' = Append(out, ids[k])
    /\ NextId
    /\ Rewind
    /\ overlap' = (overlap \/ MainInVector)
    /\ UNCHANGED <<cap, gen, greatest_id, libt, main, op, ids, hend, found,
                   result, fate, aliased>>

EraseCrash ==
    /\ fate = "alive" /\ hpc \in Erasing /\ Stale
    /\ fate' = "nullSlot"
    /\ UNCHANGED <<vector, greatest_id, libt, main, http, history>>

(* The handler pairs the answers with ids one by one and dereferences the  *)
(* id iterator for each of them.                                           *)
Reply ==
    /\ fate = "alive" /\ hpc = "reply"
    /\ IF op = "status" /\ Len(out) > Len(ids)
       THEN fate' = "noId" /\ UNCHANGED hpc
       ELSE hpc' = "idle" /\ UNCHANGED fate
    /\ UNCHANGED <<vector, greatest_id, libt, main, op, ids, k, it, hend, hgen,
                   found, out, result, history>>

Handler == DerefCrash \/ CollectStep \/ CollectDone \/ SweepStep \/ SweepDone
           \/ CheckStep \/ CheckNext \/ CheckMissing
           \/ ActSkip \/ ActUse \/ ActDone \/ ActErase
           \/ EraseReset \/ EraseShift \/ ErasePop \/ EraseCrash \/ Reply

Arrive == AddRequest \/ \E o \in Ops, req \in Requests : Receive(o, req)

Dead == fate # "alive" /\ UNCHANGED vars

Next == SessionAnswers \/ Main \/ Arrive \/ Handler \/ Dead

(* Each thread keeps being scheduled; requests need not arrive.            *)
Fairness == WF_vars(SessionAnswers) /\ WF_vars(Main) /\ WF_vars(Handler)

Spec == Init /\ [][Next]_vars /\ Fairness

---------------------------------------------------------------------------
(* Properties.                                                             *)

TableIds == {t.id : t \in Table}

(* An id names at most one torrent and was given out before, whatever the  *)
(* two threads do to the slots: only the main thread makes ids, and erase  *)
(* moves an entry instead of copying it.                                   *)
IdsNeverClash ==
    \A i, j \in 1..MaxAdds :
       Slot(i) # Null => /\ Slot(i).id < greatest_id
                         /\ Slot(j) # Null /\ Slot(j).id = Slot(i).id => i = j

(* What can end the process.  An empty slot is only ever read after one    *)
(* thread added or removed a torrent while the other was inside the        *)
(* vector; an uncaught exception of the console view                       *)
(* (torrentManager.cpp:32) needs that too, or a torrent removed under one  *)
(* of two ids; and the status handler runs past its ids only when it       *)
(* listed none.                                                            *)
DeathCauses ==
    /\ fate = "nullSlot" => overlap
    /\ fate = "badHandle" => overlap \/ aliased
    /\ fate = "noId" => op = "status" /\ ids = <<>>

(* All or nothing: a request that is told an id does not exist             *)
(* (torrentManager.cpp:238-249 and its copies) has used or removed no      *)
(* torrent.                                                                *)
NothingDoneOnMiss == hpc = "reply" /\ result # 0 => out = <<>>

(* The n-th answer of a getter belongs to the n-th id: the handlers pair   *)
(* them with two iterators (restAPI.cpp:593-617), although the main thread *)
(* may append torrents between the look-ups.                               *)
AnswersAligned ==
    hpc = "reply" /\ result = 0 /\ op # "remove" /\ ids # <<>>
       /\ (\A i \in 1..Len(ids) : ids[i] # 0)
    => out = ids

(* A request is told that an id is missing only when no published slot has *)
(* it at that moment; so a getter that listed all ids never answers 404.   *)
MissingIsAbsent ==
    [][result' # 0 /\ result' # result
       => \A i \in 1..size : Slot(i) # Null => Slot(i).id # result']_vars

(* While the threads have not collided, the session and the vector agree:  *)
(* a torrent of the session has an id or its alert is still to be handled, *)
(* and an entry has a torrent unless its removal is under way.             *)
Pending(q) == {q[i] : i \in 1..Len(q)}
SessionMatchesTable ==
    ~overlap /\ ~aliased =>
       /\ session \subseteq {t.handle : t \in Table} \cup Pending(alerts)
                            \cup Pending(batch)
       /\ hpc # "reset" => {t.handle : t \in Table} \subseteq session

(* The vector implements the table of ids; its entries come and go as the  *)
(* abstract specification says, as long as the threads have not collided.  *)
Ids == INSTANCE IdTable WITH Handles <- 1..MaxAdds, table <- Table,
                             nextId <- greatest_id, broken <- overlap
ImplementsIdTable == Ids!Spec

(* A status request without ids is answered for the ids it listed.         *)
StatusAnswersTheListedIds == fate # "noId"

(* A torrent the session accepted gets an id (check_alerts), unless it is  *)
(* removed or the process ends first.  After a collision it may stay in    *)
(* the session without one: the erase that pops the slot push_back just    *)
(* filled loses the entry for good.                                        *)
AcceptedIsRegistered ==
    \A h \in 1..MaxAdds :
       h \in session ~> (\E t \in Table : t.handle = h) \/ h \notin session
                        \/ fate # "alive" \/ overlap

(* Every request is answered, however the vector changes under it, unless  *)
(* the process ends.                                                       *)
RequestsAreAnswered == hpc # "idle" ~> hpc = "idle" \/ fate # "alive"
===========================================================================
