-------------------------- MODULE ProgramStatus --------------------------
(***************************************************************************)
(* The statistics of the session.  The main thread asks for them when two  *)
(* seconds have passed, and works an answer into session_status metric by  *)
(* metric: the total, then the rate since the last answer, an integer      *)
(* division by the milliseconds that passed.  The HTTP thread copies       *)
(* session_status member by member, without a lock, for GET                *)
(* program/status.                                                         *)
(*                                                                         *)
(* libtorrent is external: it counts bytes and answers each request for    *)
(* statistics with an alert, in order.                                     *)
(***************************************************************************)
EXTENDS Naturals, Sequences

CONSTANTS
    Metrics,        \* number of metrics that have a rate
    Ms,             \* ticks of the clock in a millisecond
    Period,         \* ticks in the two seconds between two requests
    MaxTime,        \* bound: ticks
    MaxBytes        \* bound: what a metric counts

ASSUME ClockAssumption == Ms \in Nat \ {0} /\ Period \in Nat /\ Period > Ms
ASSUME SizeAssumption  == Metrics \in Nat \ {0} /\ MaxTime \in Nat /\ MaxBytes \in Nat

Metric == 1..Metrics

VARIABLES
    now,                    \* steady_clock
    bytes,                  \* libtorrent's counters
    posted,                 \* times of the requests libtorrent has not answered
    alerts,                 \* its queue of alerts
    pc, after,              \* where main is; where it goes on after check_alerts
    batch,                  \* the alerts check_alerts popped
    last, span, m,          \* its locals last_session_status, interval; the metric
    session_status,
    interval_last_point, last_post_session_stats,
    copy, unread,           \* program_status_get: its copy, the members to come
    answer,                 \* what it answered last
    slow                    \* history: some answer was worked in late

libtorrent == <<bytes, posted, alerts>>
main       == <<pc, after, batch, last, span, m, session_status,
                interval_last_point, last_post_session_stats, slow>>
http       == <<copy, unread, answer>>
vars       == <<now, libtorrent, main, http>>

Members == {"total", "rate"} \X Metric
Times   == 0..MaxTime
Bytes   == 0..MaxBytes
Alerts  == [at : Times, values : [Metric -> Bytes]]

SessionStatus == [total : [Metric -> Bytes], rate : [Metric -> Bytes]]
Zero          == [total |-> [i \in Metric |-> 0], rate |-> [i \in Metric |-> 0]]

TypeOK ==
    /\ now \in Times
    /\ bytes \in [Metric -> Bytes]
    /\ posted \in Seq(Times)
    /\ alerts \in Seq(Alerts)
    /\ pc \in {"check", "handle", "total", "rate", "post", "wait", "dead"}
    /\ after \in {"post", "wait"}
    /\ batch \in Seq(Alerts) /\ (pc \in {"total", "rate", "dead"} => batch # <<>>)
    /\ last \in [Metric -> Bytes] /\ span \in Times /\ m \in Metric
    /\ session_status \in SessionStatus
    /\ interval_last_point \in 0..now /\ last_post_session_stats \in 0..now
    /\ copy \in SessionStatus /\ unread \subseteq Members
    /\ answer \in SessionStatus
    /\ slow \in BOOLEAN

Init ==
    /\ now = 0
    /\ bytes = [i \in Metric |-> 0] /\ posted = <<>> /\ alerts = <<>>
    /\ pc = "check" /\ after = "post" /\ batch = <<>>
    /\ last = [i \in Metric |-> 0] /\ span = 0 /\ m = 1
    /\ session_status = Zero
    /\ interval_last_point = 0 /\ last_post_session_stats = 0
    /\ copy = Zero /\ unread = {} /\ answer = Zero
    /\ slow = FALSE

---------------------------------------------------------------------------
Tick == now < MaxTime /\ now' = now + 1 /\ UNCHANGED <<libtorrent, main, http>>

Count(i) ==
    /\ bytes[i] < MaxBytes
    /\ bytes' = [bytes EXCEPT ![i] = @ + 1]
    /\ UNCHANGED <<now, posted, alerts, main, http>>

Statistics ==
    /\ posted # <<>>
    /\ alerts' = Append(alerts, [at |-> Head(posted), values |-> bytes])
    /\ posted' = Tail(posted)
    /\ UNCHANGED <<now, bytes, main, http>>

---------------------------------------------------------------------------
(* The main thread.  check_alerts handles what is in the queue; so does    *)
(* save_fastresume with the alerts that come while it waits.               *)
newest_first == [k \in DOMAIN alerts |-> alerts[Len(alerts) + 1 - k]]   \* mutant

pop_alerts == alerts

check_alerts(then) ==
    /\ batch' = pop_alerts /\ alerts' = <<>>
    /\ pc' = "handle" /\ after' = then
    /\ UNCHANGED <<now, bytes, posted, last, span, m, session_status, http,
                   interval_last_point, last_post_session_stats, slow>>

CheckAlerts   == pc = "check" /\ check_alerts("post")
SaveFastresume == pc = "wait" /\ alerts # <<>> /\ check_alerts("wait")

(* session_stats_alert: the state before, and the milliseconds since.      *)
StartAlert ==
    /\ pc = "handle" /\ batch # <<>>
    /\ last' = session_status.total
    /\ span' = (now - interval_last_point) \div Ms
    /\ m' = 1 /\ pc' = "total"
    /\ UNCHANGED <<now, libtorrent, after, batch, session_status, http,
                   interval_last_point, last_post_session_stats, slow>>

NoMoreAlerts ==
    /\ pc = "handle" /\ batch = <<>>
    /\ pc' = after
    /\ UNCHANGED <<now, libtorrent, after, batch, last, span, m, session_status, http,
                   interval_last_point, last_post_session_stats, slow>>

WriteTotal ==
    /\ pc = "total"
    /\ session_status' = [session_status EXCEPT !.total[m] = Head(batch).values[m]]
    /\ pc' = "rate"
    /\ UNCHANGED <<now, libtorrent, after, batch, last, span, m, http,
                   interval_last_point, last_post_session_stats, slow>>

(* The next metric, or, after the last one, the next alert of the batch.   *)
one_too_many == m' = m + 1 /\ pc' = "total"                      \* mutant
                /\ UNCHANGED <<batch, interval_last_point, slow>>

NextMetric ==
    \/ /\ m < Metrics
       /\ m' = m + 1 /\ pc' = "total"
       /\ UNCHANGED <<batch, interval_last_point, slow>>
    \/ /\ m = Metrics
       /\ m' = 1 /\ pc' = "handle"
       /\ batch' = Tail(batch)
       /\ interval_last_point' = now
       /\ slow' = (slow \/ now - Head(batch).at > Period - Ms)

WriteRate ==
    /\ pc = "rate"
    /\ IF span = 0
       THEN pc' = "dead" /\ UNCHANGED <<session_status, m, batch, interval_last_point, slow>>
       ELSE /\ session_status' = [session_status EXCEPT
                 !.rate[m] = (session_status.total[m] - last[m]) \div span]
            /\ NextMetric
    /\ UNCHANGED <<now, libtorrent, after, last, span, http, last_post_session_stats>>

every_turn == TRUE                                              \* mutant
TwoSecondsPassed == now - last_post_session_stats > Period

PostSessionStats ==
    /\ pc = "post"
    /\ pc' = "wait"
    /\ IF TwoSecondsPassed
       THEN /\ posted' = Append(posted, now)
            /\ last_post_session_stats' = now
       ELSE UNCHANGED <<posted, last_post_session_stats>>
    /\ UNCHANGED <<now, bytes, alerts, after, batch, last, span, m, session_status,
                   http, interval_last_point, slow>>

(* wait_for_alert returns with an alert or after a second.                 *)
WaitForAlert ==
    /\ pc = "wait" /\ pc' = "check"
    /\ UNCHANGED <<now, libtorrent, after, batch, last, span, m, session_status, http,
                   interval_last_point, last_post_session_stats, slow>>

---------------------------------------------------------------------------
(* The HTTP thread: get_session_status copies the struct.                  *)
program_status_get ==
    /\ unread = {} /\ unread' = Members
    /\ UNCHANGED <<now, libtorrent, main, copy, answer>>

ReadMember(member) ==
    LET f == member[1] i == member[2]
        read == [copy EXCEPT ![f][i] = session_status[f][i]] IN
    /\ member \in unread
    /\ unread' = unread \ {member}
    /\ copy' = read
    /\ answer' = IF unread = {member} THEN read ELSE answer
    /\ UNCHANGED <<now, libtorrent, main>>

Next ==
    \/ Tick \/ (\E i \in Metric : Count(i)) \/ Statistics
    \/ CheckAlerts \/ SaveFastresume \/ StartAlert \/ NoMoreAlerts
    \/ WriteTotal \/ WriteRate \/ PostSessionStats \/ WaitForAlert
    \/ program_status_get \/ (\E member \in unread : ReadMember(member))

Spec == Init /\ [][Next]_vars

---------------------------------------------------------------------------
(* Nothing keeps the milliseconds between two answers from being none but  *)
(* the two seconds between two requests: the division by them goes wrong   *)
(* only when some statistics were asked for almost two seconds before they *)
(* were worked in.                                                         *)
DividesByTimePassed == pc = "dead" => slow

(* The copy mixes the totals of several moments, with any rates; but from  *)
(* one answer to the next no total of a metric becomes smaller.            *)
TotalsNeverGoBack ==
    [][\A i \in Metric : answer'.total[i] >= answer.total[i]]_vars
===========================================================================
