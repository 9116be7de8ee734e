----------------------- MODULE ProgramStatusProofs -----------------------
(***************************************************************************)
(* Proofs about ProgramStatus: no client sees a total become smaller, and  *)
(* the rates are divided by a time that passed unless some statistics were *)
(* late, for any number of metrics, any clock and any period.              *)
(***************************************************************************)
EXTENDS ProgramStatus, Integers, TLAPS

USE DEF vars, libtorrent, main, http

---------------------------------------------------------------------------
(* Arithmetic and sequences.                                               *)

LEMMA Division ==
  ASSUME NEW x \in Nat, NEW d \in Nat \ {0}
  PROVE  x \div d \in 0..x /\ (x >= d => x \div d >= 1)
OBVIOUS

LEMMA Tails ==
  ASSUME NEW S, NEW s \in Seq(S), s # <<>>
  PROVE  /\ Head(s) = s[1] /\ Head(s) \in S /\ 1 \in DOMAIN s
         /\ Tail(s) \in Seq(S)
         /\ \A k \in DOMAIN Tail(s) : k \in Nat /\ k + 1 \in DOMAIN s /\ Tail(s)[k] = s[k + 1]
OBVIOUS

LEMMA Appended ==
  ASSUME NEW S, NEW s \in Seq(S), NEW e \in S
  PROVE  /\ Append(s, e) \in Seq(S)
         /\ \A k \in DOMAIN Append(s, e) :
              /\ k \in Nat
              /\ \/ k \in DOMAIN s /\ Append(s, e)[k] = s[k]
                 \/ k = Len(s) + 1 /\ Append(s, e)[k] = e
OBVIOUS

---------------------------------------------------------------------------
(* What libtorrent counted grows on its way to the clients' answers: the   *)
(* alerts of the batch, those in the queue, the counters.  Types rest on   *)
(* it, because a rate is a difference.                                     *)

Grows(s) ==
    \A j, k \in DOMAIN s : j < k => \A i \in Metric : s[j].values[i] <= s[k].values[i]

GrowsInto(s, t) ==
    \A j \in DOMAIN s, k \in DOMAIN t, i \in Metric : s[j].values[i] <= t[k].values[i]

Above(s) ==
    \A k \in DOMAIN s, i \in Metric :
      /\ session_status.total[i] <= s[k].values[i]
      /\ s[k].values[i] <= bytes[i]

Order ==
    /\ Grows(batch) /\ Grows(alerts) /\ GrowsInto(batch, alerts)
    /\ Above(batch) /\ Above(alerts)
    /\ \A i \in Metric :
         /\ answer.total[i] <= copy.total[i]
         /\ copy.total[i] <= session_status.total[i]
         /\ last[i] <= session_status.total[i]
         /\ session_status.total[i] <= bytes[i]

Totals == TypeOK /\ Order

LEMMA Numbers ==
  ASSUME TypeOK
  PROVE  /\ \A i \in Metric :
              /\ bytes[i] \in Nat /\ session_status.total[i] \in Nat /\ last[i] \in Nat
              /\ copy.total[i] \in Nat /\ answer.total[i] \in Nat
              /\ last[i] <= MaxBytes /\ session_status.total[i] <= MaxBytes
         /\ \A k \in DOMAIN batch, i \in Metric : batch[k].values[i] \in Nat
         /\ \A k \in DOMAIN alerts, i \in Metric : alerts[k].values[i] \in Nat
<1> USE SizeAssumption DEF TypeOK, Bytes
<1>1. \A i \in Metric : bytes[i] \in 0..MaxBytes /\ last[i] \in 0..MaxBytes
  OBVIOUS
<1>2. \A i \in Metric : /\ session_status.total[i] \in 0..MaxBytes
                        /\ copy.total[i] \in 0..MaxBytes /\ answer.total[i] \in 0..MaxBytes
  BY DEF SessionStatus
<1>3. (\A k \in DOMAIN batch : batch[k] \in Alerts) /\ \A k \in DOMAIN alerts : alerts[k] \in Alerts
  OBVIOUS
<1>4. \A e \in Alerts, i \in Metric : e.values[i] \in 0..MaxBytes
  BY DEF Alerts
<1> QED BY <1>1, <1>2, <1>3, <1>4

LEMMA InitTotals == Init => Totals
<1> USE ClockAssumption, SizeAssumption
<1> SUFFICES ASSUME Init PROVE Totals
  OBVIOUS
<1>1. TypeOK
  <2>1. 0 \in Times /\ 0 \in Bytes /\ 1 \in Metric /\ 0 \in 0..0
    BY DEF Times, Bytes, Metric
  <2>2. Zero \in SessionStatus
    BY <2>1 DEF Zero, SessionStatus
  <2>3. posted = <<>> /\ alerts = <<>> /\ batch = <<>> /\ unread \subseteq Members
    BY DEF Init
  <2>4. posted \in Seq(Times) /\ alerts \in Seq(Alerts) /\ batch \in Seq(Alerts)
    BY <2>3
  <2>5. bytes \in [Metric -> Bytes] /\ last \in [Metric -> Bytes]
    BY <2>1 DEF Init
  <2> QED BY <2>1, <2>2, <2>3, <2>4, <2>5 DEF Init, TypeOK
<1>2. Order
  BY DEF Init, Order, Grows, GrowsInto, Above, Zero
<1> QED BY <1>1, <1>2 DEF Totals

LEMMA LibtorrentTotals ==
  Totals /\ (Tick \/ (\E i \in Metric : Count(i)) \/ Statistics) => Totals'
<1> USE ClockAssumption, SizeAssumption
<1> SUFFICES ASSUME Totals
             PROVE  Tick \/ (\E i \in Metric : Count(i)) \/ Statistics => Totals'
  OBVIOUS
<1> USE DEF Totals
<1>1. ASSUME Tick PROVE Totals'
  BY <1>1 DEF Tick, TypeOK, Times, Order, Grows, GrowsInto, Above
<1>2. ASSUME NEW i \in Metric, Count(i) PROVE Totals'
  <2>1. bytes' \in [Metric -> Bytes] /\ \A x \in Metric : bytes[x] <= bytes'[x]
    BY <1>2 DEF Count, TypeOK, Bytes
  <2>2. TypeOK'
    BY <1>2, <2>1 DEF Count, TypeOK
  <2> USE Numbers
  <2>6. \A x \in Metric : bytes'[x] \in Nat
    BY <2>1, SizeAssumption DEF Bytes
  <2>3. Above(batch)' /\ Above(alerts)'
    BY <1>2, <2>1, <2>6 DEF Count, Order, Above
  <2>4. \A x \in Metric : session_status'.total[x] <= bytes'[x]
    BY <1>2, <2>1, <2>6 DEF Count, Order
  <2>5. Order'
    BY <1>2, <2>3, <2>4 DEF Count, Order, Grows, GrowsInto
  <2> QED BY <2>2, <2>5
<1>3. ASSUME Statistics PROVE Totals'
  <2> DEFINE e == [at |-> Head(posted), values |-> bytes]
  <2>1. e \in Alerts /\ posted' \in Seq(Times)
    BY <1>3, Tails DEF Statistics, TypeOK, Alerts
  <2>2. alerts' = Append(alerts, e) /\ UNCHANGED <<batch, bytes, session_status, copy, answer, last>>
    BY <1>3 DEF Statistics
  <2>3. \A k \in DOMAIN alerts' :
          /\ k \in Nat
          /\ \/ k \in DOMAIN alerts /\ alerts'[k] = alerts[k]
             \/ k = Len(alerts) + 1 /\ alerts'[k].values = bytes
    BY <2>1, <2>2, Appended DEF TypeOK
  <2>4. TypeOK'
    BY <1>3, <2>1, <2>2, Appended DEF Statistics, TypeOK
  <2>5. Above(alerts)'
    BY <2>2, <2>3 DEF TypeOK, Order, Above, Bytes
  <2>6. GrowsInto(batch, alerts)'
    BY <2>2, <2>3 DEF TypeOK, Order, Above, GrowsInto
  <2>7. Grows(alerts)'
    <3>1. \A k \in DOMAIN alerts : k <= Len(alerts) /\ k \in Nat
      BY DEF TypeOK
    <3>2. Len(alerts) \in Nat
      BY DEF TypeOK
    <3> QED BY <2>2, <2>3, <3>1, <3>2 DEF Order, Above, Grows
  <2>8. Order'
    BY <2>2, <2>5, <2>6, <2>7 DEF Order, Above, Grows
  <2> QED BY <2>4, <2>8
<1> QED BY <1>1, <1>2, <1>3

LEMMA QueueTotals ==
  Totals /\ (CheckAlerts \/ SaveFastresume \/ NoMoreAlerts \/ PostSessionStats \/ WaitForAlert)
    => Totals'
<1> USE ClockAssumption, SizeAssumption
<1> SUFFICES ASSUME Totals
             PROVE  CheckAlerts \/ SaveFastresume \/ NoMoreAlerts \/ PostSessionStats
                    \/ WaitForAlert => Totals'
  OBVIOUS
<1> USE DEF Totals
<1>1. ASSUME CheckAlerts \/ SaveFastresume PROVE Totals'
  <2>1. PICK then \in {"post", "wait"} : check_alerts(then)
    BY <1>1 DEF CheckAlerts, SaveFastresume
  <2>2. TypeOK'
    BY <2>1 DEF check_alerts, pop_alerts, TypeOK
  <2>3. Order'
    BY <2>1 DEF check_alerts, pop_alerts, Order, Grows, GrowsInto, Above
  <2> QED BY <2>2, <2>3
<1>2. ASSUME NoMoreAlerts PROVE Totals'
  BY <1>2 DEF NoMoreAlerts, TypeOK, Order, Grows, GrowsInto, Above
<1>3. ASSUME PostSessionStats PROVE Totals'
  <2>1. now \in Times /\ now \in 0..now
    BY DEF TypeOK, Times
  <2>2. posted' \in Seq(Times) /\ last_post_session_stats' \in 0..now
    <3>1. Append(posted, now) \in Seq(Times)
      BY <2>1, Appended DEF TypeOK
    <3> QED BY <1>3, <2>1, <3>1 DEF PostSessionStats, TypeOK
  <2>3. TypeOK'
    BY <1>3, <2>2 DEF PostSessionStats, TypeOK
  <2> QED BY <1>3, <2>3 DEF PostSessionStats, Order, Grows, GrowsInto, Above
<1>4. ASSUME WaitForAlert PROVE Totals'
  BY <1>4 DEF WaitForAlert, TypeOK, Order, Grows, GrowsInto, Above
<1> QED BY <1>1, <1>2, <1>3, <1>4

LEMMA AlertTotals == Totals /\ (StartAlert \/ WriteTotal \/ WriteRate) => Totals'
<1> USE ClockAssumption, SizeAssumption
<1> SUFFICES ASSUME Totals PROVE StartAlert \/ WriteTotal \/ WriteRate => Totals'
  OBVIOUS
<1> USE DEF Totals
<1>1. ASSUME StartAlert PROVE Totals'
  <2>1. now - interval_last_point \in Nat /\ now - interval_last_point <= now
    BY DEF TypeOK, Times
  <2>5. (now - interval_last_point) \div Ms \in 0..(now - interval_last_point)
    <3> DEFINE d == now - interval_last_point
    <3>1. d \in Nat /\ Ms \in Nat \ {0}
      BY <2>1
    <3> HIDE DEF d
    <3>2. d \div Ms \in 0..d
      BY <3>1, Division
    <3> QED BY <3>2 DEF d
  <2>2. span' \in Times
    <3>1. span' = (now - interval_last_point) \div Ms
      BY <1>1 DEF StartAlert
    <3> DEFINE q == (now - interval_last_point) \div Ms
    <3>2. q \in 0..(now - interval_last_point)
      BY <2>5
    <3>3. now \in 0..MaxTime
      BY DEF TypeOK, Times
    <3> HIDE DEF q
    <3>4. q \in Times
      BY <2>1, <3>2, <3>3 DEF Times
    <3> QED BY <3>1, <3>4 DEF q
  <2>3. TypeOK'
    BY <1>1, <2>2 DEF StartAlert, TypeOK, SessionStatus, Metric
  <2>4. Order'
    BY <1>1, Numbers DEF StartAlert, Order, Grows, GrowsInto, Above
  <2> QED BY <2>3, <2>4
<1>2. ASSUME WriteTotal PROVE Totals'
  <2> DEFINE total == session_status'.total
  <2>1. batch # <<>> /\ batch[1] \in Alerts /\ Head(batch) = batch[1] /\ 1 \in DOMAIN batch
    BY <1>2, Tails DEF WriteTotal, TypeOK
  <2>2. /\ session_status' \in SessionStatus
        /\ total[m] = batch[1].values[m]
        /\ \A x \in Metric \ {m} : total[x] = session_status.total[x]
    BY <1>2, <2>1 DEF WriteTotal, TypeOK, SessionStatus, Alerts
  <2>3. TypeOK'
    BY <1>2, <2>2 DEF WriteTotal, TypeOK
  <2>4. \A x \in Metric : session_status.total[x] <= total[x] /\ total[x] <= bytes[x]
    <3> SUFFICES ASSUME NEW x \in Metric
                 PROVE  session_status.total[x] <= total[x] /\ total[x] <= bytes[x]
      OBVIOUS
    <3>1. session_status.total[x] <= batch[1].values[x] /\ batch[1].values[x] <= bytes[x]
          /\ session_status.total[x] <= bytes[x]
      BY <2>1 DEF Order, Above
    <3>2. CASE x = m
      BY <2>2, <3>1, <3>2
    <3>3. CASE x # m
      BY <2>2, <3>1, <3>3, Numbers
    <3> QED BY <3>2, <3>3
  <2>5. \A k \in DOMAIN batch : k \in Nat /\ (k = 1 \/ 1 < k) /\ batch[k] \in Alerts
    BY DEF TypeOK
  <2>6. Above(batch)'
    <3> SUFFICES ASSUME NEW j \in DOMAIN batch, NEW x \in Metric
                 PROVE  total[x] <= batch[j].values[x] /\ batch[j].values[x] <= bytes[x]
      BY <1>2 DEF WriteTotal, Above
    <3>1. batch[1].values[x] <= batch[j].values[x]
      BY <2>1, <2>5, Numbers DEF Order, Grows
    <3> QED BY <2>2, <3>1 DEF Order, Above
  <2>7. Above(alerts)'
    <3> SUFFICES ASSUME NEW j \in DOMAIN alerts, NEW x \in Metric
                 PROVE  total[x] <= alerts[j].values[x] /\ alerts[j].values[x] <= bytes[x]
      BY <1>2 DEF WriteTotal, Above
    <3>1. batch[1].values[x] <= alerts[j].values[x]
      BY <2>1 DEF Order, GrowsInto
    <3> QED BY <2>2, <3>1 DEF Order, Above
  <2>8. Order'
    <3>1. \A x \in Metric : total[x] \in Nat
      BY <2>2 DEF SessionStatus, Bytes
    <3>2. \A x \in Metric : copy.total[x] <= total[x] /\ last[x] <= total[x]
      BY <2>4, <3>1, Numbers DEF Order
    <3> QED
      BY <1>2, <2>4, <2>6, <2>7, <3>2 DEF WriteTotal, Order, Grows, GrowsInto
  <2> QED BY <2>3, <2>8
<1>3. ASSUME WriteRate PROVE Totals'
  <2>1. CASE span = 0
    BY <1>3, <2>1 DEF WriteRate, TypeOK, Order, Grows, GrowsInto, Above
  <2>2. CASE span # 0
    <3>1. (session_status.total[m] - last[m]) \in 0..MaxBytes
      BY DEF TypeOK, Order, SessionStatus, Bytes
    <3>2. (session_status.total[m] - last[m]) \div span \in Bytes
      <4> DEFINE x == session_status.total[m] - last[m]
      <4>1. span \in Nat \ {0}
        BY <2>2 DEF TypeOK, Times
      <4>2. x \in Nat /\ x <= MaxBytes
        BY <3>1
      <4> HIDE DEF x
      <4>3. x \div span \in 0..x
        BY <4>1, <4>2, Division
      <4> DEFINE q == x \div span
      <4> HIDE DEF q
      <4>4. q \in 0..x
        BY <4>3 DEF q
      <4>5. q \in Bytes
        BY <4>2, <4>4 DEF Bytes
      <4> QED BY <4>5 DEF q, x
    <3>3. session_status' \in SessionStatus /\ session_status'.total = session_status.total
      BY <1>3, <2>2, <3>2 DEF WriteRate, TypeOK, SessionStatus
    <3>4. CASE UNCHANGED batch
      <4>1. TypeOK'
        BY <1>3, <2>2, <3>3, <3>4 DEF WriteRate, NextMetric, TypeOK, Metric
      <4> QED BY <1>3, <2>2, <3>3, <3>4, <4>1 DEF WriteRate, Order, Grows, GrowsInto, Above
    <3>5. CASE batch' = Tail(batch) /\ pc' = "handle"
      <4>1. batch \in Seq(Alerts) /\ batch # <<>>
        BY <1>3 DEF WriteRate, TypeOK
      <4>2. /\ batch' \in Seq(Alerts)
            /\ \A k \in DOMAIN batch' : k \in Nat /\ k + 1 \in DOMAIN batch /\ batch'[k] = batch[k + 1]
        BY <3>5, <4>1, Tails
      <4>3. TypeOK'
        BY <1>3, <2>2, <3>3, <3>5, <4>2 DEF WriteRate, NextMetric, TypeOK, Metric, Times
      <4>4. GrowsInto(batch, alerts)' /\ Above(batch)'
        BY <1>3, <3>3, <4>2 DEF WriteRate, Order, GrowsInto, Above
      <4>5. Grows(batch)'
        <5> SUFFICES ASSUME NEW j \in DOMAIN batch', NEW k \in DOMAIN batch', j < k, NEW i \in Metric
                     PROVE  batch'[j].values[i] <= batch'[k].values[i]
          BY DEF Grows
        <5>1. j + 1 < k + 1
          BY <4>2
        <5> QED BY <4>2, <5>1 DEF Order, Grows
      <4> QED BY <1>3, <3>3, <4>3, <4>4, <4>5 DEF WriteRate, Order, Grows, Above
    <3>6. UNCHANGED batch \/ (batch' = Tail(batch) /\ pc' = "handle")
      BY <1>3, <2>2 DEF WriteRate, NextMetric
    <3> QED BY <3>4, <3>5, <3>6
  <2> QED BY <2>1, <2>2
<1> QED BY <1>1, <1>2, <1>3

(* A member is read: its total may have grown since it was read last.      *)
LEMMA Read ==
  ASSUME Totals, NEW member \in Members, ReadMember(member)
  PROVE  /\ copy' \in SessionStatus /\ answer' \in {copy', answer}
         /\ \A x \in Metric : copy.total[x] <= copy'.total[x]
                              /\ copy'.total[x] <= session_status.total[x]
<1> USE DEF Totals
<1>1. PICK f \in {"total", "rate"}, i \in Metric : member = <<f, i>>
  BY DEF Members
<1>2. copy' = [copy EXCEPT ![f][i] = session_status[f][i]] /\ answer' \in {copy', answer}
  BY <1>1 DEF ReadMember
<1>3. copy' \in SessionStatus
  <2>1. CASE f = "total"
    BY <1>2, <2>1 DEF TypeOK, SessionStatus
  <2>2. CASE f = "rate"
    BY <1>2, <2>2 DEF TypeOK, SessionStatus
  <2> QED BY <2>1, <2>2
<1>4. \A x \in Metric : copy'.total[x] \in {copy.total[x], session_status.total[x]}
  <2>1. CASE f = "total"
    BY <1>2, <2>1 DEF TypeOK, SessionStatus
  <2>2. CASE f = "rate"
    BY <1>2, <2>2 DEF TypeOK, SessionStatus
  <2> QED BY <2>1, <2>2
<1>5. \A x \in Metric : copy.total[x] <= copy.total[x]
                        /\ session_status.total[x] <= session_status.total[x]
  BY Numbers
<1> QED BY <1>2, <1>3, <1>4, <1>5 DEF Order

LEMMA ClientTotals ==
  Totals /\ (program_status_get \/ (\E member \in unread : ReadMember(member))) => Totals'
<1> SUFFICES ASSUME Totals
             PROVE  program_status_get \/ (\E member \in unread : ReadMember(member)) => Totals'
  OBVIOUS
<1>1. ASSUME program_status_get PROVE Totals'
  BY <1>1 DEF program_status_get, Totals, TypeOK, Order, Grows, GrowsInto, Above
<1>2. ASSUME NEW member \in unread, ReadMember(member) PROVE Totals'
  <2>1. member \in Members
    BY DEF Totals, TypeOK
  <2>2. copy' \in SessionStatus /\ answer' \in {copy', answer}
        /\ \A x \in Metric : copy.total[x] <= copy'.total[x]
                             /\ copy'.total[x] <= session_status.total[x]
    BY <1>2, <2>1, Read
  <2>3. TypeOK'
    BY <1>2, <2>2 DEF ReadMember, Totals, TypeOK
  <2>4. \A x \in Metric : answer'.total[x] <= copy'.total[x]
    <3>1. \A x \in Metric : copy'.total[x] \in Nat
      BY <2>3, Numbers DEF Totals, TypeOK, SessionStatus, Bytes
    <3> QED BY <2>2, <3>1, Numbers DEF Totals, Order
  <2>5. Order'
    BY <1>2, <2>2, <2>4 DEF ReadMember, Totals, Order, Grows, GrowsInto, Above
  <2> QED BY <2>3, <2>5 DEF Totals
<1> QED BY <1>1, <1>2

LEMMA NextTotals == Totals /\ [Next]_vars => Totals'
<1> SUFFICES ASSUME Totals, [Next]_vars PROVE Totals'
  OBVIOUS
<1>1. CASE UNCHANGED vars
  BY <1>1 DEF Totals, TypeOK, Order, Grows, GrowsInto, Above
<1>2. CASE Next
  BY <1>2, LibtorrentTotals, QueueTotals, AlertTotals, ClientTotals DEF Next
<1> QED BY <1>1, <1>2

(* The statistics are well-typed; no rate is negative.                     *)
THEOREM TypeCorrect == Spec => []TypeOK
<1>1. Totals => TypeOK
  BY DEF Totals
<1> QED BY <1>1, InitTotals, NextTotals, PTL DEF Spec

LEMMA AnswersGrow ==
  ASSUME Totals, [Next]_vars
  PROVE  \A i \in Metric : answer'.total[i] >= answer.total[i]
<1>1. CASE UNCHANGED answer
  BY <1>1, Numbers DEF Totals
<1>2. ASSUME NEW member \in unread, ReadMember(member)
      PROVE  \A i \in Metric : answer'.total[i] >= answer.total[i]
  <2>1. copy' \in SessionStatus /\ answer' \in {copy', answer}
        /\ \A x \in Metric : copy.total[x] <= copy'.total[x]
    BY <1>2, Read DEF Totals, TypeOK
  <2>2. \A x \in Metric : copy'.total[x] \in Nat
    BY <2>1 DEF SessionStatus, Bytes
  <2> QED BY <2>1, <2>2, Numbers DEF Totals, Order
<1> QED
  BY <1>1, <1>2
  DEF Next, Tick, Count, Statistics, CheckAlerts, SaveFastresume, check_alerts, StartAlert,
      NoMoreAlerts, WriteTotal, WriteRate, PostSessionStats, WaitForAlert, program_status_get

(* However a client's reads fall between the writes of the main thread, no *)
(* total it was told becomes smaller, for any number of metrics.           *)
THEOREM TotalsKept == Spec => TotalsNeverGoBack
<1>1. Totals /\ [Next]_vars => [\A i \in Metric : answer'.total[i] >= answer.total[i]]_vars
  BY AnswersGrow
<1> QED BY <1>1, InitTotals, NextTotals, PTL DEF Spec, TotalsNeverGoBack
---------------------------------------------------------------------------
(* Requests for statistics lie more than a period apart, wherever they are *)
(* now: with libtorrent, in its queue, in the batch.  As long as none was  *)
(* worked in late, interval_last_point lies a millisecond before the next. *)

Spaced(s)      == \A j, k \in DOMAIN s : j < k => s[j].at + Period < s[k].at
SpacedFrom(s, t) == \A j \in DOMAIN s, k \in DOMAIN t : s[j].at + Period < t[k].at
TimesSpaced    == \A j, k \in DOMAIN posted : j < k => posted[j] + Period < posted[k]
SpacedPosts(s) == \A j \in DOMAIN s, k \in DOMAIN posted : s[j].at + Period < posted[k]
AskedBy(s)     == \A k \in DOMAIN s : s[k].at <= last_post_session_stats

Fresh(t) == interval_last_point + Ms <= t

Timing ==
    /\ Spaced(batch) /\ Spaced(alerts) /\ SpacedFrom(batch, alerts)
    /\ TimesSpaced /\ SpacedPosts(batch) /\ SpacedPosts(alerts)
    /\ AskedBy(batch) /\ AskedBy(alerts)
    /\ \A k \in DOMAIN posted : posted[k] <= last_post_session_stats
    /\ ~slow => /\ Fresh(last_post_session_stats + Period)
                /\ \A k \in DOMAIN batch : Fresh(batch[k].at)
                /\ \A k \in DOMAIN alerts : Fresh(alerts[k].at)
                /\ \A k \in DOMAIN posted : Fresh(posted[k])
    /\ (pc \in {"total", "rate"} /\ span = 0) => slow
    /\ DividesByTimePassed

Timed == TypeOK /\ Timing

LEMMA Clock ==
  ASSUME TypeOK
  PROVE  /\ now \in Nat /\ interval_last_point \in Nat /\ last_post_session_stats \in Nat
         /\ interval_last_point <= now /\ last_post_session_stats <= now
         /\ Ms \in Nat /\ Ms >= 1 /\ Period \in Nat /\ Period > Ms
         /\ \A k \in DOMAIN batch : k \in Nat /\ batch[k].at \in Nat
         /\ \A k \in DOMAIN alerts : k \in Nat /\ alerts[k].at \in Nat
         /\ \A k \in DOMAIN posted : k \in Nat /\ posted[k] \in Nat
<1> USE ClockAssumption, SizeAssumption DEF TypeOK, Times
<1>1. (\A k \in DOMAIN batch : k \in Nat /\ batch[k] \in Alerts)
      /\ (\A k \in DOMAIN alerts : k \in Nat /\ alerts[k] \in Alerts)
      /\ \A k \in DOMAIN posted : k \in Nat /\ posted[k] \in Times
  OBVIOUS
<1>2. \A e \in Alerts : e.at \in 0..MaxTime
  BY DEF Alerts
<1> QED BY <1>1, <1>2

LEMMA InitTiming == Init => Timed
<1> SUFFICES ASSUME Init PROVE Timed
  OBVIOUS
<1>1. TypeOK
  BY InitTotals DEF Totals
<1>2. Timing
  BY <1>1, Clock
  DEF Init, Timing, Spaced, SpacedFrom, TimesSpaced, SpacedPosts, AskedBy, Fresh,
      DividesByTimePassed
<1> QED BY <1>1, <1>2 DEF Timed

(* Steps that move no request and no time that was noted.                  *)
LEMMA TimingKept ==
  ASSUME Timing,
         UNCHANGED <<batch, alerts, posted, slow, span, interval_last_point,
                     last_post_session_stats>>,
         pc' \in {"total", "rate", "dead"} => pc' = pc \/ {pc, pc'} = {"total", "rate"}
  PROVE  Timing'
BY DEF Timing, Spaced, SpacedFrom, TimesSpaced, SpacedPosts, AskedBy, Fresh,
       DividesByTimePassed

LEMMA StatisticsTiming == Timed /\ Statistics => Timing'
<1> SUFFICES ASSUME Timed, Statistics PROVE Timing'
  OBVIOUS
<1> USE DEF Timed
<1> DEFINE e == [at |-> Head(posted), values |-> bytes]
<1>1. posted # <<>> /\ posted \in Seq(Times) /\ alerts \in Seq(Alerts) /\ bytes \in [Metric -> Bytes]
  BY DEF Statistics, TypeOK
<1>2. /\ 1 \in DOMAIN posted /\ e.at = posted[1] /\ e \in Alerts
      /\ \A k \in DOMAIN posted' :
           k \in Nat /\ k + 1 \in DOMAIN posted /\ posted'[k] = posted[k + 1] /\ 1 < k + 1
  BY <1>1, Tails DEF Statistics, Alerts
<1>3. /\ Len(alerts) \in Nat
      /\ \A k \in DOMAIN alerts : k \in Nat /\ k <= Len(alerts)
      /\ \A k \in DOMAIN alerts' :
           /\ k \in Nat
           /\ \/ k \in DOMAIN alerts /\ alerts'[k] = alerts[k]
              \/ k = Len(alerts) + 1 /\ alerts'[k].at = posted[1]
  BY <1>1, <1>2, Appended DEF Statistics
<1>4. UNCHANGED <<pc, batch, slow, span, interval_last_point, last_post_session_stats>>
  BY DEF Statistics
<1>5. Spaced(alerts)'
  BY <1>2, <1>3 DEF Timing, Spaced, SpacedPosts
<1>6. SpacedFrom(batch, alerts)'
  BY <1>2, <1>3, <1>4 DEF Timing, SpacedFrom, SpacedPosts
<1>7. TimesSpaced'
  <2> SUFFICES ASSUME NEW j \in DOMAIN posted', NEW k \in DOMAIN posted', j < k
               PROVE  posted'[j] + Period < posted'[k]
    BY DEF TimesSpaced
  <2>1. j + 1 < k + 1
    BY <1>2
  <2> QED BY <1>2, <2>1 DEF Timing, TimesSpaced
<1>8. SpacedPosts(batch)'
  BY <1>2, <1>4 DEF Timing, SpacedPosts
<1>9. SpacedPosts(alerts)'
  BY <1>2, <1>3 DEF Timing, SpacedPosts, TimesSpaced
<1>10. /\ AskedBy(alerts)' /\ AskedBy(batch)'
       /\ \A k \in DOMAIN posted' : posted'[k] <= last_post_session_stats'
  BY <1>2, <1>3, <1>4 DEF Timing, AskedBy
<1>11. ~slow' => /\ Fresh(last_post_session_stats + Period)'
                 /\ \A k \in DOMAIN batch' : Fresh(batch[k].at)'
                 /\ \A k \in DOMAIN alerts' : Fresh(alerts[k].at)'
                 /\ \A k \in DOMAIN posted' : Fresh(posted[k])'
  BY <1>2, <1>3, <1>4 DEF Timing, Fresh
<1> QED
  BY <1>4, <1>5, <1>6, <1>7, <1>8, <1>9, <1>10, <1>11
  DEF Timing, Spaced, DividesByTimePassed

LEMMA PostTiming == Timed /\ PostSessionStats => Timing'
<1> SUFFICES ASSUME Timed, PostSessionStats PROVE Timing'
  OBVIOUS
<1> USE DEF Timed
<1>1. CASE ~TwoSecondsPassed
  BY <1>1, TimingKept DEF PostSessionStats
<1>2. CASE TwoSecondsPassed
  <2>1. /\ posted' = Append(posted, now) /\ last_post_session_stats' = now
        /\ last_post_session_stats + Period < now
        /\ UNCHANGED <<batch, alerts, slow, span, interval_last_point>> /\ pc' = "wait"
    BY <1>2, Clock DEF PostSessionStats, TwoSecondsPassed
  <2>2. /\ Len(posted) \in Nat /\ \A k \in DOMAIN posted : k \in Nat /\ k <= Len(posted)
        /\ \A k \in DOMAIN posted' :
             /\ k \in Nat
             /\ \/ k \in DOMAIN posted /\ posted'[k] = posted[k]
                \/ k = Len(posted) + 1 /\ posted'[k] = now
    BY <2>1, Appended DEF TypeOK
  <2>3. TimesSpaced'
    BY <2>1, <2>2, Clock DEF Timing, TimesSpaced
  <2>4. SpacedPosts(batch)' /\ SpacedPosts(alerts)'
    BY <2>1, <2>2, Clock DEF Timing, SpacedPosts, AskedBy
  <2>5. /\ AskedBy(batch)' /\ AskedBy(alerts)'
        /\ \A k \in DOMAIN posted' : posted'[k] <= last_post_session_stats'
    BY <2>1, <2>2, Clock DEF Timing, AskedBy
  <2>6. ~slow' => /\ Fresh(last_post_session_stats + Period)'
                  /\ \A k \in DOMAIN batch' : Fresh(batch[k].at)'
                  /\ \A k \in DOMAIN alerts' : Fresh(alerts[k].at)'
                  /\ \A k \in DOMAIN posted' : Fresh(posted[k])'
    BY <2>1, <2>2, Clock DEF Timing, Fresh
  <2> QED
    BY <2>1, <2>3, <2>4, <2>5, <2>6
    DEF Timing, Spaced, SpacedFrom, DividesByTimePassed
<1> QED BY <1>1, <1>2

(* The milliseconds are counted from interval_last_point to a moment after *)
(* the request.                                                            *)
LEMMA StartTiming == Timed /\ StartAlert => Timing'
<1> SUFFICES ASSUME Timed, StartAlert PROVE Timing'
  OBVIOUS
<1> USE DEF Timed
<1>1. UNCHANGED <<batch, alerts, posted, slow, interval_last_point, last_post_session_stats>>
      /\ pc' = "total" /\ span' = (now - interval_last_point) \div Ms
  BY DEF StartAlert
<1>2. ASSUME ~slow PROVE span' # 0
  <2>1. 1 \in DOMAIN batch
    BY Tails DEF StartAlert, TypeOK
  <2>2. interval_last_point + Ms <= batch[1].at /\ batch[1].at <= now
    BY <1>2, <2>1, Clock DEF Timing, Fresh, AskedBy
  <2>3. now - interval_last_point \in Nat /\ now - interval_last_point >= Ms /\ Ms \in Nat \ {0}
    BY <2>1, <2>2, Clock
  <2>4. (now - interval_last_point) \div Ms >= 1
    <3> DEFINE d == now - interval_last_point
    <3>1. d \in Nat /\ d >= Ms /\ Ms \in Nat \ {0}
      BY <2>3
    <3> HIDE DEF d
    <3>2. d \div Ms >= 1
      BY <3>1, Division
    <3> QED BY <3>2 DEF d
  <2> QED BY <1>1, <2>4
<1> QED
  BY <1>1, <1>2
  DEF Timing, Spaced, SpacedFrom, TimesSpaced, SpacedPosts, AskedBy, Fresh,
      DividesByTimePassed

(* interval_last_point moves to the moment an alert was worked in: if that *)
(* was in time, a millisecond is left to the next.                         *)
LEMMA RateTiming == Timed /\ WriteRate => Timing'
<1> SUFFICES ASSUME Timed, WriteRate PROVE Timing'
  OBVIOUS
<1> USE DEF Timed
<1>1. UNCHANGED <<alerts, posted, span, last_post_session_stats>> /\ pc = "rate"
  BY DEF WriteRate
<1>2. CASE span = 0
  BY <1>1, <1>2
  DEF WriteRate, Timing, Spaced, SpacedFrom, TimesSpaced, SpacedPosts, AskedBy, Fresh,
      DividesByTimePassed
<1>3. CASE span # 0 /\ m < Metrics /\ UNCHANGED <<batch, interval_last_point, slow>> /\ pc' = "total"
  BY <1>1, <1>3, TimingKept
<1>4. CASE span # 0 /\ pc' = "handle" /\ batch' = Tail(batch) /\ interval_last_point' = now
           /\ slow' = (slow \/ now - Head(batch).at > Period - Ms)
  <2>1. /\ 1 \in DOMAIN batch /\ Head(batch) = batch[1]
        /\ \A k \in DOMAIN batch' :
             k \in Nat /\ k + 1 \in DOMAIN batch /\ batch'[k] = batch[k + 1] /\ 1 < k + 1
    BY <1>1, <1>4, Tails DEF TypeOK
  <2>2. /\ SpacedFrom(batch, alerts)' /\ SpacedPosts(batch)' /\ AskedBy(batch)'
    BY <1>1, <2>1 DEF Timing, SpacedFrom, SpacedPosts, AskedBy
  <2>3. Spaced(batch)'
    <3> SUFFICES ASSUME NEW j \in DOMAIN batch', NEW k \in DOMAIN batch', j < k
                 PROVE  batch'[j].at + Period < batch'[k].at
      BY DEF Spaced
    <3>1. j + 1 < k + 1
      BY <2>1
    <3> QED BY <2>1, <3>1 DEF Timing, Spaced
  <2>4. ASSUME ~slow'
        PROVE  /\ Fresh(last_post_session_stats + Period)'
               /\ \A k \in DOMAIN batch' : Fresh(batch[k].at)'
               /\ \A k \in DOMAIN alerts' : Fresh(alerts[k].at)'
               /\ \A k \in DOMAIN posted' : Fresh(posted[k])'
    <3>1. now - batch[1].at <= Period - Ms
      <4>1. ~(now - batch[1].at > Period - Ms)
        BY <1>4, <2>1, <2>4, Zenon
      <4>2. now - batch[1].at \in Int /\ Period - Ms \in Int
        BY <2>1, Clock
      <4> QED BY <4>1, <4>2
    <3>2. now + Ms <= batch[1].at + Period
      BY <2>1, <3>1, Clock
    <3>3. now + Ms <= last_post_session_stats + Period
      BY <2>1, <3>2, Clock DEF Timing, AskedBy
    <3>4. \A k \in DOMAIN batch' : now + Ms <= batch'[k].at
      BY <2>1, <3>2, Clock DEF Timing, Spaced
    <3>5. \A k \in DOMAIN alerts : now + Ms <= alerts[k].at
      BY <2>1, <3>2, Clock DEF Timing, SpacedFrom
    <3>6. \A k \in DOMAIN posted : now + Ms <= posted[k]
      BY <2>1, <3>2, Clock DEF Timing, SpacedPosts
    <3> QED BY <1>1, <1>4, <3>3, <3>4, <3>5, <3>6 DEF Fresh
  <2> QED
    BY <1>1, <1>4, <2>2, <2>3, <2>4
    DEF Timing, Spaced, TimesSpaced, SpacedPosts, AskedBy, DividesByTimePassed
<1>5. span # 0 => \/ m < Metrics /\ UNCHANGED <<batch, interval_last_point, slow>> /\ pc' = "total"
                  \/ pc' = "handle" /\ batch' = Tail(batch) /\ interval_last_point' = now
                     /\ slow' = (slow \/ now - Head(batch).at > Period - Ms)
  BY DEF WriteRate, NextMetric
<1> QED BY <1>2, <1>3, <1>4, <1>5

LEMMA QueueTiming == Timed /\ (CheckAlerts \/ SaveFastresume) => Timing'
<1> SUFFICES ASSUME Timed, CheckAlerts \/ SaveFastresume PROVE Timing'
  OBVIOUS
<1>1. /\ batch' = alerts /\ alerts' = <<>> /\ pc' = "handle"
      /\ UNCHANGED <<posted, slow, span, interval_last_point, last_post_session_stats>>
  BY DEF CheckAlerts, SaveFastresume, check_alerts, pop_alerts
<1> QED
  BY <1>1
  DEF Timed, Timing, Spaced, SpacedFrom, TimesSpaced, SpacedPosts, AskedBy, Fresh,
      DividesByTimePassed

LEMMA NextTiming == Timed /\ TypeOK' /\ [Next]_vars => Timed'
<1> SUFFICES ASSUME Timed, [Next]_vars PROVE Timing'
  BY DEF Timed
<1>1. CASE UNCHANGED vars
  BY <1>1, TimingKept DEF Timed
<1>2. CASE Tick \/ (\E i \in Metric : Count(i)) \/ NoMoreAlerts \/ WriteTotal \/ WaitForAlert
           \/ program_status_get \/ \E member \in unread : ReadMember(member)
  <2>1. pc' \in {"total", "rate", "dead"} => pc' = pc \/ {pc, pc'} = {"total", "rate"}
    BY <1>2 DEF Tick, Count, NoMoreAlerts, WriteTotal, WaitForAlert, program_status_get,
                ReadMember, Timed, TypeOK
  <2>2. UNCHANGED <<batch, alerts, posted, slow, span, interval_last_point,
                    last_post_session_stats>>
    BY <1>2 DEF Tick, Count, NoMoreAlerts, WriteTotal, WaitForAlert, program_status_get,
                ReadMember
  <2> QED BY <2>1, <2>2, TimingKept DEF Timed
<1>3. CASE Statistics \/ PostSessionStats \/ StartAlert \/ WriteRate \/ CheckAlerts
           \/ SaveFastresume
  BY <1>3, StatisticsTiming, PostTiming, StartTiming, RateTiming, QueueTiming
<1> QED BY <1>1, <1>2, <1>3 DEF Next

(* The division by the milliseconds that passed since the last statistics  *)
(* goes wrong only after some statistics were worked in almost a period    *)
(* after they were asked for, with any clock and any period.               *)
THEOREM DividesSafely == Spec => []DividesByTimePassed
<1>1. Timed => DividesByTimePassed
  BY DEF Timed, Timing
<1>2. Totals' => TypeOK'
  BY DEF Totals
<1>3. Totals /\ Timed /\ [Next]_vars => Totals' /\ Timed'
  BY <1>2, NextTotals, NextTiming
<1> QED BY <1>1, <1>3, InitTotals, InitTiming, PTL DEF Spec
===========================================================================
