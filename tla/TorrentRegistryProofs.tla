---------------------- MODULE TorrentRegistryProofs ----------------------
(***************************************************************************)
(* Proofs about TorrentRegistry, for every bound MaxAdds and every set of  *)
(* Requests.                                                               *)
(***************************************************************************)
EXTENDS TorrentRegistry, TLAPS

(* Additions in flight and ids given out stay within the bound.            *)
Budget == InFlight <= MaxAdds

(* A handler that walks its id list is at one of its ids.                  *)
IndexOK == /\ hpc \in {"check", "act"} \cup Erasing => k \in 1..Len(ids)
           /\ hpc = "collect" => k = 1

TypeInv == TypeOK /\ Budget /\ IndexOK


LEMMA TypeInit == Init => TypeInv
<1> SUFFICES ASSUME Init PROVE TypeInv
  OBVIOUS
<1> USE MaxAddsAssumption DEF Init
<1>1. VectorOK
  BY DEF VectorOK
<1>2. SessionOK
  BY DEF SessionOK
<1>3. MainOK
  BY DEF MainOK
<1>4. HttpOK
  BY DEF HttpOK, Ops
<1>5. HistoryOK
  BY DEF HistoryOK
<1>6. Budget /\ IndexOK
  BY DEF Budget, InFlight, IndexOK, Erasing
<1>7. QED
  BY <1>1, <1>2, <1>3, <1>4, <1>5, <1>6 DEF TypeInv, TypeOK

LEMMA SlotType ==
  ASSUME VectorOK, NEW i
  PROVE  Slot(i) \in Torrents \cup {Null}
  BY DEF VectorOK, Slot

LEMMA NoneYet == ASSUME NEW S PROVE <<>> \in Seq(S)
  OBVIOUS

(* A store of a Torrent, or of nothing, into any slot.                     *)
LEMMA StoreType ==
  ASSUME VectorOK, NEW n, NEW t \in Torrents \cup {Null}
  PROVE  [slots EXCEPT ![n] = t] \in [1..MaxAdds -> Torrents \cup {Null}]
  BY DEF VectorOK

(* The Torrent made for the alert at the head of the batch.                *)
LEMMA NewTorrentType ==
  ASSUME TypeInv, batch # <<>>, Head(batch) # Error
  PROVE  /\ NewTorrent \in Torrents
         /\ greatest_id \in 1..MaxAdds
         /\ Tail(batch) \in Seq(0..MaxAdds)
         /\ Len(Tail(batch)) = Len(batch) - 1
<1> USE MaxAddsAssumption DEF TypeInv, TypeOK
<1>1. batch \in Seq(0..MaxAdds) /\ Len(batch) \in Nat /\ Len(batch) >= 1
  BY DEF MainOK
<1>2. Head(batch) \in 1..MaxAdds
  BY <1>1 DEF Error
<1>3. Len(alerts) \in Nat /\ adding \in Nat
  BY DEF SessionOK
<1>4. greatest_id \in 1..MaxAdds
  BY <1>1, <1>3 DEF VectorOK, Budget, InFlight
<1>5. QED
  BY <1>1, <1>2, <1>4 DEF NewTorrent, Torrents

(* What a step of the main thread leaves alone.                            *)
LEMMA MainFrame ==
  Main => /\ UNCHANGED <<session, handles, adding, http, aliased>>
          /\ alerts' = alerts \/ alerts' = <<>>
<1> USE DEF libt, history
<1>1. ConsoleStep \/ ConsoleDone \/ AlertError \/ NextRound
      => /\ UNCHANGED <<session, handles, adding, http, aliased>>
         /\ alerts' = alerts
  BY DEF ConsoleStep, ConsoleDone, AlertError, NextRound
<1>2. PushConstruct \/ PushPublish \/ PushRealloc
      => /\ UNCHANGED <<session, handles, adding, http, aliased>>
         /\ alerts' = alerts
  BY DEF PushConstruct, PushPublish, PushRealloc
<1>3. PopAlerts => /\ UNCHANGED <<session, handles, adding, http, aliased>>
                   /\ alerts' = <<>>
  BY DEF PopAlerts
<1>4. QED
  BY <1>1, <1>2, <1>3 DEF Main

LEMMA TypeMain == TypeInv /\ Main => TypeInv'
<1> SUFFICES ASSUME TypeInv, Main PROVE TypeInv'
  OBVIOUS
<1> USE MaxAddsAssumption DEF vector, libt, history
<1>0. VectorOK /\ SessionOK /\ MainOK /\ HttpOK /\ HistoryOK /\ Budget
      /\ IndexOK
  BY DEF TypeInv, TypeOK
<1>1. SessionOK' /\ HttpOK' /\ IndexOK'
  <2>1. SessionOK'
    BY <1>0, MainFrame, NoneYet DEF SessionOK
  <2>2. HttpOK' /\ IndexOK'
    BY <1>0, MainFrame DEF HttpOK, IndexOK, http
  <2>3. QED
    BY <2>1, <2>2
<1>2. CASE PushConstruct
  <2>1. /\ NewTorrent \in Torrents /\ greatest_id \in 1..MaxAdds
        /\ Tail(batch) \in Seq(0..MaxAdds)
        /\ Len(Tail(batch)) = Len(batch) - 1
    BY <1>2, NewTorrentType DEF PushConstruct
  <2>2. VectorOK'
    <3>1. slots' \in [1..MaxAdds -> Torrents \cup {Null}]
      BY <1>0, <1>2, <2>1, StoreType DEF PushConstruct
    <3>2. QED
      BY <1>0, <1>2, <2>1, <3>1 DEF PushConstruct, VectorOK
  <2>3. MainOK'
    BY <1>0, <1>2, <2>1 DEF PushConstruct, VectorOK, MainOK
  <2>4. Budget'
    BY <1>0, <1>2, <2>1 DEF PushConstruct, MainOK, SessionOK, Budget, InFlight
  <2>5. HistoryOK'
    BY <1>0, <1>2 DEF PushConstruct, HistoryOK, http
  <2>6. QED
    BY <1>1, <2>2, <2>3, <2>4, <2>5 DEF TypeInv, TypeOK
<1>3. CASE PushRealloc
  <2>1. /\ NewTorrent \in Torrents /\ greatest_id \in 1..MaxAdds
        /\ Tail(batch) \in Seq(0..MaxAdds)
        /\ Len(Tail(batch)) = Len(batch) - 1
    BY <1>3, NewTorrentType DEF PushRealloc
  <2>2. VectorOK'
    <3>1. slots' \in [1..MaxAdds -> Torrents \cup {Null}]
      BY <1>0, <1>3, <2>1, StoreType DEF PushRealloc
    <3>2. QED
      BY <1>0, <1>3, <2>1, <3>1 DEF PushRealloc, VectorOK, Grown
  <2>3. MainOK'
    BY <1>0, <1>3, <2>1 DEF PushRealloc, VectorOK, MainOK
  <2>4. Budget'
    BY <1>0, <1>3, <2>1 DEF PushRealloc, MainOK, SessionOK, Budget, InFlight
  <2>5. HistoryOK'
    BY <1>0, <1>3 DEF PushRealloc, HistoryOK, http
  <2>6. QED
    BY <1>1, <2>2, <2>3, <2>4, <2>5 DEF TypeInv, TypeOK
<1>4. CASE PushPublish
  BY <1>0, <1>1, <1>4 DEF PushPublish, VectorOK, MainOK, HistoryOK, Budget,
     InFlight, TypeInv, TypeOK, http
<1>5. CASE AlertError
  <2>1. Tail(batch) \in Seq(0..MaxAdds) /\ Len(Tail(batch)) = Len(batch) - 1
    BY <1>0, <1>5 DEF AlertError, MainOK
  <2>2. VectorOK' /\ MainOK' /\ HistoryOK'
    BY <1>0, <1>5, <2>1 DEF AlertError, VectorOK, MainOK, HistoryOK, http
  <2>3. Budget'
    BY <1>0, <1>5, <2>1
    DEF AlertError, MainOK, SessionOK, VectorOK, Budget, InFlight
  <2>4. QED
    BY <1>1, <2>2, <2>3 DEF TypeInv, TypeOK
<1>6. CASE PopAlerts
  <2>1. VectorOK' /\ MainOK' /\ HistoryOK'
    BY <1>0, <1>6 DEF PopAlerts, VectorOK, MainOK, SessionOK, HistoryOK, http
  <2>2. Budget'
    BY <1>0, <1>6
    DEF PopAlerts, MainOK, SessionOK, VectorOK, Budget, InFlight
  <2>3. QED
    BY <1>1, <2>1, <2>2 DEF TypeInv, TypeOK
<1>7. CASE ConsoleStep \/ ConsoleDone \/ NextRound
  <2>1. VectorOK' /\ Budget'
    BY <1>0, <1>7 DEF ConsoleStep, ConsoleDone, NextRound, VectorOK, Budget,
       InFlight
  <2>2. MainOK'
    BY <1>0, <1>7 DEF ConsoleStep, ConsoleDone, NextRound, VectorOK, MainOK
  <2>3. HistoryOK'
    BY <1>0, <1>7 DEF ConsoleStep, ConsoleDone, NextRound, HistoryOK, http
  <2>4. QED
    BY <1>1, <2>1, <2>2, <2>3 DEF TypeInv, TypeOK
<1>8. QED
  BY <1>2, <1>3, <1>4, <1>5, <1>6, <1>7 DEF Main

LEMMA TypeSession == TypeInv /\ (SessionAnswers \/ AddRequest) => TypeInv'
<1> SUFFICES ASSUME TypeInv, SessionAnswers \/ AddRequest PROVE TypeInv'
  OBVIOUS
<1> USE MaxAddsAssumption DEF vector, main, http, history, TypeInv, TypeOK
<1>1. VectorOK' /\ MainOK' /\ HttpOK' /\ HistoryOK' /\ IndexOK'
  BY DEF SessionAnswers, AddRequest, VectorOK, MainOK, HttpOK, HistoryOK,
     IndexOK
<1>2. CASE AddRequest
  BY <1>1, <1>2 DEF AddRequest, SessionOK, MainOK, VectorOK, Budget, InFlight
<1>3. CASE SessionAnswers
  <2>1. PICK h \in 0..MaxAdds : alerts' = Append(alerts, h)
    BY <1>3 DEF SessionAnswers, SessionOK, Error
  <2>2. alerts' \in Seq(0..MaxAdds) /\ Len(alerts') = Len(alerts) + 1
    BY <2>1 DEF SessionOK
  <2>3. SessionOK'
    <3>1. session' \subseteq 1..MaxAdds /\ handles' \in 0..MaxAdds
      <4>1. CASE handles < MaxAdds /\ handles' = handles + 1
                 /\ session' = session \cup {handles'}
        BY <4>1 DEF SessionOK
      <4>2. CASE UNCHANGED <<session, handles>>
        BY <4>2 DEF SessionOK
      <4>3. QED
        BY <1>3, <4>1, <4>2 DEF SessionAnswers
    <3>2. adding' \in 0..MaxAdds
      BY <1>3 DEF SessionAnswers, SessionOK
    <3>3. QED
      BY <2>2, <3>1, <3>2 DEF SessionOK
  <2>4. Budget'
    BY <1>3, <2>2
    DEF SessionAnswers, SessionOK, MainOK, VectorOK, Budget, InFlight
  <2>5. QED
    BY <1>1, <2>3, <2>4
<1>4. QED
  BY <1>2, <1>3

(* What a step of a handler leaves alone.                                  *)
LEMMA HandlerFrame ==
  Handler => /\ UNCHANGED <<greatest_id, handles, adding, alerts, main, cap, gen>>
             /\ session' \subseteq session
<1> USE DEF libt, vector
<1>1. DerefCrash \/ CollectStep \/ CollectDone \/ SweepStep \/ SweepDone
      \/ CheckStep \/ CheckNext \/ CheckMissing
      => /\ UNCHANGED <<greatest_id, handles, adding, alerts, main, cap, gen>>
         /\ session' \subseteq session
  BY DEF DerefCrash, CollectStep, CollectDone, SweepStep, SweepDone, CheckStep,
     CheckNext, CheckMissing
<1>2. ActSkip \/ ActUse \/ ActDone \/ EraseReset \/ EraseShift \/ ErasePop
      \/ EraseCrash \/ Reply
      => /\ UNCHANGED <<greatest_id, handles, adding, alerts, main, cap, gen>>
         /\ session' \subseteq session
  BY DEF ActSkip, ActUse, ActDone, EraseReset, EraseShift, ErasePop,
     EraseCrash, Reply
<1>3. ActErase
      => /\ UNCHANGED <<greatest_id, handles, adding, alerts, main, cap, gen>>
         /\ session' \subseteq session
  BY DEF ActErase, history
<1>4. QED
  BY <1>1, <1>2, <1>3 DEF Handler

LEMMA TypeHandler == TypeInv /\ Handler => TypeInv'
<1> SUFFICES ASSUME TypeInv, Handler PROVE TypeInv'
  OBVIOUS
<1> USE MaxAddsAssumption DEF vector, main, history
<1>0. VectorOK /\ SessionOK /\ MainOK /\ HttpOK /\ HistoryOK /\ Budget
      /\ IndexOK
  BY DEF TypeInv, TypeOK
<1>1. SessionOK' /\ MainOK' /\ Budget'
  BY <1>0, HandlerFrame DEF SessionOK, MainOK, Budget, InFlight
<1>q. VectorOK' /\ HttpOK' /\ HistoryOK' /\ IndexOK' => TypeInv'
  BY <1>1 DEF TypeInv, TypeOK
<1>a. /\ Slot(it) \in Torrents \cup {Null}
      /\ Slot(it) # Null => Slot(it).id \in Nat
  BY <1>0, SlotType, NullAssumption DEF Torrents
<1>b. hpc \in {"check", "act", "reset", "shift"} => ids[k] \in Nat
  BY <1>0 DEF IndexOK, HttpOK, Erasing
<1>c. Slot(it) # Null => Append(out, Slot(it).id) \in Seq(Nat)
  BY <1>0, <1>a DEF HttpOK
<1>2. CASE DerefCrash \/ EraseCrash \/ Reply
  BY <1>0, <1>2, <1>q DEF DerefCrash, EraseCrash, Reply, VectorOK, HttpOK,
     HistoryOK, IndexOK, http, Erasing
<1>3. CASE CollectStep
  BY <1>0, <1>3, <1>a, <1>q DEF CollectStep, Reading, VectorOK, HttpOK,
     HistoryOK, IndexOK, Erasing
<1>4. CASE CollectDone
  <2>1. VectorOK' /\ HistoryOK'
    BY <1>0, <1>4 DEF CollectDone, Finished, Rewind, VectorOK, HistoryOK
  <2>2. HttpOK'
    BY <1>0, <1>4 DEF CollectDone, Finished, Rewind, HttpOK, VectorOK, Looping, Erasing
  <2>3. IndexOK'
    <3>1. ids # <<>> => 1 \in 1..Len(ids)
      BY <1>0 DEF HttpOK
    <3>2. QED
      BY <1>0, <1>4, <3>1 DEF CollectDone, Finished, IndexOK, Erasing
  <2>4. QED
    BY <1>q, <2>1, <2>2, <2>3
<1>5. CASE SweepStep \/ SweepDone
  <2>1. VectorOK' /\ HistoryOK'
    BY <1>0, <1>5 DEF SweepStep, SweepDone, Reading, Finished, Use, VectorOK, HistoryOK
  <2>2. HttpOK'
    <3>1. out' \in Seq(Nat)
      BY <1>0, <1>c, <1>5 DEF SweepStep, SweepDone, Reading, Finished, Use, HttpOK
    <3>2. CASE SweepStep
      BY <1>0, <3>1, <3>2 DEF SweepStep, Reading, Use, HttpOK, Looping, Erasing
    <3>3. CASE SweepDone
      BY <1>0, <3>1, <3>3 DEF SweepDone, Finished, HttpOK, Looping, Erasing
    <3>4. QED
      BY <1>5, <3>2, <3>3
  <2>3. IndexOK'
    BY <1>0, <1>5 DEF SweepStep, SweepDone, Reading, Finished, Use, IndexOK, HttpOK, Looping, Erasing
  <2>4. QED
    BY <1>q, <2>1, <2>2, <2>3
<1>6. CASE CheckStep
  BY <1>0, <1>6, <1>q DEF CheckStep, Reading, VectorOK, HttpOK, HistoryOK,
     IndexOK
<1>7. CASE CheckNext \/ CheckMissing
  <2>1. VectorOK' /\ HistoryOK'
    BY <1>0, <1>7 DEF CheckNext, CheckMissing, Finished, Rewind, VectorOK, HistoryOK
  <2>2. HttpOK'
    <3>1. CASE CheckNext
      BY <1>0, <3>1 DEF CheckNext, Finished, Rewind, HttpOK, VectorOK, Looping, Erasing
    <3>2. CASE CheckMissing
      BY <1>0, <1>b, <3>2 DEF CheckMissing, Finished, HttpOK, Looping, Erasing
    <3>3. QED
      BY <1>7, <3>1, <3>2
  <2>3. IndexOK'
    BY <1>0, <1>7 DEF CheckNext, CheckMissing, Finished, Rewind, IndexOK, HttpOK, Looping, Erasing
  <2>4. QED
    BY <1>q, <2>1, <2>2, <2>3
<1>8. CASE ActSkip \/ ActUse
  <2>1. VectorOK' /\ HistoryOK'
    BY <1>0, <1>8 DEF ActSkip, ActUse, Reading, Use, VectorOK, HistoryOK
  <2>2. HttpOK'
    <3>1. out' \in Seq(Nat)
      BY <1>0, <1>c, <1>8 DEF ActSkip, ActUse, Reading, Use, HttpOK
    <3>2. QED
      BY <1>0, <3>1, <1>8 DEF ActSkip, ActUse, Reading, Use,
         HttpOK, Looping, Erasing
  <2>3. IndexOK'
    BY <1>0, <1>8 DEF ActSkip, ActUse, Reading, Use, IndexOK, HttpOK, Looping, Erasing
  <2>4. QED
    BY <1>q, <2>1, <2>2, <2>3
<1>9. CASE ActDone
  BY <1>0, <1>9, <1>q DEF ActDone, Finished, Rewind, NextId, VectorOK, HttpOK,
     HistoryOK, IndexOK, Looping, Erasing
<1>10. CASE ActErase
  BY <1>0, <1>10, <1>q DEF ActErase, Reading, VectorOK, HttpOK, HistoryOK,
     IndexOK, Looping, Erasing
<1>11. CASE EraseReset \/ EraseShift
  <2>1. slots' \in [1..MaxAdds -> Torrents \cup {Null}]
    BY <1>0, <1>11, SlotType DEF EraseReset, EraseShift, VectorOK
  <2>2. VectorOK' /\ IndexOK'
    BY <1>0, <1>11, <2>1 DEF EraseReset, EraseShift, VectorOK, IndexOK, Erasing
  <2>5. HttpOK'
    BY <1>0, <1>11 DEF EraseReset, EraseShift, VectorOK, HttpOK, Erasing
  <2>3. HistoryOK'
    BY <1>0, <1>11 DEF EraseReset, EraseShift, HistoryOK
  <2>4. QED
    BY <1>q, <2>2, <2>3, <2>5
<1>12. CASE ErasePop
  <2>1. slots' \in [1..MaxAdds -> Torrents \cup {Null}]
    BY <1>0, <1>12, StoreType DEF ErasePop
  <2>2. out' \in Seq(Nat)
    BY <1>0, <1>12, <1>b DEF ErasePop, HttpOK
  <2>3. VectorOK' /\ HttpOK' /\ IndexOK'
    BY <1>0, <1>12, <2>1, <2>2 DEF ErasePop, NextId, Rewind, VectorOK, HttpOK,
       IndexOK, Looping, Erasing
  <2>4. HistoryOK'
    BY <1>0, <1>12 DEF ErasePop, HistoryOK
  <2>5. QED
    BY <1>q, <2>3, <2>4
<1>13. QED
  BY <1>2, <1>3, <1>4, <1>5, <1>6, <1>7, <1>8, <1>9, <1>10, <1>11, <1>12
  DEF Handler

LEMMA TypeReceive ==
  ASSUME TypeInv, NEW o \in Ops, NEW req \in Requests, Receive(o, req)
  PROVE  TypeInv'
<1> USE MaxAddsAssumption DEF vector, libt, main, history, TypeInv, TypeOK
<1>1. req \in Seq(Nat) /\ (req # <<>> => 1 \in 1..Len(req))
  BY RequestsAssumption
<1>2. VectorOK' /\ SessionOK' /\ MainOK' /\ HistoryOK' /\ Budget'
  BY DEF Receive, VectorOK, SessionOK, MainOK, HistoryOK, Budget, InFlight
<1>3. HttpOK'
  BY <1>1, NoneYet DEF Receive, Rewind, HttpOK, VectorOK, Looping, Erasing
<1>4. IndexOK'
  BY <1>1 DEF Receive, IndexOK, Erasing
<1>5. QED
  BY <1>2, <1>3, <1>4

(* Type correctness.                                                       *)
LEMMA TypeStep == TypeInv /\ [Next]_vars => TypeInv'
<1>1. TypeInv /\ UNCHANGED vars => TypeInv'
  BY DEF vars, vector, libt, main, http, history, TypeInv, TypeOK, VectorOK,
     SessionOK, MainOK, HttpOK, HistoryOK, Budget, InFlight, IndexOK
<1>2. QED
  BY <1>1, TypeMain, TypeSession, TypeHandler, TypeReceive
  DEF Next, Arrive, Dead

(* Every variable keeps its type and the additions their bound, whatever   *)
(* the two threads and libtorrent do.                                      *)
THEOREM TypeCorrect == Spec => []TypeOK
<1>1. Spec => []TypeInv
  BY TypeInit, TypeStep, PTL DEF Spec
<1>2. TypeInv => TypeOK
  BY DEF TypeInv
<1>3. QED
  BY <1>1, <1>2, PTL

---------------------------------------------------------------------------
(* Ids never clash.                                                        *)

LEMMA SlotStore ==
  ASSUME VectorOK, NEW n, NEW t, slots' = [slots EXCEPT ![n] = t], NEW i
  PROVE  Slot(i)' = IF i = n /\ i \in 1..MaxAdds THEN t ELSE Slot(i)
  BY DEF VectorOK, Slot

LEMMA SlotKeep == ASSUME UNCHANGED slots, NEW i PROVE Slot(i)' = Slot(i)
  BY DEF Slot

(* Which steps change a slot, and how.                                     *)
Pushes == /\ slots' = [slots EXCEPT ![size + 1] = NewTorrent]
          /\ greatest_id' = greatest_id + 1
Shifts == /\ slots' = [slots EXCEPT ![it] = Slot(it + 1), ![it + 1] = Null]
          /\ UNCHANGED greatest_id
Clears(n) == slots' = [slots EXCEPT ![n] = Null] /\ UNCHANGED greatest_id
Keeps == UNCHANGED <<slots, greatest_id>>

LEMMA SlotSteps ==
  [Next]_vars => \/ Pushes /\ (PushConstruct \/ PushRealloc)
                 \/ Shifts /\ EraseShift
                 \/ Clears(it) /\ EraseReset
                 \/ Clears(size) /\ ErasePop
                 \/ Keeps
<1> USE DEF vector, Keeps
<1>1. Main => (Pushes /\ (PushConstruct \/ PushRealloc)) \/ Keeps
  BY DEF Main, ConsoleStep, ConsoleDone, PopAlerts, AlertError, PushConstruct,
     PushPublish, PushRealloc, NextRound, Pushes
<1>2. DerefCrash \/ CollectStep \/ CollectDone \/ SweepStep \/ SweepDone
      \/ CheckStep \/ CheckNext \/ CheckMissing => Keeps
  BY DEF DerefCrash, CollectStep, CollectDone, SweepStep, SweepDone, CheckStep,
     CheckNext, CheckMissing
<1>3. ActSkip \/ ActUse \/ ActDone \/ ActErase \/ EraseCrash \/ Reply => Keeps
  BY DEF ActSkip, ActUse, ActDone, ActErase, EraseCrash, Reply
<1>4. EraseReset => Clears(it) \/ Keeps
  BY DEF EraseReset, Clears
<1>5. EraseShift => Shifts
  BY DEF EraseShift, Shifts
<1>6. ErasePop => Clears(size)
  BY DEF ErasePop, Clears
<1>7. SessionAnswers \/ Arrive \/ Dead \/ UNCHANGED vars => Keeps
  BY DEF SessionAnswers, Arrive, AddRequest, Receive, Dead, vars
<1>8. QED
  BY <1>1, <1>2, <1>3, <1>4, <1>5, <1>6, <1>7 DEF Next, Handler

LEMMA ClashStep == TypeInv /\ IdsNeverClash /\ [Next]_vars => IdsNeverClash'
<1> SUFFICES ASSUME TypeInv, IdsNeverClash, [Next]_vars,
                    NEW i \in 1..MaxAdds, NEW j \in 1..MaxAdds, Slot(i)' # Null
             PROVE  /\ Slot(i)'.id < greatest_id'
                    /\ Slot(j)' # Null /\ Slot(j)'.id = Slot(i)'.id => i = j
  BY DEF IdsNeverClash
<1> USE MaxAddsAssumption
<1>0. VectorOK /\ greatest_id \in Nat
  BY DEF TypeInv, TypeOK, VectorOK
<1>1. \A n \in 1..MaxAdds : Slot(n) # Null => /\ Slot(n).id \in Nat
                                             /\ Slot(n).id < greatest_id
  BY <1>0, SlotType DEF Torrents, IdsNeverClash
<1>2. CASE Pushes
  <2>1. NewTorrent.id = greatest_id
    BY DEF NewTorrent
  <2>2. \A n \in 1..MaxAdds : Slot(n)' = IF n = size + 1 THEN NewTorrent
                                          ELSE Slot(n)
    BY <1>0, <1>2, SlotStore DEF Pushes
  <2>3. QED
    BY <1>0, <1>1, <1>2, <2>1, <2>2 DEF Pushes, IdsNeverClash
<1>3. CASE Shifts
  <2>1. \A n \in 1..MaxAdds : Slot(n)' = IF n = it + 1 THEN Null
                                          ELSE IF n = it THEN Slot(it + 1)
                                          ELSE Slot(n)
    BY <1>0, <1>3 DEF Shifts, VectorOK, Slot, TypeInv, TypeOK, HttpOK
  <2>2. Slot(it + 1) # Null => it + 1 \in 1..MaxAdds
    BY DEF Slot
  <2>3. QED
    BY <1>1, <1>3, <2>1, <2>2 DEF Shifts, IdsNeverClash
<1>4. ASSUME NEW n, Clears(n)
      PROVE  /\ Slot(i)'.id < greatest_id'
             /\ Slot(j)' # Null /\ Slot(j)'.id = Slot(i)'.id => i = j
  BY <1>0, <1>4, SlotStore DEF Clears, IdsNeverClash
<1>5. CASE Keeps
  BY <1>5, SlotKeep DEF Keeps, IdsNeverClash
<1>6. QED
  BY <1>2, <1>3, <1>4, <1>5, SlotSteps

(* An id names at most one torrent and was given out before, for every     *)
(* number of torrents and every interleaving of the two threads.           *)
THEOREM IdsUnique == Spec => []IdsNeverClash
<1>1. Init => TypeInv /\ IdsNeverClash
  BY TypeInit DEF Init, IdsNeverClash, Slot
<1>2. QED
  BY <1>1, TypeStep, ClashStep, PTL DEF Spec

---------------------------------------------------------------------------
(* The shape of the vector while the threads have not collided, and why an *)
(* empty slot or a dead handle is met only after they have.                *)

SizeBound == /\ size <= greatest_id - 1
             /\ mpc = "publish" => mend <= greatest_id - 1

Filled(n) == \A i \in 1..MaxAdds : Slot(i) # Null <=> i <= n

Layout ==
    ~overlap =>
       /\ size >= 0
       /\ HttpInVector => ~Stale
       /\ hpc \in Looping => it <= size + 1
       /\ hpc = "collect" => hend <= size /\ it <= hend + 1
       /\ hpc \in Erasing => ~MainInVector /\ it <= size
       /\ mpc = "console" => mend <= size
       /\ mpc = "publish" => mend = size + 1 /\ Filled(mend)
       /\ mpc # "publish" /\ hpc # "shift" => Filled(size)
       /\ hpc = "shift" => /\ hend = size
                           /\ \A i \in 1..MaxAdds :
                                 Slot(i) # Null <=> i <= size /\ i # it

(* Unless a torrent was removed under one of two ids, every handle in the  *)
(* vector, in an alert or in the batch still has its torrent; the entry    *)
(* between session.remove_torrent and reset is the exception.              *)
HandlesLive ==
    ~overlap /\ ~aliased =>
       /\ \A i \in 1..MaxAdds :
             Slot(i) # Null /\ ~(hpc = "reset" /\ i = it)
             => Slot(i).handle \in session
       /\ \A i \in 1..Len(alerts) : alerts[i] \in session \cup {Error}
       /\ \A i \in 1..Len(batch) : batch[i] \in session \cup {Error}

(* A lookup appends at most one answer per id.                             *)
AnswerBound ==
    /\ hpc = "sweep" => ids = <<>>
    /\ hpc \in {"collect", "check"} => out = <<>>
    /\ hpc = "act" => /\ Len(out) <= k
                      /\ Len(out) = k =>
                           /\ ids[k] < greatest_id
                           /\ \A i \in 1..MaxAdds :
                                i >= it /\ Slot(i) # Null => Slot(i).id # ids[k]
    /\ hpc \in Erasing => Len(out) < k
    /\ hpc = "reply" /\ ids # <<>> => Len(out) <= Len(ids)

SafetyInv == SizeBound /\ Layout /\ HandlesLive /\ AnswerBound

LEMMA SizeStep == TypeInv /\ SizeBound /\ [Next]_vars => SizeBound'
<1> SUFFICES ASSUME TypeInv, SizeBound, [Next]_vars PROVE SizeBound'
  OBVIOUS
<1> USE DEF SizeBound, vector, main
<1>0. size \in Int /\ greatest_id \in Int
  BY MaxAddsAssumption DEF TypeInv, TypeOK, VectorOK
<1>1. CASE Main
  BY <1>0, <1>1 DEF Main, ConsoleStep, ConsoleDone, PopAlerts, AlertError,
     PushConstruct, PushPublish, PushRealloc, NextRound
<1>2. CASE Handler
  <2>1. size' = size \/ size' = size - 1
    BY <1>2 DEF Handler, DerefCrash, CollectStep, CollectDone, SweepStep,
       SweepDone, CheckStep, CheckNext, CheckMissing, ActSkip, ActUse, ActDone,
       ActErase, EraseReset, EraseShift, ErasePop, EraseCrash, Reply
  <2>2. QED
    BY <1>0, <1>2, <2>1, HandlerFrame
<1>3. CASE SessionAnswers \/ Arrive \/ Dead \/ UNCHANGED vars
  BY <1>3 DEF SessionAnswers, Arrive, AddRequest, Receive, Dead, vars
<1>4. QED
  BY <1>1, <1>2, <1>3 DEF Next

(* A collision and a removal of a shared torrent are remembered.           *)
LEMMA HistoryStep ==
  ASSUME TypeInv, [Next]_vars
  PROVE  (overlap => overlap') /\ (aliased => aliased')
<1> DEFINE Kept == (overlap => overlap') /\ (aliased => aliased')
<1>0. overlap \in BOOLEAN /\ aliased \in BOOLEAN
  BY DEF TypeInv, TypeOK, HistoryOK
<1> USE <1>0 DEF history
<1>1. ConsoleStep \/ ConsoleDone \/ PopAlerts \/ AlertError => Kept
  BY DEF ConsoleStep, ConsoleDone, PopAlerts, AlertError
<1>2. PushConstruct \/ PushPublish \/ PushRealloc \/ NextRound => Kept
  BY DEF PushConstruct, PushPublish, PushRealloc, NextRound
<1>3. DerefCrash \/ CollectStep \/ CollectDone \/ SweepStep \/ SweepDone
      \/ CheckStep \/ CheckNext \/ CheckMissing => Kept
  BY DEF DerefCrash, CollectStep, CollectDone, SweepStep, SweepDone, CheckStep,
     CheckNext, CheckMissing
<1>4. ActSkip \/ ActUse \/ ActDone \/ EraseCrash \/ Reply => Kept
  BY DEF ActSkip, ActUse, ActDone, EraseCrash, Reply
<1>5. ActErase \/ EraseReset \/ EraseShift \/ ErasePop => Kept
  BY DEF ActErase, EraseReset, EraseShift, ErasePop
<1>6. SessionAnswers \/ Arrive \/ Dead \/ UNCHANGED vars => Kept
  BY DEF SessionAnswers, Arrive, AddRequest, Receive, Dead, vars
<1>7. QED
  BY <1>1, <1>2, <1>3, <1>4, <1>5, <1>6 DEF Next, Main, Handler

LEMMA LayoutInit == Init => Layout
<1> SUFFICES ASSUME Init PROVE Layout
  OBVIOUS
<1>1. \A i \in 1..MaxAdds : Slot(i) = Null
  BY DEF Init, Slot
<1>2. QED
  BY <1>1, MaxAddsAssumption
  DEF Init, Layout, HttpInVector, Looping, Erasing, Filled

(* The steps of the main thread.                                           *)
LEMMA LayoutMain ==
  ASSUME TypeInv, SizeBound, Layout, Main PROVE Layout'
<1> SUFFICES ASSUME ~overlap' PROVE Layout'
  BY DEF Layout
<1> USE MaxAddsAssumption DEF http, vector, HttpInVector, MainInVector
<1>0. /\ ~overlap /\ size \in Nat /\ greatest_id \in 1..(MaxAdds + 1)
      /\ mend \in Int /\ VectorOK
  BY HistoryStep DEF Next, Layout, TypeInv, TypeOK, VectorOK, MainOK
<1>1. CASE ConsoleStep \/ ConsoleDone \/ PopAlerts \/ AlertError
  <2>1. UNCHANGED <<slots, size, gen, overlap, http, mend>> /\ mpc' # "publish"
        /\ (mpc' = "console" => mpc = "console") /\ mpc # "publish"
    BY <1>1 DEF ConsoleStep, ConsoleDone, PopAlerts, AlertError, history
  <2>2. QED
    BY <1>0, <2>1 DEF Layout, Stale, Filled, Slot
<1>2. CASE PushConstruct \/ PushRealloc
  <2>1. hpc \notin Looping \cup Erasing
    BY <1>0, <1>2 DEF PushConstruct, PushRealloc
  <2>2. Filled(size) /\ size + 1 \in 1..MaxAdds
    BY <1>0, <1>2, <2>1, NewTorrentType
    DEF PushConstruct, PushRealloc, Layout, Erasing, SizeBound
  <2>3. \A i : Slot(i)' = IF i = size + 1 /\ i \in 1..MaxAdds THEN NewTorrent
                          ELSE Slot(i)
    BY <1>0, <1>2, SlotStore DEF PushConstruct, PushRealloc
  <2>4. NewTorrent # Null
    BY <1>2, NewTorrentType, NullAssumption
    DEF PushConstruct, PushRealloc, Torrents
  <2>5. \A i \in 1..MaxAdds : Slot(i)' # Null <=> i <= size + 1
    BY <1>0, <2>2, <2>3, <2>4 DEF Filled
  <2>6. CASE PushConstruct
    BY <1>0, <2>1, <2>5, <2>6
    DEF PushConstruct, Layout, Filled, Looping, Erasing
  <2>7. CASE PushRealloc
    BY <1>0, <2>1, <2>5, <2>7
    DEF PushRealloc, Layout, Filled, Looping, Erasing
  <2>8. QED
    BY <1>2, <2>6, <2>7
<1>3. CASE PushPublish
  <2>1. hpc \notin Looping \cup Erasing
    BY <1>0, <1>3 DEF PushPublish
  <2>2. mend = size + 1 /\ Filled(mend)
    BY <1>0, <1>3 DEF PushPublish, Layout
  <2>3. QED
    BY <1>0, <1>3, <2>1, <2>2
    DEF PushPublish, Layout, Filled, Slot, Looping, Erasing
<1>4. CASE NextRound
  <2>1. hpc \notin Erasing
    BY <1>0, <1>4 DEF NextRound
  <2>2. QED
    BY <1>0, <1>4, <2>1 DEF NextRound, Layout, Filled, Slot, Stale, Erasing
<1>5. QED
  BY <1>1, <1>2, <1>3, <1>4 DEF Main

(* The steps of a handler that change no slot and no size.                 *)
LEMMA LayoutLookup ==
  ASSUME TypeInv, Layout, Handler, UNCHANGED <<slots, size>>,
         hpc \notin Erasing, hpc' \notin Erasing
  PROVE  Layout'
<1> SUFFICES ASSUME ~overlap' PROVE Layout'
  BY DEF Layout
<1>0. /\ ~overlap /\ size \in Int /\ it \in Nat /\ hend \in Int
      /\ UNCHANGED <<gen, mpc, mend>>
  BY HistoryStep, HandlerFrame
  DEF Next, Layout, TypeInv, TypeOK, VectorOK, HttpOK, main
<1>1. \/ hpc' = hpc /\ UNCHANGED <<it, hgen, hend>>
      \/ hpc' \notin Looping
      \/ hpc' \in {"sweep", "check", "act"} /\ Rewind
      \/ hpc' = hpc /\ ~LoopOver /\ hpc \in Looping /\ it' = it + 1
         /\ UNCHANGED <<hgen, hend>>
  <2> DEFINE Moves == \/ hpc' = hpc /\ UNCHANGED <<it, hgen, hend>>
                      \/ hpc' \notin Looping
                      \/ hpc' \in {"sweep", "check", "act"} /\ Rewind
                      \/ /\ hpc' = hpc /\ ~LoopOver /\ hpc \in Looping
                         /\ it' = it + 1 /\ UNCHANGED <<hgen, hend>>
  <2>1. CASE DerefCrash \/ EraseCrash \/ Reply \/ SweepDone \/ CheckMissing
    BY <2>1 DEF DerefCrash, EraseCrash, Reply, SweepDone, CheckMissing, http,
       Looping
  <2>2. CASE CollectStep \/ CheckStep \/ ActSkip
    BY <2>2 DEF CollectStep, CheckStep, ActSkip, Reading, Looping
  <2>3. CASE SweepStep \/ ActUse
    BY <2>3 DEF SweepStep, ActUse, Reading, Use, Looping
  <2>4. CASE CollectDone \/ CheckNext \/ ActDone
    BY <2>4 DEF CollectDone, CheckNext, ActDone, Finished, NextId, Rewind,
       Looping
  <2>5. CASE ActErase
    BY <2>5 DEF ActErase, Erasing, Looping
  <2>6. CASE EraseReset \/ EraseShift \/ ErasePop
    BY <2>6 DEF EraseReset, EraseShift, ErasePop, Erasing
  <2>7. QED
    BY <2>1, <2>2, <2>3, <2>4, <2>5, <2>6 DEF Handler
<1>2. QED
  BY <1>0, <1>1 DEF Layout, Rewind, LoopOver, Looping, Erasing, HttpInVector,
     MainInVector, Stale, Filled, Slot

(* The steps of vector::erase.                                             *)
LEMMA LayoutErase ==
  ASSUME TypeInv, SizeBound, Layout,
         ActErase \/ EraseReset \/ EraseShift \/ ErasePop
  PROVE  Layout'
<1> SUFFICES ASSUME ~overlap' PROVE Layout'
  BY DEF Layout
<1> USE MaxAddsAssumption DEF Erasing, Looping, HttpInVector, MainInVector
<1>0. /\ ~overlap /\ size \in Nat /\ size <= MaxAdds /\ it \in Nat \ {0}
      /\ VectorOK /\ UNCHANGED <<gen, mpc, mend>>
  BY HistoryStep, HandlerFrame
  DEF Next, Handler, Layout, SizeBound, TypeInv, TypeOK, VectorOK, HttpOK, main
<1>1. CASE ActErase
  <2>1. /\ hpc = "act" /\ it <= size /\ ~Stale
        /\ UNCHANGED <<slots, size, it, hend, hgen>>
    BY <1>0, <1>1 DEF ActErase, Reading, LoopOver, Layout, vector
  <2>2. mpc \notin {"console", "publish"} \/ hpc' = "idle"
    BY <1>1 DEF ActErase
  <2>3. hpc' \in {"idle", "reset"}
    BY <1>1 DEF ActErase
  <2>4. QED
    BY <1>0, <2>1, <2>2, <2>3 DEF Layout, Stale, Filled, Slot
<1>2. CASE EraseReset
  <2>1. /\ mpc \notin {"console", "publish"} /\ ~Stale /\ Filled(size)
        /\ it <= size
    BY <1>0, <1>2 DEF EraseReset, Layout
  <2>2. \A i \in 1..MaxAdds : Slot(i)' = IF i = it THEN Null ELSE Slot(i)
    BY <1>0, <1>2, <2>1, SlotStore DEF EraseReset
  <2>3. \A i \in 1..MaxAdds : Slot(i)' # Null <=> i <= size /\ i # it
    BY <2>1, <2>2 DEF Filled
  <2>4. QED
    BY <1>0, <1>2, <2>1, <2>3 DEF EraseReset, Layout, Stale
<1>3. CASE EraseShift
  <2>1. /\ mpc \notin {"console", "publish"} /\ ~Stale /\ hend = size
        /\ it < size
        /\ \A i \in 1..MaxAdds : Slot(i) # Null <=> i <= size /\ i # it
    BY <1>0, <1>3 DEF EraseShift, Layout
  <2>2. it \in 1..MaxAdds /\ it + 1 \in 1..MaxAdds
    BY <1>0, <2>1
  <2>3. \A i \in 1..MaxAdds : Slot(i)' = IF i = it + 1 THEN Null
                                          ELSE IF i = it THEN Slot(it + 1)
                                          ELSE Slot(i)
    BY <1>0, <1>3, <2>2 DEF EraseShift, VectorOK, Slot
  <2>4. \A i \in 1..MaxAdds : Slot(i)' # Null <=> i <= size /\ i # it + 1
    BY <1>0, <2>1, <2>2, <2>3
  <2>5. QED
    BY <1>0, <1>3, <2>1, <2>2, <2>4 DEF EraseShift, Layout, Stale
<1>4. CASE ErasePop
  <2>1. /\ mpc \notin {"console", "publish"} /\ ~Stale /\ hend = size
        /\ it = size
        /\ \A i \in 1..MaxAdds : Slot(i) # Null <=> i <= size /\ i # it
    BY <1>0, <1>4 DEF ErasePop, Layout
  <2>2. \A i \in 1..MaxAdds : Slot(i)' = IF i = size THEN Null ELSE Slot(i)
    BY <1>0, <1>4, SlotStore DEF ErasePop
  <2>3. \A i \in 1..MaxAdds : Slot(i)' # Null <=> i <= size - 1
    BY <1>0, <2>1, <2>2
  <2>4. hpc' \in {"act", "reply"} /\ it' = 1 /\ hgen' = gen /\ size' = size - 1
    BY <1>4 DEF ErasePop, NextId, Rewind
  <2>5. \A i \in 1..MaxAdds : Slot(i)' # Null <=> i <= size'
    BY <2>3, <2>4
  <2>6. QED
    BY <1>0, <2>1, <2>4, <2>5 DEF Layout, Stale, Filled
<1>5. QED
  BY <1>1, <1>2, <1>3, <1>4

LEMMA LayoutStep == TypeInv /\ SizeBound /\ Layout /\ [Next]_vars => Layout'
<1> SUFFICES ASSUME TypeInv, SizeBound, Layout, [Next]_vars PROVE Layout'
  OBVIOUS
<1>1. CASE ActErase \/ EraseReset \/ EraseShift \/ ErasePop
  BY <1>1, LayoutErase
<1>2. CASE Handler /\ ~(ActErase \/ EraseReset \/ EraseShift \/ ErasePop)
  <2>1. CASE hpc \in Erasing
    <3>1. EraseCrash
      BY <1>2, <2>1 DEF Handler, DerefCrash, CollectStep, CollectDone,
         SweepStep, SweepDone, CheckStep, CheckNext, CheckMissing, ActSkip,
         ActUse, ActDone, Reply, Reading, Finished, Looping, Erasing
    <3>2. QED
      BY <3>1 DEF EraseCrash, vector, libt, main, http, history, Layout,
         HttpInVector, MainInVector, Stale, Filled, Slot
  <2>2. CASE hpc \notin Erasing
    <3>1. UNCHANGED <<slots, size>> /\ (hpc' = hpc \/ hpc' \notin Erasing)
      <4>1. CASE DerefCrash \/ EraseCrash \/ Reply \/ SweepDone \/ CheckMissing
        BY <4>1 DEF DerefCrash, EraseCrash, Reply, SweepDone, CheckMissing,
           http, vector, Erasing
      <4>2. CASE CollectStep \/ CheckStep \/ ActSkip \/ SweepStep \/ ActUse
        BY <4>2 DEF CollectStep, CheckStep, ActSkip, SweepStep, ActUse, Use,
           vector, Erasing
      <4>3. CASE CollectDone \/ CheckNext \/ ActDone
        BY <4>3 DEF CollectDone, CheckNext, ActDone, NextId, vector, Erasing
      <4>4. QED
        BY <1>2, <4>1, <4>2, <4>3 DEF Handler
    <3>2. QED
      BY <1>2, <2>2, <3>1, LayoutLookup
  <2>3. QED
    BY <2>1, <2>2
<1>3. CASE SessionAnswers \/ AddRequest \/ Dead \/ UNCHANGED vars
  BY <1>3 DEF SessionAnswers, AddRequest, Dead, vars, vector, main, http,
     history, Layout, HttpInVector, MainInVector, Stale, Filled, Slot
<1>4. ASSUME NEW o \in Ops, NEW req \in Requests, Receive(o, req)
      PROVE  Layout'
  <2>1. /\ hpc' \notin Erasing /\ it' = 1 /\ hgen' = gen' /\ hend' = size
        /\ UNCHANGED <<slots, size, gen, mpc, mend, overlap>>
    BY <1>4 DEF Receive, Rewind, Erasing, vector, main, history
  <2>2. hpc \notin Erasing /\ hpc \notin Looping
    BY <1>4 DEF Receive, Erasing, Looping
  <2>3. size \in Int
    BY DEF TypeInv, TypeOK, VectorOK
  <2>4. QED
    BY <2>1, <2>2, <2>3 DEF Layout, HttpInVector, MainInVector, Stale, Filled,
       Slot, Erasing, Looping
<1>5. QED
  BY <1>1, <1>2, <1>3, <1>4, LayoutMain DEF Next, Arrive

LEMMA HandlesInit == Init => HandlesLive
  BY DEF Init, HandlesLive, Slot

(* Steps that move no torrent between session, alerts, batch and vector.   *)
LEMMA HandlesKept ==
  ASSUME HandlesLive, TypeInv, [Next]_vars,
         UNCHANGED <<slots, alerts, batch>>, session \subseteq session',
         hpc = "reset" => hpc' = "reset" /\ it' = it
  PROVE  HandlesLive'
  BY HistoryStep DEF HandlesLive, Slot

LEMMA HandlesMain ==
  ASSUME TypeInv, SizeBound, Layout, HandlesLive, Main PROVE HandlesLive'
<1> SUFFICES ASSUME ~overlap', ~aliased' PROVE HandlesLive'
  BY DEF HandlesLive
<1>0. ~overlap /\ ~aliased /\ VectorOK /\ batch \in Seq(0..MaxAdds)
  BY HistoryStep DEF Next, TypeInv, TypeOK, MainOK
<1>1. UNCHANGED <<session, hpc, it>>
  BY MainFrame DEF http
<1>2. CASE PushConstruct \/ PushRealloc
  <2>1. hpc # "reset" /\ batch # <<>> /\ Head(batch) # Error
    BY <1>0, <1>2 DEF PushConstruct, PushRealloc, HttpInVector, Erasing
  <2>2. batch' = Tail(batch) /\ alerts' = alerts
    BY <1>2 DEF PushConstruct, PushRealloc, libt
  <2>3. NewTorrent.handle \in session
    BY <1>0, <2>1 DEF HandlesLive, NewTorrent
  <2>4. \A i \in 1..Len(batch') : batch'[i] \in session \cup {Error}
    BY <1>0, <2>1, <2>2 DEF HandlesLive
  <2>5. \A i \in 1..MaxAdds : Slot(i)' = IF i = size + 1 THEN NewTorrent
                                          ELSE Slot(i)
    BY <1>0, <1>2, SlotStore DEF PushConstruct, PushRealloc
  <2>6. QED
    BY <1>0, <1>1, <2>1, <2>2, <2>3, <2>4, <2>5 DEF HandlesLive
<1>3. CASE PopAlerts
  BY <1>0, <1>1, <1>3 DEF PopAlerts, HandlesLive, Slot, vector
<1>4. CASE AlertError
  <2>1. batch # <<>> /\ batch' = Tail(batch) /\ UNCHANGED <<slots, alerts>>
    BY <1>4 DEF AlertError, vector, libt
  <2>2. \A i \in 1..Len(batch') : batch'[i] \in session \cup {Error}
    BY <1>0, <2>1 DEF HandlesLive
  <2>3. QED
    BY <1>0, <1>1, <2>1, <2>2 DEF HandlesLive, Slot
<1>5. CASE ConsoleStep \/ ConsoleDone \/ PushPublish \/ NextRound
  BY <1>1, <1>5, HandlesKept
  DEF Next, ConsoleStep, ConsoleDone, PushPublish, NextRound, vector, libt
<1>6. QED
  BY <1>2, <1>3, <1>4, <1>5 DEF Main

LEMMA HandlesErase ==
  ASSUME TypeInv, IdsNeverClash, SizeBound, Layout, HandlesLive,
         ActErase \/ EraseReset \/ EraseShift \/ ErasePop
  PROVE  HandlesLive'
<1> SUFFICES ASSUME ~overlap', ~aliased' PROVE HandlesLive'
  BY DEF HandlesLive
<1>0. /\ ~overlap /\ ~aliased /\ VectorOK /\ UNCHANGED <<alerts, batch>>
      /\ it \in Nat
  BY HistoryStep, HandlerFrame
  DEF Next, Handler, TypeInv, TypeOK, HttpOK, main
<1>1. CASE ActErase
  <2>1. UNCHANGED <<slots, it>> /\ Slot(it) # Null /\ hpc = "act"
    BY <1>1 DEF ActErase, vector, Reading
  <2>2. CASE UNCHANGED session
    BY <1>0, <2>1, <2>2 DEF HandlesLive, Slot
  <2>3. CASE /\ session' = session \ {Slot(it).handle}
             /\ aliased' = (aliased \/ Shared(Slot(it)))
             /\ hpc' = "reset"
    <3>1. ~Shared(Slot(it))
      BY <2>3
    <3>2. \A i \in 1..MaxAdds : Slot(i) # Null /\ i # it
                                => Slot(i).handle # Slot(it).handle
      <4>1. \A i \in 1..MaxAdds : Slot(i) # Null /\ i # it
                                  => Slot(i) # Slot(it)
        BY <2>1 DEF IdsNeverClash, Slot
      <4>2. QED
        BY <3>1, <4>1 DEF Shared
    <3>3. /\ \A i \in 1..Len(alerts) : alerts[i] # Slot(it).handle
          /\ \A i \in 1..Len(batch) : batch[i] # Slot(it).handle
      BY <3>1 DEF Shared
    <3>4. \A i : Slot(i)' = Slot(i)
      BY <2>1 DEF Slot
    <3>5. QED
      BY <1>0, <2>1, <2>3, <3>2, <3>3, <3>4 DEF HandlesLive
  <2>4. QED
    BY <1>1, <2>2, <2>3 DEF ActErase
<1>2. CASE EraseReset
  <2>1. ~Stale /\ hpc = "reset" /\ hpc' = "shift" /\ session' = session
    BY <1>0, <1>2 DEF EraseReset, Layout, HttpInVector, Erasing, libt
  <2>2. \A i \in 1..MaxAdds : Slot(i)' = IF i = it THEN Null ELSE Slot(i)
    BY <1>0, <1>2, <2>1, SlotStore DEF EraseReset
  <2>3. QED
    BY <1>0, <2>1, <2>2 DEF HandlesLive
<1>3. CASE EraseShift
  <2>1. hpc = "shift" /\ hpc' = "shift" /\ session' = session
    BY <1>3 DEF EraseShift, libt
  <2>2. \A i \in 1..MaxAdds : Slot(i)' \in {Null, Slot(i), Slot(it + 1)}
    BY <1>0, <1>3 DEF EraseShift, VectorOK, Slot
  <2>3. Slot(it + 1) # Null => it + 1 \in 1..MaxAdds
    BY DEF Slot
  <2>4. QED
    BY <1>0, <2>1, <2>2, <2>3 DEF HandlesLive
<1>4. CASE ErasePop
  <2>1. hpc = "shift" /\ hpc' # "reset" /\ session' = session
    BY <1>4 DEF ErasePop, NextId, libt
  <2>2. \A i \in 1..MaxAdds : Slot(i)' \in {Null, Slot(i)}
    BY <1>0, <1>4, SlotStore DEF ErasePop
  <2>3. QED
    BY <1>0, <2>1, <2>2 DEF HandlesLive
<1>5. QED
  BY <1>1, <1>2, <1>3, <1>4

LEMMA HandlesStep ==
  ASSUME TypeInv, IdsNeverClash, SizeBound, Layout, HandlesLive, [Next]_vars
  PROVE  HandlesLive'
<1>1. CASE Handler /\ ~(ActErase \/ EraseReset \/ EraseShift \/ ErasePop)
  <2>1. CASE DerefCrash \/ EraseCrash
    BY <2>1, HandlesKept
    DEF DerefCrash, EraseCrash, vector, libt, main, http
  <2>2. CASE Reply \/ SweepDone \/ CheckMissing \/ CollectStep \/ CheckStep
             \/ ActSkip \/ SweepStep \/ ActUse
    BY <2>2, HandlesKept DEF Reply, SweepDone, CheckMissing, CollectStep,
       CheckStep, ActSkip, SweepStep, ActUse, Reading, Finished, Use, vector,
       libt, main
  <2>3. CASE CollectDone \/ CheckNext \/ ActDone
    BY <2>3, HandlesKept DEF CollectDone, CheckNext, ActDone, NextId, Finished,
       vector, libt, main
  <2>4. QED
    BY <1>1, <2>1, <2>2, <2>3 DEF Handler
<1>2. CASE SessionAnswers
  <2>1. alerts \in Seq(0..MaxAdds) /\ UNCHANGED <<slots, batch, hpc, it>>
    BY <1>2 DEF SessionAnswers, vector, main, http, TypeInv, TypeOK, SessionOK
  <2>2. PICK h \in session' \cup {Error} : alerts' = Append(alerts, h)
    BY <1>2 DEF SessionAnswers
  <2>3. session \subseteq session' /\ UNCHANGED <<overlap, aliased>>
    BY <1>2 DEF SessionAnswers, history
  <2>4. h \in 0..MaxAdds
    BY <1>2, TypeSession, MaxAddsAssumption
    DEF TypeInv, TypeOK, SessionOK, Error
  <2>5. \A i \in 1..Len(alerts') : alerts'[i] = h \/ (i \in 1..Len(alerts)
                                                   /\ alerts'[i] = alerts[i])
    BY <2>1, <2>2, <2>4
  <2>6. QED
    BY <2>1, <2>2, <2>3, <2>5 DEF HandlesLive, Slot
<1>3. CASE Arrive \/ Dead \/ UNCHANGED vars
  BY <1>3, HandlesKept DEF Arrive, AddRequest, Receive, Dead, vars, vector,
     libt, main, http
<1>4. QED
  BY <1>1, <1>2, <1>3, HandlesMain, HandlesErase DEF Next

(* The steps of the second loop, where answers are made.                   *)
LEMMA AnswerAct ==
  ASSUME TypeInv, IdsNeverClash, AnswerBound,
         ActSkip \/ ActUse \/ ActDone \/ ActErase \/ ErasePop
  PROVE  AnswerBound'
<1>0. /\ out \in Seq(Nat) /\ k \in 1..Len(ids) /\ it \in Nat
      /\ ids \in Seq(Nat) /\ greatest_id \in Nat
      /\ UNCHANGED <<ids, greatest_id>>
  BY MaxAddsAssumption
  DEF TypeInv, TypeOK, HttpOK, VectorOK, IndexOK, Erasing, ActSkip, ActUse,
      ActDone, ActErase, ErasePop, Reading, Finished, vector
<1>1. CASE ErasePop
  <2>1. Len(out) < k /\ hpc' \in {"act", "reply"}
    BY <1>1 DEF ErasePop, AnswerBound, Erasing, NextId
  <2>2. out' = Append(out, ids[k]) /\ Len(out') = Len(out) + 1
    BY <1>0, <1>1 DEF ErasePop
  <2>3. CASE k < Len(ids)
    BY <1>0, <1>1, <2>1, <2>2, <2>3 DEF ErasePop, NextId, AnswerBound, Erasing
  <2>4. CASE ~(k < Len(ids))
    BY <1>0, <1>1, <2>1, <2>2, <2>4 DEF ErasePop, NextId, AnswerBound, Erasing
  <2>5. QED
    BY <2>3, <2>4
<1>2. ASSUME hpc = "act", Reading("act"), Slot(it).id = ids[k]
      PROVE  /\ Len(out) < k /\ ids[k] < greatest_id /\ it \in 1..MaxAdds
             /\ \A i \in 1..MaxAdds : Slot(i) # Null /\ i # it
                                      => Slot(i).id # ids[k]
  <2>1. Slot(it) # Null /\ it \in 1..MaxAdds
    BY <1>2 DEF Reading, Slot
  <2>2. QED
    BY <1>0, <1>2, <2>1 DEF AnswerBound, IdsNeverClash
<1>3. CASE ActErase
  <2>1. hpc = "act" /\ Len(out) < k
    BY <1>2, <1>3 DEF ActErase, Reading
  <2>2. hpc' \in {"idle", "reset"} /\ UNCHANGED <<out, k>>
    BY <1>3 DEF ActErase
  <2>3. QED
    BY <1>0, <2>1, <2>2 DEF AnswerBound, Erasing
<1>4. CASE ActUse
  <2>1. /\ hpc = "act" /\ UNCHANGED <<slots, k>>
        /\ hpc' = "idle" \/ (hpc' = "act" /\ it' = it + 1
                             /\ out' = Append(out, Slot(it).id))
    BY <1>4 DEF ActUse, Reading, Use, vector
  <2>2. CASE hpc' = "idle"
    BY <2>2 DEF AnswerBound, Erasing
  <2>3. CASE hpc' = "act"
    <3>1. Len(out') = Len(out) + 1
      BY <1>0, <2>1, <2>3
    <3>2. /\ Len(out) < k /\ ids[k] < greatest_id
          /\ \A i \in 1..MaxAdds : Slot(i) # Null /\ i # it
                                   => Slot(i).id # ids[k]
      BY <1>2, <1>4, <2>1 DEF ActUse
    <3>3. \A i : Slot(i)' = Slot(i)
      BY <2>1 DEF Slot
    <3>4. QED
      BY <1>0, <2>1, <2>3, <3>1, <3>2, <3>3 DEF AnswerBound, Erasing
  <2>4. QED
    BY <2>1, <2>2, <2>3
<1>5. CASE ActSkip
  <2>1. /\ hpc = "act" /\ hpc' = "act" /\ UNCHANGED <<slots, k, out>>
        /\ it' = it + 1 /\ Slot(it).id # ids[k]
    BY <1>5 DEF ActSkip, Reading, vector
  <2>2. \A i : Slot(i)' = Slot(i)
    BY <2>1 DEF Slot
  <2>3. QED
    BY <1>0, <2>1, <2>2 DEF AnswerBound, Erasing
<1>6. CASE ActDone
  <2>1. hpc = "act" /\ Len(out) <= k /\ out' = out
    BY <1>6 DEF ActDone, Finished, AnswerBound
  <2>2. QED
    BY <1>0, <1>6, <2>1 DEF ActDone, NextId, AnswerBound, Erasing
<1>7. QED
  BY <1>1, <1>3, <1>4, <1>5, <1>6

LEMMA AnswerStep ==
  ASSUME TypeInv, IdsNeverClash, AnswerBound, [Next]_vars
  PROVE  AnswerBound'
<1>0. /\ out \in Seq(Nat) /\ k \in Nat /\ it \in Nat
      /\ ids \in Seq(Nat) /\ greatest_id \in Nat
  BY MaxAddsAssumption DEF TypeInv, TypeOK, HttpOK, VectorOK
<1>1. CASE Main
  <2>1. UNCHANGED http
    BY <1>1, MainFrame
  <2>2. CASE Keeps
    BY <2>1, <2>2, SlotKeep DEF AnswerBound, Keeps, http
  <2>3. CASE Pushes /\ (PushConstruct \/ PushRealloc)
    <3>1. \A i \in 1..MaxAdds : Slot(i)' = IF i = size + 1 THEN NewTorrent
                                            ELSE Slot(i)
      BY <2>3, SlotStore DEF Pushes, TypeInv, TypeOK
    <3>2. NewTorrent.id = greatest_id /\ greatest_id' = greatest_id + 1
      BY <2>3 DEF NewTorrent, Pushes
    <3>3. hpc = "act" => ids[k] \in Nat
      BY <1>0 DEF TypeInv, IndexOK
    <3>4. QED
      BY <1>0, <2>1, <3>1, <3>2, <3>3 DEF AnswerBound, http
  <2>4. QED
    BY <1>1, <2>1, <2>2, <2>3
    DEF Main, ConsoleStep, ConsoleDone, PopAlerts, AlertError, PushConstruct,
        PushPublish, PushRealloc, NextRound, Pushes, Keeps, vector
<1>2. CASE DerefCrash \/ EraseCrash \/ Reply
  BY <1>2, SlotKeep DEF DerefCrash, EraseCrash, Reply, AnswerBound, vector, http,
     Erasing
<1>3. CASE CollectStep \/ SweepStep \/ SweepDone \/ CheckStep \/ CheckMissing
  BY <1>0, <1>3 DEF CollectStep, SweepStep, SweepDone, CheckStep, CheckMissing,
     Reading, Finished, Use, AnswerBound, Erasing, TypeInv, IndexOK
<1>4. CASE CollectDone \/ CheckNext
  BY <1>0, <1>4 DEF CollectDone, CheckNext, Finished, AnswerBound, Erasing
<1>5. CASE EraseReset \/ EraseShift
  BY <1>0, <1>5 DEF EraseReset, EraseShift, AnswerBound, Erasing
<1>6. CASE SessionAnswers \/ AddRequest \/ Dead \/ UNCHANGED vars
  BY <1>6, SlotKeep DEF SessionAnswers, AddRequest, Dead, vars, vector, http,
     AnswerBound
<1>7. ASSUME NEW o \in Ops, NEW req \in Requests, Receive(o, req)
      PROVE  AnswerBound'
  BY <1>7, RequestsAssumption DEF Receive, AnswerBound, Erasing
<1>8. QED
  BY <1>1, <1>2, <1>3, <1>4, <1>5, <1>6, <1>7, AnswerAct
  DEF Next, Handler, Arrive

(* A dead process takes no step.                                           *)
LEMMA DeadStays == fate # "alive" /\ [Next]_vars => UNCHANGED vars
<1> SUFFICES ASSUME fate # "alive", Next PROVE UNCHANGED vars
  OBVIOUS
<1>1. ~Main
  BY DEF Main, ConsoleStep, ConsoleDone, PopAlerts, AlertError, PushConstruct,
     PushPublish, PushRealloc, NextRound
<1>2. ~Handler
  BY DEF Handler, DerefCrash, CollectStep, CollectDone, SweepStep, SweepDone,
     CheckStep, CheckNext, CheckMissing, ActSkip, ActUse, ActDone, ActErase,
     EraseReset, EraseShift, ErasePop, EraseCrash, Reply, Reading, Finished
<1>3. ~SessionAnswers /\ ~Arrive
  BY DEF SessionAnswers, Arrive, AddRequest, Receive
<1>4. QED
  BY <1>1, <1>2, <1>3 DEF Next, Dead

(* The four steps that can end the process.                                *)
LEMMA LastStep ==
  [Next]_vars => \/ UNCHANGED fate
                 \/ ConsoleStep \/ DerefCrash \/ EraseCrash \/ Reply
<1>1. Main => UNCHANGED fate \/ ConsoleStep
  BY DEF Main, ConsoleDone, PopAlerts, AlertError, PushConstruct, PushPublish,
     PushRealloc, NextRound
<1>2. Handler => UNCHANGED fate \/ DerefCrash \/ EraseCrash \/ Reply
  BY DEF Handler, CollectStep, CollectDone, SweepStep, SweepDone, CheckStep,
     CheckNext, CheckMissing, ActSkip, ActUse, ActDone, ActErase, EraseReset,
     EraseShift, ErasePop
<1>3. SessionAnswers \/ Arrive \/ Dead \/ UNCHANGED vars => UNCHANGED fate
  BY DEF SessionAnswers, Arrive, AddRequest, Receive, Dead, vars
<1>4. QED
  BY <1>1, <1>2, <1>3 DEF Next

LEMMA DeathStep ==
  ASSUME TypeInv, SafetyInv, DeathCauses, [Next]_vars
  PROVE  DeathCauses'
<1> USE DEF SafetyInv
<1>0. (overlap => overlap') /\ (aliased => aliased')
  BY HistoryStep
<1>1. CASE fate # "alive"
  BY <1>1, DeadStays DEF DeathCauses, vars, http, history
<1>2. CASE fate = "alive" /\ UNCHANGED fate
  BY <1>2 DEF DeathCauses
<1>3. CASE ConsoleStep
  <2>1. mpc = "console" /\ mit \in Nat \ {0} /\ mend \in Int /\ size \in Int
        /\ mit <= mend
    BY <1>3 DEF ConsoleStep, TypeInv, TypeOK, MainOK, VectorOK
  <2>2. ~overlap => mit <= size /\ hpc \notin Erasing /\ Filled(size)
    BY <2>1 DEF Layout, MainInVector, Erasing
  <2>3. greatest_id \in Int /\ size <= greatest_id - 1 /\ greatest_id - 1 <= MaxAdds
    BY MaxAddsAssumption DEF TypeInv, TypeOK, VectorOK, SizeBound
  <2>4. mit \in 1..MaxAdds \/ overlap
    BY <2>1, <2>2, <2>3, MaxAddsAssumption
  <2>5. ~overlap => Slot(mit) # Null
    BY <2>2, <2>4 DEF Filled
  <2>6. ~overlap /\ ~aliased => Slot(mit).handle \in session
    BY <2>2, <2>4, <2>5 DEF HandlesLive, Erasing
  <2>7. UNCHANGED history /\ fate' \in {"alive", "nullSlot", "badHandle"}
        /\ (fate' = "nullSlot" => Slot(mit) = Null)
        /\ (fate' = "badHandle" => Slot(mit).handle \notin session)
    BY <1>3 DEF ConsoleStep
  <2>8. QED
    BY <2>5, <2>6, <2>7 DEF DeathCauses, history
<1>4. CASE DerefCrash
  <2>1. hpc \in Looping /\ ~LoopOver /\ (Stale \/ Slot(it) = Null)
        /\ fate' = "nullSlot" /\ UNCHANGED history
    BY <1>4 DEF DerefCrash
  <2>2. it \in Nat \ {0} /\ size \in Int /\ hend \in Int /\ greatest_id \in Int
        /\ size <= greatest_id - 1 /\ greatest_id - 1 <= MaxAdds
    BY MaxAddsAssumption DEF TypeInv, TypeOK, HttpOK, VectorOK, SizeBound
  <2>3. SUFFICES ASSUME ~overlap PROVE FALSE
    BY <2>1 DEF DeathCauses, history
  <2>4. ~Stale /\ it <= size
    BY <2>1, <2>2, <2>3 DEF Layout, HttpInVector, LoopOver, Looping
  <2>5. \A i \in 1..MaxAdds : i <= size => Slot(i) # Null
    BY <2>1, <2>2, <2>3 DEF Layout, Looping, Filled
  <2>6. QED
    BY <2>1, <2>2, <2>4, <2>5, MaxAddsAssumption
<1>5. CASE EraseCrash
  BY <1>5 DEF EraseCrash, Layout, HttpInVector, DeathCauses, history
<1>6. CASE Reply
  <2>1. hpc = "reply" /\ UNCHANGED <<op, ids>> /\ UNCHANGED history
        /\ fate' \in {"alive", "noId"}
        /\ (fate' = "noId" => op = "status" /\ Len(out) > Len(ids))
    BY <1>6 DEF Reply
  <2>2. ids # <<>> => ~(Len(out) > Len(ids))
    BY <2>1 DEF AnswerBound, TypeInv, TypeOK, HttpOK
  <2>3. QED
    BY <2>1, <2>2 DEF DeathCauses
<1>7. QED
  BY <1>1, <1>2, <1>3, <1>4, <1>5, <1>6, LastStep

(* The process never reads an empty slot, and the console view never meets *)
(* a torrent that left the session, unless the main thread and the HTTP    *)
(* thread were in the vector at once or one torrent had two ids; and only  *)
(* a status request that listed no ids runs past them.                     *)
THEOREM DeathNeedsCollision == Spec => []DeathCauses
<1>1. Init => TypeInv /\ IdsNeverClash /\ SafetyInv /\ DeathCauses
  <2>1. Init => TypeInv /\ IdsNeverClash
    BY TypeInit DEF Init, IdsNeverClash, Slot
  <2>2. Init => SizeBound /\ AnswerBound /\ DeathCauses
    BY DEF Init, SizeBound, AnswerBound, DeathCauses, Erasing
  <2>3. QED
    BY <2>1, <2>2, LayoutInit, HandlesInit DEF SafetyInv
<1>2. ASSUME TypeInv, IdsNeverClash, SafetyInv, DeathCauses, [Next]_vars
      PROVE  TypeInv' /\ IdsNeverClash' /\ SafetyInv' /\ DeathCauses'
  BY <1>2, TypeStep, ClashStep, SizeStep, LayoutStep, HandlesStep, AnswerStep,
     DeathStep DEF SafetyInv
<1>3. QED
  BY <1>1, <1>2, PTL DEF Spec

---------------------------------------------------------------------------
(* The vector implements the table of ids.                                 *)

LEMMA TableSlots == ASSUME VectorOK, NEW t
                    PROVE  t \in Table <=> /\ t # Null
                                           /\ \E i \in 1..MaxAdds : Slot(i) = t
  BY DEF Table, Slot, VectorOK

LEMMA TableStep ==
  ASSUME TypeInv, IdsNeverClash, SafetyInv, [Next]_vars, ~overlap'
  PROVE  \/ UNCHANGED <<Table, greatest_id, overlap>>
         \/ \E h \in 1..MaxAdds : Ids!Register(h)
         \/ \E e \in Table : Ids!Unregister(e)
<1> USE DEF SafetyInv
<1>0. /\ ~overlap /\ UNCHANGED overlap /\ VectorOK /\ VectorOK'
      /\ it \in Nat \ {0} /\ size \in Int
  BY HistoryStep, TypeStep DEF TypeInv, TypeOK, HttpOK, VectorOK, HistoryOK
<1>1. \A t : t \in Table' <=> t # Null /\ \E i \in 1..MaxAdds : Slot(i)' = t
  BY <1>0 DEF Table, Slot, VectorOK
<1>2. CASE Keeps
  BY <1>0, <1>2 DEF Keeps, Table
<1>3. CASE Pushes /\ (PushConstruct \/ PushRealloc)
  <2>1. hpc \notin Erasing /\ mpc = "alerts" /\ size \in Nat
        /\ batch # <<>> /\ Head(batch) # Error
    <3>1. hpc \notin Looping \cup Erasing /\ mpc = "alerts"
          /\ batch # <<>> /\ Head(batch) # Error
      BY <1>0, <1>3 DEF PushConstruct, PushRealloc, HttpInVector
    <3>2. size >= 0
      BY <1>0 DEF Layout
    <3>3. QED
      BY <1>0, <3>1, <3>2
  <2>2. NewTorrent \in Torrents /\ greatest_id \in 1..MaxAdds
    BY <2>1, NewTorrentType
  <2>3. size + 1 \in 1..MaxAdds /\ Filled(size)
    BY <1>0, <2>1, <2>2, MaxAddsAssumption DEF SizeBound, Layout, Erasing
  <2>4. Slot(size + 1) = Null
    BY <1>0, <2>3 DEF Filled
  <2>5. \A i \in 1..MaxAdds : Slot(i)' = IF i = size + 1 THEN NewTorrent
                                          ELSE Slot(i)
    BY <1>0, <1>3, SlotStore DEF Pushes
  <2>6. NewTorrent # Null
    BY <2>2, NullAssumption DEF Torrents
  <2>7. Table' = Table \cup {NewTorrent}
    <3>1. ASSUME NEW t PROVE t \in Table' <=> t \in Table \cup {NewTorrent}
      BY <1>0, <1>1, <2>3, <2>4, <2>5, <2>6, TableSlots
    <3>2. QED
      BY <3>1
  <2>8. Head(batch) \in 1..MaxAdds
    BY <2>2 DEF NewTorrent, Torrents
  <2>9. Ids!Register(Head(batch))
    BY <1>0, <1>3, <2>7 DEF Ids!Register, NewTorrent, Pushes
  <2>10. QED
    BY <2>8, <2>9
<1>4. CASE Clears(it) /\ EraseReset
  <2>1. hpc = "reset" /\ it <= size /\ Filled(size)
    BY <1>0, <1>4 DEF EraseReset, Layout, MainInVector, Erasing
  <2>2. it \in 1..MaxAdds
    BY <1>0, <2>1, MaxAddsAssumption DEF SizeBound, VectorOK
  <2>3. Slot(it) # Null
    BY <2>1, <2>2 DEF Filled
  <2>4. \A i \in 1..MaxAdds : Slot(i)' = IF i = it THEN Null ELSE Slot(i)
    BY <1>0, <1>4, SlotStore DEF Clears
  <2>5. \A i \in 1..MaxAdds : Slot(i) = Slot(it) => i = it
    BY <2>2, <2>3 DEF IdsNeverClash
  <2>6. Table' = Table \ {Slot(it)}
    <3>1. ASSUME NEW t PROVE t \in Table' <=> t \in Table \ {Slot(it)}
      BY <1>0, <1>1, <2>2, <2>3, <2>4, <2>5, TableSlots
    <3>2. QED
      BY <3>1
  <2>7. Slot(it) \in Table
    BY <1>0, <2>2, <2>3, TableSlots
  <2>8. Ids!Unregister(Slot(it))
    BY <1>0, <1>4, <2>6 DEF Ids!Unregister, Clears
  <2>9. QED
    BY <2>7, <2>8
<1>5. CASE Shifts /\ EraseShift
  <2>1. /\ hpc = "shift" /\ it < size
        /\ \A i \in 1..MaxAdds : Slot(i) # Null <=> i <= size /\ i # it
    BY <1>0, <1>5 DEF EraseShift, Layout
  <2>2. it \in 1..MaxAdds /\ it + 1 \in 1..MaxAdds
    BY <1>0, <2>1, MaxAddsAssumption DEF SizeBound, VectorOK
  <2>3. \A i \in 1..MaxAdds : Slot(i)' = IF i = it + 1 THEN Null
                                          ELSE IF i = it THEN Slot(it + 1)
                                          ELSE Slot(i)
    BY <1>0, <1>5, <2>2 DEF Shifts, VectorOK, Slot
  <2>4. Slot(it) = Null
    BY <2>1, <2>2
  <2>5. Table' = Table
    <3>1. ASSUME NEW t PROVE t \in Table' <=> t \in Table
      BY <1>0, <1>1, <2>2, <2>3, <2>4, TableSlots
    <3>2. QED
      BY <3>1
  <2>6. QED
    BY <1>0, <1>5, <2>5 DEF Shifts
<1>6. CASE Clears(size) /\ ErasePop
  <2>1. \A i \in 1..MaxAdds : Slot(i) # Null <=> i <= size /\ i # size
    BY <1>0, <1>6 DEF ErasePop, Layout, HttpInVector, Erasing
  <2>2. \A i \in 1..MaxAdds : Slot(i)' = Slot(i)
    BY <1>0, <1>6, <2>1, SlotStore DEF Clears
  <2>3. Table' = Table
    <3>1. ASSUME NEW t PROVE t \in Table' <=> t \in Table
      BY <1>0, <1>1, <2>2, TableSlots
    <3>2. QED
      BY <3>1
  <2>4. QED
    BY <1>0, <1>6, <2>3 DEF Clears
<1>7. QED
  BY <1>2, <1>3, <1>4, <1>5, <1>6, SlotSteps

(* The registry is a table of ids, for every number of torrents: as long   *)
(* as the two threads have not been in the vector at once, an entry comes  *)
(* with a fresh id when an addition is answered, goes when a client        *)
(* removes it, and nothing else changes the table.                         *)
THEOREM RegistryImplementsIdTable == Spec => ImplementsIdTable
<1>1. Init => TypeInv /\ IdsNeverClash /\ SafetyInv
  <2>1. Init => TypeInv /\ IdsNeverClash
    BY TypeInit DEF Init, IdsNeverClash, Slot
  <2>2. Init => SizeBound /\ AnswerBound
    BY DEF Init, SizeBound, AnswerBound, Erasing
  <2>3. QED
    BY <2>1, <2>2, LayoutInit, HandlesInit DEF SafetyInv
<1>2. ASSUME TypeInv, IdsNeverClash, SafetyInv, [Next]_vars
      PROVE  TypeInv' /\ IdsNeverClash' /\ SafetyInv'
  BY <1>2, TypeStep, ClashStep, SizeStep, LayoutStep, HandlesStep, AnswerStep
  DEF SafetyInv
<1>3. Init => Ids!Init
  BY DEF Init, Ids!Init, Table
<1>4. ASSUME TypeInv, IdsNeverClash, SafetyInv, [Next]_vars
      PROVE  [Ids!Next]_<<Table, greatest_id, overlap>>
  <2>1. CASE overlap'
    BY <2>1 DEF Ids!Next, Ids!Break
  <2>2. CASE ~overlap'
    <3>1. ~overlap
      BY <1>4, <2>2, HistoryStep
    <3>2. QED
      BY <1>4, <2>2, <3>1, TableStep DEF Ids!Next
  <2>3. QED
    BY <2>1, <2>2
<1>5. QED
  BY <1>1, <1>2, <1>3, <1>4, PTL
  DEF Spec, ImplementsIdTable, Ids!Spec
===========================================================================
