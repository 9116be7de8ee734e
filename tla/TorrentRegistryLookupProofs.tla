------------------ MODULE TorrentRegistryLookupProofs ------------------
(***************************************************************************)
(* Proofs about TorrentRegistry: what the look-ups of a request find and   *)
(* answer, collisions of the two threads included.                         *)
(***************************************************************************)
EXTENDS TorrentRegistryProofs, SequenceTheorems

(* Nothing is used before every id was looked up.                          *)
Untouched ==
    /\ hpc \in {"collect", "check"} => out = <<>>
    /\ hpc \notin {"idle", "reply"} => result = 0
    /\ hpc = "collect" => ~found
    /\ hpc \in Erasing => op = "remove"
    /\ NothingDoneOnMiss

(* Behind the end of the vector there is nothing but the entry that is     *)
(* being published, and a walk that began in the current buffer ends at    *)
(* the end of the vector.                                                  *)
Walking == hpc \in {"check", "act"}
Above ==
    /\ size >= 0 /\ hgen <= gen
    /\ mpc = "publish" => mend > size
    /\ \A i \in 1..MaxAdds :
          Slot(i) # Null /\ i > size => mpc = "publish" /\ i = mend
    /\ Walking /\ ~Stale => it <= size + 1
    /\ Walking /\ Stale => size >= 1
    /\ hpc \in Erasing => size >= 1
    /\ hpc = "shift" => hend <= size

(* What a walk up to slot n has come across.                               *)
Has(i, id) == i \in 1..MaxAdds /\ Slot(i) # Null /\ Slot(i).id = id
Seen(id, n) == \E i \in 1..(n - 1) : Has(i, id)

LookUps ==
    /\ hpc = "check" /\ ~Stale =>
          /\ found <=> Seen(ids[k], it)
          /\ \A j \in 1..(k - 1) : Seen(ids[j], size + 1)
    /\ hpc = "act" /\ op # "remove" /\ ~Stale =>
          \A j \in 1..Len(ids) : Seen(ids[j], size + 1)

Aligned ==
    /\ hpc = "act" /\ op # "remove" /\ ~Stale =>
          out = SubSeq(ids, 1, IF Seen(ids[k], it) THEN k ELSE k - 1)
    /\ AnswersAligned

(* Steps that neither touch the vector nor move the handler.               *)
Quiet ==
    /\ UNCHANGED <<slots, size, gen, hpc, op, ids, k, it, hend, hgen, found, out, result>>
    /\ UNCHANGED <<mpc, mend>> \/ (mpc # "publish" /\ mpc' # "publish")

LEMMA QuietSteps ==
  ASSUME \/ ConsoleStep \/ ConsoleDone \/ PopAlerts \/ AlertError \/ NextRound
         \/ SessionAnswers \/ AddRequest \/ DerefCrash \/ EraseCrash \/ Dead
         \/ UNCHANGED vars
  PROVE  Quiet
<1>1. CASE ConsoleStep \/ ConsoleDone \/ PopAlerts \/ AlertError \/ NextRound
  BY <1>1 DEF ConsoleStep, ConsoleDone, PopAlerts, AlertError, NextRound, vector, http, Quiet
<1>2. CASE \/ SessionAnswers \/ AddRequest \/ DerefCrash \/ EraseCrash \/ Dead
           \/ UNCHANGED vars
  BY <1>2 DEF SessionAnswers, AddRequest, DerefCrash, EraseCrash, Dead, vars, vector, main,
              http, Quiet
<1> QED BY <1>1, <1>2

LEMMA LookupSteps ==
  ASSUME [Next]_vars
  PROVE  \/ Quiet \/ PushConstruct \/ PushPublish \/ PushRealloc
         \/ (\E o \in Ops, req \in Requests : Receive(o, req))
         \/ CollectStep \/ CollectDone \/ SweepStep \/ SweepDone
         \/ CheckStep \/ CheckNext \/ CheckMissing
         \/ ActSkip \/ ActUse \/ ActDone \/ ActErase
         \/ EraseReset \/ EraseShift \/ ErasePop \/ Reply
BY QuietSteps DEF Next, Main, Handler, Arrive

---------------------------------------------------------------------------
(* All or nothing.                                                         *)

LEMMA UntouchedInit == Init => Untouched
BY DEF Init, Untouched, NothingDoneOnMiss, Erasing

LEMMA UntouchedStep == ASSUME Untouched, [Next]_vars PROVE Untouched'
<1> USE DEF Untouched, NothingDoneOnMiss, Erasing
<1>1. CASE Quiet
  BY <1>1 DEF Quiet
<1>2. CASE PushConstruct \/ PushPublish \/ PushRealloc
  BY <1>2 DEF PushConstruct, PushPublish, PushRealloc, http
<1>3. ASSUME NEW o \in Ops, NEW req \in Requests, Receive(o, req) PROVE Untouched'
  <2>1. hpc' \in {"check", "reply", "sweep", "collect"}
    BY <1>3 DEF Receive
  <2> QED BY <1>3, <2>1 DEF Receive
<1>4. CASE CollectStep \/ CollectDone \/ SweepStep \/ SweepDone
  BY <1>4 DEF CollectStep, CollectDone, SweepStep, SweepDone, Reading, Finished, Use
<1>5. CASE CheckStep \/ CheckNext \/ CheckMissing
  BY <1>5 DEF CheckStep, CheckNext, CheckMissing, Reading, Finished
<1>6. CASE ActSkip \/ ActUse \/ ActDone \/ ActErase
  BY <1>6 DEF ActSkip, ActUse, ActDone, ActErase, Reading, Finished, Use, NextId
<1>7. CASE EraseReset \/ EraseShift \/ ErasePop
  BY <1>7 DEF EraseReset, EraseShift, ErasePop, NextId
<1>8. CASE Reply
  BY <1>8 DEF Reply
<1> QED BY <1>1, <1>2, <1>3, <1>4, <1>5, <1>6, <1>7, <1>8, LookupSteps

(* A request that is told an id does not exist has used or removed no      *)
(* torrent, whatever the main thread does meanwhile.                       *)
THEOREM MissesDoNothing == Spec => []NothingDoneOnMiss
<1>1. Spec => []Untouched
  BY UntouchedInit, UntouchedStep, PTL DEF Spec
<1>2. Untouched => NothingDoneOnMiss
  BY DEF Untouched
<1> QED BY <1>1, <1>2, PTL

---------------------------------------------------------------------------
(* Behind the end of the vector.                                           *)

LEMMA AboveInit == Init => Above
BY MaxAddsAssumption DEF Init, Above, Slot, Walking, Erasing

LEMMA ShiftedSlots ==
  ASSUME TypeInv, Shifts
  PROVE  \A i \in 1..MaxAdds : Slot(i)' = IF i = it + 1 THEN Null
                                           ELSE IF i = it THEN Slot(it + 1)
                                           ELSE Slot(i)
BY DEF Shifts, VectorOK, Slot, TypeInv, TypeOK, HttpOK

(* The steps of the main thread.                                           *)
LEMMA AboveMain ==
  ASSUME TypeInv, Above, PushConstruct \/ PushPublish \/ PushRealloc
  PROVE  Above'
<1> USE MaxAddsAssumption DEF Above, Walking, Erasing, Stale
<1>0. /\ size \in Int /\ mend \in Int /\ gen \in Nat /\ hgen \in Nat /\ VectorOK
      /\ it \in Nat \ {0} /\ hend \in Int
      /\ UNCHANGED <<hpc, it, hend, hgen>>
  BY DEF TypeInv, TypeOK, VectorOK, MainOK, HttpOK, PushConstruct, PushPublish, PushRealloc, http
<1>1. CASE PushPublish
  <2>1. \A i : Slot(i)' = Slot(i)
    BY <1>1, SlotKeep DEF PushPublish
  <2>2. size' = mend /\ mend > size /\ mpc' = "alerts" /\ mpc = "publish" /\ gen' = gen
    BY <1>1 DEF PushPublish
  <2> QED BY <1>0, <2>1, <2>2
<1>2. CASE PushConstruct \/ PushRealloc
  <2>1. \A i : Slot(i)' = IF i = size + 1 /\ i \in 1..MaxAdds THEN NewTorrent ELSE Slot(i)
    BY <1>0, <1>2, SlotStore DEF PushConstruct, PushRealloc
  <2>2. mpc = "alerts"
    BY <1>2 DEF PushConstruct, PushRealloc
  <2>3. \A i \in 1..MaxAdds : i > size => Slot(i) = Null
    BY <2>2
  <2>4. CASE PushConstruct
    <3>1. mpc' = "publish" /\ mend' = size + 1 /\ UNCHANGED <<size, gen>>
      BY <2>4 DEF PushConstruct
    <3> QED BY <1>0, <2>1, <2>3, <3>1
  <2>5. CASE PushRealloc
    <3>1. mpc' = mpc /\ size' = size + 1 /\ gen' = gen + 1
      BY <2>5 DEF PushRealloc
    <3>2. Stale'
      BY <1>0, <3>1
    <3> QED BY <1>0, <2>1, <2>2, <2>3, <3>1, <3>2
  <2> QED BY <1>2, <2>4, <2>5
<1> QED BY <1>1, <1>2

(* The steps of a handler that leave the vector alone.                     *)
LEMMA AboveLookup ==
  ASSUME TypeInv, Above,
         \/ \E o \in Ops, req \in Requests : Receive(o, req)
         \/ CollectStep \/ CollectDone \/ SweepStep \/ SweepDone
         \/ CheckStep \/ CheckNext \/ CheckMissing
         \/ ActSkip \/ ActUse \/ ActDone \/ ActErase \/ Reply
  PROVE  Above'
<1> USE MaxAddsAssumption DEF Walking, Erasing, Stale
<1> DEFINE Moves == \/ hpc' \in {"idle", "reply", "collect", "sweep"} /\ UNCHANGED hgen
                    \/ hpc' \notin Erasing /\ Rewind
                    \/ /\ hpc' = hpc /\ it' = it + 1 /\ UNCHANGED <<hgen>>
                       /\ hpc \in {"check", "act"} /\ ~LoopOver
                    \/ /\ hpc = "act" /\ hpc' = "reset" /\ ~LoopOver
                       /\ UNCHANGED <<it, hgen>>
<1>0. /\ size \in Int /\ mend \in Int /\ gen \in Nat /\ hgen \in Nat /\ VectorOK
      /\ it \in Nat \ {0} /\ hend \in Int
  BY DEF TypeInv, TypeOK, VectorOK, MainOK, HttpOK
<1>1. UNCHANGED <<slots, size, gen, mpc, mend>>
  <2>1. ASSUME NEW o \in Ops, NEW req \in Requests, Receive(o, req)
        PROVE  UNCHANGED <<slots, size, gen, mpc, mend>>
    BY <2>1 DEF Receive, vector, main
  <2>2. CASE CollectStep \/ CollectDone \/ SweepStep \/ SweepDone
             \/ CheckStep \/ CheckNext \/ CheckMissing
    BY <2>2 DEF CollectStep, CollectDone, SweepStep, SweepDone, CheckStep, CheckNext,
                CheckMissing, vector, main
  <2>3. CASE ActSkip \/ ActUse \/ ActDone \/ ActErase \/ Reply
    BY <2>3 DEF ActSkip, ActUse, ActDone, ActErase, Reply, vector, main
  <2> QED BY <2>1, <2>2, <2>3
<1>2. Moves
  <2>1. ASSUME NEW o \in Ops, NEW req \in Requests, Receive(o, req)
        PROVE  hpc' \notin Erasing /\ Rewind
    BY <2>1 DEF Receive
  <2>2. CASE CollectStep \/ SweepStep \/ SweepDone
    BY <2>2 DEF CollectStep, SweepStep, SweepDone, Reading, Finished, Use
  <2>3. CASE CheckMissing \/ Reply
    BY <2>3 DEF CheckMissing, Reply, Finished
  <2>4. CASE CheckStep \/ ActSkip
    BY <2>4 DEF CheckStep, ActSkip, Reading
  <2>5. CASE ActUse \/ ActErase
    BY <2>5 DEF ActUse, ActErase, Reading, Use
  <2>6. CASE CollectDone
    BY <2>6 DEF CollectDone
  <2>7. CASE CheckNext
    <3>1. hpc' = "check" \/ hpc' = "act"
      BY <2>7 DEF CheckNext, Finished
    <3> QED BY <2>7, <3>1 DEF CheckNext
  <2>8. CASE ActDone
    BY <2>8 DEF ActDone, NextId
  <2> QED BY <2>1, <2>2, <2>3, <2>4, <2>5, <2>6, <2>7, <2>8
<1>3. \A i : Slot(i)' = Slot(i)
  BY <1>1, SlotKeep
<1>4. CASE hpc' \in {"idle", "reply", "collect", "sweep"} /\ UNCHANGED hgen
  BY <1>0, <1>1, <1>3, <1>4 DEF Above
<1>5. CASE hpc' \notin Erasing /\ Rewind
  BY <1>0, <1>1, <1>3, <1>5 DEF Above, Rewind
<1>6. CASE /\ hpc' = hpc /\ it' = it + 1 /\ UNCHANGED <<hgen>>
           /\ hpc \in {"check", "act"} /\ ~LoopOver
  BY <1>0, <1>1, <1>3, <1>6 DEF Above, LoopOver
<1>7. CASE /\ hpc = "act" /\ hpc' = "reset" /\ ~LoopOver
           /\ UNCHANGED <<it, hgen>>
  BY <1>0, <1>1, <1>3, <1>7 DEF Above, LoopOver
<1> QED BY <1>2, <1>4, <1>5, <1>6, <1>7

(* The steps of vector::erase.                                             *)
LEMMA AboveErase ==
  ASSUME TypeInv, Above, EraseReset \/ EraseShift \/ ErasePop
  PROVE  Above'
<1> USE MaxAddsAssumption DEF Walking, Erasing, Stale
<1>0. /\ size \in Int /\ mend \in Int /\ gen \in Nat /\ hgen \in Nat /\ VectorOK
      /\ it \in Nat \ {0} /\ hend \in Int
      /\ UNCHANGED <<gen, mpc, mend>>
  BY DEF TypeInv, TypeOK, VectorOK, MainOK, HttpOK, EraseReset, EraseShift, ErasePop, main
<1>1. CASE EraseReset
  <2>1. /\ hpc = "reset" /\ hpc' = "shift" /\ hend' = size
        /\ UNCHANGED <<size, it, hgen>>
    BY <1>1 DEF EraseReset
  <2>2. \A i \in 1..MaxAdds : Slot(i)' = Null \/ Slot(i)' = Slot(i)
    BY <1>0, <1>1, SlotStore, SlotKeep DEF EraseReset
  <2> QED BY <1>0, <2>1, <2>2 DEF Above
<1>2. CASE EraseShift
  <2>1. /\ hpc = "shift" /\ hpc' = "shift" /\ UNCHANGED <<size, hend, hgen>>
        /\ it < hend /\ hend <= size
    BY <1>2 DEF EraseShift, Above
  <2>2. \A i \in 1..MaxAdds : i > size => Slot(i)' = Null \/ Slot(i)' = Slot(i)
    <3>1. Shifts
      BY <1>2 DEF EraseShift, Shifts
    <3> QED BY <1>0, <2>1, <3>1, ShiftedSlots
  <2> QED BY <1>0, <2>1, <2>2 DEF Above
<1>3. CASE ErasePop
  <2>1. /\ hpc = "shift" /\ hpc' \notin Erasing /\ it' = 1 /\ hgen' = gen
        /\ size' = size - 1
    BY <1>3 DEF ErasePop, NextId, Rewind
  <2>2. \A i \in 1..MaxAdds : Slot(i)' = IF i = size THEN Null ELSE Slot(i)
    BY <1>0, <1>3, SlotStore DEF ErasePop
  <2> QED BY <1>0, <2>1, <2>2 DEF Above
<1> QED BY <1>1, <1>2, <1>3

LEMMA QuietSlots == ASSUME Quiet, NEW i PROVE Slot(i)' = Slot(i)
BY DEF Quiet, Slot

LEMMA AboveStep == ASSUME TypeInv, Above, [Next]_vars PROVE Above'
<1>1. CASE Quiet
  BY <1>1, QuietSlots DEF Quiet, Above, Walking, Stale
<1> QED BY <1>1, AboveMain, AboveLookup, AboveErase, LookupSteps

---------------------------------------------------------------------------
(* What the look-ups have found.                                           *)

LEMMA LookUpsInit == Init => LookUps
BY DEF Init, LookUps

(* What a handler depends on, as numbers and sequences.                    *)
LEMMA HandlerTypes ==
  ASSUME TypeInv
  PROVE  /\ size \in Int /\ mend \in Int /\ gen \in Nat /\ hgen \in Nat
         /\ it \in Nat \ {0} /\ k \in Nat /\ ids \in Seq(Nat) /\ out \in Seq(Nat)
         /\ Len(ids) \in Nat /\ Len(out) \in Nat
         /\ VectorOK /\ MaxAdds \in Nat
         /\ hpc \in {"check", "act"} => k \in 1..Len(ids)
BY MaxAddsAssumption DEF TypeInv, TypeOK, VectorOK, MainOK, HttpOK, IndexOK

(* The main thread appends behind the part a walk has seen.                *)
LEMMA LookUpsMain ==
  ASSUME TypeInv, Above, LookUps, PushConstruct \/ PushPublish \/ PushRealloc
  PROVE  LookUps'
<1>0. /\ size \in Int /\ mend \in Int /\ gen \in Nat /\ hgen \in Nat
      /\ it \in Nat \ {0} /\ VectorOK /\ MaxAdds \in Nat
  BY HandlerTypes
<1>1. UNCHANGED <<hpc, op, ids, k, it, hgen, found>>
  BY DEF PushConstruct, PushPublish, PushRealloc, http
<1>2. CASE PushRealloc
  <2>1. Stale'
    BY <1>0, <1>1, <1>2 DEF PushRealloc, Stale, Above
  <2> QED BY <2>1 DEF LookUps
<1>3. CASE PushConstruct
  <2>0. \A i : Slot(i)' = IF i = size + 1 /\ i \in 1..MaxAdds THEN NewTorrent ELSE Slot(i)
    BY <1>0, <1>3, SlotStore DEF PushConstruct
  <2>1. /\ \A i \in 1..MaxAdds : i <= size => Slot(i)' = Slot(i)
        /\ UNCHANGED <<size, gen>>
    BY <1>0, <1>3, <2>0 DEF PushConstruct
  <2>2. Walking /\ ~Stale => it <= size + 1
    BY DEF Above
  <2> QED BY <1>0, <1>1, <2>1, <2>2 DEF LookUps, Seen, Has, Stale, Walking
<1>4. CASE PushPublish
  <2>1. \A i : Slot(i)' = Slot(i)
    BY <1>4, SlotKeep DEF PushPublish
  <2>2. size' = mend /\ mend > size /\ gen' = gen
    BY <1>0, <1>4 DEF PushPublish, Above
  <2>3. \A i \in 1..((size + 1) - 1) : i \in 1..((mend + 1) - 1)
    BY <1>0, <2>2
  <2>5. \A j : Seen(ids[j], size + 1) => Seen(ids[j], size + 1)'
    BY <1>1, <2>1, <2>2, <2>3 DEF Seen, Has
  <2>6. Seen(ids[k], it)' <=> Seen(ids[k], it)
    BY <1>1, <2>1 DEF Seen, Has
  <2>7. ~Stale' => ~Stale
    BY <1>1, <2>2 DEF Stale
  <2> QED BY <1>1, <2>5, <2>6, <2>7 DEF LookUps
<1> QED BY <1>2, <1>3, <1>4

(* The steps of the first loop.                                            *)
LEMMA LookUpsCheck ==
  ASSUME TypeInv, Untouched, Above, LookUps,
         \/ \E o \in Ops, req \in Requests : Receive(o, req)
         \/ CollectDone \/ CheckStep \/ CheckNext
  PROVE  LookUps'
<1>0. /\ size \in Int /\ it \in Nat \ {0} /\ MaxAdds \in Nat
      /\ hpc = "check" => k \in 1..Len(ids)
      /\ hpc = "collect" => k = 1 /\ found = FALSE
      /\ ids \in Seq(Nat) /\ Len(ids) \in Nat
  BY HandlerTypes DEF TypeInv, IndexOK, Untouched, TypeOK, HistoryOK
<1>1. ASSUME NEW o \in Ops, NEW req \in Requests, Receive(o, req) PROVE LookUps'
  <2>1. hpc' # "act" /\ k' = 1 /\ found' = FALSE /\ it' = 1
    BY <1>1 DEF Receive, Rewind
  <2> QED BY <2>1 DEF LookUps, Seen
<1>2. CASE CollectDone
  <2>1. hpc' # "act" /\ k' = 1 /\ found' = FALSE /\ it' = 1
    BY <1>0, <1>2 DEF CollectDone, Finished, Rewind
  <2> QED BY <2>1 DEF LookUps, Seen
<1>3. CASE CheckStep
  <2>1. /\ hpc = "check" /\ hpc' = "check" /\ Slot(it) # Null /\ it' = it + 1
        /\ found' = (found \/ Slot(it).id = ids[k])
        /\ UNCHANGED <<slots, size, gen, hgen, ids, k>>
    BY <1>3 DEF CheckStep, Reading, vector
  <2>2. it \in 1..MaxAdds
    BY <2>1 DEF Slot
  <2>3. \A i : Slot(i)' = Slot(i)
    BY <2>1, SlotKeep
  <2>4. ~Stale' => ~Stale
    BY <2>1 DEF Stale
  <2>5. ~Stale => /\ found <=> Seen(ids[k], it)
                  /\ \A j \in 1..(k - 1) : Seen(ids[j], size + 1)
    BY <2>1 DEF LookUps
  <2>6. ASSUME ~Stale PROVE found' <=> \E i \in 1..it : Has(i, ids[k])
    <3>1. Has(it, ids[k]) <=> Slot(it).id = ids[k]
      BY <2>1, <2>2 DEF Has
    <3>2. found' <=> Seen(ids[k], it) \/ Has(it, ids[k])
      BY <2>1, <2>5, <2>6, <3>1
    <3>3. Seen(ids[k], it) \/ Has(it, ids[k]) <=> \E i \in 1..it : Has(i, ids[k])
      BY <1>0 DEF Seen
    <3> QED BY <3>2, <3>3
  <2>7. \A i, id : Has(i, id)' <=> Has(i, id)
    BY <2>3 DEF Has
  <2>8. ASSUME ~Stale' PROVE found' <=> Seen(ids[k], it)'
    <3>1. Seen(ids[k], it)' <=> \E i \in 1..it : Has(i, ids[k])
      BY <1>0, <2>1, <2>3 DEF Seen, Has
    <3> QED BY <2>4, <2>6, <2>8, <3>1
  <2>9. ASSUME ~Stale' PROVE (\A j \in 1..(k - 1) : Seen(ids[j], size + 1))'
    BY <2>1, <2>3, <2>4, <2>5, <2>9 DEF Seen, Has
  <2> QED BY <2>1, <2>8, <2>9 DEF LookUps
<1>4. CASE CheckNext
  <2>1. /\ hpc = "check" /\ ~Stale /\ it = size + 1 /\ found
        /\ found' = FALSE /\ it' = 1
        /\ UNCHANGED <<slots, size, gen, ids>>
    BY <1>4 DEF CheckNext, Finished, LoopOver, Rewind, vector
  <2>2. \A i : Slot(i)' = Slot(i)
    BY <2>1, SlotKeep
  <2>3. \A j \in 1..k : Seen(ids[j], size + 1)
    BY <1>0, <2>1 DEF LookUps
  <2>4. \A j \in 1..k : Seen(ids[j], size + 1)'
    BY <2>1, <2>2, <2>3 DEF Seen, Has
  <2>5. \/ k' = k + 1 /\ hpc' = "check"
        \/ k = Len(ids) /\ hpc' = "act"
    BY <1>0, <1>4, <2>1 DEF CheckNext
  <2>6. ~Seen(ids[k], it)'
    BY <2>1 DEF Seen
  <2> QED BY <1>0, <2>1, <2>4, <2>5, <2>6 DEF LookUps
<1> QED BY <1>1, <1>2, <1>3, <1>4

LEMMA LookUpsStep ==
  ASSUME TypeInv, Untouched, Above, LookUps, [Next]_vars PROVE LookUps'
<1>1. CASE Quiet
  BY <1>1, QuietSlots DEF Quiet, LookUps, Seen, Has, Stale
<1>2. CASE CollectStep \/ SweepStep \/ SweepDone \/ CheckMissing \/ Reply
  <2>1. hpc' \notin {"check", "act"}
    BY <1>2 DEF CollectStep, SweepStep, SweepDone, CheckMissing, Reply, Reading, Finished, Use
  <2> QED BY <2>1 DEF LookUps
<1>3. CASE ActSkip \/ ActUse \/ ActDone
  <2>1. /\ hpc = "act" /\ hpc' # "check" /\ UNCHANGED <<slots, size, gen, op, ids>>
        /\ Stale' <=> hgen' # gen
    BY <1>3 DEF ActSkip, ActUse, ActDone, Reading, Finished, Use, NextId, vector, Stale
  <2>2. ~Stale' => ~Stale
    BY <1>3, <2>1 DEF ActSkip, ActUse, ActDone, Finished, LoopOver, Stale
  <2>3. \A i : Slot(i)' = Slot(i)
    BY <2>1, SlotKeep
  <2> QED BY <2>1, <2>2, <2>3 DEF LookUps, Seen, Has
<1>4. CASE ActErase \/ EraseReset \/ EraseShift
  <2>1. hpc' \in {"idle", "reset", "shift"}
    BY <1>4 DEF ActErase, EraseReset, EraseShift
  <2> QED BY <2>1 DEF LookUps
<1>5. CASE ErasePop
  <2>1. op' = "remove" /\ hpc' # "check"
    BY <1>5 DEF ErasePop, NextId, Untouched, Erasing
  <2> QED BY <2>1 DEF LookUps
<1> QED BY <1>1, <1>2, <1>3, <1>4, <1>5, LookUpsMain, LookUpsCheck, LookupSteps

---------------------------------------------------------------------------
(* The answers of a getter.                                                *)

LEMMA Prefixes ==
  ASSUME NEW s \in Seq(Nat)
  PROVE  /\ SubSeq(s, 1, 0) = <<>> /\ SubSeq(s, 1, Len(s)) = s
         /\ \A n \in 1..Len(s) : SubSeq(s, 1, n) = Append(SubSeq(s, 1, n - 1), s[n])
<1>1. SubSeq(s, 1, 0) = <<>>
  BY SubSeqEmpty
<1>2. SubSeq(s, 1, Len(s)) = s
  BY SubSeqFull
<1>3. ASSUME NEW n \in 1..Len(s)
      PROVE  SubSeq(s, 1, n) = Append(SubSeq(s, 1, n - 1), s[n])
  <2>1. Len(s) \in Nat /\ 1 \in 1..Len(s) /\ n \in Nat
    OBVIOUS
  <2>2. SubSeq(s, 1, n) = SubSeq(s, 1, n - 1) \o <<s[n]>>
    BY <2>1, SubSeqRecursiveSecond
  <2>3. SubSeq(s, 1, n - 1) \in Seq(Nat) /\ s[n] \in Nat
    BY <2>1, SubSeqProperties
  <2> QED BY <2>2, <2>3, AppendIsConcat
<1> QED BY <1>1, <1>2, <1>3

LEMMA AlignedInit == Init => Aligned
BY DEF Init, Aligned, AnswersAligned

(* A step to the second loop or in it, of a request that uses torrents.    *)
LEMMA AlignedLoop ==
  ASSUME TypeInv, IdsNeverClash, Untouched, LookUps, Aligned,
         CheckNext \/ ActSkip \/ ActUse \/ ActDone
  PROVE  Aligned'
<1> DEFINE upto(n) == SubSeq(ids, 1, n)
<1>0. /\ size \in Int /\ it \in Nat \ {0} /\ MaxAdds \in Nat
      /\ hpc \in {"check", "act"} => k \in 1..Len(ids)
      /\ ids \in Seq(Nat) /\ Len(ids) \in Nat /\ k \in Nat
  BY HandlerTypes
<1>1. /\ UNCHANGED <<slots, size, gen, op, ids>>
      /\ \A i : Slot(i)' = Slot(i)
  BY SlotKeep DEF CheckNext, ActSkip, ActUse, ActDone, vector
<1>2. hpc = "act" /\ op # "remove" /\ ~Stale =>
         out = upto(IF Seen(ids[k], it) THEN k ELSE k - 1)
  BY DEF Aligned
<1>3. ASSUME hpc' # "reply",
             hpc' = "act" /\ op # "remove" /\ ~Stale' =>
                out' = SubSeq(ids, 1, IF Seen(ids[k], it)' THEN k' ELSE k' - 1)
      PROVE  Aligned'
  BY <1>1, <1>3 DEF Aligned, AnswersAligned
<1>4. CASE CheckNext
  <2>1. hpc = "check" /\ hpc' # "reply" /\ UNCHANGED out /\ out = <<>>
    BY <1>4 DEF CheckNext, Finished, Untouched
  <2>2. hpc' = "act" => k' = 1 /\ it' = 1
    BY <1>4, <2>1 DEF CheckNext, Rewind
  <2>3. hpc' = "act" => ~Seen(ids[k], it)'
    BY <2>2 DEF Seen
  <2>4. hpc' = "act" => k' - 1 = 0
    BY <2>2
  <2> QED BY <1>0, <1>3, <2>1, <2>2, <2>3, <2>4, Prefixes
<1>5. CASE ActSkip
  <2>1. /\ hpc = "act" /\ hpc' = "act" /\ it' = it + 1 /\ UNCHANGED <<k, hgen, out>>
        /\ Slot(it).id # ids[k]
    BY <1>5 DEF ActSkip, Reading
  <2>2. Seen(ids[k], it)' <=> Seen(ids[k], it)
    BY <1>0, <1>1, <2>1 DEF Seen, Has
  <2>3. Stale' <=> Stale
    BY <1>1, <2>1 DEF Stale
  <2> QED BY <1>2, <1>3, <2>1, <2>2, <2>3
<1>6. CASE ActUse /\ hpc' = "act"
  <2>1. /\ hpc = "act" /\ it' = it + 1 /\ UNCHANGED <<k, hgen>>
        /\ Slot(it) # Null /\ Slot(it).id = ids[k]
        /\ out' = Append(out, ids[k])
    BY <1>6 DEF ActUse, Reading, Use
  <2>2. it \in 1..MaxAdds /\ Has(it, ids[k])
    BY <2>1 DEF Slot, Has
  <2>3. ~Seen(ids[k], it)
    <3>1. \A i \in 1..MaxAdds : Has(i, ids[k]) => i = it
      BY <2>1, <2>2 DEF IdsNeverClash, Has
    <3> QED BY <1>0, <3>1 DEF Seen, Has
  <2>4. Seen(ids[k], it)'
    BY <1>0, <1>1, <2>1, <2>2 DEF Seen, Has
  <2>5. Stale' <=> Stale
    BY <1>1, <2>1 DEF Stale
  <2>6. upto(k) = Append(upto(k - 1), ids[k])
    BY <1>0, <2>1, Prefixes
  <2> QED BY <1>2, <1>3, <1>6, <2>1, <2>3, <2>4, <2>5, <2>6
<1>7. CASE ActUse /\ hpc' # "act"
  <2>1. hpc' = "idle"
    BY <1>7 DEF ActUse, Use
  <2> QED BY <1>3, <2>1
<1>8. CASE ActDone
  <2>1. /\ hpc = "act" /\ ~Stale /\ it = size + 1 /\ UNCHANGED out /\ it' = 1
        /\ k \in 1..Len(ids)
    BY <1>0, <1>8 DEF ActDone, Finished, LoopOver, Rewind
  <2>2. op # "remove" => Seen(ids[k], it)
    BY <2>1 DEF LookUps
  <2>3. op # "remove" => out = upto(k)
    BY <1>2, <2>1, <2>2
  <2>4. CASE k < Len(ids)
    <3>1. hpc' = "act" /\ k' = k + 1
      BY <1>8, <2>4 DEF ActDone, NextId
    <3>2. ~Seen(ids[k], it)'
      BY <2>1 DEF Seen
    <3>3. k' - 1 = k
      BY <1>0, <3>1
    <3> QED BY <1>3, <2>1, <2>3, <3>1, <3>2, <3>3
  <2>5. CASE ~(k < Len(ids))
    <3>1. hpc' = "reply" /\ k = Len(ids)
      BY <1>0, <1>8, <2>1, <2>5 DEF ActDone, NextId
    <3>2. op # "remove" => out = ids
      BY <1>0, <2>3, <3>1, Prefixes
    <3> QED BY <1>1, <2>1, <3>1, <3>2 DEF Aligned, AnswersAligned
  <2> QED BY <2>4, <2>5
<1> QED BY <1>4, <1>5, <1>6, <1>7, <1>8

LEMMA AlignedMain ==
  ASSUME TypeInv, Above, Aligned, PushConstruct \/ PushPublish \/ PushRealloc
  PROVE  Aligned'
<1>0. /\ size \in Int /\ mend \in Int /\ gen \in Nat /\ hgen \in Nat
      /\ it \in Nat \ {0} /\ VectorOK /\ MaxAdds \in Nat
  BY HandlerTypes
<1>1. UNCHANGED <<hpc, op, ids, k, it, hgen, out, result>>
  BY DEF PushConstruct, PushPublish, PushRealloc, http
<1>2. AnswersAligned'
  BY <1>1 DEF Aligned, AnswersAligned
<1>3. ASSUME hpc = "act", ~Stale'
      PROVE  ~Stale /\ (Seen(ids[k], it)' <=> Seen(ids[k], it))
  <2>1. CASE PushRealloc
    BY <1>0, <1>1, <1>3, <2>1 DEF PushRealloc, Stale, Above
  <2>2. CASE PushConstruct
    <3>1. \A i : Slot(i)' = IF i = size + 1 /\ i \in 1..MaxAdds THEN NewTorrent ELSE Slot(i)
      BY <1>0, <2>2, SlotStore DEF PushConstruct
    <3>2. ~Stale /\ it <= size + 1
      BY <1>1, <1>3, <2>2 DEF Above, Stale, Walking, PushConstruct
    <3>3. \A i \in 1..(it - 1) : Slot(i)' = Slot(i)
      BY <1>0, <3>1, <3>2
    <3> QED BY <1>1, <3>2, <3>3 DEF Seen, Has
  <2>3. CASE PushPublish
    <3>1. \A i : Slot(i)' = Slot(i)
      BY <2>3, SlotKeep DEF PushPublish
    <3>2. ~Stale
      BY <1>1, <1>3, <2>3 DEF Stale, PushPublish
    <3> QED BY <1>1, <3>1, <3>2 DEF Seen, Has
  <2> QED BY <2>1, <2>2, <2>3
<1> QED BY <1>1, <1>2, <1>3 DEF Aligned

LEMMA AlignedStep ==
  ASSUME TypeInv, IdsNeverClash, AnswerBound, Untouched, Above, LookUps, Aligned,
         [Next]_vars
  PROVE  Aligned'
<1>1. CASE Quiet
  BY <1>1, QuietSlots DEF Quiet, Aligned, AnswersAligned, Seen, Has, Stale
<1>2. ASSUME hpc' \notin {"act", "reply"} PROVE Aligned'
  BY <1>2 DEF Aligned, AnswersAligned
<1>3. ASSUME NEW o \in Ops, NEW req \in Requests, Receive(o, req) PROVE Aligned'
  <2>1. hpc' # "act" /\ (hpc' = "reply" => ids' = <<>>)
    BY <1>3 DEF Receive
  <2> QED BY <2>1 DEF Aligned, AnswersAligned
<1>4. CASE CollectStep \/ CollectDone \/ CheckStep
  <2>1. hpc' # "act" /\ (hpc' = "reply" => ids' = <<>>)
    BY <1>4 DEF CollectStep, CollectDone, CheckStep, Reading, Finished
  <2> QED BY <2>1 DEF Aligned, AnswersAligned
<1>5. CASE SweepStep \/ SweepDone
  <2>1. hpc' # "act" /\ ids' = <<>>
    BY <1>5 DEF SweepStep, SweepDone, Reading, Finished, Use, AnswerBound
  <2> QED BY <2>1 DEF Aligned, AnswersAligned
<1>6. CASE CheckMissing
  <2>1. hpc' = "reply" /\ result' = ids[k] /\ ids' = ids /\ k \in 1..Len(ids)
    BY <1>6, HandlerTypes DEF CheckMissing, Finished
  <2> QED BY <2>1 DEF Aligned, AnswersAligned
<1>7. CASE ActErase \/ EraseReset \/ EraseShift
  BY <1>2, <1>7 DEF ActErase, EraseReset, EraseShift
<1>8. CASE ErasePop
  <2>1. op' = "remove"
    BY <1>8 DEF ErasePop, Untouched, Erasing
  <2> QED BY <2>1 DEF Aligned, AnswersAligned
<1>9. CASE Reply
  <2>1. hpc = "reply" /\ UNCHANGED <<op, ids, result, out>> /\ hpc' # "act"
    BY <1>9 DEF Reply
  <2> QED BY <2>1 DEF Aligned, AnswersAligned
<1> QED BY <1>1, <1>3, <1>4, <1>5, <1>6, <1>7, <1>8, <1>9, AlignedLoop, AlignedMain,
           LookupSteps

(* What the two threads keep true of a look-up, all together.              *)
LookUpInv == /\ TypeInv /\ IdsNeverClash /\ AnswerBound
             /\ Untouched /\ Above /\ LookUps /\ Aligned

LEMMA LookUpInvariant == Spec => []LookUpInv
<1>1. Init => LookUpInv
  <2>1. Init => TypeInv /\ IdsNeverClash /\ AnswerBound
    BY TypeInit DEF Init, IdsNeverClash, Slot, AnswerBound, Erasing
  <2> QED BY <2>1, UntouchedInit, AboveInit, LookUpsInit, AlignedInit DEF LookUpInv
<1>2. LookUpInv /\ [Next]_vars => LookUpInv'
  BY TypeStep, ClashStep, AnswerStep, UntouchedStep, AboveStep, LookUpsStep, AlignedStep
  DEF LookUpInv
<1> QED BY <1>1, <1>2, PTL DEF Spec

(* The n-th answer of a getter belongs to the n-th id it was asked for or  *)
(* listed, although the main thread may append, move the vector or publish *)
(* between any two look-ups.                                               *)
THEOREM AnswersInOrder == Spec => []AnswersAligned
<1>1. LookUpInv => AnswersAligned
  BY DEF LookUpInv, Aligned
<1> QED BY <1>1, LookUpInvariant, PTL

(* A request is told that an id is missing only when no published slot of  *)
(* the vector has that id at that moment.                                  *)
THEOREM MissedIdsAreAbsent == Spec => MissingIsAbsent
<1> DEFINE Absent == result' # 0 /\ result' # result
                     => \A i \in 1..size : Slot(i) # Null => Slot(i).id # result'
<1>1. ASSUME LookUpInv, [Next]_vars PROVE [Absent]_vars
  <2>1. CASE CheckMissing
    <3>1. /\ hpc = "check" /\ ~Stale /\ it = size + 1 /\ ~found
          /\ result' = ids[k]
      BY <2>1 DEF CheckMissing, Finished, LoopOver
    <3>2. ~Seen(ids[k], size + 1)
      BY <1>1, <3>1 DEF LookUpInv, LookUps
    <3>3. size \in Int
      BY <1>1, HandlerTypes DEF LookUpInv
    <3>4. ASSUME NEW i \in 1..size, Slot(i) # Null PROVE Slot(i).id # ids[k]
      <4>1. i \in 1..MaxAdds
        BY <3>4 DEF Slot
      <4> QED BY <3>2, <3>3, <3>4, <4>1 DEF Seen, Has
    <3> QED BY <3>1, <3>4
  <2>2. CASE ~CheckMissing
    <3>1. result' = result \/ result' = 0
      <4>1. Quiet => result' = result
        BY DEF Quiet
      <4>2. PushConstruct \/ PushPublish \/ PushRealloc => result' = result
        BY DEF PushConstruct, PushPublish, PushRealloc, http
      <4>3. ASSUME NEW o \in Ops, NEW req \in Requests, Receive(o, req) PROVE result' = 0
        BY <4>3 DEF Receive
      <4>4. CollectStep \/ CollectDone \/ SweepStep \/ SweepDone \/ CheckStep \/ CheckNext
            => result' = result
        BY DEF CollectStep, CollectDone, SweepStep, SweepDone, CheckStep, CheckNext
      <4>5. ActSkip \/ ActUse \/ ActDone \/ ActErase => result' = result
        BY DEF ActSkip, ActUse, ActDone, ActErase
      <4>6. EraseReset \/ EraseShift \/ ErasePop \/ Reply => result' = result
        BY DEF EraseReset, EraseShift, ErasePop, Reply
      <4> QED BY <1>1, <2>2, <4>1, <4>2, <4>3, <4>4, <4>5, <4>6, LookupSteps
    <3> QED BY <3>1
  <2> QED BY <2>1, <2>2
<1> QED BY <1>1, LookUpInvariant, PTL DEF Spec, MissingIsAbsent

---------------------------------------------------------------------------
(* The session and the vector.                                             *)

(* Handles are numbered as they are made, and the main thread is done with *)
(* its batch when it walks the vector or fetches the next one.             *)
HandleRange ==
    /\ session \subseteq 1..handles
    /\ \A i \in 1..MaxAdds : Slot(i) # Null => Slot(i).handle <= handles
    /\ \A h \in Pending(alerts) \cup Pending(batch) : h <= handles
    /\ mpc \in {"console", "check"} => batch = <<>>

(* Between session.remove_torrent and reset the torrent is gone for good,  *)
(* and every other torrent of the session is held or announced somewhere.  *)
Held(h) == \E i \in 1..MaxAdds : Slot(i) # Null /\ Slot(i).handle = h
Parting == ~overlap /\ ~aliased /\ hpc = "reset" => Slot(it).handle \notin session
Accounted ==
    ~overlap /\ ~aliased =>
       \A h \in session : Held(h) \/ h \in Pending(alerts) \/ h \in Pending(batch)

SessionInv == HandleRange /\ Parting /\ Accounted

LEMMA SessionInit == Init => SessionInv
BY DEF Init, SessionInv, HandleRange, Parting, Accounted, Slot, Pending

LEMMA QueueTypes ==
  ASSUME TypeInv
  PROVE  /\ alerts \in Seq(0..MaxAdds) /\ batch \in Seq(0..MaxAdds)
         /\ Len(alerts) \in Nat /\ Len(batch) \in Nat
         /\ handles \in Nat /\ MaxAdds \in Nat /\ VectorOK
         /\ session \subseteq 1..MaxAdds /\ it \in Nat \ {0} /\ size \in Int
         /\ \A i \in 1..MaxAdds : Slot(i) # Null => Slot(i).handle \in 1..MaxAdds
<1>1. VectorOK /\ SessionOK /\ MainOK /\ HttpOK
  BY DEF TypeInv, TypeOK
<1>2. \A i \in 1..MaxAdds : Slot(i) # Null => Slot(i).handle \in 1..MaxAdds
  BY <1>1, SlotType DEF Torrents
<1> QED BY <1>1, <1>2, MaxAddsAssumption DEF VectorOK, SessionOK, MainOK, HttpOK

(* A queue without its head, and with one more entry.                      *)
LEMMA Queues ==
  ASSUME NEW q \in Seq(0..MaxAdds), NEW e \in 0..MaxAdds
  PROVE  /\ Append(q, e) \in Seq(0..MaxAdds)
         /\ Pending(Append(q, e)) = Pending(q) \cup {e}
         /\ q # <<>> => /\ Tail(q) \in Seq(0..MaxAdds)
                        /\ Pending(q) = Pending(Tail(q)) \cup {Head(q)}
<1>1. Append(q, e) \in Seq(0..MaxAdds) /\ Pending(Append(q, e)) = Pending(q) \cup {e}
  <2>1. /\ Append(q, e) \in Seq(0..MaxAdds) /\ Len(Append(q, e)) = Len(q) + 1
        /\ \A i \in 1..Len(q) : Append(q, e)[i] = q[i]
        /\ Append(q, e)[Len(q) + 1] = e
    BY AppendProperties
  <2>2. Len(q) \in Nat
    OBVIOUS
  <2> QED BY <2>1, <2>2 DEF Pending
<1>2. ASSUME q # <<>>
      PROVE  Tail(q) \in Seq(0..MaxAdds) /\ Pending(q) = Pending(Tail(q)) \cup {Head(q)}
  <2>1. /\ Tail(q) \in Seq(0..MaxAdds) /\ Len(Tail(q)) = Len(q) - 1
        /\ \A i \in 1..Len(Tail(q)) : Tail(q)[i] = q[i + 1]
    BY <1>2, HeadTailProperties
  <2>2. Head(q) = q[1] /\ Len(q) \in Nat /\ Len(q) >= 1
    BY <1>2
  <2>3. ASSUME NEW x \in Pending(q) PROVE x \in Pending(Tail(q)) \cup {Head(q)}
    <3>1. PICK i \in 1..Len(q) : x = q[i]
      BY <2>3 DEF Pending
    <3>2. CASE i = 1
      BY <2>2, <3>1, <3>2
    <3>3. CASE i # 1
      <4>1. i - 1 \in 1..Len(Tail(q)) /\ Tail(q)[i - 1] = q[i]
        BY <2>1, <2>2, <3>1, <3>3
      <4> QED BY <3>1, <4>1 DEF Pending
    <3> QED BY <3>2, <3>3
  <2>4. ASSUME NEW x \in Pending(Tail(q)) \cup {Head(q)} PROVE x \in Pending(q)
    <3>1. CASE x = Head(q)
      BY <2>2, <3>1 DEF Pending
    <3>2. CASE x \in Pending(Tail(q))
      <4>1. PICK i \in 1..Len(Tail(q)) : x = Tail(q)[i]
        BY <3>2 DEF Pending
      <4>2. i + 1 \in 1..Len(q) /\ x = q[i + 1]
        BY <2>1, <2>2, <4>1
      <4> QED BY <4>2 DEF Pending
    <3> QED BY <2>4, <3>1, <3>2
  <2> QED BY <2>1, <2>3, <2>4
<1> QED BY <1>1, <1>2

(* A slot gets nothing but what another held or a new torrent.             *)
LEMMA SlotOrigin ==
  ASSUME TypeInv, [Next]_vars, NEW i \in 1..MaxAdds
  PROVE  \/ Slot(i)' = Null
         \/ \E j \in 1..MaxAdds : Slot(j) # Null /\ Slot(i)' = Slot(j)
         \/ (PushConstruct \/ PushRealloc) /\ Slot(i)' = NewTorrent
<1>0. VectorOK
  BY QueueTypes
<1>1. CASE Pushes /\ (PushConstruct \/ PushRealloc)
  <2>1. Slot(i)' = IF i = size + 1 THEN NewTorrent ELSE Slot(i)
    BY <1>0, <1>1, SlotStore DEF Pushes
  <2> QED BY <1>1, <2>1
<1>2. CASE Shifts
  <2>1. Slot(it + 1) # Null => it + 1 \in 1..MaxAdds
    BY DEF Slot
  <2> QED BY <1>2, <2>1, ShiftedSlots
<1>3. ASSUME NEW n, Clears(n) PROVE Slot(i)' = Null \/ Slot(i)' = Slot(i)
  BY <1>0, <1>3, SlotStore DEF Clears
<1>4. CASE Keeps
  BY <1>4, SlotKeep DEF Keeps
<1> QED BY <1>1, <1>2, <1>3, <1>4, SlotSteps

(* Which steps move handles between libtorrent's queue and the batch.      *)
LEMMA QueueSteps ==
  ASSUME [Next]_vars
  PROVE  \/ SessionAnswers
         \/ PopAlerts
         \/ (AlertError \/ PushConstruct \/ PushRealloc)
         \/ UNCHANGED <<alerts, batch, handles>> /\ session' \subseteq session
            /\ ((mpc' = mpc) \/ (mpc = "console" /\ mpc' = "check")
                \/ mpc' = "alerts" \/ batch = <<>>)
<1>1. ConsoleStep \/ ConsoleDone \/ PushPublish \/ NextRound
      => /\ UNCHANGED <<alerts, batch, handles, session>>
         /\ (mpc' = mpc) \/ (mpc = "console" /\ mpc' = "check")
            \/ mpc' = "alerts" \/ batch = <<>>
  BY DEF ConsoleStep, ConsoleDone, PushPublish, NextRound, libt
<1>2. Handler => UNCHANGED <<alerts, batch, handles, mpc>> /\ session' \subseteq session
  BY HandlerFrame DEF main
<1>3. Arrive \/ Dead \/ UNCHANGED vars => UNCHANGED <<alerts, batch, handles, mpc, session>>
  BY DEF Arrive, AddRequest, Receive, Dead, vars, libt, main
<1> QED BY <1>1, <1>2, <1>3 DEF Next, Main

LEMMA RangeStep ==
  ASSUME TypeInv, HandleRange, [Next]_vars
  PROVE  HandleRange'
<1>0. /\ alerts \in Seq(0..MaxAdds) /\ batch \in Seq(0..MaxAdds)
      /\ handles \in Nat /\ MaxAdds \in Nat
  BY QueueTypes
<1> DEFINE Ranged ==
       /\ session' \subseteq 1..handles'
       /\ \A h \in Pending(alerts') \cup Pending(batch') : h <= handles'
       /\ mpc' \in {"console", "check"} => batch' = <<>>
       /\ handles' = handles \/ handles' = handles + 1
<1>1. Ranged
  <2>1. CASE SessionAnswers
    <3>1. UNCHANGED <<batch, mpc>>
      BY <2>1 DEF SessionAnswers, main
    <3>2. CASE /\ handles < MaxAdds /\ handles' = handles + 1
               /\ session' = session \cup {handles'} /\ alerts' = Append(alerts, handles')
      <4>1. Pending(alerts') = Pending(alerts) \cup {handles + 1}
        <5>1. handles + 1 \in 0..MaxAdds
          BY <1>0, <3>2
        <5> QED BY <1>0, <3>2, <5>1, Queues
      <4> HIDE DEF Pending
      <4>2. \A h \in Pending(alerts) \cup Pending(batch) : h \in 0..MaxAdds
        BY <1>0 DEF Pending
      <4> QED BY <1>0, <3>1, <3>2, <4>1, <4>2 DEF HandleRange
    <3>3. ASSUME NEW h \in session \cup {Error}, alerts' = Append(alerts, h),
                 UNCHANGED <<session, handles>>
          PROVE  Ranged
      <4>1. h \in 0..MaxAdds /\ h <= handles
        BY <1>0, <3>3, QueueTypes DEF HandleRange, Error
      <4>2. Pending(alerts') = Pending(alerts) \cup {h}
        BY <1>0, <3>3, <4>1, Queues
      <4> QED BY <1>0, <3>1, <3>3, <4>1, <4>2 DEF HandleRange
    <3> QED BY <2>1, <3>2, <3>3 DEF SessionAnswers
  <2>2. CASE PopAlerts
    <3>1. /\ batch' = alerts /\ alerts' = <<>> /\ mpc' = "alerts"
          /\ UNCHANGED <<session, handles>>
      BY <2>2 DEF PopAlerts
    <3>2. Pending(alerts') = {}
      BY <3>1 DEF Pending
    <3> QED BY <3>1, <3>2 DEF HandleRange
  <2>3. CASE AlertError \/ PushConstruct \/ PushRealloc
    <3>1. /\ batch # <<>> /\ batch' = Tail(batch) /\ mpc' \notin {"console", "check"}
          /\ UNCHANGED <<session, handles, alerts>>
      BY <2>3 DEF AlertError, PushConstruct, PushRealloc, libt
    <3>2. Pending(batch') \subseteq Pending(batch)
      <4>1. 0 \in 0..MaxAdds
        BY <1>0
      <4> QED BY <1>0, <3>1, <4>1, Queues
    <3> QED BY <3>1, <3>2 DEF HandleRange
  <2>4. CASE /\ UNCHANGED <<alerts, batch, handles>> /\ session' \subseteq session
             /\ ((mpc' = mpc) \/ (mpc = "console" /\ mpc' = "check")
                 \/ mpc' = "alerts" \/ batch = <<>>)
    BY <2>4 DEF HandleRange
  <2> QED BY <2>1, <2>2, <2>3, <2>4, QueueSteps
<1>2. ASSUME NEW i \in 1..MaxAdds, Slot(i)' # Null PROVE Slot(i)'.handle <= handles
  <2>1. CASE \E j \in 1..MaxAdds : Slot(j) # Null /\ Slot(i)' = Slot(j)
    BY <2>1 DEF HandleRange
  <2>2. CASE (PushConstruct \/ PushRealloc) /\ Slot(i)' = NewTorrent
    <3>1. batch # <<>>
      BY <2>2 DEF PushConstruct, PushRealloc
    <3>2. Head(batch) \in Pending(batch)
      <4>1. 0 \in 0..MaxAdds
        BY <1>0
      <4> QED BY <1>0, <3>1, <4>1, Queues
    <3> QED BY <2>2, <3>2 DEF HandleRange, NewTorrent
  <2> QED BY <1>2, <2>1, <2>2, SlotOrigin
<1>3. \A i \in 1..MaxAdds : Slot(i)' # Null => Slot(i)'.handle <= handles'
  <2>1. \A i \in 1..MaxAdds : Slot(i)' # Null => Slot(i)'.handle \in 1..MaxAdds
    <3>1. TypeInv'
      BY TypeStep
    <3>2. VectorOK'
      BY <3>1 DEF TypeInv, TypeOK
    <3> QED BY <3>2, SlotType DEF VectorOK, Slot, Torrents
  <2> QED BY <1>0, <1>1, <1>2, <2>1
<1> QED BY <1>1, <1>3 DEF HandleRange, Pending

(* What a torrent of the session loses when the two threads do not collide.*)
LEMMA HeldStep ==
  ASSUME TypeInv, Above, SafetyInv, [Next]_vars, ~overlap', NEW h, Held(h)
  PROVE  Held(h)' \/ (EraseReset /\ Slot(it) # Null /\ Slot(it).handle = h)
<1>0. VectorOK /\ ~overlap /\ it \in Nat \ {0} /\ size \in Int
  BY QueueTypes, HistoryStep
<1>1. PICK i \in 1..MaxAdds : Slot(i) # Null /\ Slot(i).handle = h
  BY DEF Held
<1>2. ASSUME NEW j \in 1..MaxAdds, Slot(j)' = Slot(i) PROVE Held(h)'
  BY <1>1, <1>2 DEF Held
<1>3. CASE Keeps
  BY <1>2, <1>3, SlotKeep DEF Keeps
<1>4. CASE Pushes /\ (PushConstruct \/ PushRealloc)
  <2>1. i # size + 1
    BY <1>0, <1>1, <1>4 DEF Above, PushConstruct, PushRealloc
  <2> QED BY <1>0, <1>2, <1>4, <2>1, SlotStore DEF Pushes
<1>5. CASE Shifts /\ EraseShift
  <2>1. Slot(it) = Null
    <3>1. it \in 1..MaxAdds => Slot(it) = Null
      BY <1>0, <1>5 DEF EraseShift, Layout, SafetyInv
    <3> QED BY <3>1 DEF Slot
  <2>2. i # it
    BY <1>1, <2>1
  <2>3. CASE i = it + 1
    <3>1. PICK n \in 1..MaxAdds : n = it
      BY <1>0, <2>3, MaxAddsAssumption
    <3>2. Slot(n)' = Slot(i)
      BY <1>0, <1>5, <2>3, <3>1, ShiftedSlots
    <3> QED BY <1>2, <3>2
  <2>4. CASE i # it + 1
    BY <1>2, <1>5, <2>2, <2>4, ShiftedSlots
  <2> QED BY <2>3, <2>4
<1>6. CASE Clears(it) /\ EraseReset
  <2>1. CASE i = it
    BY <1>1, <1>6, <2>1
  <2>2. CASE i # it
    BY <1>0, <1>2, <1>6, <2>2, SlotStore DEF Clears
  <2> QED BY <2>1, <2>2
<1>7. CASE Clears(size) /\ ErasePop
  <2>1. i # size
    BY <1>0, <1>1, <1>7 DEF ErasePop, Layout, SafetyInv, HttpInVector, Erasing
  <2> QED BY <1>0, <1>2, <1>7, <2>1, SlotStore DEF Clears
<1> QED BY <1>3, <1>4, <1>5, <1>6, <1>7, SlotSteps

LEMMA PartingStep ==
  ASSUME TypeInv, SafetyInv, HandleRange, Parting, [Next]_vars
  PROVE  Parting'
<1> SUFFICES ASSUME ~overlap', ~aliased', hpc' = "reset"
             PROVE  (Slot(it).handle \notin session)'
  BY DEF Parting
<1>0. /\ ~overlap /\ ~aliased /\ handles \in Nat /\ it \in Nat \ {0} /\ size \in Int
      /\ \A i \in 1..MaxAdds : Slot(i) # Null => Slot(i).handle \in 1..MaxAdds
  BY HistoryStep, QueueTypes
<1>1. CASE Quiet
  <2>1. hpc = "reset" /\ UNCHANGED <<slots, it>>
    BY <1>1 DEF Quiet
  <2>2. Slot(it) # Null /\ it \in 1..MaxAdds
    <3>1. it <= size /\ Filled(size) /\ size <= MaxAdds
      BY <1>0, <2>1, MaxAddsAssumption
      DEF SafetyInv, Layout, SizeBound, MainInVector, Erasing, TypeInv, TypeOK, VectorOK
    <3> QED BY <1>0, <3>1, MaxAddsAssumption DEF Filled
  <2>3. Slot(it).handle <= handles /\ Slot(it).handle \in Nat
    BY <1>0, <2>2 DEF HandleRange
  <2>4. session' \subseteq session \/ session' = session \cup {handles + 1}
    <3>1. SessionAnswers => session' \subseteq session \/ session' = session \cup {handles + 1}
      BY DEF SessionAnswers
    <3>2. PopAlerts \/ AlertError \/ PushConstruct \/ PushRealloc => session' = session
      BY DEF PopAlerts, AlertError, PushConstruct, PushRealloc, libt
    <3> QED BY <3>1, <3>2, QueueSteps
  <2>5. Slot(it).handle \notin session'
    BY <1>0, <2>1, <2>3, <2>4 DEF Parting
  <2>6. Slot(it)' = Slot(it)
    BY <2>1 DEF Slot
  <2> QED BY <2>5, <2>6
<1>2. CASE PushConstruct \/ PushPublish \/ PushRealloc
  <2>1. hpc = hpc' /\ (overlap' \/ ~HttpInVector)
    BY <1>2 DEF PushConstruct, PushPublish, PushRealloc, http
  <2> QED BY <2>1 DEF HttpInVector, Erasing
<1>3. CASE ActErase
  <2>1. session' = session \ {Slot(it).handle} /\ UNCHANGED <<slots, it>>
    BY <1>3 DEF ActErase, vector
  <2>2. Slot(it)' = Slot(it)
    BY <2>1 DEF Slot
  <2> QED BY <2>1, <2>2
<1>4. ASSUME NEW o \in Ops, NEW req \in Requests, Receive(o, req) PROVE FALSE
  BY <1>4 DEF Receive
<1>5. ~(CollectStep \/ CollectDone \/ SweepStep \/ SweepDone \/ CheckStep \/ CheckNext
        \/ CheckMissing)
  BY DEF CollectStep, CollectDone, SweepStep, SweepDone, CheckStep, CheckNext, CheckMissing,
         Reading, Finished, Use
<1>6. ~(ActSkip \/ ActUse \/ ActDone \/ EraseReset \/ EraseShift \/ ErasePop \/ Reply)
  BY DEF ActSkip, ActUse, ActDone, EraseReset, EraseShift, ErasePop, Reply, Reading, Finished,
         Use, NextId
<1> QED BY <1>1, <1>2, <1>3, <1>4, <1>5, <1>6, LookupSteps

LEMMA AccountedStep ==
  ASSUME TypeInv, Above, SafetyInv, SessionInv, [Next]_vars
  PROVE  Accounted'
<1> SUFFICES ASSUME ~overlap', ~aliased', NEW h \in session'
             PROVE  Held(h)' \/ h \in Pending(alerts') \/ h \in Pending(batch')
  BY DEF Accounted, Pending
<1>0. /\ ~overlap /\ ~aliased /\ VectorOK
      /\ alerts \in Seq(0..MaxAdds) /\ batch \in Seq(0..MaxAdds)
      /\ handles \in Nat /\ MaxAdds \in Nat /\ size \in Int /\ 0 \in 0..MaxAdds
      /\ session \subseteq 1..MaxAdds /\ HandleRange /\ Parting
  BY HistoryStep, QueueTypes DEF SessionInv
<1>1. h \in session => Held(h) \/ h \in Pending(alerts) \/ h \in Pending(batch)
  BY <1>0 DEF Accounted, SessionInv
<1>2. ASSUME h \in session, Held(h) PROVE Held(h)'
  <2>1. CASE EraseReset
    <3>1. Slot(it).handle \notin session
      BY <1>0, <2>1 DEF EraseReset, Parting
    <3> QED BY <1>2, <3>1, HeldStep
  <2> QED BY <1>2, <2>1, HeldStep
<1>3. CASE SessionAnswers
  <2>1. batch' = batch
    BY <1>3 DEF SessionAnswers, main
  <2>2. ASSUME NEW a \in 0..MaxAdds, alerts' = Append(alerts, a)
        PROVE  Pending(alerts') = Pending(alerts) \cup {a}
    BY <1>0, <2>2, Queues
  <2>3. CASE /\ handles < MaxAdds /\ handles' = handles + 1
             /\ session' = session \cup {handles'} /\ alerts' = Append(alerts, handles')
    <3>1. handles' \in 0..MaxAdds
      BY <1>0, <2>3
    <3>2. Pending(alerts') = Pending(alerts) \cup {handles'}
      BY <2>2, <2>3, <3>1
    <3> QED BY <1>1, <1>2, <2>1, <2>3, <3>2
  <2>4. ASSUME NEW a \in session \cup {Error}, alerts' = Append(alerts, a),
               UNCHANGED session
        PROVE  Held(h)' \/ h \in Pending(alerts') \/ h \in Pending(batch')
    <3>1. a \in 0..MaxAdds
      BY <1>0, <2>4 DEF Error
    <3> QED BY <1>1, <1>2, <2>1, <2>2, <2>4, <3>1
  <2> QED BY <1>3, <2>3, <2>4 DEF SessionAnswers
<1>4. CASE PopAlerts
  <2>1. batch' = alerts /\ UNCHANGED session /\ batch = <<>>
    BY <1>0, <1>4 DEF PopAlerts, HandleRange
  <2>2. h \notin Pending(batch)
    BY <2>1 DEF Pending
  <2> QED BY <1>1, <1>2, <2>1, <2>2
<1>5. CASE AlertError \/ PushConstruct \/ PushRealloc
  <2>1. batch # <<>> /\ batch' = Tail(batch) /\ UNCHANGED <<session, alerts>>
    BY <1>5 DEF AlertError, PushConstruct, PushRealloc, libt
  <2>2. Pending(batch) = Pending(batch') \cup {Head(batch)}
    BY <1>0, <2>1, Queues
  <2>3. CASE AlertError
    <3>1. h # Head(batch)
      BY <1>0, <2>1, <2>3 DEF AlertError, Error
    <3> QED BY <1>1, <1>2, <2>1, <2>2, <3>1
  <2>4. CASE PushConstruct \/ PushRealloc
    <3>1. NewTorrent \in Torrents /\ greatest_id \in 1..MaxAdds
      BY <2>4, NewTorrentType DEF PushConstruct, PushRealloc
    <3>2. PICK n \in 1..MaxAdds : n = size + 1
      BY <1>0, <3>1 DEF Above, SafetyInv, SizeBound
    <3>3. Slot(n)' = NewTorrent
      BY <1>0, <2>4, <3>2, SlotStore DEF PushConstruct, PushRealloc
    <3>4. NewTorrent # Null /\ NewTorrent.handle = Head(batch)
      BY <3>1, NullAssumption DEF Torrents, NewTorrent
    <3>5. h = Head(batch) => Held(h)'
      BY <3>3, <3>4 DEF Held
    <3> QED BY <1>1, <1>2, <2>1, <2>2, <3>5
  <2> QED BY <1>5, <2>3, <2>4
<1>6. CASE UNCHANGED <<alerts, batch>> /\ session' \subseteq session
  BY <1>1, <1>2, <1>6
<1> QED BY <1>3, <1>4, <1>5, <1>6, QueueSteps

(* While the two threads have not collided, a torrent of the session has   *)
(* an id or its alert is still to be handled, and an entry of the vector   *)
(* has a torrent unless its removal is under way.                          *)
THEOREM SessionAndTableAgree == Spec => []SessionMatchesTable
<1> DEFINE All == TypeInv /\ IdsNeverClash /\ SafetyInv /\ Above /\ SessionInv
<1>1. Init => All
  <2>1. Init => TypeInv /\ IdsNeverClash
    BY TypeInit DEF Init, IdsNeverClash, Slot
  <2>2. Init => SizeBound /\ AnswerBound
    BY DEF Init, SizeBound, AnswerBound, Erasing
  <2> QED BY <2>1, <2>2, LayoutInit, HandlesInit, AboveInit, SessionInit DEF SafetyInv
<1>2. All /\ [Next]_vars => All'
  BY TypeStep, ClashStep, SizeStep, LayoutStep, HandlesStep, AnswerStep, AboveStep,
     RangeStep, PartingStep, AccountedStep DEF SafetyInv, SessionInv
<1>3. All => SessionMatchesTable
  <2> SUFFICES ASSUME All, ~overlap, ~aliased
               PROVE  /\ session \subseteq {t.handle : t \in Table} \cup Pending(alerts)
                                           \cup Pending(batch)
                      /\ hpc # "reset" => {t.handle : t \in Table} \subseteq session
    BY DEF SessionMatchesTable
  <2>0. VectorOK
    BY QueueTypes
  <2>1. \A h : Held(h) <=> \E t \in Table : t.handle = h
    BY <2>0, TableSlots DEF Held
  <2>2. \A h \in session : Held(h) \/ h \in Pending(alerts) \/ h \in Pending(batch)
    BY DEF SessionInv, Accounted
  <2>3. hpc # "reset" => \A h : Held(h) => h \in session
    BY DEF SafetyInv, HandlesLive, Held
  <2> QED BY <2>1, <2>2, <2>3
<1> QED BY <1>1, <1>2, <1>3, PTL DEF Spec
===========================================================================
