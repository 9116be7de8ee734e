----------------------------- MODULE IdTable -----------------------------
(***************************************************************************)
(* What the REST API promises its clients about torrent ids: a table that  *)
(* gives every torrent the session accepts a fresh id, and takes an entry  *)
(* out when a client removes it.  Nothing else touches the table, until    *)
(* two threads have been inside the vector at once: from then on (broken)  *)
(* nothing is promised any more.                                           *)
(***************************************************************************)
EXTENDS Naturals

CONSTANT Handles                       \* torrents libtorrent may hand out

VARIABLES table, nextId, broken

Entries == [id : Nat, handle : Handles]

Init == table = {} /\ nextId = 1 /\ broken = FALSE

Register(h) ==
    /\ table' = table \cup {[id |-> nextId, handle |-> h]}
    /\ nextId' = nextId + 1
    /\ UNCHANGED broken

Unregister(e) ==
    /\ table' = table \ {e}
    /\ UNCHANGED <<nextId, broken>>

Break == broken'

Next == \/ Break
        \/ ~broken /\ ((\E h \in Handles : Register(h))
                       \/ (\E e \in table : Unregister(e)))

Spec == Init /\ [][Next]_<<table, nextId, broken>>

(* No two entries share an id, and no id given out is given out again.     *)
IdsUnique ==
    ~broken => /\ \A e \in table : e \in Entries /\ e.id < nextId
               /\ \A e, f \in table : e.id = f.id => e = f
===========================================================================
