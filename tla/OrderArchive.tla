---------------------------- MODULE OrderArchive ----------------------------
(* What the callers of the PostgreSQL store rely on: SaveOrder stores a      *)
(* whole order or nothing, in one step; the order row of the first save      *)
(* stays, and a save that begins after it changes nothing; one that had      *)
(* looked before adds its items to the stored order; nil is returned only    *)
(* while the order is there.                                                 *)
EXTENDS Naturals

CONSTANTS
  Writers, Uids,
  Orders,  \* orders: records with uid and items, a sequence
  None

VARIABLES
  db,      \* db[u]: the stored order with uid u and its items, or None
  call,    \* call[w]: the order w is saving, or None
  racing,  \* writers that saw no order of that uid when they looked
  saved,   \* uids for which a SaveOrder has returned nil
  deleted  \* uids that were deleted

vars == <<db, call, racing, saved, deleted>>

Init ==
  /\ db = [u \in Uids |-> None]
  /\ call = [w \in Writers |-> None]
  /\ racing = {}
  /\ saved = {}
  /\ deleted = {}

ItemsOf(o) == {o.items[k] : k \in DOMAIN o.items}

Stored(o) ==
  IF db[o.uid] = None
    THEN [db EXCEPT ![o.uid] = [order |-> o, items |-> ItemsOf(o)]]
    ELSE [db EXCEPT ![o.uid].items = @ \cup ItemsOf(o)]

Save(w, o) ==
  /\ call[w] = None
  /\ call' = [call EXCEPT ![w] = o]
  /\ UNCHANGED <<db, racing, saved, deleted>>

Look(w) ==
  /\ call[w] # None /\ w \notin racing
  /\ db[call[w].uid] = None
  /\ racing' = racing \cup {w}
  /\ UNCHANGED <<db, call, saved, deleted>>

Return(w) ==
  /\ call' = [call EXCEPT ![w] = None]
  /\ racing' = racing \ {w}
  /\ UNCHANGED deleted

Complete(w) ==
  /\ call[w] # None
  /\ \/ w \notin racing /\ db[call[w].uid] # None /\ UNCHANGED db
     \/ w \in racing /\ db' = Stored(call[w])
  /\ saved' = saved \cup {call[w].uid}
  /\ Return(w)

(* An error is returned, also when the order was stored after all. *)
Abandon(w) ==
  /\ call[w] # None
  /\ UNCHANGED db \/ (w \in racing /\ db' = Stored(call[w]))
  /\ UNCHANGED saved
  /\ Return(w)

Remove(u) ==
  /\ db[u] # None
  /\ db' = [db EXCEPT ![u] = None]
  /\ deleted' = deleted \cup {u}
  /\ UNCHANGED <<call, racing, saved>>

Next ==
  \/ \E w \in Writers :
       (\E o \in Orders : Save(w, o)) \/ Look(w) \/ Complete(w) \/ Abandon(w)
  \/ \E u \in Uids : Remove(u)

Spec == Init /\ [][Next]_vars
=============================================================================
