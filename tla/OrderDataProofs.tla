-------------------------- MODULE OrderDataProofs --------------------------
(* Proofs about what orders hold: which values get past the validator and    *)
(* into the columns (OrderValidation), for any widths of Go's int and        *)
(* INTEGER, and what becomes of the items orders share (SharedItems), for    *)
(* any orders and any number of goroutines.                                  *)
EXTENDS OrderValidation, SharedItems, FiniteSetTheorems, TLAPS

(* What a verdict and a refusal rest on. *)
VerdictInv ==
  verdict = "accepted" =>
    AmountRule /\ \A f \in Numbers : NumberRule(f)

RefusalInv ==
  row = "refused" =>
    /\ verdict = "accepted"
    /\ \A f \in Texts : TextRule(f)
    /\ \/ \E f \in Numbers : ~Column(f)
       \/ \E f \in Texts : text[f] \notin Storable[f]

TextInv == verdict = "accepted" => \A f \in Texts : TextRule(f)

IInv ==
  TypeOK /\ VerdictInv /\ TextInv /\ RefusalInv

---------------------------------------------------------------------------

USE WidthAssumption

LEMMA NumTyped == Init => num \in [Numbers -> Ints]
<1> SUFFICES ASSUME Init PROVE num \in [Numbers -> Ints]
  OBVIOUS
<1>1. Small \in [Numbers -> Ints]
  BY DEF Small, Numbers, Ints
<1> QED BY <1>1 DEF Init

LEMMA InitInv == Init => IInv
BY NumTyped DEF Init, IInv, TypeOK, VerdictInv, TextInv, RefusalInv

LEMMA StepInv == IInv /\ [Next]_vars => IInv'
<1> SUFFICES ASSUME IInv, [Next]_vars PROVE IInv'
  OBVIOUS
<1> USE DEF IInv, TypeOK, VerdictInv, TextInv, RefusalInv
<1>1. CASE Validate
  BY <1>1 DEF Validate, AmountRule, NumberRule, TextRule, Column
<1>2. CASE Insert
  BY <1>2 DEF Insert, AmountRule, NumberRule, TextRule, Column
<1>3. CASE Over \/ UNCHANGED vars
  BY <1>3 DEF Over, vars, AmountRule, NumberRule, TextRule, Column
<1> QED BY <1>1, <1>2, <1>3 DEF Next

LEMMA Invariance == Spec => []IInv
BY InitInv, StepInv, PTL DEF Spec

(* Every variable keeps its type, and only an accepted order is saved. *)
THEOREM TypeCorrect == Spec => []TypeOK
<1>1. IInv => TypeOK
  BY DEF IInv
<1> QED BY <1>1, Invariance, PTL

(* No order whose parts overflow is accepted, whatever the width of int.     *)
THEOREM AmountsAddUp == Spec => []AmountExact
<1>1. IInv => AmountExact
  <2> SUFFICES ASSUME IInv, verdict = "accepted"
               PROVE  num["amount"] = num["delivery_cost"] + num["goods_total"]
    BY DEF AmountExact
  <2>1. /\ num["amount"] \in Ints /\ num["delivery_cost"] \in Ints
        /\ num["goods_total"] \in Ints
        /\ num["amount"] >= 0 /\ num["delivery_cost"] >= 0
        /\ num["goods_total"] >= 0
    BY DEF IInv, TypeOK, VerdictInv, NumberRule, Numbers
  <2>2. num["amount"] = Wrap(num["delivery_cost"] + num["goods_total"])
    BY DEF IInv, VerdictInv, AmountRule
  <2> QED BY <2>1, <2>2 DEF Wrap, Ints
<1> QED BY <1>1, Invariance, PTL

(* What the validator accepts in a text field the column takes, but for the  *)
(* pairs of field and class GapTexts lists.                                  *)
LEMMA TextGap ==
  ASSUME NEW f \in Texts, NEW v \in Accepted[f], v \notin Storable[f]
  PROVE  <<f, v>> \in GapTexts
<1>1. f \in {"order_uid", "transaction", "delivery_service", "phone",
             "currency", "person", "email", "rid", "brand", "free", "status"}
  BY DEF Texts, Accepted
<1>2. CASE f \in {"order_uid", "delivery_service", "phone"}
  BY <1>2 DEF Accepted, Storable
<1>3. CASE f = "transaction"
  BY <1>3 DEF Accepted, Storable, GapTexts
<1>4. CASE f \in {"currency", "status"}
  BY <1>4 DEF Accepted, Storable, GapTexts
<1>5. CASE f \in {"person", "email", "rid", "brand"}
  BY <1>5 DEF Accepted, Storable, GapTexts
<1>6. CASE f = "free"
  BY <1>6 DEF Accepted, Storable, GapTexts
<1> QED BY <1>1, <1>2, <1>3, <1>4, <1>5, <1>6

(* And in a number field, but for the width: a 64-bit column takes any int.  *)
LEMMA NumberGap ==
  ASSUME NEW f \in Numbers, num[f] \in Ints, NumberRule(f), ~Column(f)
  PROVE  f \notin Wide /\ num[f] > IntMax
BY DEF NumberRule, Column, Ints, Numbers, Required, Positive, Wide

(* The gap between the rules and the tables is what GapKnown lists. *)
THEOREM GapIsComplete == Spec => []GapKnown
<1>1. IInv => GapKnown
  <2> SUFFICES ASSUME IInv, row = "refused" PROVE GapKnown
    BY DEF GapKnown
  <2>1. CASE \E f \in Numbers : ~Column(f)
    <3>1. PICK f \in Numbers : ~Column(f)
      BY <2>1
    <3>2. num[f] \in Ints /\ NumberRule(f)
      BY DEF IInv, TypeOK, VerdictInv, RefusalInv
    <3> QED BY <3>1, <3>2, NumberGap DEF GapKnown
  <2>2. CASE \E f \in Texts : text[f] \notin Storable[f]
    <3>1. PICK f \in Texts : text[f] \notin Storable[f]
      BY <2>2
    <3>2. text[f] \in Accepted[f]
      BY DEF IInv, RefusalInv, TextRule
    <3> QED BY <3>1, <3>2, TextGap DEF GapKnown
  <2> QED BY <2>1, <2>2 DEF IInv, RefusalInv
<1> QED BY <1>1, Invariance, PTL

---------------------------------------------------------------------------
(* Items that orders share.                                                  *)

LEMMA ItemsAre ==
  ASSUME NEW o \in Orders
  PROVE  /\ o.uid \in Uids
         /\ Len(o.items) \in Nat /\ DOMAIN o.items = 1 .. Len(o.items)
         /\ \A k \in DOMAIN o.items : o.items[k] \in Items
         /\ ItemsOf(o) \subseteq Items
         /\ Link(o) \subseteq Chrts /\ Link(o) = Carries(o)
  <1>1. o.uid \in Uids /\ o.items \in Seq(Items)
    BY OrderAssumption
  <1>2. /\ Len(o.items) \in Nat /\ DOMAIN o.items = 1 .. Len(o.items)
        /\ \A k \in DOMAIN o.items : o.items[k] \in Items
    BY <1>1
  <1>3. ItemsOf(o) \subseteq Items
    BY <1>2 DEF ItemsOf
  <1>4. Link(o) \subseteq Chrts
    BY <1>2 DEF Link, Items
  <1>5. Link(o) = Carries(o)
    BY DEF Link, Carries, ItemsOf
  <1> QED
    BY <1>1, <1>2, <1>3, <1>4, <1>5

(* Of some places in a sequence one is the last: the set of the places after *)
(* it cannot shrink for ever.                                                *)
LEMMA LastPlace ==
  ASSUME NEW n \in Nat, NEW K \in SUBSET (1 .. n), K # {}
  PROVE  \E k \in K : \A l \in K : l <= k
  <1> DEFINE After(k) == {l \in K : l > k}
             F == {After(k) : k \in K}
  <1>0. \A k \in K : k \in Nat
    OBVIOUS
  <1>1. IsFiniteSet(K)
    <2>1. IsFiniteSet(1 .. n)
      BY FS_Interval
    <2> QED
      BY <2>1, FS_Subset
  <1>2. IsWellFoundedOn(StrictSubsetOrdering(K), SUBSET K)
    BY <1>1, FS_StrictSubsetOrderingWellFounded, FS_FiniteSubsetsOfFinite
  <1>3. F \subseteq SUBSET K /\ F # {}
    OBVIOUS
  <1>4. PICK A \in F : \A B \in F : <<B, A>> \notin StrictSubsetOrdering(K)
    <2> HIDE DEF F
    <2> QED
      BY <1>2, <1>3, WFMin
  <1>5. PICK k \in K : A = After(k)
    BY <1>4
  <1>6. ASSUME NEW l \in K, l > k PROVE FALSE
    <2>0. \A x \in K : x > l => x > k
      BY <1>0, <1>6
    <2>1. After(l) \subseteq After(k)
      BY <2>0
    <2>2. l \in After(k)
      BY <1>6
    <2>3. l \notin After(l)
      <3>1. l \in Nat /\ ~(l > l)
        BY <1>0
      <3> QED
        BY <3>1
    <2>4. <<After(l), A>> \in StrictSubsetOrdering(K)
      BY <1>5, <2>1, <2>2, <2>3 DEF StrictSubsetOrdering
    <2> QED
      BY <1>4, <2>4
  <1>7. \A l \in K : l <= k
    BY <1>0, <1>6
  <1> QED
    BY <1>7

(* An upsert gives a row the columns of an item of the order, or leaves it.  *)
LEMMA UpsertRows ==
  ASSUME NEW o \in Orders, NEW i \in Chrts
  PROVE  /\ i \notin Link(o) => Upsert(o)[i] = rows[i]
         /\ i \in Link(o) =>
              /\ Upsert(o)[i] \in Columns
              /\ [chrt |-> i, columns |-> Upsert(o)[i]] \in ItemsOf(o)
  <1> DEFINE K == {k \in DOMAIN o.items : o.items[k].chrt = i}
  <1>1. Upsert(o)[i] = IF K = {} THEN rows[i]
                       ELSE o.items[CHOOSE k \in K : \A l \in K : l <= k].columns
    BY DEF Upsert
  <1>2. CASE K = {}
    <2>1. i \notin Link(o)
      BY <1>2 DEF Link
    <2> QED
      BY <1>1, <1>2, <2>1
  <1>3. CASE K # {}
    <2>1. K \in SUBSET (1 .. Len(o.items)) /\ Len(o.items) \in Nat
      BY ItemsAre
    <2> DEFINE m == CHOOSE k \in K : \A l \in K : l <= k
    <2>2. m \in K
      <3> HIDE DEF K
      <3>1. \E k \in K : \A l \in K : l <= k
        BY <1>3, <2>1, LastPlace
      <3> QED
        BY <3>1
    <2>3. Upsert(o)[i] = o.items[m].columns
      BY <1>1, <1>3
    <2> HIDE DEF m
    <2>4. m \in DOMAIN o.items /\ o.items[m].chrt = i
      BY <2>2
    <2>5. o.items[m] \in Items /\ o.items[m] \in ItemsOf(o)
      BY <2>4, ItemsAre DEF ItemsOf
    <2>6. o.items[m] = [chrt |-> i, columns |-> o.items[m].columns]
          /\ o.items[m].columns \in Columns
      BY <2>4, <2>5 DEF Items
    <2>7. i \in Link(o)
      BY <2>4 DEF Link
    <2> QED
      BY <2>3, <2>5, <2>6, <2>7
  <1> QED
    BY <1>2, <1>3

(* What a reader is told of stored orders is Faithful.                       *)
LEMMA RowsFaithful ==
  ASSUME ItemsTypeOK, StoredSent, LinksSent, RowsSent,
         NEW u \in Uids, order[u] # None
  PROVE  Faithful(u, RowsOf(u))
  <1> DEFINE p == order[u]
  <1>1. p \in sent /\ p.uid = u /\ Link(p) \subseteq links[u]
    BY DEF StoredSent
  <1>2. sent \subseteq Orders /\ links[u] \subseteq Chrts
    BY DEF ItemsTypeOK
  <1>3. \A i \in links[u] : \E o \in sent : [chrt |-> i, columns |-> rows[i]] \in ItemsOf(o)
    BY <1>2 DEF RowsSent, ItemsTypeOK
  <1>4. \A i \in links[u] : \E o \in sent : o.uid = u /\ i \in Carries(o)
    BY <1>2, ItemsAre DEF LinksSent
  <1>5. ASSUME NEW item \in RowsOf(u)
        PROVE  /\ \E o \in sent : item \in ItemsOf(o)
               /\ \E o \in sent : o.uid = u /\ item.chrt \in Carries(o)
    <2>1. PICK i \in links[u] : item = [chrt |-> i, columns |-> rows[i]]
      BY DEF RowsOf
    <2> QED
      BY <1>3, <1>4, <2>1
  <1>6. ASSUME NEW o \in sent, Private(o), o.uid = u PROVE RowsOf(u) = ItemsOf(o)
    <2>1. \A q \in sent : q.uid = u => q = o
      BY <1>6 DEF Private
    <2>2. \A q \in sent : Carries(q) \cap Carries(o) # {} => q = o
      BY <1>6 DEF Private
    <2>3. links[u] = Carries(o)
      <3>1. p = o
        BY <1>1, <2>1
      <3>2. Link(o) = Carries(o)
        BY <1>2, ItemsAre
      <3> QED
        BY <1>1, <1>4, <2>1, <3>1, <3>2
    <2>4. \A i \in Carries(o) : [chrt |-> i, columns |-> rows[i]] \in ItemsOf(o)
      <3> SUFFICES ASSUME NEW i \in Carries(o)
                   PROVE  [chrt |-> i, columns |-> rows[i]] \in ItemsOf(o)
        OBVIOUS
      <3>1. PICK q \in sent : [chrt |-> i, columns |-> rows[i]] \in ItemsOf(q)
        BY <1>3, <2>3
      <3>2. i \in Carries(q)
        BY <3>1 DEF Carries
      <3> QED
        BY <2>2, <3>1, <3>2
    <2>5. RowsOf(u) \subseteq ItemsOf(o)
      BY <2>3, <2>4 DEF RowsOf
    <2>6. ASSUME NEW item \in ItemsOf(o) PROVE item \in RowsOf(u)
      <3>1. item.chrt \in Carries(o) /\ item \in Items
        BY <1>2, ItemsAre DEF Carries
      <3> DEFINE row1 == [chrt |-> item.chrt, columns |-> rows[item.chrt]]
      <3>2. row1 \in ItemsOf(o) /\ row1 \in RowsOf(u)
        BY <2>3, <2>4, <3>1 DEF RowsOf
      <3>3. row1.chrt = item.chrt
        OBVIOUS
      <3> HIDE DEF row1
      <3>4. PICK k, l \in DOMAIN o.items : item = o.items[k] /\ row1 = o.items[l]
        BY <2>6, <3>2 DEF ItemsOf
      <3>5. k = l
        BY <1>6, <3>3, <3>4 DEF Private
      <3> QED
        BY <3>2, <3>4, <3>5
    <2> QED
      BY <2>5, <2>6
  <1> QED
    BY <1>1, <1>5, <1>6 DEF Faithful

(* An order as it was sent is Faithful.                                      *)
LEMMA SentFaithful ==
  ASSUME ItemsTypeOK, NEW o \in sent
  PROVE  Faithful(o.uid, ItemsOf(o))
  BY DEF Faithful, Private, Carries

(* Sending another order takes nothing back that was Faithful: when it has   *)
(* the uid of an earlier one, that one is no longer Private.                 *)
LEMMA FaithfulStays ==
  ASSUME NEW o, sent' = sent \cup {o}, NEW u, NEW S, Faithful(u, S)
  PROVE  Faithful(u, S)'
  <1>1. PICK p \in sent : p.uid = u
    BY DEF Faithful
  <1>2. \A item \in S :
          /\ \E q \in sent : item \in ItemsOf(q)
          /\ \E q \in sent : q.uid = u /\ item.chrt \in Carries(q)
    BY DEF Faithful
  <1>3. ASSUME NEW q \in sent', Private(q)', q.uid = u PROVE S = ItemsOf(q)
    <2>1. q = p
      BY <1>1, <1>3 DEF Private
    <2>2. Private(q)
      BY <1>3 DEF Private
    <2> QED
      BY <1>1, <1>3, <2>1, <2>2 DEF Faithful
  <1>4. \A q : ItemsOf(q)' = ItemsOf(q) /\ Carries(q)' = Carries(q)
    BY DEF ItemsOf, Carries
  <1> QED
    BY <1>1, <1>2, <1>3, <1>4 DEF Faithful

LEMMA ItemsInvInit == ItemsInit => ItemsInv
  BY OrderAssumption
  DEF ItemsInit, ItemsInv, ItemsTypeOK, SavesSent, StoredSent, LinksSent, RowsSent,
      CopiesFaithful

LEMMA SaveOrderKeeps ==
  ASSUME ItemsInv, NEW w \in Writers, NEW o \in Orders, SaveOrder(w, o)
  PROVE  ItemsInv'
  <1>0. /\ ItemsTypeOK /\ SavesSent /\ StoredSent /\ LinksSent /\ RowsSent
        /\ CopiesFaithful
    BY DEF ItemsInv
  <1>1. /\ pc' = [pc EXCEPT ![w] = "check"] /\ arg' = [arg EXCEPT ![w] = o]
        /\ sent' = sent \cup {o}
        /\ UNCHANGED <<order, links, rows, cache, reading, found, answers>>
    BY DEF SaveOrder, Goto, readerVars
  <1>2. ItemsTypeOK' /\ SavesSent'
    BY <1>0, <1>1 DEF ItemsTypeOK, SavesSent
  <1>3. StoredSent' /\ LinksSent' /\ RowsSent'
    BY <1>0, <1>1 DEF StoredSent, LinksSent, RowsSent, Link, ItemsOf
  <1>4. \A u, S : Faithful(u, S) => Faithful(u, S)'
    BY <1>1, FaithfulStays
  <1>5. CopiesFaithful'
    BY <1>0, <1>1, <1>4 DEF CopiesFaithful
  <1> QED
    BY <1>2, <1>3, <1>5 DEF ItemsInv

(* What every step that sends no order keeps Faithful.                       *)
LEMMA FaithfulUnchanged ==
  ASSUME sent' = sent, NEW u, NEW S
  PROVE  Faithful(u, S)' <=> Faithful(u, S)
  BY DEF Faithful, Private, ItemsOf, Carries

LEMMA CommitKeeps ==
  ASSUME ItemsInv, NEW w \in Writers, Commit(w)
  PROVE  ItemsInv'
  <1> DEFINE o == arg[w]
  <1>0. /\ ItemsTypeOK /\ SavesSent /\ StoredSent /\ LinksSent /\ RowsSent
        /\ CopiesFaithful
    BY DEF ItemsInv
  <1>1. /\ pc[w] = "commit" /\ pc' = [pc EXCEPT ![w] = "cache"]
        /\ order' = [order EXCEPT ![o.uid] = IF order[o.uid] = None THEN o ELSE order[o.uid]]
        /\ links' = [links EXCEPT ![o.uid] = links[o.uid] \cup Link(o)]
        /\ rows' = Upsert(o)
        /\ UNCHANGED <<cache, arg, reading, found, answers, sent>>
    BY DEF Commit, Goto, readerVars
  <1>2. o \in sent /\ o \in Orders /\ o.uid \in Uids /\ Link(o) \subseteq Chrts
    BY <1>0, <1>1, ItemsAre DEF SavesSent, ItemsTypeOK
  <1>3. \A i \in Chrts :
          /\ i \notin Link(o) => rows'[i] = rows[i]
          /\ i \in Link(o) =>
               /\ rows'[i] \in Columns
               /\ [chrt |-> i, columns |-> rows'[i]] \in ItemsOf(o)
    BY <1>1, <1>2, UpsertRows
  <1> HIDE DEF o
  <1>4. \A u \in Uids : links'[u] = IF u = o.uid THEN links[u] \cup Link(o) ELSE links[u]
    BY <1>0, <1>1, <1>2 DEF ItemsTypeOK
  <1>5. \A u \in Uids : order'[u] = IF u = o.uid /\ order[u] = None THEN o ELSE order[u]
    BY <1>0, <1>1, <1>2 DEF ItemsTypeOK
  <1>6. ItemsTypeOK'
    <2>1. rows' \in [Chrts -> Columns \cup {None}]
      <3>1. \A i \in Chrts : rows'[i] \in Columns \cup {None}
        BY <1>0, <1>3 DEF ItemsTypeOK
      <3>2. rows' = [i \in Chrts |-> rows'[i]]
        BY <1>1 DEF Upsert
      <3> QED
        BY <3>1, <3>2
    <2>2. order' \in [Uids -> Orders \cup {None}] /\ links' \in [Uids -> SUBSET Chrts]
      BY <1>0, <1>1, <1>2 DEF ItemsTypeOK
    <2>3. \A u \in Uids : \A i \in links'[u] : rows'[i] # None
      <3> SUFFICES ASSUME NEW u \in Uids, NEW i \in links'[u] PROVE rows'[i] # None
        OBVIOUS
      <3>1. i \in Chrts
        BY <2>2
      <3>2. CASE i \in Link(o)
        BY <1>3, <3>1, <3>2, OrderAssumption
      <3>3. CASE i \notin Link(o)
        BY <1>0, <1>3, <1>4, <3>1, <3>3 DEF ItemsTypeOK
      <3> QED
        BY <3>2, <3>3
    <2> QED
      BY <1>0, <1>1, <2>1, <2>2, <2>3 DEF ItemsTypeOK
  <1>7. SavesSent'
    BY <1>0, <1>1 DEF SavesSent, ItemsTypeOK
  <1>8. StoredSent' /\ LinksSent'
    <2>1. ASSUME NEW u \in Uids, order'[u] # None
          PROVE  /\ order'[u] \in sent /\ order'[u].uid = u
                 /\ Link(order'[u]) \subseteq links'[u]
      <3>1. CASE u = o.uid /\ order[u] = None
        BY <1>2, <1>4, <1>5, <3>1
      <3>2. CASE ~(u = o.uid /\ order[u] = None)
        BY <1>0, <1>4, <1>5, <2>1, <3>2 DEF StoredSent
      <3> QED
        BY <3>1, <3>2
    <2>2. ASSUME NEW u \in Uids, NEW i \in links'[u]
          PROVE  \E p \in sent : p.uid = u /\ i \in Link(p)
      BY <1>0, <1>2, <1>4 DEF LinksSent
    <2> QED
      BY <1>1, <2>1, <2>2 DEF StoredSent, LinksSent, Link
  <1>9. RowsSent'
    <2> SUFFICES ASSUME NEW i \in Chrts, rows'[i] # None
                 PROVE  \E p \in sent : [chrt |-> i, columns |-> rows'[i]] \in ItemsOf(p)
      BY <1>1 DEF RowsSent, ItemsOf
    <2>1. CASE i \in Link(o)
      BY <1>2, <1>3, <2>1
    <2>2. CASE i \notin Link(o)
      BY <1>0, <1>3, <2>2 DEF RowsSent
    <2> QED
      BY <2>1, <2>2
  <1>10. CopiesFaithful'
    BY <1>0, <1>1, FaithfulUnchanged DEF CopiesFaithful
  <1> QED
    BY <1>6, <1>7, <1>8, <1>9, <1>10 DEF ItemsInv

(* A step that leaves the database and the savers' orders alone.             *)
LEMMA DatabaseUnchanged ==
  ASSUME ItemsInv, UNCHANGED <<order, links, rows, sent>>
  PROVE  StoredSent' /\ LinksSent' /\ RowsSent'
  BY DEF ItemsInv, StoredSent, LinksSent, RowsSent, Link, ItemsOf

LEMMA ItemsInvStep == ItemsInv /\ [ItemsNext]_itemVars => ItemsInv'
  <1> SUFFICES ASSUME ItemsInv, [ItemsNext]_itemVars PROVE ItemsInv'
    OBVIOUS
  <1>0. /\ ItemsTypeOK /\ SavesSent /\ StoredSent /\ LinksSent /\ RowsSent
        /\ CopiesFaithful
    BY DEF ItemsInv
  <1>1. ASSUME NEW w \in Writers, Check(w) PROVE ItemsInv'
    <2>1. /\ pc[w] = "check" /\ pc' \in [Writers -> {"idle", "check", "commit", "cache"}]
          /\ \A x \in Writers : pc'[x] # "idle" => pc[x] # "idle"
          /\ UNCHANGED <<order, links, rows, cache, arg, reading, found, answers, sent>>
      BY <1>0, <1>1 DEF Check, Goto, readerVars, ItemsTypeOK
    <2>2. ItemsTypeOK' /\ SavesSent'
      BY <1>0, <2>1 DEF ItemsTypeOK, SavesSent
    <2>3. CopiesFaithful'
      BY <1>0, <2>1, FaithfulUnchanged DEF CopiesFaithful
    <2> QED
      BY <2>1, <2>2, <2>3, DatabaseUnchanged DEF ItemsInv
  <1>2. ASSUME NEW w \in Writers, CacheSave(w) PROVE ItemsInv'
    <2> DEFINE o == arg[w]
    <2>1. /\ pc[w] = "cache" /\ pc' = [pc EXCEPT ![w] = "idle"]
          /\ cache' = [cache EXCEPT ![o.uid] = ItemsOf(o)]
          /\ arg' = [arg EXCEPT ![w] = None]
          /\ UNCHANGED <<order, links, rows, reading, found, answers, sent>>
      BY <1>2 DEF CacheSave, Goto, readerVars
    <2>2. o \in sent /\ o \in Orders /\ o.uid \in Uids /\ ItemsOf(o) \subseteq Items
      BY <1>0, <2>1, ItemsAre DEF SavesSent, ItemsTypeOK
    <2>3. Faithful(o.uid, ItemsOf(o))
      BY <1>0, <2>2, SentFaithful
    <2> HIDE DEF o
    <2>4. ItemsTypeOK' /\ SavesSent'
      BY <1>0, <2>1, <2>2 DEF ItemsTypeOK, SavesSent
    <2>5. \A u \in Uids : cache'[u] = IF u = o.uid THEN ItemsOf(o) ELSE cache[u]
      BY <1>0, <2>1 DEF ItemsTypeOK
    <2>6. CopiesFaithful'
      BY <1>0, <2>1, <2>3, <2>5, FaithfulUnchanged DEF CopiesFaithful
    <2> QED
      BY <2>1, <2>4, <2>6, DatabaseUnchanged DEF ItemsInv
  <1>3. ASSUME NEW r \in Readers, NEW u \in Uids, Read(r, u) PROVE ItemsInv'
    <2>1. /\ reading[r] = None
          /\ UNCHANGED <<order, links, rows, cache, pc, arg, found, sent>>
          /\ \/ /\ cache[u] # None /\ answers' = answers \cup {<<u, cache[u]>>}
                /\ reading' = reading
             \/ answers' = answers /\ reading' = [reading EXCEPT ![r] = u]
      BY <1>3 DEF Read, writerVars
    <2>2. ItemsTypeOK' /\ SavesSent'
      BY <1>0, <2>1 DEF ItemsTypeOK, SavesSent
    <2>3. /\ \A u1 \in Uids : cache[u1] # None => Faithful(u1, cache[u1])
          /\ \A r1 \in Readers : found[r1] # None => reading[r1] # None /\ Faithful(reading[r1], found[r1])
          /\ \A a \in answers : Faithful(a[1], a[2])
      BY <1>0 DEF CopiesFaithful
    <2>4. found[r] = None
      BY <2>1, <2>3
    <2>5. \A a \in answers' : Faithful(a[1], a[2])
      BY <2>1, <2>3
    <2>6. \A r1 \in Readers : found[r1] # None => reading'[r1] = reading[r1]
      BY <1>0, <2>1, <2>4 DEF ItemsTypeOK
    <2>7. CopiesFaithful'
      BY <2>1, <2>3, <2>5, <2>6, FaithfulUnchanged DEF CopiesFaithful
    <2> QED
      BY <2>1, <2>2, <2>7, DatabaseUnchanged DEF ItemsInv
  <1>4. ASSUME NEW r \in Readers, GetOrder(r) PROVE ItemsInv'
    <2> DEFINE u == reading[r]
    <2>1. /\ u # None /\ found[r] = None
          /\ UNCHANGED <<order, links, rows, cache, pc, arg, answers, sent>>
          /\ \/ /\ order[u] # None /\ found' = [found EXCEPT ![r] = RowsOf(u)]
                /\ reading' = reading
             \/ found' = found /\ reading' = [reading EXCEPT ![r] = None]
      BY <1>4 DEF GetOrder, writerVars
    <2>2. u \in Uids
      BY <1>0, <2>1 DEF ItemsTypeOK
    <2>3. RowsOf(u) \subseteq Items
      <3>1. \A i \in links[u] : i \in Chrts /\ rows[i] \in Columns
        BY <1>0, <2>2 DEF ItemsTypeOK
      <3> QED
        BY <3>1 DEF RowsOf, Items
    <2>4. ItemsTypeOK' /\ SavesSent'
      BY <1>0, <2>1, <2>3 DEF ItemsTypeOK, SavesSent
    <2>5. order[u] # None => Faithful(u, RowsOf(u))
      BY <1>0, <2>2, RowsFaithful
    <2> HIDE DEF u
    <2>6. \A r1 \in Readers : found'[r1] # None =>
            reading'[r1] # None /\ Faithful(reading'[r1], found'[r1])
      <3> SUFFICES ASSUME NEW r1 \in Readers, found'[r1] # None
                   PROVE  reading'[r1] # None /\ Faithful(reading'[r1], found'[r1])
        OBVIOUS
      <3>1. CASE r1 = r
        BY <1>0, <2>1, <2>5, <3>1 DEF ItemsTypeOK, u
      <3>2. CASE r1 # r
        BY <1>0, <2>1, <3>2 DEF ItemsTypeOK, CopiesFaithful
      <3> QED
        BY <3>1, <3>2
    <2>7. CopiesFaithful'
      BY <1>0, <2>1, <2>6, FaithfulUnchanged DEF CopiesFaithful
    <2> QED
      BY <2>1, <2>4, <2>7, DatabaseUnchanged DEF ItemsInv
  <1>5. ASSUME NEW r \in Readers, Fill(r) PROVE ItemsInv'
    <2> DEFINE u == reading[r]
               S == found[r]
    <2>1. /\ S # None
          /\ cache' = [cache EXCEPT ![u] = S]
          /\ answers' = answers \cup {<<u, S>>}
          /\ reading' = [reading EXCEPT ![r] = None]
          /\ found' = [found EXCEPT ![r] = None]
          /\ UNCHANGED <<order, links, rows, pc, arg, sent>>
      BY <1>5 DEF Fill, writerVars
    <2>2. u # None /\ Faithful(u, S)
      BY <1>0, <2>1 DEF CopiesFaithful
    <2>3. u \in Uids /\ S \in SUBSET Items
      BY <1>0, <2>1, <2>2 DEF ItemsTypeOK
    <2> HIDE DEF u, S
    <2>4. ItemsTypeOK' /\ SavesSent'
      BY <1>0, <2>1, <2>3 DEF ItemsTypeOK, SavesSent
    <2>5. \A v \in Uids : cache'[v] = IF v = u THEN S ELSE cache[v]
      BY <1>0, <2>1 DEF ItemsTypeOK
    <2>6. \A r1 \in Readers : found'[r1] # None =>
            found'[r1] = found[r1] /\ reading'[r1] = reading[r1]
      BY <1>0, <2>1 DEF ItemsTypeOK
    <2>7. CopiesFaithful'
      BY <1>0, <2>1, <2>2, <2>5, <2>6, FaithfulUnchanged DEF CopiesFaithful
    <2> QED
      BY <2>1, <2>4, <2>7, DatabaseUnchanged DEF ItemsInv
  <1>6. ASSUME NEW u \in Uids, Evict(u) PROVE ItemsInv'
    <2>1. /\ cache' = [cache EXCEPT ![u] = None]
          /\ UNCHANGED <<order, links, rows, pc, arg, reading, found, answers, sent>>
      BY <1>6 DEF Evict, writerVars, readerVars
    <2>2. ItemsTypeOK' /\ SavesSent'
      BY <1>0, <2>1 DEF ItemsTypeOK, SavesSent
    <2>3. \A v \in Uids : cache'[v] # None => cache'[v] = cache[v]
      BY <1>0, <2>1 DEF ItemsTypeOK
    <2>4. CopiesFaithful'
      BY <1>0, <2>1, <2>3, FaithfulUnchanged DEF CopiesFaithful
    <2> QED
      BY <2>1, <2>2, <2>4, DatabaseUnchanged DEF ItemsInv
  <1>7. CASE UNCHANGED itemVars
    <2>1. UNCHANGED <<order, links, rows, cache, pc, arg, reading, found, answers, sent>>
      BY <1>7 DEF itemVars, writerVars, readerVars
    <2>2. ItemsTypeOK' /\ SavesSent'
      BY <1>0, <2>1 DEF ItemsTypeOK, SavesSent
    <2>3. CopiesFaithful'
      BY <1>0, <2>1, FaithfulUnchanged DEF CopiesFaithful
    <2> QED
      BY <2>1, <2>2, <2>3, DatabaseUnchanged DEF ItemsInv
  <1> QED
    BY <1>1, <1>2, <1>3, <1>4, <1>5, <1>6, <1>7, SaveOrderKeeps, CommitKeeps
    DEF ItemsNext, Write, Get

LEMMA ItemsInvariance == ItemsSpec => []ItemsInv
  BY ItemsInvInit, ItemsInvStep, PTL DEF ItemsSpec

(* Every variable keeps its type, and every link leads to a row of items.    *)
THEOREM ItemsTypeCorrect == ItemsSpec => []ItemsTypeOK
  <1>1. ItemsInv => ItemsTypeOK
    BY DEF ItemsInv
  <1> QED
    BY <1>1, ItemsInvariance, PTL

(* However many goroutines save, read and evict, and whichever orders share  *)
(* items: an order that shares none is always read as it was sent.           *)
THEOREM PrivateItemsStay == ItemsSpec => []PrivateItemsFaithful
  <1>1. ItemsInv => PrivateItemsFaithful
    BY DEF ItemsInv, CopiesFaithful, Faithful, PrivateItemsFaithful
  <1> QED
    BY <1>1, ItemsInvariance, PTL

(* And what is read of any order is made of whole items that were sent.      *)
THEOREM NothingIsInvented == ItemsSpec => []NothingInvented
  <1>1. ItemsInv => NothingInvented
    BY DEF ItemsInv, CopiesFaithful, Faithful, NothingInvented
  <1> QED
    BY <1>1, ItemsInvariance, PTL
=============================================================================
