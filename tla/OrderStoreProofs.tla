-------------------------- MODULE OrderStoreProofs --------------------------
(* Theorems about OrderStore for every set of writers, readers, uids, items  *)
(* and orders.  Progress says how far a transaction is, Uncommitted what its *)
(* rows may rely on while others commit, Exclusive that no two insert the    *)
(* same key; together they give WholeOrder at a commit.                      *)
EXTENDS OrderStore, TLAPS

LEMMA NoWorkFacts ==
  /\ NoWork \in Work
  /\ NoWork.order = FALSE /\ NoWork.payment = FALSE /\ NoWork.items = {}
  /\ \A i \in Items : NoWork.links[i] = 0
  BY DEF NoWork, Work

LEMMA OrderFacts ==
  ASSUME NEW o \in Orders
  PROVE  /\ o # None /\ o.uid \in Uids /\ o.transaction \in Uids
         /\ o.items \in Seq(Items)
         /\ Len(o.items) \in Nat /\ Len(o.items) > 0
         /\ DOMAIN o.items = 1 .. Len(o.items)
         /\ 1 \in DOMAIN o.items
         /\ \A k \in DOMAIN o.items : o.items[k] \in Items
  BY StoreAssumption

(* The end of a call: w starts afresh, the others are as they were. *)
LEMMA ReturnFacts ==
  ASSUME TypeOK, NEW w \in Writers, Return(w)
  PROVE  /\ work' \in [Writers -> Work] /\ work'[w] = NoWork
         /\ pc' \in [Writers -> {"idle", "check"} \cup Transaction]
         /\ pc'[w] = "idle"
         /\ arg' \in [Writers -> Orders \cup {None}] /\ arg'[w] = None
         /\ next' \in [Writers -> Nat \ {0}] /\ next'[w] = 1
         /\ \A v \in Writers \ {w} :
              /\ work'[v] = work[v] /\ pc'[v] = pc[v]
              /\ arg'[v] = arg[v] /\ next'[v] = next[v]
  BY NoWorkFacts DEF TypeOK, Return, EndTx, Goto

(* The other writers, while w takes a step. *)
OthersAsWere(w) ==
  \A v \in Writers \ {w} :
    /\ work'[v] = work[v] /\ pc'[v] = pc[v]
    /\ arg'[v] = arg[v] /\ next'[v] = next[v]

LEMMA ArgFacts ==
  ASSUME TypeOK, NEW w \in Writers, pc[w] # "idle"
  PROVE  /\ arg[w] \in Orders /\ arg[w] # None
         /\ arg[w].uid \in Uids /\ arg[w].transaction \in Uids
         /\ arg[w].items \in Seq(Items)
         /\ Len(arg[w].items) \in Nat /\ Len(arg[w].items) > 0
         /\ DOMAIN arg[w].items = 1 .. Len(arg[w].items)
         /\ \A k \in DOMAIN arg[w].items : arg[w].items[k] \in Items
         /\ pc[w] \in {"item", "link"} => Item(w) \in Items
  <1>1. arg[w] \in Orders
    BY DEF TypeOK
  <1>2. pc[w] \in {"item", "link"} => next[w] \in DOMAIN arg[w].items
    BY DEF TypeOK
  <1> QED
    BY <1>1, <1>2, OrderFacts DEF Item

(* What each statement writes in its transaction. *)
LEMMA InsertOrderFacts ==
  ASSUME TypeOK, NEW w \in Writers, InsertOrder(w)
  PROVE  /\ OthersAsWere(w)
         /\ work' \in [Writers -> Work]
         /\ work'[w].order = (orders[arg[w].uid] = None)
         /\ work'[w].payment = work[w].payment
         /\ work'[w].items = work[w].items
         /\ work'[w].links = work[w].links
  <1> DEFINE V == (orders[arg[w].uid] = None)
  <1>3. work[w] \in Work
    BY DEF TypeOK
  <1>4. V \in BOOLEAN
    BY <1>3 DEF Work
  <1>5. /\ work' = [work EXCEPT ![w] = [work[w] EXCEPT !.order = V]]
        /\ OthersAsWere(w)
    BY DEF TypeOK, InsertOrder, Then, Goto, OthersAsWere
  <1> HIDE DEF V
  <1>6. /\ [work[w] EXCEPT !.order = V] \in Work
        /\ [work[w] EXCEPT !.order = V].order = V
        /\ [work[w] EXCEPT !.order = V].payment = work[w].payment
        /\ [work[w] EXCEPT !.order = V].items = work[w].items
        /\ [work[w] EXCEPT !.order = V].links = work[w].links
    BY <1>3, <1>4 DEF Work
  <1>7. /\ work' \in [Writers -> Work]
        /\ work'[w] = [work[w] EXCEPT !.order = V]
    BY <1>5, <1>6 DEF TypeOK
  <1> QED
    BY <1>5, <1>6, <1>7 DEF V

LEMMA InsertPaymentFacts ==
  ASSUME TypeOK, NEW w \in Writers, InsertPayment(w)
  PROVE  /\ OthersAsWere(w)
         /\ work' \in [Writers -> Work]
         /\ work'[w].payment = (payment[arg[w].transaction] = None)
         /\ work'[w].order = work[w].order
         /\ work'[w].items = work[w].items
         /\ work'[w].links = work[w].links
  <1> DEFINE V == (payment[arg[w].transaction] = None)
  <1>3. work[w] \in Work
    BY DEF TypeOK
  <1>4. V \in BOOLEAN
    BY <1>3 DEF Work
  <1>5. /\ work' = [work EXCEPT ![w] = [work[w] EXCEPT !.payment = V]]
        /\ OthersAsWere(w)
    BY DEF TypeOK, InsertPayment, Then, Goto, OthersAsWere
  <1> HIDE DEF V
  <1>6. /\ [work[w] EXCEPT !.payment = V] \in Work
        /\ [work[w] EXCEPT !.payment = V].payment = V
        /\ [work[w] EXCEPT !.payment = V].order = work[w].order
        /\ [work[w] EXCEPT !.payment = V].items = work[w].items
        /\ [work[w] EXCEPT !.payment = V].links = work[w].links
    BY <1>3, <1>4 DEF Work
  <1>7. /\ work' \in [Writers -> Work]
        /\ work'[w] = [work[w] EXCEPT !.payment = V]
    BY <1>5, <1>6 DEF TypeOK
  <1> QED
    BY <1>5, <1>6, <1>7 DEF V

LEMMA UpsertItemFacts ==
  ASSUME TypeOK, NEW w \in Writers, UpsertItem(w)
  PROVE  /\ OthersAsWere(w)
         /\ work' \in [Writers -> Work]
         /\ work'[w].items = work[w].items \cup {Item(w)}
         /\ work'[w].order = work[w].order
         /\ work'[w].payment = work[w].payment
         /\ work'[w].links = work[w].links
  <1>1. pc[w] = "item"
    BY DEF UpsertItem
  <1>2. Item(w) \in Items
    BY <1>1, ArgFacts
  <1> DEFINE V == work[w].items \cup {Item(w)}
  <1>3. work[w] \in Work
    BY DEF TypeOK
  <1>4. V \in SUBSET Items
    BY <1>2, <1>3 DEF Work
  <1>5. /\ work' = [work EXCEPT ![w] = [work[w] EXCEPT !.items = V]]
        /\ OthersAsWere(w)
    BY DEF TypeOK, UpsertItem, Then, Goto, OthersAsWere
  <1> HIDE DEF V
  <1>6. /\ [work[w] EXCEPT !.items = V] \in Work
        /\ [work[w] EXCEPT !.items = V].items = V
        /\ [work[w] EXCEPT !.items = V].order = work[w].order
        /\ [work[w] EXCEPT !.items = V].payment = work[w].payment
        /\ [work[w] EXCEPT !.items = V].links = work[w].links
    BY <1>3, <1>4 DEF Work
  <1>7. /\ work' \in [Writers -> Work]
        /\ work'[w] = [work[w] EXCEPT !.items = V]
    BY <1>5, <1>6 DEF TypeOK
  <1> QED
    BY <1>5, <1>6, <1>7 DEF V

LEMMA LinkItemFacts ==
  ASSUME TypeOK, NEW w \in Writers, LinkItem(w)
  PROVE  /\ OthersAsWere(w)
         /\ work' \in [Writers -> Work]
         /\ Item(w) \in Items
         /\ work'[w].order = work[w].order
         /\ work'[w].payment = work[w].payment
         /\ work'[w].items = work[w].items
         /\ \A i \in Items : work'[w].links[i] =
               IF i = Item(w) THEN work[w].links[i] + 1 ELSE work[w].links[i]
  <1>1. pc[w] = "link"
    BY DEF LinkItem
  <1>2. Item(w) \in Items
    BY <1>1, ArgFacts
  <1> DEFINE L == [work[w].links EXCEPT ![Item(w)] = work[w].links[Item(w)] + 1]
  <1>3. work[w] \in Work
    BY DEF TypeOK
  <1>4. work[w].links \in [Items -> Nat]
    BY <1>3 DEF Work
  <1>5. /\ L \in [Items -> Nat]
        /\ \A i \in Items : L[i] =
              IF i = Item(w) THEN work[w].links[i] + 1 ELSE work[w].links[i]
    BY <1>2, <1>4
  <1>6. /\ work' = [work EXCEPT ![w] = [work[w] EXCEPT !.links = L]]
        /\ OthersAsWere(w)
    BY DEF TypeOK, LinkItem, Then, Goto, OthersAsWere
  <1> HIDE DEF L
  <1>7. /\ [work[w] EXCEPT !.links = L] \in Work
        /\ [work[w] EXCEPT !.links = L].links = L
        /\ [work[w] EXCEPT !.links = L].order = work[w].order
        /\ [work[w] EXCEPT !.links = L].payment = work[w].payment
        /\ [work[w] EXCEPT !.links = L].items = work[w].items
    BY <1>3, <1>5 DEF Work
  <1> QED
    BY <1>2, <1>5, <1>6, <1>7 DEF TypeOK

(* The parts of TypeOK a step can disturb. *)
TablesOK ==
  /\ orders \in [Uids -> Orders \cup {None}]
  /\ \A u \in Uids : orders[u] # None => orders[u].uid = u
  /\ payment \in [Uids -> Orders \cup {None}]
  /\ items \subseteq Items
  /\ links \in [Uids -> [Items -> Nat]]

WritersOK ==
  /\ work \in [Writers -> Work]
  /\ pc \in [Writers -> {"idle", "check"} \cup Transaction]
  /\ arg \in [Writers -> Orders \cup {None}]
  /\ next \in [Writers -> Nat \ {0}]
  /\ \A w \in Writers :
       /\ (arg[w] = None) <=> (pc[w] = "idle")
       /\ pc[w] \in {"item", "link"} => next[w] \in DOMAIN arg[w].items

ReadersOK ==
  /\ reading \in [Readers -> Uids \cup {None}]
  /\ row \in [Readers -> {NoRow} \cup [order : Orders, payment : Orders]]
  /\ \A r \in Readers : row[r] # NoRow => reading[r] # None
  /\ answers \subseteq Orders \X Orders \X SUBSET Items

CountsOK ==
  /\ saved \subseteq Uids
  /\ deleted \subseteq Uids
  /\ used \in [{"errors", "deletes", "reads"} -> Nat]

LEMMA TypeParts ==
  TablesOK' /\ WritersOK' /\ ReadersOK' /\ CountsOK' => TypeOK'
  BY DEF TypeOK, TablesOK, WritersOK, ReadersOK, CountsOK

(* What Apply makes of the tables. *)
LEMMA ApplyFacts ==
  ASSUME TypeOK, NEW w \in Writers, arg[w] # None, Apply(w)
  PROVE  /\ TablesOK'
         /\ \A u \in Uids :
              orders'[u] = IF work[w].order /\ arg[w].uid = u
                           THEN arg[w] ELSE orders[u]
         /\ \A t \in Uids :
              payment'[t] = IF work[w].payment /\ arg[w].transaction = t
                            THEN arg[w] ELSE payment[t]
         /\ items' = items \cup work[w].items
         /\ \A u \in Uids : \A i \in Items :
              links'[u][i] = IF arg[w].uid = u
                             THEN links[u][i] + work[w].links[i]
                             ELSE links[u][i]
  <1>1. /\ arg[w] \in Orders
        /\ arg[w].uid \in Uids
        /\ arg[w].transaction \in Uids
    BY OrderFacts DEF TypeOK
  <1>2. /\ work[w].links \in [Items -> Nat]
        /\ work[w].items \subseteq Items
    BY DEF TypeOK, Work
  <1>3. /\ orders' \in [Uids -> Orders \cup {None}]
        /\ \A u \in Uids :
              orders'[u] = IF work[w].order /\ arg[w].uid = u
                           THEN arg[w] ELSE orders[u]
    <2>1. CASE work[w].order
      BY <1>1, <2>1 DEF TypeOK, Apply
    <2>2. CASE ~work[w].order
      BY <1>1, <2>2 DEF TypeOK, Apply
    <2> QED
      BY <2>1, <2>2
  <1>4. /\ payment' \in [Uids -> Orders \cup {None}]
        /\ \A t \in Uids :
              payment'[t] = IF work[w].payment /\ arg[w].transaction = t
                            THEN arg[w] ELSE payment[t]
    <2>1. CASE work[w].payment
      BY <1>1, <2>1 DEF TypeOK, Apply
    <2>2. CASE ~work[w].payment
      BY <1>1, <2>2 DEF TypeOK, Apply
    <2> QED
      BY <2>1, <2>2
  <1>5. items' = items \cup work[w].items /\ items' \subseteq Items
    BY <1>2 DEF TypeOK, Apply
  <1> DEFINE L == [i \in Items |-> links[arg[w].uid][i] + work[w].links[i]]
  <1>6. links' = [links EXCEPT ![arg[w].uid] = L]
    BY <1>1 DEF TypeOK, Apply
  <1>7. L \in [Items -> Nat]
    BY <1>1, <1>2 DEF TypeOK
  <1>8. \A i \in Items : L[i] = links[arg[w].uid][i] + work[w].links[i]
    OBVIOUS
  <1> HIDE DEF L
  <1>9. /\ links' \in [Uids -> [Items -> Nat]]
        /\ \A u \in Uids : \A i \in Items :
              links'[u][i] = IF arg[w].uid = u
                             THEN links[u][i] + work[w].links[i]
                             ELSE links[u][i]
    BY <1>1, <1>6, <1>7, <1>8 DEF TypeOK
  <1>10. \A u \in Uids : orders'[u] # None => orders'[u].uid = u
    BY <1>1, <1>3 DEF TypeOK
  <1> QED
    BY <1>3, <1>4, <1>5, <1>9, <1>10 DEF TablesOK

LEMMA TypeKept ==
  ASSUME TypeOK
  PROVE  /\ UNCHANGED tables => TablesOK'
         /\ UNCHANGED writerVars => WritersOK'
         /\ UNCHANGED readerVars => ReadersOK'
         /\ UNCHANGED <<saved, deleted, used>> => CountsOK'
  BY DEF TypeOK, tables, writerVars, readerVars, TablesOK, WritersOK,
         ReadersOK, CountsOK

LEMMA ErrorType ==
  ASSUME TypeOK, Error
  PROVE  used' \in [{"errors", "deletes", "reads"} -> Nat]
  BY DEF TypeOK, Error

LEMMA ReturnType ==
  ASSUME TypeOK, NEW w \in Writers, Return(w)
  PROVE  WritersOK'
  BY ReturnFacts DEF TypeOK, WritersOK

(* A statement of w that moves it on: only w's own place needs a look. *)
LEMMA WritersByOne ==
  ASSUME TypeOK, NEW w \in Writers, OthersAsWere(w),
         work' \in [Writers -> Work], arg' = arg, next' = next,
         NEW step \in Transaction, Goto(w, step), arg[w] # None,
         step \in {"item", "link"} => next[w] \in DOMAIN arg[w].items
  PROVE  WritersOK'
  <1>1. /\ pc' \in [Writers -> {"idle", "check"} \cup Transaction]
        /\ pc'[w] = step /\ step # "idle"
    BY DEF TypeOK, Goto, Transaction
  <1>2. ASSUME NEW v \in Writers
        PROVE  /\ (arg'[v] = None) <=> (pc'[v] = "idle")
               /\ pc'[v] \in {"item", "link"} =>
                    next'[v] \in DOMAIN arg'[v].items
    <2>1. CASE v = w
      BY <1>1, <2>1
    <2>2. CASE v # w
      BY <2>2 DEF TypeOK, OthersAsWere
    <2> QED
      BY <2>1, <2>2
  <1> QED
    BY <1>1, <1>2 DEF TypeOK, WritersOK

(* Every step keeps the types, given how far the transactions are. *)
LEMMA TypeStep ==
  ASSUME TypeOK, \A w \in Writers : Progress(w), [Next]_vars
  PROVE  TypeOK'
  <1>1. ASSUME NEW w \in Writers, NEW o \in Orders, Save(w, o)
        PROVE  TypeOK'
    <2>1. TablesOK' /\ ReadersOK' /\ CountsOK'
      BY <1>1, TypeKept DEF Save
    <2>2. WritersOK'
      BY <1>1, OrderFacts DEF TypeOK, WritersOK, Save, Goto
    <2> QED
      BY <2>1, <2>2, TypeParts
  <1>2. ASSUME NEW w \in Writers, CheckExists(w)
        PROVE  TypeOK'
    <2>1. TablesOK' /\ ReadersOK'
      BY <1>2, TypeKept DEF CheckExists
    <2>2. arg[w].uid \in Uids
      BY <1>2, ArgFacts DEF CheckExists
    <2>3. CountsOK'
      BY <1>2, <2>2 DEF TypeOK, CheckExists, CountsOK
    <2>4. CASE Return(w)
      BY <2>4, ReturnType, <2>1, <2>3, TypeParts
    <2>5. CASE Goto(w, "order") /\ UNCHANGED <<work, arg, next>>
      <3>1. WritersOK'
        BY <1>2, <2>5 DEF TypeOK, WritersOK, CheckExists, Goto, Transaction
      <3> QED
        BY <3>1, <2>1, <2>3, TypeParts
    <2> QED
      BY <1>2, <2>4, <2>5 DEF CheckExists
  <1>3. ASSUME NEW w \in Writers, InsertOrder(w)
        PROVE  TypeOK'
    <2>1. TablesOK' /\ ReadersOK' /\ CountsOK'
      BY <1>3, TypeKept DEF InsertOrder, Then
    <2>2. /\ OthersAsWere(w) /\ work' \in [Writers -> Work]
          /\ arg' = arg /\ next' = next
          /\ Goto(w, "delivery") /\ "delivery" \in Transaction
      BY <1>3, InsertOrderFacts DEF InsertOrder, Then, Transaction
    <2>3. arg[w] # None
      BY <1>3, ArgFacts DEF InsertOrder
    <2> QED
      BY <2>1, <2>2, <2>3, WritersByOne, TypeParts
  <1>4. ASSUME NEW w \in Writers, InsertDelivery(w)
        PROVE  TypeOK'
    <2>1. TablesOK' /\ ReadersOK' /\ CountsOK'
      BY <1>4, TypeKept DEF InsertDelivery, Then
    <2>2. /\ OthersAsWere(w) /\ work' \in [Writers -> Work]
          /\ arg' = arg /\ next' = next
          /\ Goto(w, "payment") /\ "payment" \in Transaction
      BY <1>4 DEF InsertDelivery, TypeOK, Goto, OthersAsWere, Then, Transaction
    <2>3. arg[w] # None
      BY <1>4, ArgFacts DEF InsertDelivery
    <2> QED
      BY <2>1, <2>2, <2>3, WritersByOne, TypeParts
  <1>5. ASSUME NEW w \in Writers, InsertPayment(w)
        PROVE  TypeOK'
    <2>1. TablesOK' /\ ReadersOK' /\ CountsOK'
      BY <1>5, TypeKept DEF InsertPayment, Then
    <2>2. /\ OthersAsWere(w) /\ work' \in [Writers -> Work]
          /\ arg' = arg /\ next' = next
          /\ Goto(w, "item") /\ "item" \in Transaction
      BY <1>5, InsertPaymentFacts DEF InsertPayment, Then, Transaction
    <2>3. arg[w] # None
      BY <1>5, ArgFacts DEF InsertPayment
    <2>4. next[w] \in DOMAIN arg[w].items
      BY <1>5, ArgFacts DEF InsertPayment, Progress
    <2> QED
      BY <2>1, <2>2, <2>3, <2>4, WritersByOne, TypeParts
  <1>6. ASSUME NEW w \in Writers, UpsertItem(w)
        PROVE  TypeOK'
    <2>1. TablesOK' /\ ReadersOK' /\ CountsOK'
      BY <1>6, TypeKept DEF UpsertItem, Then
    <2>2. /\ OthersAsWere(w) /\ work' \in [Writers -> Work]
          /\ arg' = arg /\ next' = next
          /\ Goto(w, "link") /\ "link" \in Transaction
      BY <1>6, UpsertItemFacts DEF UpsertItem, Then, Transaction
    <2>3. arg[w] # None
      BY <1>6, ArgFacts DEF UpsertItem
    <2>4. next[w] \in DOMAIN arg[w].items
      BY <1>6 DEF UpsertItem, TypeOK
    <2> QED
      BY <2>1, <2>2, <2>3, <2>4, WritersByOne, TypeParts
  <1>7. ASSUME NEW w \in Writers, LinkItem(w)
        PROVE  TypeOK'
    <2>1. TablesOK' /\ ReadersOK' /\ CountsOK'
      BY <1>7, TypeKept DEF LinkItem, Then
    <2>2. /\ pc[w] = "link" /\ arg[w] # None /\ arg' = arg
          /\ next[w] \in Nat \ {0}
          /\ Len(arg[w].items) \in Nat
          /\ DOMAIN arg[w].items = 1 .. Len(arg[w].items)
          /\ pc' \in [Writers -> {"idle", "check"} \cup Transaction]
          /\ \/ next' = next /\ pc'[w] = "commit"
             \/ /\ next' = [next EXCEPT ![w] = next[w] + 1]
                /\ pc'[w] = "item"
                /\ next[w] < Len(arg[w].items)
      BY <1>7, ArgFacts DEF TypeOK, LinkItem, Then, Goto, MoreItems, Transaction
    <2>3. next' \in [Writers -> Nat \ {0}]
      <3>1. next \in [Writers -> Nat \ {0}]
        BY DEF TypeOK
      <3> QED
        BY <2>2, <3>1
    <2>4. pc'[w] = "item" => next'[w] \in DOMAIN arg[w].items
      BY <2>2 DEF TypeOK
    <2>5. ASSUME NEW v \in Writers
          PROVE  /\ (arg'[v] = None) <=> (pc'[v] = "idle")
                 /\ pc'[v] \in {"item", "link"} =>
                      next'[v] \in DOMAIN arg'[v].items
      <3>1. CASE v = w
        BY <2>2, <2>4, <3>1
      <3>2. CASE v # w
        BY <1>7, LinkItemFacts, <3>2 DEF OthersAsWere, TypeOK
      <3> QED
        BY <3>1, <3>2
    <2>6. WritersOK'
      BY <1>7, LinkItemFacts, <2>2, <2>3, <2>5 DEF TypeOK, WritersOK
    <2> QED
      BY <2>1, <2>6, TypeParts
  <1>8. ASSUME NEW w \in Writers, ForeignKeyError(w)
        PROVE  TypeOK'
    <2>1. TablesOK' /\ ReadersOK'
      BY <1>8, TypeKept DEF ForeignKeyError
    <2>2. CountsOK'
      BY <1>8, ErrorType DEF TypeOK, ForeignKeyError, CountsOK
    <2> QED
      BY <1>8, <2>1, <2>2, ReturnType, TypeParts DEF ForeignKeyError
  <1>9. ASSUME NEW w \in Writers, AbortDeadlock(w)
        PROVE  TypeOK'
    <2>1. TablesOK' /\ ReadersOK'
      BY <1>9, TypeKept DEF AbortDeadlock
    <2>2. CountsOK'
      BY <1>9, ErrorType DEF TypeOK, AbortDeadlock, CountsOK
    <2> QED
      BY <1>9, <2>1, <2>2, ReturnType, TypeParts DEF AbortDeadlock
  <1>10. ASSUME NEW w \in Writers, Fail(w)
        PROVE  TypeOK'
    <2>1. TablesOK' /\ ReadersOK'
      BY <1>10, TypeKept DEF Fail
    <2>2. CountsOK'
      BY <1>10, ErrorType DEF TypeOK, Fail, CountsOK
    <2> QED
      BY <1>10, <2>1, <2>2, ReturnType, TypeParts DEF Fail
  <1>11. ASSUME NEW w \in Writers, Commit(w)
        PROVE  TypeOK'
    <2>1. ReadersOK'
      BY <1>11, TypeKept DEF Commit
    <2>2. arg[w] # None /\ arg[w].uid \in Uids
      BY <1>11, ArgFacts DEF Commit
    <2>3. CountsOK'
      BY <1>11, <2>2 DEF TypeOK, Commit, CountsOK
    <2>4. TablesOK'
      BY <1>11, <2>2, ApplyFacts DEF Commit
    <2> QED
      BY <1>11, <2>1, <2>3, <2>4, ReturnType, TypeParts DEF Commit
  <1>12. ASSUME NEW w \in Writers, CommitError(w)
        PROVE  TypeOK'
    <2>1. ReadersOK'
      BY <1>12, TypeKept DEF CommitError
    <2>2. arg[w] # None
      BY <1>12, ArgFacts DEF CommitError
    <2>3. CountsOK'
      BY <1>12, ErrorType DEF TypeOK, CommitError, CountsOK
    <2>4. TablesOK'
      BY <1>12, <2>2, ApplyFacts, TypeKept DEF CommitError
    <2> QED
      BY <1>12, <2>1, <2>3, <2>4, ReturnType, TypeParts DEF CommitError
  <1>13. ASSUME NEW u \in Uids, DeleteOrder(u)
        PROVE  TypeOK'
    <2>1. WritersOK' /\ ReadersOK'
      BY <1>13, TypeKept DEF DeleteOrder
    <2>2. TablesOK'
      BY <1>13 DEF TypeOK, TablesOK, DeleteOrder
    <2>3. CountsOK'
      BY <1>13 DEF TypeOK, CountsOK, DeleteOrder
    <2> QED
      BY <2>1, <2>2, <2>3, TypeParts
  <1>14. ASSUME NEW r \in Readers, NEW u \in Uids, Get(r, u)
        PROVE  TypeOK'
    <2>1. TablesOK' /\ WritersOK'
      BY <1>14, TypeKept DEF Get
    <2>2. ReadersOK' /\ CountsOK'
      BY <1>14 DEF TypeOK, ReadersOK, CountsOK, Get
    <2> QED
      BY <2>1, <2>2, TypeParts
  <1>15. ASSUME NEW r \in Readers, ReadOrder(r)
        PROVE  TypeOK'
    <2>1. TablesOK' /\ WritersOK' /\ CountsOK'
      BY <1>15, TypeKept DEF ReadOrder, Done
    <2>2. ReadersOK'
      BY <1>15 DEF TypeOK, ReadersOK, ReadOrder, Done
    <2> QED
      BY <2>1, <2>2, TypeParts
  <1>16. ASSUME NEW r \in Readers, NotFound(r)
        PROVE  TypeOK'
    <2>1. TablesOK' /\ WritersOK' /\ CountsOK'
      BY <1>16, TypeKept DEF NotFound, Done
    <2>2. ReadersOK'
      BY <1>16 DEF TypeOK, ReadersOK, NotFound, Done
    <2> QED
      BY <2>1, <2>2, TypeParts
  <1>17. ASSUME NEW r \in Readers, ReadError(r)
        PROVE  TypeOK'
    <2>1. TablesOK' /\ WritersOK' /\ CountsOK'
      BY <1>17, TypeKept DEF ReadError, Done
    <2>2. ReadersOK'
      BY <1>17 DEF TypeOK, ReadersOK, ReadError, Done
    <2> QED
      BY <2>1, <2>2, TypeParts
  <1>18. ASSUME NEW r \in Readers, ReadItems(r)
        PROVE  TypeOK'
    <2>1. TablesOK' /\ WritersOK' /\ CountsOK'
      BY <1>18, TypeKept DEF ReadItems, Done
    <2>2. ReadersOK'
      BY <1>18, StoreAssumption DEF TypeOK, ReadersOK, ReadItems, Done, NoRow, Linked
    <2> QED
      BY <2>1, <2>2, TypeParts
  <1>19. CASE UNCHANGED vars
    BY <1>19, TypeKept, TypeParts DEF vars, tables, writerVars, readerVars
  <1> QED
    BY <1>1, <1>2, <1>3, <1>4, <1>5, <1>6, <1>7, <1>8, <1>9, <1>10, <1>11, <1>12, <1>13, <1>14, <1>15, <1>16, <1>17, <1>18, <1>19 DEF Next, Step

LEMMA ProgressKept ==
  ASSUME NEW v \in Writers, Progress(v),
         work'[v] = work[v], pc'[v] = pc[v], arg'[v] = arg[v],
         next'[v] = next[v]
  PROVE  Progress(v)'
  BY DEF Progress, Item

LEMMA ProgressReturned ==
  ASSUME TypeOK, NEW w \in Writers, Return(w),
         \A v \in Writers : Progress(v)
  PROVE  \A v \in Writers : Progress(v)'
  <1>1. Progress(w)'
    BY ReturnFacts, NoWorkFacts DEF Progress
  <1>2. ASSUME NEW v \in Writers, v # w
        PROVE  Progress(v)'
    BY <1>2, ReturnFacts, ProgressKept
  <1> QED
    BY <1>1, <1>2

(* A statement of w leaves the others where they are. *)
LEMMA ProgressByOne ==
  ASSUME TypeOK, NEW w \in Writers, OthersAsWere(w), Progress(w)',
         \A v \in Writers : Progress(v)
  PROVE  \A v \in Writers : Progress(v)'
  BY ProgressKept DEF OthersAsWere

LEMMA ProgressStep ==
  ASSUME TypeOK, \A w \in Writers : Progress(w), [Next]_vars
  PROVE  \A w \in Writers : Progress(w)'
  <1>1. ASSUME NEW w \in Writers, NEW o \in Orders, Save(w, o)
        PROVE  \A v \in Writers : Progress(v)'
    <2>1. OthersAsWere(w) /\ pc[w] = "idle" /\ pc'[w] = "check"
      BY <1>1 DEF Save, Goto, TypeOK, OthersAsWere
    <2>2. work'[w] = NoWork /\ next'[w] = 1 /\ arg'[w] = o
      BY <1>1 DEF Save, TypeOK, Progress
    <2>3. Progress(w)'
      BY <2>1, <2>2, NoWorkFacts, OrderFacts DEF Progress
    <2> QED
      BY <2>1, <2>3, ProgressByOne
  <1>2. ASSUME NEW w \in Writers, CheckExists(w)
        PROVE  \A v \in Writers : Progress(v)'
    <2>1. CASE Return(w)
      BY <2>1, ProgressReturned
    <2>2. CASE Goto(w, "order") /\ UNCHANGED <<work, arg, next>>
      <3>1. OthersAsWere(w) /\ pc[w] = "check" /\ pc'[w] = "order"
        BY <1>2, <2>2 DEF CheckExists, Goto, TypeOK, OthersAsWere
      <3>2. Progress(w)'
        BY <2>2, <3>1 DEF Progress
      <3> QED
        BY <3>1, <3>2, ProgressByOne
    <2> QED
      BY <1>2, <2>1, <2>2 DEF CheckExists
  <1>3. ASSUME NEW w \in Writers, InsertOrder(w)
        PROVE  \A v \in Writers : Progress(v)'
    <2>1. /\ OthersAsWere(w) /\ pc[w] = "order" /\ pc'[w] = "delivery"
          /\ next' = next /\ arg' = arg
          /\ work'[w].links = work[w].links /\ work'[w].items = work[w].items
      BY <1>3, InsertOrderFacts DEF InsertOrder, Then, Goto, TypeOK
    <2>2. work[w] = NoWork /\ next[w] = 1
      BY <2>1 DEF Progress
    <2>3. Progress(w)'
      BY <2>1, <2>2, NoWorkFacts, ArgFacts DEF Progress
    <2> QED
      BY <2>1, <2>3, ProgressByOne
  <1>4. ASSUME NEW w \in Writers, InsertDelivery(w)
        PROVE  \A v \in Writers : Progress(v)'
    <2>1. /\ OthersAsWere(w) /\ pc[w] = "delivery" /\ pc'[w] = "payment"
          /\ next' = next /\ arg' = arg /\ work' = work
      BY <1>4 DEF InsertDelivery, Then, Goto, TypeOK, OthersAsWere
    <2>2. Progress(w)'
      BY <2>1, ArgFacts DEF Progress
    <2> QED
      BY <2>1, <2>2, ProgressByOne
  <1>5. ASSUME NEW w \in Writers, InsertPayment(w)
        PROVE  \A v \in Writers : Progress(v)'
    <2>1. /\ OthersAsWere(w) /\ pc[w] = "payment" /\ pc'[w] = "item"
          /\ next' = next /\ arg' = arg
          /\ work'[w].links = work[w].links /\ work'[w].items = work[w].items
      BY <1>5, InsertPaymentFacts DEF InsertPayment, Then, Goto, TypeOK
    <2>2. Progress(w)'
      BY <2>1, ArgFacts DEF Progress
    <2> QED
      BY <2>1, <2>2, ProgressByOne
  <1>6. ASSUME NEW w \in Writers, UpsertItem(w)
        PROVE  \A v \in Writers : Progress(v)'
    <2>1. /\ OthersAsWere(w) /\ pc[w] = "item" /\ pc'[w] = "link"
          /\ next' = next /\ arg' = arg
          /\ work'[w].links = work[w].links
          /\ work'[w].items = work[w].items \cup {Item(w)}
      BY <1>6, UpsertItemFacts DEF UpsertItem, Then, Goto, TypeOK
    <2>2. Progress(w)'
      BY <2>1, ArgFacts DEF Progress, Item
    <2> QED
      BY <2>1, <2>2, ProgressByOne
  <1>7. ASSUME NEW w \in Writers, LinkItem(w)
        PROVE  \A v \in Writers : Progress(v)'
    <2>1. /\ pc[w] = "link" /\ arg' = arg
          /\ next[w] \in DOMAIN arg[w].items
          /\ \/ next'[w] = next[w] /\ pc'[w] = "commit"
                /\ ~(next[w] < Len(arg[w].items))
             \/ next'[w] = next[w] + 1 /\ pc'[w] = "item"
      BY <1>7 DEF TypeOK, LinkItem, Then, Goto, MoreItems
    <2>2. /\ DOMAIN arg[w].items = 1 .. Len(arg[w].items)
          /\ Len(arg[w].items) \in Nat
          /\ \A k \in DOMAIN arg[w].items : arg[w].items[k] \in Items
      BY <2>1, ArgFacts
    <2>3. \A i \in Items : work[w].links[i] \in Nat
      BY DEF TypeOK, Work
    <2>4. /\ \A i \in Items : work'[w].links[i] > 0 =>
                i = Item(w) \/ work[w].links[i] > 0
          /\ \A i \in Items : i = Item(w) \/ work[w].links[i] > 0 =>
                work'[w].links[i] > 0
      BY <1>7, LinkItemFacts, <2>3
    <2>5. \A i \in Items : work'[w].links[i] > 0 =>
            i \in work'[w].items /\ i \in ItemsOf(arg[w])
      <3>1. Item(w) \in ItemsOf(arg[w])
        BY <2>1 DEF Item, ItemsOf
      <3> QED
        BY <1>7, <3>1, LinkItemFacts, <2>1, <2>4 DEF Progress
    <2>6. ASSUME NEW k \in DOMAIN arg[w].items,
                 k < next'[w] \/ pc'[w] = "commit"
          PROVE  work'[w].links[arg[w].items[k]] > 0
      <3>1. k = next[w] \/ k < next[w]
        BY <2>1, <2>2, <2>6
      <3>2. CASE k = next[w]
        BY <3>2, <2>2, <2>4 DEF Item
      <3>3. CASE k < next[w]
        BY <3>3, <2>1, <2>2, <2>4 DEF Progress
      <3> QED
        BY <3>1, <3>2, <3>3
    <2>7. Progress(w)'
      BY <2>1, <2>5, <2>6 DEF Progress
    <2> QED
      BY <1>7, LinkItemFacts, <2>7, ProgressByOne
  <1>8. ASSUME NEW w \in Writers, ForeignKeyError(w)
        PROVE  \A v \in Writers : Progress(v)'
    BY <1>8, ProgressReturned DEF ForeignKeyError
  <1>9. ASSUME NEW w \in Writers, AbortDeadlock(w)
        PROVE  \A v \in Writers : Progress(v)'
    BY <1>9, ProgressReturned DEF AbortDeadlock
  <1>10. ASSUME NEW w \in Writers, Fail(w)
        PROVE  \A v \in Writers : Progress(v)'
    BY <1>10, ProgressReturned DEF Fail
  <1>11. ASSUME NEW w \in Writers, Commit(w)
        PROVE  \A v \in Writers : Progress(v)'
    BY <1>11, ProgressReturned DEF Commit
  <1>12. ASSUME NEW w \in Writers, CommitError(w)
        PROVE  \A v \in Writers : Progress(v)'
    BY <1>12, ProgressReturned DEF CommitError
  <1>13. ASSUME UNCHANGED writerVars
        PROVE  \A v \in Writers : Progress(v)'
    BY <1>13, ProgressKept DEF writerVars
  <1> QED
    BY <1>1, <1>2, <1>3, <1>4, <1>5, <1>6, <1>7, <1>8, <1>9, <1>10, <1>11, <1>12, <1>13 DEF Next, Step, DeleteOrder, Get, ReadOrder, NotFound, ReadError,
             ReadItems, Done, vars, writerVars

(* What the transactions and the tables owe each other. *)
TxInv ==
  /\ \A w \in Writers : Uncommitted(w)
  /\ \A w \in Writers : \A v \in Writers \ {w} : Exclusive(w, v)
  /\ \A u \in Uids : References(u)
  /\ WholeOrder

LEMMA UncommittedKept ==
  ASSUME NEW v \in Writers, Uncommitted(v), UNCHANGED tables,
         work'[v] = work[v], pc'[v] = pc[v], arg'[v] = arg[v]
  PROVE  Uncommitted(v)'
  BY DEF Uncommitted, Visible, tables

LEMMA TablesKept ==
  ASSUME UNCHANGED tables
  PROVE  /\ \A u \in Uids : References(u) => References(u)'
         /\ WholeOrder => WholeOrder'
  BY DEF tables, References, WholeOrder, Linked, ItemsOf

(* A statement of w that changes no committed row: only what it has written  *)
(* itself needs a look.                                                      *)
LEMMA TxByOne ==
  ASSUME NEW w \in Writers, TxInv, UNCHANGED tables, OthersAsWere(w),
         Uncommitted(w)',
         \A v \in Writers \ {w} : Exclusive(w, v)'
  PROVE  TxInv'
  <1>1. \A v \in Writers : Uncommitted(v)'
    BY UncommittedKept DEF TxInv, OthersAsWere
  <1>2. ASSUME NEW x \in Writers, NEW v \in Writers \ {x}
        PROVE  Exclusive(x, v)'
    <2>1. CASE x = w
      BY <2>1
    <2>2. CASE v = w
      BY <1>2, <2>2 DEF Exclusive
    <2>3. CASE x # w /\ v # w
      BY <1>2, <2>3 DEF Exclusive, TxInv, OthersAsWere
    <2> QED
      BY <2>1, <2>2, <2>3
  <1> QED
    BY <1>1, <1>2, TablesKept DEF TxInv

LEMMA TxReturned ==
  ASSUME TypeOK, TxInv, NEW w \in Writers, Return(w), UNCHANGED tables
  PROVE  TxInv'
  <1>1. OthersAsWere(w) /\ work'[w] = NoWork /\ pc'[w] = "idle"
    BY ReturnFacts DEF OthersAsWere
  <1>2. Uncommitted(w)'
    BY <1>1, NoWorkFacts DEF Uncommitted
  <1>3. \A v \in Writers \ {w} : Exclusive(w, v)'
    BY <1>1, NoWorkFacts DEF Exclusive
  <1> QED
    BY <1>1, <1>2, <1>3, TxByOne

(* The transaction of w takes effect. *)
LEMMA TxApplied ==
  ASSUME TypeOK, TxInv, NEW w \in Writers, pc[w] = "commit",
         \A v \in Writers : Progress(v), Apply(w), Return(w)
  PROVE  TxInv'
  <1>1. /\ OthersAsWere(w) /\ work'[w] = NoWork /\ pc'[w] = "idle"
        /\ arg[w] \in Orders /\ arg[w] # None
        /\ arg[w].uid \in Uids /\ arg[w].transaction \in Uids
    BY ReturnFacts, ArgFacts DEF OthersAsWere
  <1>2. /\ \A u \in Uids :
              orders'[u] = IF work[w].order /\ arg[w].uid = u
                           THEN arg[w] ELSE orders[u]
        /\ \A t \in Uids :
              payment'[t] = IF work[w].payment /\ arg[w].transaction = t
                            THEN arg[w] ELSE payment[t]
        /\ items' = items \cup work[w].items
        /\ \A u \in Uids : \A i \in Items :
              links'[u][i] = IF arg[w].uid = u
                             THEN links[u][i] + work[w].links[i]
                             ELSE links[u][i]
    BY <1>1, ApplyFacts
  <1>3. Uncommitted(w) /\ \A v \in Writers \ {w} : Exclusive(w, v)
    BY DEF TxInv
  <1>4. \A u \in Uids : orders[u] # None => orders'[u] = orders[u]
    BY <1>1, <1>2, <1>3 DEF Uncommitted
  <1>5. \A i \in Items : work[w].links[i] \in Nat
    BY DEF TypeOK, Work
  <1>6. \A u \in Uids : \A i \in Items : links[u][i] \in Nat
    BY DEF TypeOK
  <1>7. ASSUME NEW v \in Writers
        PROVE  Uncommitted(v)'
    <2>1. CASE v = w
      BY <1>1, <2>1, NoWorkFacts DEF Uncommitted
    <2>2. CASE v # w
      <3>1. /\ work'[v] = work[v] /\ pc'[v] = pc[v] /\ arg'[v] = arg[v]
            /\ Uncommitted(v) /\ Exclusive(w, v)
        BY <1>1, <1>3, <2>2 DEF OthersAsWere, TxInv
      <3>2. \A u \in Uids : Visible(v, u) => Visible(v, u)'
        BY <1>4, <3>1 DEF Visible
      <3>3. CASE pc[v] = "idle"
        BY <3>1, <3>3, NoWorkFacts DEF Uncommitted, Progress
      <3>4. CASE pc[v] # "idle"
        <4>1. arg[v].uid \in Uids /\ arg[v].transaction \in Uids
          BY <3>4, ArgFacts
        <4>2. work[v].order => orders'[arg[v].uid] = None
          BY <1>2, <3>1, <4>1 DEF Uncommitted, Exclusive
        <4>3. work[v].payment => payment'[arg[v].transaction] = None
          BY <1>2, <3>1, <4>1 DEF Uncommitted, Exclusive
        <4> QED
          BY <3>1, <3>2, <4>1, <4>2, <4>3 DEF Uncommitted
      <3> QED
        BY <3>3, <3>4
    <2> QED
      BY <2>1, <2>2
  <1>8. ASSUME NEW x \in Writers, NEW v \in Writers \ {x}
        PROVE  Exclusive(x, v)'
    <2>1. CASE x = w \/ v = w
      BY <1>1, <2>1, NoWorkFacts DEF Exclusive
    <2>2. CASE x # w /\ v # w
      BY <1>1, <2>2 DEF Exclusive, TxInv, OthersAsWere
    <2> QED
      BY <2>1, <2>2
  <1>9. \A u \in Uids : Visible(w, u) => orders'[u] # None
    BY <1>1, <1>2, <1>4 DEF Visible
  <1>10. ASSUME NEW u \in Uids
         PROVE  References(u)'
    <2>1. References(u)
      BY DEF TxInv
    <2>2. payment'[u] # None => orders'[u] # None
      BY <1>2, <1>3, <1>4, <1>9, <2>1 DEF References, Uncommitted
    <2>3. ASSUME NEW i \in Items, links'[u][i] > 0
          PROVE  orders'[u] # None
      <3>1. links[u][i] > 0 \/ (arg[w].uid = u /\ work[w].links[i] > 0)
        BY <1>2, <1>5, <1>6, <2>3
      <3> QED
        BY <1>3, <1>4, <1>9, <2>1, <3>1 DEF References, Uncommitted
    <2> QED
      BY <2>2, <2>3 DEF References
  <1>11. ASSUME NEW u \in Uids, orders'[u] # None
         PROVE  /\ ItemsOf(orders'[u]) \subseteq Linked(u)' \cap items'
                /\ orders'[u].transaction = u => payment'[u] = orders'[u]
    <2>1. \A i \in Items : links[u][i] > 0 => links'[u][i] > 0
      BY <1>2, <1>5, <1>6
    <2>2. Linked(u) \cap items \subseteq Linked(u)' \cap items'
      BY <1>2, <2>1 DEF Linked
    <2>3. CASE orders[u] # None
      <3>1. orders'[u] = orders[u]
        BY <1>4, <2>3
      <3>2. /\ ItemsOf(orders[u]) \subseteq Linked(u) \cap items
            /\ orders[u].transaction = u => payment[u] = orders[u]
        BY <2>3 DEF TxInv, WholeOrder
      <3>3. payment[u] # None => payment'[u] = payment[u]
        BY <1>2, <1>3 DEF Uncommitted
      <3> QED
        BY <2>2, <2>3, <3>1, <3>2, <3>3
    <2>4. CASE orders[u] = None
      <3>1. work[w].order /\ arg[w].uid = u /\ orders'[u] = arg[w]
        BY <1>2, <1>11, <2>4
      <3>2. ASSUME NEW k \in DOMAIN arg[w].items
            PROVE  arg[w].items[k] \in Linked(u)' \cap items'
        <4>1. arg[w].items[k] \in Items
          BY ArgFacts
        <4>2. work[w].links[arg[w].items[k]] > 0
          BY DEF Progress
        <4>3. arg[w].items[k] \in work[w].items
          BY <4>1, <4>2 DEF Progress
        <4>4. links'[u][arg[w].items[k]] > 0
          BY <1>2, <1>5, <1>6, <3>1, <4>1, <4>2
        <4> QED
          BY <1>2, <4>1, <4>3, <4>4 DEF Linked
      <3>3. ItemsOf(arg[w]) \subseteq Linked(u)' \cap items'
        BY <3>2 DEF ItemsOf
      <3>4. arg[w].transaction = u => payment'[u] = arg[w]
        BY <1>2, <1>3, <3>1 DEF Uncommitted
      <3> QED
        BY <3>1, <3>3, <3>4
    <2> QED
      BY <2>3, <2>4
  <1>12. WholeOrder'
    BY <1>11 DEF WholeOrder, ItemsOf
  <1> QED
    BY <1>7, <1>8, <1>10, <1>12 DEF TxInv

LEMMA TxDeleted ==
  ASSUME TypeOK, TxInv, \A v \in Writers : Progress(v),
         NEW u \in Uids, DeleteOrder(u)
  PROVE  TxInv'
  <1>1. /\ work' = work /\ pc' = pc /\ arg' = arg /\ items' = items
        /\ \A v \in Writers : ~Holds(v, u)
        /\ \A x \in Uids : orders'[x] = IF x = u THEN None ELSE orders[x]
        /\ \A x \in Uids : payment'[x] = IF x = u THEN None ELSE payment[x]
        /\ \A x \in Uids : x # u => links'[x] = links[x]
        /\ \A i \in Items : links'[u][i] = 0
    BY DEF DeleteOrder, writerVars, TypeOK
  <1>2. ASSUME NEW v \in Writers
        PROVE  Uncommitted(v)'
    <2>1. Uncommitted(v)
      BY DEF TxInv
    <2>2. CASE pc[v] = "idle"
      BY <1>1, <2>1, <2>2, NoWorkFacts DEF Uncommitted, Progress
    <2>3. CASE pc[v] # "idle"
      <3>1. /\ arg[v].uid \in Uids /\ arg[v].transaction \in Uids
            /\ arg[v] # None
        BY <2>3, ArgFacts
      <3>2. \A x \in Uids : x # u /\ Visible(v, x) => Visible(v, x)'
        BY <1>1 DEF Visible
      <3>3. work[v].payment => arg[v].transaction # u
        BY <1>1 DEF Holds
      <3>4. \A i \in Items : work[v].links[i] > 0 => arg[v].uid # u
        BY <1>1, <3>1 DEF Holds
      <3>5. /\ work[v].order => orders'[arg[v].uid] = None
            /\ work[v].payment => payment'[arg[v].transaction] = None
        BY <1>1, <2>1, <3>1 DEF Uncommitted
      <3> QED
        BY <1>1, <2>1, <3>1, <3>2, <3>3, <3>4, <3>5 DEF Uncommitted
    <2> QED
      BY <2>2, <2>3
  <1>3. \A w \in Writers : \A v \in Writers \ {w} : Exclusive(w, v)'
    BY <1>1 DEF TxInv, Exclusive
  <1>4. \A x \in Uids : References(x)'
    BY <1>1 DEF TxInv, References
  <1>5. WholeOrder'
    BY <1>1 DEF TxInv, WholeOrder, Linked, ItemsOf
  <1> QED
    BY <1>2, <1>3, <1>4, <1>5 DEF TxInv

LEMMA TxStep ==
  ASSUME TypeOK, \A w \in Writers : Progress(w), TxInv, [Next]_vars
  PROVE  TxInv'
  <1>1. ASSUME NEW w \in Writers, NEW o \in Orders, Save(w, o)
        PROVE  TxInv'
    <2>1. OthersAsWere(w) /\ UNCHANGED tables
      BY <1>1 DEF Save, Goto, TypeOK, OthersAsWere
    <2>2. work'[w] = NoWork
      BY <1>1 DEF Save, Progress
    <2>3. Uncommitted(w)' /\ \A v \in Writers \ {w} : Exclusive(w, v)'
      BY <2>2, NoWorkFacts DEF Uncommitted, Exclusive
    <2> QED
      BY <2>1, <2>3, TxByOne
  <1>2. ASSUME NEW w \in Writers, CheckExists(w)
        PROVE  TxInv'
    <2>1. CASE Return(w)
      BY <1>2, <2>1, TxReturned DEF CheckExists
    <2>2. CASE Goto(w, "order") /\ UNCHANGED <<work, arg, next>>
      <3>1. OthersAsWere(w) /\ UNCHANGED tables
        BY <1>2, <2>2 DEF CheckExists, Goto, TypeOK, OthersAsWere
      <3>2. work'[w] = NoWork
        BY <1>2, <2>2 DEF CheckExists, Progress
      <3>3. Uncommitted(w)' /\ \A v \in Writers \ {w} : Exclusive(w, v)'
        BY <3>2, NoWorkFacts DEF Uncommitted, Exclusive
      <3> QED
        BY <3>1, <3>3, TxByOne
    <2> QED
      BY <1>2, <2>1, <2>2 DEF CheckExists
  <1>3. ASSUME NEW w \in Writers, InsertOrder(w)
        PROVE  TxInv'
    <2>1. /\ OthersAsWere(w) /\ UNCHANGED tables /\ arg' = arg
          /\ work'[w].order = (orders[arg[w].uid] = None)
          /\ work'[w].payment = work[w].payment
          /\ work'[w].links = work[w].links
          /\ pc[w] = "order" /\ pc'[w] = "delivery" /\ Blockers(w) = {}
      BY <1>3, InsertOrderFacts DEF InsertOrder, Then, Goto, TypeOK
    <2>2. work[w] = NoWork
      BY <2>1 DEF Progress
    <2>3. orders' = orders
      BY <2>1 DEF tables
    <2>4. Uncommitted(w)'
      <3>1. work'[w].order => orders'[arg'[w].uid] = None
        BY <2>1, <2>3
      <3>2. /\ ~work'[w].payment
            /\ \A i \in Items : ~(work'[w].links[i] > 0)
        BY <2>1, <2>2, NoWorkFacts
      <3> QED
        BY <2>1, <3>1, <3>2 DEF Uncommitted
    <2>5. ASSUME NEW v \in Writers \ {w}
          PROVE  Exclusive(w, v)'
      <3>1. work[v].order => arg[v].uid # arg[w].uid
        BY <2>1 DEF Blockers
      <3>2. work'[v] = work[v]
        BY <2>1 DEF OthersAsWere
      <3> QED
        BY <2>1, <2>2, <3>1, <3>2, NoWorkFacts DEF Exclusive
    <2> QED
      BY <2>1, <2>4, <2>5, TxByOne
  <1>4. ASSUME NEW w \in Writers, InsertDelivery(w)
        PROVE  TxInv'
    <2>1. /\ OthersAsWere(w) /\ UNCHANGED tables /\ arg' = arg
          /\ work' = work /\ pc'[w] = "payment"
      BY <1>4 DEF InsertDelivery, Then, Goto, TypeOK, OthersAsWere
    <2>2. Uncommitted(w)'
      BY <2>1 DEF Uncommitted, Visible, TxInv, tables
    <2>3. \A v \in Writers \ {w} : Exclusive(w, v)'
      BY <2>1 DEF Exclusive, TxInv
    <2> QED
      BY <2>1, <2>2, <2>3, TxByOne
  <1>5. ASSUME NEW w \in Writers, InsertPayment(w)
        PROVE  TxInv'
    <2>1. /\ OthersAsWere(w) /\ UNCHANGED tables /\ arg' = arg
          /\ work'[w].payment = (payment[arg[w].transaction] = None)
          /\ work'[w].order = work[w].order
          /\ work'[w].links = work[w].links
          /\ pc[w] = "payment" /\ pc'[w] = "item" /\ Blockers(w) = {}
          /\ Visible(w, arg[w].transaction)
      BY <1>5, InsertPaymentFacts DEF InsertPayment, Then, Goto, TypeOK
    <2>2. arg[w].uid \in Uids
      BY <2>1, ArgFacts
    <2>3. Uncommitted(w) /\ References(arg[w].uid)
      BY <2>2 DEF TxInv
    <2>4. orders' = orders /\ payment' = payment
      BY <2>1 DEF tables
    <2>5. \A x : Visible(w, x)' <=> Visible(w, x)
      BY <2>1, <2>4 DEF Visible
    <2>6. Uncommitted(w)'
      BY <2>1, <2>2, <2>3, <2>4, <2>5 DEF Uncommitted, References
    <2>7. ASSUME NEW v \in Writers \ {w}
          PROVE  Exclusive(w, v)'
      <3>1. work[v].payment => arg[v].transaction # arg[w].transaction
        BY <2>1 DEF Blockers
      <3>2. work'[v] = work[v] /\ Exclusive(w, v)
        BY <2>1 DEF OthersAsWere, TxInv
      <3> QED
        BY <2>1, <3>1, <3>2 DEF Exclusive
    <2> QED
      BY <2>1, <2>6, <2>7, TxByOne
  <1>6. ASSUME NEW w \in Writers, UpsertItem(w)
        PROVE  TxInv'
    <2>1. /\ OthersAsWere(w) /\ UNCHANGED tables /\ arg' = arg
          /\ work'[w].order = work[w].order
          /\ work'[w].payment = work[w].payment
          /\ work'[w].links = work[w].links
          /\ pc[w] = "item" /\ pc'[w] = "link"
      BY <1>6, UpsertItemFacts DEF UpsertItem, Then, Goto, TypeOK
    <2>2. Uncommitted(w)'
      BY <2>1 DEF Uncommitted, Visible, TxInv, tables
    <2>3. \A v \in Writers \ {w} : Exclusive(w, v)'
      BY <2>1 DEF Exclusive, TxInv, OthersAsWere
    <2> QED
      BY <2>1, <2>2, <2>3, TxByOne
  <1>7. ASSUME NEW w \in Writers, LinkItem(w)
        PROVE  TxInv'
    <2>1. /\ OthersAsWere(w) /\ UNCHANGED tables /\ arg' = arg
          /\ work'[w].order = work[w].order
          /\ work'[w].payment = work[w].payment
          /\ pc[w] = "link" /\ pc'[w] \in {"item", "commit"}
          /\ Visible(w, arg[w].uid)
      BY <1>7, LinkItemFacts DEF LinkItem, Then, Goto, TypeOK
    <2>2. Visible(w, arg[w].uid)'
      BY <2>1 DEF Visible, tables
    <2>3. Uncommitted(w)'
      BY <2>1, <2>2 DEF Uncommitted, Visible, TxInv, tables
    <2>4. \A v \in Writers \ {w} : Exclusive(w, v)'
      BY <2>1 DEF Exclusive, TxInv, OthersAsWere
    <2> QED
      BY <2>1, <2>3, <2>4, TxByOne
  <1>8. ASSUME NEW w \in Writers, ForeignKeyError(w)
        PROVE  TxInv'
    BY <1>8, TxReturned DEF ForeignKeyError
  <1>9. ASSUME NEW w \in Writers, AbortDeadlock(w)
        PROVE  TxInv'
    BY <1>9, TxReturned DEF AbortDeadlock
  <1>10. ASSUME NEW w \in Writers, Fail(w)
        PROVE  TxInv'
    BY <1>10, TxReturned DEF Fail
  <1>11. ASSUME NEW w \in Writers, Commit(w)
        PROVE  TxInv'
    BY <1>11, TxApplied DEF Commit
  <1>12. ASSUME NEW w \in Writers, CommitError(w)
        PROVE  TxInv'
    BY <1>12, TxApplied, TxReturned DEF CommitError
  <1>13. ASSUME NEW u \in Uids, DeleteOrder(u)
        PROVE  TxInv'
    BY <1>13, TxDeleted
  <1>14. ASSUME UNCHANGED <<tables, writerVars>>
        PROVE  TxInv'
    <2>1. \A v \in Writers : Uncommitted(v)'
      BY <1>14, UncommittedKept DEF TxInv, writerVars
    <2>2. \A w \in Writers : \A v \in Writers \ {w} : Exclusive(w, v)'
      BY <1>14 DEF TxInv, Exclusive, writerVars
    <2> QED
      BY <1>14, <2>1, <2>2, TablesKept DEF TxInv
  <1> QED
    BY <1>1, <1>2, <1>3, <1>4, <1>5, <1>6, <1>7, <1>8, <1>9, <1>10, <1>11, <1>12, <1>13, <1>14 DEF Next, Step, Get, ReadOrder, NotFound, ReadError, ReadItems,
             Done, vars, tables, writerVars

(* The first save of an order stands until the order is deleted. *)
LEMMA OrdersKept ==
  ASSUME TypeOK, TxInv, [Next]_vars
  PROVE  /\ deleted \subseteq deleted'
         /\ \A u \in Uids : u \notin deleted' /\ orders[u] # None =>
              orders'[u] = orders[u]
  <1>1. ASSUME NEW w \in Writers, Commit(w)
        PROVE  /\ deleted \subseteq deleted'
               /\ \A x \in Uids : x \notin deleted' /\ orders[x] # None =>
                    orders'[x] = orders[x]
    <2>1. arg[w] # None
      BY <1>1, ArgFacts DEF Commit
    <2>2. Uncommitted(w)
      BY DEF TxInv
    <2>3. ASSUME Apply(w), NEW u \in Uids, orders[u] # None
          PROVE  orders'[u] = orders[u]
      BY <2>1, <2>2, <2>3, ApplyFacts DEF Uncommitted
    <2> QED
      BY <1>1, <2>3 DEF Commit
  <1>2. ASSUME NEW w \in Writers, CommitError(w)
        PROVE  /\ deleted \subseteq deleted'
               /\ \A x \in Uids : x \notin deleted' /\ orders[x] # None =>
                    orders'[x] = orders[x]
    <2>1. arg[w] # None
      BY <1>2, ArgFacts DEF CommitError
    <2>2. Uncommitted(w)
      BY DEF TxInv
    <2>3. ASSUME Apply(w), NEW u \in Uids, orders[u] # None
          PROVE  orders'[u] = orders[u]
      BY <2>1, <2>2, <2>3, ApplyFacts DEF Uncommitted
    <2> QED
      BY <1>2, <2>3 DEF CommitError, tables
  <1>3. ASSUME NEW u \in Uids, DeleteOrder(u)
        PROVE  /\ deleted \subseteq deleted'
               /\ \A x \in Uids : x \notin deleted' /\ orders[x] # None =>
                    orders'[x] = orders[x]
    BY <1>3 DEF DeleteOrder, TypeOK
  <1>4. ASSUME UNCHANGED <<tables, deleted>>
        PROVE  /\ deleted \subseteq deleted'
               /\ \A x \in Uids : x \notin deleted' /\ orders[x] # None =>
                    orders'[x] = orders[x]
    BY <1>4 DEF tables
  <1> QED
    BY <1>1, <1>2, <1>3, <1>4 DEF Next, Step, Save, CheckExists, InsertOrder,
             InsertDelivery, InsertPayment, UpsertItem, LinkItem, Then,
             ForeignKeyError, AbortDeadlock, Fail, Get, ReadOrder, NotFound,
             ReadError, ReadItems, Done, vars, tables

ReadInv == ReadWhole /\ \A r \in Readers : RowRead(r)

LEMMA ReadKept ==
  ASSUME TypeOK, TxInv, ReadInv, [Next]_vars, answers' = answers
  PROVE  /\ ReadWhole'
         /\ \A r \in Readers :
              row'[r] = row[r] /\ reading'[r] = reading[r] => RowRead(r)'
  <1>1. ReadWhole'
    BY OrdersKept DEF ReadInv, ReadWhole, ItemsOf
  <1>2. ASSUME NEW r \in Readers, row'[r] = row[r], reading'[r] = reading[r],
               row[r] # NoRow
        PROVE  RowRead(r)'
    <2>1. /\ row[r].order \in Orders
          /\ reading[r] \in Uids
      BY <1>2 DEF TypeOK
    <2>2. RowRead(r)
      BY DEF ReadInv
    <2>3. reading[r] \notin deleted' => orders'[reading[r]] = row[r].order
      BY <1>2, <2>1, <2>2, OrdersKept, OrderFacts DEF RowRead
    <2> QED
      BY <1>2, <2>2, <2>3 DEF RowRead
  <1> QED
    BY <1>1, <1>2 DEF RowRead

LEMMA ReadStep ==
  ASSUME TypeOK, TxInv, ReadInv, [Next]_vars
  PROVE  ReadInv'
  <1>1. ASSUME NEW r \in Readers, NEW u \in Uids, Get(r, u)
        PROVE  ReadInv'
    <2>1. /\ answers' = answers
          /\ \A x \in Readers \ {r} :
               row'[x] = row[x] /\ reading'[x] = reading[x]
      BY <1>1 DEF Get, Done, TypeOK
    <2>2. row[r] = NoRow /\ row'[r] = NoRow
      BY <1>1 DEF Get, TypeOK
    <2>3. RowRead(r)'
      BY <2>2 DEF RowRead
    <2> QED
      BY <2>1, <2>3, ReadKept DEF ReadInv
  <1>2. ASSUME NEW r \in Readers, ReadOrder(r)
        PROVE  ReadInv'
    <2>1. /\ answers' = answers
          /\ \A x \in Readers \ {r} :
               row'[x] = row[x] /\ reading'[x] = reading[x]
      BY <1>2 DEF ReadOrder, Done, TypeOK
    <2> DEFINE u == reading[r]
    <2>2. /\ u \in Uids /\ orders[u] # None /\ payment[u] # None
          /\ reading' = reading /\ orders' = orders /\ deleted' = deleted
          /\ row'[r] = [order |-> orders[u], payment |-> payment[u]]
      BY <1>2 DEF ReadOrder, TypeOK, tables
    <2>3. /\ orders[u].uid = u
          /\ orders[u].transaction = u => payment[u] = orders[u]
      BY <2>2 DEF TypeOK, TxInv, WholeOrder
    <2>4. row'[r].order = orders[u] /\ row'[r].payment = payment[u]
      BY <2>2
    <2> HIDE DEF u
    <2>5. RowRead(r)'
      BY <2>2, <2>3, <2>4 DEF RowRead, u
    <2> QED
      BY <2>1, <2>5, ReadKept DEF ReadInv
  <1>3. ASSUME NEW r \in Readers, NotFound(r)
        PROVE  ReadInv'
    <2>1. /\ answers' = answers
          /\ \A x \in Readers \ {r} :
               row'[x] = row[x] /\ reading'[x] = reading[x]
      BY <1>3 DEF NotFound, Done, TypeOK
    <2>2. row'[r] = NoRow
      BY <1>3 DEF NotFound, Done, TypeOK
    <2>3. RowRead(r)'
      BY <2>2 DEF RowRead
    <2> QED
      BY <2>1, <2>3, ReadKept DEF ReadInv
  <1>4. ASSUME NEW r \in Readers, ReadError(r)
        PROVE  ReadInv'
    <2>1. /\ answers' = answers
          /\ \A x \in Readers \ {r} :
               row'[x] = row[x] /\ reading'[x] = reading[x]
      BY <1>4 DEF ReadError, Done, TypeOK
    <2>2. row'[r] = NoRow
      BY <1>4 DEF ReadError, Done, TypeOK
    <2>3. RowRead(r)'
      BY <2>2 DEF RowRead
    <2> QED
      BY <2>1, <2>3, ReadKept DEF ReadInv
  <1>5. ASSUME NEW r \in Readers, ReadItems(r)
        PROVE  ReadInv'
    <2> DEFINE a == <<row[r].order, row[r].payment,
                      Linked(reading[r]) \cap items>>
    <2>1. /\ answers' = answers \cup {a} /\ row[r] # NoRow
          /\ row'[r] = NoRow /\ deleted' = deleted /\ orders' = orders
          /\ \A x \in Readers \ {r} :
               row'[x] = row[x] /\ reading'[x] = reading[x]
      BY <1>5 DEF ReadItems, Done, TypeOK, tables
    <2>2. row[r].order \in Orders /\ reading[r] \in Uids
      BY <2>1 DEF TypeOK
    <2>3. RowRead(r)
      BY DEF ReadInv
    <2>4. /\ a[1] = row[r].order /\ a[2] = row[r].payment
          /\ a[3] = Linked(reading[r]) \cap items
      OBVIOUS
    <2>5. /\ a[1].uid \notin deleted => ItemsOf(a[1]) \subseteq a[3]
          /\ a[1].transaction = a[1].uid => a[2] = a[1]
      BY <2>1, <2>2, <2>3, <2>4, OrderFacts DEF RowRead, TxInv, WholeOrder
    <2> HIDE DEF a
    <2>6. ReadWhole'
      BY <2>1, <2>5 DEF ReadInv, ReadWhole, ItemsOf
    <2>7. ASSUME NEW x \in Readers
          PROVE  RowRead(x)'
      <3>1. CASE x = r
        BY <2>1, <3>1 DEF RowRead
      <3>2. CASE x # r
        BY <2>1, <3>2 DEF RowRead, ReadInv
      <3> QED
        BY <3>1, <3>2
    <2> QED
      BY <2>6, <2>7 DEF ReadInv
  <1>6. ASSUME UNCHANGED readerVars
        PROVE  ReadInv'
    BY <1>6, ReadKept DEF readerVars, ReadInv
  <1> QED
    BY <1>1, <1>2, <1>3, <1>4, <1>5, <1>6 DEF Next, Step, Save, CheckExists, InsertOrder,
             InsertDelivery, InsertPayment, UpsertItem, LinkItem, Then,
             ForeignKeyError, AbortDeadlock, Fail, Commit, CommitError,
             DeleteOrder, vars, readerVars

---------------------------------------------------------------------------

LEMMA InitInv == Init => IInv
  <1> SUFFICES ASSUME Init PROVE IInv
    OBVIOUS
  <1> USE NoWorkFacts DEF Init
  <1>1. TypeOK
    BY DEF TypeOK
  <1>2. ASSUME NEW w \in Writers
        PROVE  Progress(w) /\ Uncommitted(w)
    <2>1. work[w] = NoWork /\ next[w] = 1 /\ pc[w] = "idle"
      OBVIOUS
    <2> QED
      BY <2>1 DEF Progress, Uncommitted
  <1>3. /\ \A w \in Writers : \A v \in Writers \ {w} : Exclusive(w, v)
        /\ \A u \in Uids : References(u)
        /\ WholeOrder
    BY DEF Exclusive, References, WholeOrder
  <1>4. ReadWhole /\ \A r \in Readers : RowRead(r)
    BY DEF ReadWhole, RowRead
  <1> QED
    BY <1>1, <1>2, <1>3, <1>4 DEF IInv

LEMMA NextInv == IInv /\ [Next]_vars => IInv'
  <1> SUFFICES ASSUME IInv, [Next]_vars PROVE IInv'
    OBVIOUS
  <1>1. TypeOK /\ (\A w \in Writers : Progress(w)) /\ TxInv /\ ReadInv
    BY DEF IInv, TxInv, ReadInv
  <1>2. TypeOK' /\ (\A w \in Writers : Progress(w)') /\ TxInv' /\ ReadInv'
    BY <1>1, TypeStep, ProgressStep, TxStep, ReadStep
  <1> QED
    BY <1>2 DEF IInv, TxInv, ReadInv

(* The inductive invariant holds in every state. *)
THEOREM Invariance == Spec => []IInv
  BY InitInv, NextInv, PTL DEF Spec

(* Every variable keeps its type: in particular the loop of SaveOrder stays  *)
(* within the items and no order without a payment row is ever returned.     *)
THEOREM StoreTypeCorrect == Spec => []TypeOK
  <1>1. IInv => TypeOK
    BY DEF IInv
  <1> QED
    BY <1>1, Invariance, PTL

(* A stored order is complete: concurrent, failed and aborted transactions   *)
(* never leave an order row without its items or with another's payment.     *)
THEOREM StoredWhole == Spec => []WholeOrder
  <1>1. IInv => WholeOrder
    BY DEF IInv
  <1> QED
    BY <1>1, Invariance, PTL

(* Reading in two statements returns the whole order unless it was deleted.  *)
THEOREM ReturnedWhole == Spec => []ReadWhole
  <1>1. IInv => ReadWhole
    BY DEF IInv
  <1> QED
    BY <1>1, Invariance, PTL

---------------------------------------------------------------------------

(* A stored order's entry in the archive is not a missing one.               *)
LEMMA PlacedFacts ==
  ASSUME TypeOK, NEW u \in Uids
  PROVE  /\ orders[u] = None => Placed[u] = None
         /\ orders[u] # None =>
              /\ Placed[u] = [order |-> orders[u], items |-> Linked(u)]
              /\ Placed[u] # None
  <1>1. orders[u] # None =>
          [order |-> orders[u], items |-> Linked(u)] # None
    <2>1. Linked(u) \in SUBSET Items
      BY DEF Linked
    <2>2. orders[u] # None => orders[u] \in Orders
      BY DEF TypeOK
    <2> QED
      BY <2>1, <2>2, StoreAssumption
  <1> QED
    BY <1>1 DEF Placed

(* The end of a call takes the writer out of the race. *)
LEMMA ArchiveReturned ==
  ASSUME TypeOK, NEW w \in Writers, Return(w), UNCHANGED deleted
  PROVE  Archive!Return(w)
  <1>1. arg' = [arg EXCEPT ![w] = None]
    BY DEF Return
  <1>2. Racing' = Racing \ {w}
    BY ReturnFacts DEF Racing
  <1> QED
    BY <1>1, <1>2 DEF Archive!Return

LEMMA ArchiveReturn ==
  ASSUME IInv, NEW w \in Writers, pc[w] # "idle", Return(w),
         UNCHANGED <<tables, saved, deleted>>
  PROVE  Archive!Abandon(w)
  <1>1. Archive!Return(w) /\ arg[w] # None
    BY ArchiveReturned, ArgFacts DEF IInv
  <1>2. UNCHANGED Placed
    BY DEF Placed, Linked, tables
  <1> QED
    BY <1>1, <1>2 DEF Archive!Abandon

(* Items added to an entry of the archive.                                   *)
LEMMA AddItems ==
  ASSUME NEW r, NEW o, NEW L, NEW M, r = [order |-> o, items |-> L]
  PROVE  [r EXCEPT !.items = @ \cup M] = [order |-> o, items |-> L \cup M]
  <1> DEFINE K == r.items \cup M
  <1>1. K = L \cup M
    OBVIOUS
  <1>2. [r EXCEPT !.items = K] = [order |-> o, items |-> K]
    <2> HIDE DEF K
    <2> QED
      OBVIOUS
  <1> QED
    BY <1>1, <1>2

(* At a commit the order is stored by this transaction, which nothing is     *)
(* linked to yet, or was before and gets this one's items as well.           *)
LEMMA ArchiveApply ==
  ASSUME IInv, NEW w \in Writers, pc[w] = "commit", Apply(w)
  PROVE  w \in Racing /\ Placed' = Archive!Stored(arg[w])
  <1>0. TypeOK /\ arg[w] \in Orders /\ arg[w].uid \in Uids
    BY ArgFacts DEF IInv
  <1> PICK o \in Orders : o = arg[w]
    BY <1>0
  <1> PICK x \in Uids : x = arg[w].uid
    BY <1>0
  <1> DEFINE new == [order |-> o, items |-> Archive!ItemsOf(o)]
             more == [Placed[x] EXCEPT !.items = @ \cup Archive!ItemsOf(o)]
  <1>1. /\ TypeOK /\ o # None
        /\ 1 \in DOMAIN o.items /\ o.items[1] \in Items
        /\ \A k \in DOMAIN o.items : o.items[k] \in Items
    BY <1>0, OrderFacts
  <1>2. Visible(w, x)
    BY <1>1 DEF IInv, Progress, Uncommitted
  <1>3. /\ \A u \in Uids : orders'[u] = IF work[w].order /\ x = u THEN o ELSE orders[u]
        /\ \A u \in Uids : \A i \in Items :
             links'[u][i] = IF x = u THEN links[u][i] + work[w].links[i]
                            ELSE links[u][i]
    BY <1>1, ApplyFacts
  <1>4. /\ \A i \in Items : work[w].links[i] \in Nat /\ links[x][i] \in Nat
        /\ \A i \in Items : work[w].links[i] > 0 <=> i \in Archive!ItemsOf(o)
    <2>1. \A i \in Items : work[w].links[i] \in Nat /\ links[x][i] \in Nat
      BY <1>1 DEF TypeOK, Work
    <2>2. \A i \in Items : work[w].links[i] > 0 => i \in Archive!ItemsOf(o)
      BY DEF IInv, Progress, ItemsOf, Archive!ItemsOf
    <2>3. \A k \in DOMAIN o.items : work[w].links[o.items[k]] > 0
      BY DEF IInv, Progress
    <2> QED
      BY <2>1, <2>2, <2>3 DEF Archive!ItemsOf
  <1>5. Linked(x)' = Linked(x) \cup Archive!ItemsOf(o)
    <2>1. Archive!ItemsOf(o) \subseteq Items
      BY <1>1 DEF Archive!ItemsOf
    <2>2. \A i \in Items : links'[x][i] > 0 <=>
            links[x][i] > 0 \/ i \in Archive!ItemsOf(o)
      BY <1>1, <1>3, <1>4
    <2> QED
      BY <2>1, <2>2 DEF Linked
  <1>6. \A u \in Uids \ {x} : Placed'[u] = Placed[u]
    BY <1>3 DEF Placed, Linked
  <1>7. CASE work[w].order
    <2>1. orders[x] = None /\ Linked(x) = {}
      <3>1. orders[x] = None
        BY <1>7 DEF IInv, Uncommitted
      <3>2. \A i \in Items : ~(links[x][i] > 0)
        BY <1>1, <3>1 DEF IInv, References
      <3> QED
        BY <3>1, <3>2 DEF Linked
    <2>2. orders'[x] = o
      BY <1>1, <1>3, <1>7
    <2>3. Placed'[x] = new
      BY <1>1, <1>5, <2>1, <2>2 DEF Placed
    <2>4. Placed' = [Placed EXCEPT ![x] = new]
      BY <1>1, <1>6, <2>3 DEF Placed
    <2>5. Placed[x] = None
      BY <1>1, <2>1, PlacedFacts
    <2> QED
      BY <2>4, <2>5 DEF Racing, Archive!Stored
  <1>8. CASE ~work[w].order
    <2>1. orders[x] # None /\ orders'[x] = orders[x]
      BY <1>1, <1>2, <1>3, <1>8 DEF Visible
    <2>2. /\ Placed[x] = [order |-> orders[x], items |-> Linked(x)]
          /\ Placed[x] # None
      BY <1>1, <2>1, PlacedFacts
    <2>3. Placed'[x] = [order |-> orders[x],
                        items |-> Linked(x) \cup Archive!ItemsOf(o)]
      BY <1>1, <1>5, <2>1 DEF Placed
    <2>4. Placed'[x] = more
      BY <2>2, <2>3, AddItems
    <2> HIDE DEF more
    <2>5. Placed' = [Placed EXCEPT ![x] = more]
      BY <1>1, <1>6, <2>4 DEF Placed
    <2> QED
      BY <2>2, <2>5 DEF Racing, Archive!Stored, more
  <1> QED
    BY <1>7, <1>8

(* A statement inside the transaction. *)
LEMMA ArchiveKept ==
  ASSUME NEW w \in Writers,
         pc[w] \notin {"idle", "check"}, pc'[w] \notin {"idle", "check"},
         \A v \in Writers \ {w} : pc'[v] = pc[v],
         UNCHANGED <<orders, links, arg, saved, deleted>>
  PROVE  UNCHANGED Archive!vars
  <1>1. Racing' = Racing
    BY DEF Racing
  <1>2. Placed' = Placed
    BY DEF Placed, Linked
  <1> QED
    BY <1>1, <1>2 DEF Archive!vars

LEMMA ArchiveStep == IInv /\ [Next]_vars => [Archive!Next]_Archive!vars
  <1> SUFFICES ASSUME IInv, [Next]_vars
               PROVE  [Archive!Next]_Archive!vars
    OBVIOUS
  <1>0. TypeOK
    BY DEF IInv
  <1>1. ASSUME NEW w \in Writers, NEW o \in Orders, Save(w, o)
        PROVE  [Archive!Next]_Archive!vars
    <2>1. arg[w] = None
      BY <1>1 DEF Save, IInv, TypeOK
    <2>2. Racing' = Racing
      BY <1>0, <1>1 DEF Save, Goto, Racing, TypeOK
    <2>3. UNCHANGED <<Placed, saved, deleted>> /\ arg' = [arg EXCEPT ![w] = o]
      BY <1>1 DEF Save, tables, Placed, Linked
    <2>4. Archive!Save(w, o)
      BY <2>1, <2>2, <2>3 DEF Archive!Save
    <2> QED
      BY <2>4 DEF Archive!Next
  <1>2. ASSUME NEW w \in Writers, CheckExists(w)
        PROVE  [Archive!Next]_Archive!vars
    <2>1. /\ arg[w] # None /\ arg[w].uid \in Uids
          /\ w \notin Racing /\ pc[w] = "check"
      BY <1>0, <1>2, ArgFacts DEF CheckExists, Racing
    <2>2. UNCHANGED <<Placed, deleted>>
      BY <1>2 DEF CheckExists, tables, Placed, Linked
    <2>3. CASE orders[arg[w].uid] # None
      <3>1. Return(w) /\ saved' = saved \cup {arg[w].uid}
        BY <1>2, <2>3 DEF CheckExists
      <3>2. Archive!Return(w)
        BY <1>0, <2>2, <3>1, ArchiveReturned
      <3>3. Placed[arg[w].uid] # None
        BY <1>0, <2>1, <2>3, PlacedFacts
      <3>4. Archive!Complete(w)
        BY <2>1, <2>2, <3>1, <3>2, <3>3 DEF Archive!Complete
      <3> QED
        BY <3>4 DEF Archive!Next
    <2>4. CASE orders[arg[w].uid] = None
      <3>1. pc' = [pc EXCEPT ![w] = "order"] /\ UNCHANGED <<arg, saved>>
        BY <1>2, <2>4 DEF CheckExists, Goto
      <3>2. Racing' = Racing \cup {w}
        BY <1>0, <3>1 DEF Racing, TypeOK
      <3>3. Placed[arg[w].uid] = None
        BY <1>0, <2>1, <2>4, PlacedFacts
      <3>4. Archive!Look(w)
        BY <2>1, <2>2, <3>1, <3>2, <3>3 DEF Archive!Look
      <3> QED
        BY <3>4 DEF Archive!Next
    <2> QED
      BY <2>3, <2>4
  <1>3. ASSUME NEW w \in Writers, ForeignKeyError(w)
        PROVE  [Archive!Next]_Archive!vars
    BY <1>3, ArchiveReturn DEF ForeignKeyError, Archive!Next
  <1>4. ASSUME NEW w \in Writers, AbortDeadlock(w)
        PROVE  [Archive!Next]_Archive!vars
    <2>1. Blockers(w) # {}
      BY <1>4 DEF AbortDeadlock, Deadlocked
    <2>2. pc[w] # "idle"
      BY <2>1 DEF Blockers
    <2> QED
      BY <1>4, <2>2, ArchiveReturn DEF AbortDeadlock, Archive!Next
  <1>5. ASSUME NEW w \in Writers, Fail(w)
        PROVE  [Archive!Next]_Archive!vars
    BY <1>5, ArchiveReturn DEF Fail, Archive!Next
  <1>6. ASSUME NEW w \in Writers, Commit(w)
        PROVE  [Archive!Next]_Archive!vars
    <2>1. arg[w] # None /\ w \in Racing /\ Placed' = Archive!Stored(arg[w])
      BY <1>0, <1>6, ArgFacts, ArchiveApply DEF Commit
    <2>2. Archive!Return(w) /\ saved' = saved \cup {arg[w].uid}
      BY <1>0, <1>6, ArchiveReturned DEF Commit
    <2>3. Archive!Complete(w)
      BY <2>1, <2>2 DEF Archive!Complete
    <2> QED
      BY <2>3 DEF Archive!Next
  <1>7. ASSUME NEW w \in Writers, CommitError(w)
        PROVE  [Archive!Next]_Archive!vars
    <2>1. arg[w] # None
      BY <1>0, <1>7, ArgFacts DEF CommitError
    <2>2. Archive!Return(w) /\ UNCHANGED saved
      BY <1>0, <1>7, ArchiveReturned DEF CommitError
    <2>3. UNCHANGED Placed \/ (w \in Racing /\ Placed' = Archive!Stored(arg[w]))
      <3>1. CASE Apply(w)
        BY <1>7, <3>1, ArchiveApply DEF CommitError
      <3>2. CASE UNCHANGED tables
        BY <3>2 DEF tables, Placed, Linked
      <3> QED
        BY <1>7, <3>1, <3>2 DEF CommitError
    <2>4. Archive!Abandon(w)
      BY <2>1, <2>2, <2>3 DEF Archive!Abandon
    <2> QED
      BY <2>4 DEF Archive!Next
  <1>8. ASSUME NEW u \in Uids, DeleteOrder(u)
        PROVE  [Archive!Next]_Archive!vars
    <2>1. /\ Placed[u] # None
          /\ UNCHANGED <<arg, pc, saved>> /\ deleted' = deleted \cup {u}
      BY <1>0, <1>8, PlacedFacts DEF DeleteOrder, writerVars
    <2>2. Racing' = Racing
      BY <2>1 DEF Racing
    <2>3. /\ orders' = [orders EXCEPT ![u] = None]
          /\ links' = [links EXCEPT ![u] = [i \in Items |-> 0]]
      BY <1>8 DEF DeleteOrder
    <2>4. ASSUME NEW x \in Uids
          PROVE  Placed'[x] = [Placed EXCEPT ![u] = None][x]
      BY <1>0, <2>3 DEF TypeOK, Placed, Linked
    <2>5. Placed' = [Placed EXCEPT ![u] = None]
      BY <2>4 DEF Placed
    <2>6. Archive!Remove(u)
      BY <2>1, <2>2, <2>5 DEF Archive!Remove
    <2> QED
      BY <2>6 DEF Archive!Next
  <1>9. ASSUME UNCHANGED <<orders, links, pc, arg, saved, deleted>>
        PROVE  [Archive!Next]_Archive!vars
    BY <1>9 DEF Archive!vars, Placed, Linked, Racing
  <1>10. ASSUME NEW w \in Writers,
                \/ InsertOrder(w) \/ InsertDelivery(w) \/ InsertPayment(w)
                \/ UpsertItem(w) \/ LinkItem(w)
         PROVE  [Archive!Next]_Archive!vars
    <2>1. /\ pc[w] \notin {"idle", "check"}
          /\ \E step \in {"delivery", "payment", "item", "link", "commit"} :
               Then(w, step)
      BY <1>10 DEF InsertOrder, InsertDelivery, InsertPayment, UpsertItem,
                   LinkItem
    <2>2. /\ pc'[w] \notin {"idle", "check"}
          /\ \A v \in Writers \ {w} : pc'[v] = pc[v]
          /\ UNCHANGED <<orders, links, arg, saved, deleted>>
      BY <1>0, <2>1 DEF Then, Goto, tables, TypeOK
    <2> QED
      BY <2>1, <2>2, ArchiveKept
  <1> QED
    BY <1>1, <1>2, <1>3, <1>4, <1>5, <1>6, <1>7, <1>8, <1>9, <1>10
    DEF Next, Step, Get, ReadOrder, NotFound, ReadError, ReadItems, Done,
        vars, tables, writerVars

(* The store is an archive: a save takes effect in one step, on the orders   *)
(* and on the items linked to them, the order of the first one stays, only   *)
(* saves that had looked before it add their items, and nil is returned only *)
(* for an order that is stored.                                              *)
THEOREM RefinesArchive == Spec => ImplementsArchive
  <1>1. Init => Archive!Init
    BY DEF Init, Archive!Init, Placed, Racing
  <1> QED
    BY <1>1, ArchiveStep, Invariance, PTL
    DEF Spec, ImplementsArchive, Archive!Spec
=============================================================================
