-------------------------- MODULE CachedRepoProofs --------------------------
(* Theorems about CachedRepo for every set of callers, uids and contents.    *)
(* IInv is the inductive invariant: the properties themselves, extended to   *)
(* the content a call carries towards the cache.                             *)
EXTENDS CachedRepo, TLAPS

LEMMA InitInv == Init => IInv
  <1> SUFFICES ASSUME Init PROVE IInv
    OBVIOUS
  <1> USE RepoAssumption DEF Init, Cache!Init
  <1>1. TypeOK
    BY DEF TypeOK, States
  <1>2. ReadYourWrites /\ ServedIsStored /\ WriteStored
    BY DEF ReadYourWrites, ServedIsStored, WriteStored, Clients
  <1>3. SavedStored /\ ExpectsSaved
    BY DEF SavedStored, StoredUids, ExpectsSaved
  <1>4. RowsSent /\ MixedDiffer /\ ContentSent
    BY DEF RowsSent, MixedDiffer, ContentSent
  <1> QED
    BY <1>1, <1>2, <1>3, <1>4 DEF IInv

(* A read of a stored row returns a content.                                 *)
LEMMA ReturnedContent ==
  ASSUME TypeOK, NEW u \in Uids, db[u] # NoOrder
  PROVE  Returned(u) \subseteq Orders
  BY DEF TypeOK, Returned

(* What ends a write leaves of the cache. *)
LEMMA WriteStep ==
  ASSUME TypeOK, NEW c \in Clients, Cache!Put(c) \/ Cache!Abandon(c)
  PROVE  /\ writing[c] # NoWrite
         /\ writing[c] \in Uids \X Orders
         /\ pc[c] \in {"fill", "savecache"}
         /\ cache' \in [Uids -> Orders \cup {NoOrder}]
         /\ writing' \in [Clients -> (Uids \X Orders) \cup {NoWrite}]
         /\ \A d \in Clients \ {c} : writing'[d] = writing[d]
         /\ writing'[c] \in {writing[c], NoWrite}
         /\ \A u \in Uids :
              \/ cache'[u] = cache[u]
              \/ writing[c][1] = u /\ cache'[u] = writing[c][2]
  <1>1. /\ writing[c] # NoWrite
        /\ writing[c] \in Uids \X Orders
        /\ pc[c] \in {"fill", "savecache"}
    BY DEF TypeOK, Cache!Put, Cache!Abandon
  <1>2. writing[c][1] \in Uids /\ writing[c][2] \in Orders
    BY <1>1
  <1>3. CASE Cache!Put(c)
    BY <1>1, <1>2, <1>3 DEF TypeOK, Cache!Put
  <1>4. CASE Cache!Abandon(c)
    BY <1>1, <1>4 DEF TypeOK, Cache!Abandon
  <1> QED
    BY <1>3, <1>4

LEMMA TypeStep == TypeOK /\ [Next]_vars => TypeOK'
  <1> SUFFICES ASSUME TypeOK, [Next]_vars PROVE TypeOK'
    OBVIOUS
  <1> USE RepoAssumption DEF dbVars, cacheVars, callVars, warmVars, readVars, saveVars, Goto
  <1>1. ASSUME NEW c \in Clients, NEW u \in Uids, GetOrder(c, u)
        PROVE  TypeOK'
    BY <1>1 DEF TypeOK, States, GetOrder
  <1>2. ASSUME NEW c \in Clients, CacheHit(c)
        PROVE  TypeOK'
    BY <1>2 DEF TypeOK, States, CacheHit, Answer, Return
  <1>3. ASSUME NEW c \in Clients, CacheMiss(c)
        PROVE  TypeOK'
    BY <1>3 DEF TypeOK, States, CacheMiss, Error
  <1>4. ASSUME NEW c \in Clients, ReadDb(c)
        PROVE  TypeOK'
    <2>1. PICK v \in Returned(uid[c]) :
            /\ order' = [order EXCEPT ![c] = v]
            /\ Cache!Begin(c, uid[c], v)
      BY <1>4 DEF ReadDb
    <2>2. uid[c] \in Uids /\ v \in Orders
      BY <1>4, <2>1, ReturnedContent DEF ReadDb, TypeOK
    <2> QED
      BY <1>4, <2>1, <2>2 DEF TypeOK, States, ReadDb, Cache!Begin
  <1>5. ASSUME NEW c \in Clients, NotFound(c)
        PROVE  TypeOK'
    BY <1>5 DEF TypeOK, States, NotFound, Return
  <1>6. ASSUME NEW c \in Clients, ReadDbError(c)
        PROVE  TypeOK'
    BY <1>6 DEF TypeOK, States, ReadDbError, Error, Return
  <1>7. ASSUME NEW c \in Clients, NEW u \in Uids, NEW v \in Orders, Save(c, u, v)
        PROVE  TypeOK'
    BY <1>7 DEF TypeOK, States, Save
  <1>8. ASSUME NEW c \in Clients, SaveDb(c)
        PROVE  TypeOK'
    BY <1>8 DEF TypeOK, States, SaveDb, Store, Cache!Begin
  <1>9. ASSUME NEW c \in Clients, SaveDbError(c)
        PROVE  TypeOK'
    BY <1>9 DEF TypeOK, States, SaveDbError, Store, Error, Return
  <1>10. ASSUME NEW c \in Clients, Fill(c)
         PROVE  TypeOK'
    <2>1. Cache!Put(c) \/ Cache!Abandon(c)
      BY <1>10 DEF Fill, WriteEnds
    <2>2. writing'[c] = NoWrite
      BY <1>10 DEF Fill, WriteEnds, Cache!Abandon, TypeOK
    <2>3. /\ cache' \in [Uids -> Orders \cup {NoOrder}]
          /\ writing' \in [Clients -> (Uids \X Orders) \cup {NoWrite}]
          /\ \A d \in Clients \ {c} : writing'[d] = writing[d]
      BY <2>1, WriteStep
    <2>4. /\ pc' = [pc EXCEPT ![c] = "idle"]
          /\ order' = [order EXCEPT ![c] = NoOrder]
          /\ UNCHANGED <<db, mixed, uid, todo, listed, missed, sent, deleted, expects, used>>
      BY <1>10 DEF Fill, Return
    <2>5. answers' \subseteq Uids \X Orders /\ saved' \subseteq Uids
      BY <1>10 DEF TypeOK, Fill, Answer, Return
    <2>6. ASSUME NEW d \in Clients
          PROVE  /\ pc'[d] # "idle" => uid'[d] \in Uids
                 /\ pc'[d] \in {"fill", "savedb", "savecache"} => order'[d] \in Orders
                 /\ (writing'[d] # NoWrite) <=> (pc'[d] \in {"fill", "savecache"})
      <3>1. CASE d = c
        BY <2>2, <2>4, <3>1 DEF TypeOK
      <3>2. CASE d # c
        BY <2>3, <2>4, <3>2 DEF TypeOK
      <3> QED
        BY <3>1, <3>2
    <2>7. /\ pc' \in [Clients -> States]
          /\ order' \in [Clients -> Orders \cup {NoOrder}]
      BY <2>4 DEF TypeOK, States
    <2> QED
      BY <2>3, <2>4, <2>5, <2>6, <2>7 DEF TypeOK
  <1>11. ASSUME NEW c \in Clients, SaveCache(c)
         PROVE  TypeOK'
    <2>1. Cache!Put(c) \/ Cache!Abandon(c)
      BY <1>11 DEF SaveCache, WriteEnds
    <2>2. writing'[c] = NoWrite
      BY <1>11 DEF SaveCache, WriteEnds, Cache!Abandon, TypeOK
    <2>3. /\ cache' \in [Uids -> Orders \cup {NoOrder}]
          /\ writing' \in [Clients -> (Uids \X Orders) \cup {NoWrite}]
          /\ \A d \in Clients \ {c} : writing'[d] = writing[d]
      BY <2>1, WriteStep
    <2>4. /\ pc' = [pc EXCEPT ![c] = "idle"]
          /\ order' = [order EXCEPT ![c] = NoOrder]
          /\ UNCHANGED <<db, mixed, uid, todo, listed, missed, sent, deleted, expects, used>>
      BY <1>11 DEF SaveCache, Return
    <2>5. answers' \subseteq Uids \X Orders /\ saved' \subseteq Uids
      BY <1>11 DEF TypeOK, SaveCache, Return
    <2>6. ASSUME NEW d \in Clients
          PROVE  /\ pc'[d] # "idle" => uid'[d] \in Uids
                 /\ pc'[d] \in {"fill", "savedb", "savecache"} => order'[d] \in Orders
                 /\ (writing'[d] # NoWrite) <=> (pc'[d] \in {"fill", "savecache"})
      <3>1. CASE d = c
        BY <2>2, <2>4, <3>1 DEF TypeOK
      <3>2. CASE d # c
        BY <2>3, <2>4, <3>2 DEF TypeOK
      <3> QED
        BY <3>1, <3>2
    <2>7. /\ pc' \in [Clients -> States]
          /\ order' \in [Clients -> Orders \cup {NoOrder}]
      BY <2>4 DEF TypeOK, States
    <2> QED
      BY <2>3, <2>4, <2>5, <2>6, <2>7 DEF TypeOK
  <1>12. ASSUME NEW c \in Clients, WriteAgain(c)
         PROVE  TypeOK'
    BY <1>12, WriteStep DEF TypeOK, States, WriteAgain
  <1>13. ASSUME NEW u \in Uids, DeleteOrder(u) PROVE TypeOK'
    BY <1>13 DEF TypeOK, States, DeleteOrder
  <1>14. ASSUME NEW u \in Uids, WarmNext(u) PROVE TypeOK'
    BY <1>14 DEF TypeOK, States, WarmNext, Clients
  <1>15. CASE GetLastOrdersUIDs
    BY <1>15 DEF TypeOK, States, GetLastOrdersUIDs, StoredUids
  <1>16. CASE Restart
    <2>1. /\ pc' = [c \in Clients |-> "idle"]
          /\ writing' = [c \in Clients |-> NoWrite]
          /\ order' = [c \in Clients |-> NoOrder]
      BY <1>16 DEF Restart, Cache!Crash
    <2>2. used' \in [{"errors", "deletes"} -> Nat]
      BY <1>16 DEF Restart, Error, TypeOK
    <2>3. /\ todo' \subseteq Uids /\ listed' \in BOOLEAN
          /\ UNCHANGED <<db, mixed, cache, uid, missed, expects, answers, sent, saved, deleted>>
      BY <1>16 DEF Restart, Cache!Crash
    <2> QED
      BY <2>1, <2>2, <2>3 DEF TypeOK, States
  <1>17. ASSUME NEW S \in SUBSET Uids, Evict(S) PROVE TypeOK'
    BY <1>17 DEF TypeOK, Evict, Cache!Drop
  <1>18. CASE UNCHANGED vars
    BY <1>18 DEF TypeOK, vars
  <1> QED
    BY <1>1, <1>2, <1>3, <1>4, <1>5, <1>6, <1>7, <1>8, <1>9,
       <1>10, <1>11, <1>12, <1>13, <1>14, <1>15, <1>16, <1>17, <1>18
    DEF Next, Reader, Writer

(* What no step undoes: an order keeps its row, and the row its content,     *)
(* until it is deleted; what was sent, saved or deleted stays so.            *)
Grows ==
  /\ \A u \in Uids \ deleted' : db[u] # NoOrder => db'[u] = db[u]
  /\ \A u \in Uids : sent[u] \subseteq sent'[u]
  /\ saved \subseteq saved' /\ deleted \subseteq deleted'

LEMMA GrowsStep ==
  ASSUME TypeOK, [Next]_vars
  PROVE  Grows
  <1> USE DEF Grows, Goto, dbVars, cacheVars, callVars, warmVars, readVars, saveVars
  <1>1. ASSUME NEW c \in Clients, NEW u \in Uids, GetOrder(c, u)
        PROVE  Grows
    BY <1>1 DEF GetOrder
  <1>2. ASSUME NEW c \in Clients, CacheHit(c)
        PROVE  Grows
    BY <1>2 DEF CacheHit
  <1>3. ASSUME NEW c \in Clients, CacheMiss(c)
        PROVE  Grows
    BY <1>3 DEF CacheMiss
  <1>4. ASSUME NEW c \in Clients, ReadDb(c)
        PROVE  Grows
    BY <1>4 DEF ReadDb
  <1>5. ASSUME NEW c \in Clients, NotFound(c)
        PROVE  Grows
    BY <1>5 DEF NotFound
  <1>6. ASSUME NEW c \in Clients, ReadDbError(c)
        PROVE  Grows
    BY <1>6 DEF ReadDbError
  <1>7. ASSUME NEW c \in Clients, Fill(c)
        PROVE  Grows
    BY <1>7 DEF Fill
  <1>8. ASSUME NEW c \in Clients, NEW u \in Uids, NEW v \in Orders, Save(c, u, v)
        PROVE  Grows
    BY <1>8 DEF Save, TypeOK
  <1>9. ASSUME NEW c \in Clients, SaveDb(c)
        PROVE  Grows
    BY <1>9 DEF SaveDb, Store, TypeOK
  <1>10. ASSUME NEW c \in Clients, SaveDbError(c)
         PROVE  Grows
    BY <1>10 DEF SaveDbError, Store, TypeOK
  <1>11. ASSUME NEW c \in Clients, SaveCache(c)
         PROVE  Grows
    BY <1>11 DEF SaveCache
  <1>12. ASSUME NEW c \in Clients, WriteAgain(c)
         PROVE  Grows
    BY <1>12 DEF WriteAgain
  <1>13. ASSUME NEW u \in Uids, DeleteOrder(u)
         PROVE  Grows
    BY <1>13 DEF DeleteOrder, TypeOK
  <1>14. ASSUME NEW u \in Uids, WarmNext(u)
         PROVE  Grows
    BY <1>14 DEF WarmNext
  <1>15. CASE GetLastOrdersUIDs
    BY <1>15 DEF GetLastOrdersUIDs
  <1>16. ASSUME NEW S \in SUBSET Uids, Evict(S)
         PROVE  Grows
    BY <1>16 DEF Evict
  <1>17. CASE Restart
    BY <1>17 DEF Restart
  <1>18. CASE UNCHANGED vars
    BY <1>18 DEF vars
  <1> QED
    BY <1>1, <1>2, <1>3, <1>4, <1>5, <1>6, <1>7, <1>8, <1>9, <1>10,
       <1>11, <1>12, <1>13, <1>14, <1>15, <1>16, <1>17, <1>18
    DEF Next, Reader, Writer

(* Readers expect what had been saved when they began. *)
LEMMA ExpectsStep ==
  ASSUME IInv, TypeOK', Grows, [Next]_vars
  PROVE  ExpectsSaved'
  <1> USE DEF IInv, Grows, ExpectsSaved, Goto, dbVars, cacheVars, callVars, warmVars, readVars, saveVars
  <1>1. ASSUME NEW c \in Clients, NEW u \in Uids, GetOrder(c, u)
        PROVE  ExpectsSaved'
    BY <1>1 DEF GetOrder, TypeOK
  <1>2. ASSUME NEW c \in Clients, CacheHit(c)
        PROVE  ExpectsSaved'
    BY <1>2 DEF CacheHit
  <1>3. ASSUME NEW c \in Clients, CacheMiss(c)
        PROVE  ExpectsSaved'
    BY <1>3 DEF CacheMiss
  <1>4. ASSUME NEW c \in Clients, ReadDb(c)
        PROVE  ExpectsSaved'
    BY <1>4 DEF ReadDb
  <1>5. ASSUME NEW c \in Clients, NotFound(c)
        PROVE  ExpectsSaved'
    BY <1>5 DEF NotFound
  <1>6. ASSUME NEW c \in Clients, ReadDbError(c)
        PROVE  ExpectsSaved'
    BY <1>6 DEF ReadDbError
  <1>7. ASSUME NEW c \in Clients, Fill(c)
        PROVE  ExpectsSaved'
    BY <1>7 DEF Fill
  <1>8. ASSUME NEW c \in Clients, NEW u \in Uids, NEW v \in Orders, Save(c, u, v)
        PROVE  ExpectsSaved'
    BY <1>8 DEF Save
  <1>9. ASSUME NEW c \in Clients, SaveDb(c)
        PROVE  ExpectsSaved'
    BY <1>9 DEF SaveDb
  <1>10. ASSUME NEW c \in Clients, SaveDbError(c)
         PROVE  ExpectsSaved'
    BY <1>10 DEF SaveDbError
  <1>11. ASSUME NEW c \in Clients, SaveCache(c)
         PROVE  ExpectsSaved'
    BY <1>11 DEF SaveCache
  <1>12. ASSUME NEW c \in Clients, WriteAgain(c)
         PROVE  ExpectsSaved'
    BY <1>12 DEF WriteAgain
  <1>13. ASSUME NEW u \in Uids, DeleteOrder(u)
         PROVE  ExpectsSaved'
    BY <1>13 DEF DeleteOrder
  <1>14. ASSUME NEW u \in Uids, WarmNext(u)
         PROVE  ExpectsSaved'
    BY <1>14 DEF WarmNext
  <1>15. CASE GetLastOrdersUIDs
    BY <1>15 DEF GetLastOrdersUIDs
  <1>16. ASSUME NEW S \in SUBSET Uids, Evict(S)
         PROVE  ExpectsSaved'
    BY <1>16 DEF Evict
  <1>17. CASE Restart
    BY <1>17 DEF Restart
  <1>18. CASE UNCHANGED vars
    BY <1>18 DEF vars
  <1> QED
    BY <1>1, <1>2, <1>3, <1>4, <1>5, <1>6, <1>7, <1>8, <1>9, <1>10,
       <1>11, <1>12, <1>13, <1>14, <1>15, <1>16, <1>17, <1>18
    DEF Next, Reader, Writer

(* SaveOrder returns nil only after the row is there. *)
LEMMA SavedStep ==
  ASSUME IInv, TypeOK', Grows, [Next]_vars
  PROVE  SavedStored'
  <1> USE DEF StoredUids, IInv, Grows, SavedStored, Goto, dbVars, cacheVars, callVars, warmVars, readVars, saveVars
  <1>1. ASSUME NEW c \in Clients, NEW u \in Uids, GetOrder(c, u)
        PROVE  SavedStored'
    BY <1>1 DEF GetOrder, StoredUids, TypeOK
  <1>2. ASSUME NEW c \in Clients, CacheHit(c)
        PROVE  SavedStored'
    BY <1>2 DEF CacheHit, StoredUids, TypeOK
  <1>3. ASSUME NEW c \in Clients, CacheMiss(c)
        PROVE  SavedStored'
    BY <1>3 DEF CacheMiss, StoredUids, TypeOK
  <1>4. ASSUME NEW c \in Clients, ReadDb(c)
        PROVE  SavedStored'
    BY <1>4 DEF ReadDb, StoredUids, TypeOK
  <1>5. ASSUME NEW c \in Clients, NotFound(c)
        PROVE  SavedStored'
    BY <1>5 DEF NotFound, StoredUids, TypeOK
  <1>6. ASSUME NEW c \in Clients, ReadDbError(c)
        PROVE  SavedStored'
    BY <1>6 DEF ReadDbError, StoredUids, TypeOK
  <1>7. ASSUME NEW c \in Clients, Fill(c)
        PROVE  SavedStored'
    BY <1>7 DEF Fill, StoredUids, TypeOK
  <1>8. ASSUME NEW c \in Clients, NEW u \in Uids, NEW v \in Orders, Save(c, u, v)
        PROVE  SavedStored'
    BY <1>8 DEF Save, StoredUids, TypeOK
  <1>9. ASSUME NEW c \in Clients, SaveDb(c)
        PROVE  SavedStored'
    <2>1. /\ uid[c] \in Uids /\ order[c] \in Orders
          /\ saved' = saved \cup {uid[c]} /\ Store(c)
          /\ deleted' = deleted
      BY <1>9 DEF SaveDb, TypeOK
    <2>2. \A u \in Uids : db[u] # NoOrder => db'[u] = db[u]
      BY <2>1 DEF Store, TypeOK
    <2>3. db'[uid[c]] # NoOrder
      BY <2>1, RepoAssumption DEF Store, TypeOK
    <2> QED
      BY <2>1, <2>2, <2>3 DEF StoredUids
  <1>10. ASSUME NEW c \in Clients, SaveDbError(c)
         PROVE  SavedStored'
    BY <1>10 DEF SaveDbError, StoredUids, TypeOK
  <1>11. ASSUME NEW c \in Clients, SaveCache(c)
         PROVE  SavedStored'
    BY <1>11 DEF SaveCache, StoredUids, TypeOK
  <1>12. ASSUME NEW c \in Clients, WriteAgain(c)
         PROVE  SavedStored'
    BY <1>12 DEF WriteAgain, StoredUids, TypeOK
  <1>13. ASSUME NEW u \in Uids, DeleteOrder(u)
         PROVE  SavedStored'
    BY <1>13 DEF DeleteOrder, StoredUids, TypeOK
  <1>14. ASSUME NEW u \in Uids, WarmNext(u)
         PROVE  SavedStored'
    BY <1>14 DEF WarmNext, StoredUids, TypeOK
  <1>15. CASE GetLastOrdersUIDs
    BY <1>15 DEF GetLastOrdersUIDs, StoredUids, TypeOK
  <1>16. ASSUME NEW S \in SUBSET Uids, Evict(S)
         PROVE  SavedStored'
    BY <1>16 DEF Evict, StoredUids, TypeOK
  <1>17. CASE Restart
    BY <1>17 DEF Restart, StoredUids, TypeOK
  <1>18. CASE UNCHANGED vars
    BY <1>18 DEF vars, StoredUids, TypeOK
  <1> QED
    BY <1>1, <1>2, <1>3, <1>4, <1>5, <1>6, <1>7, <1>8, <1>9, <1>10,
       <1>11, <1>12, <1>13, <1>14, <1>15, <1>16, <1>17, <1>18
    DEF Next, Reader, Writer

(* Only a missing row is reported as missing. *)
LEMMA MissStep ==
  ASSUME IInv, TypeOK', Grows, [Next]_vars
  PROVE  ReadYourWrites'
  <1> USE RepoAssumption DEF IInv, Grows, ReadYourWrites, Goto, dbVars, cacheVars, callVars, warmVars, readVars, saveVars
  <1>1. ASSUME NEW c \in Clients, NEW u \in Uids, GetOrder(c, u)
        PROVE  ReadYourWrites'
    BY <1>1 DEF GetOrder, TypeOK, Return, Clients, Error
  <1>2. ASSUME NEW c \in Clients, CacheHit(c)
        PROVE  ReadYourWrites'
    BY <1>2 DEF CacheHit, TypeOK, Return, Clients, Error
  <1>3. ASSUME NEW c \in Clients, CacheMiss(c)
        PROVE  ReadYourWrites'
    BY <1>3 DEF CacheMiss, TypeOK, Return, Clients, Error
  <1>4. ASSUME NEW c \in Clients, ReadDb(c)
        PROVE  ReadYourWrites'
    BY <1>4 DEF ReadDb, TypeOK, Return, Clients, Error
  <1>5. ASSUME NEW c \in Clients, NotFound(c)
        PROVE  ReadYourWrites'
    <2>1. uid[c] \in Uids /\ expects[c] \subseteq saved
      BY <1>5 DEF NotFound, TypeOK, ExpectsSaved
    <2>2. \/ uid[c] \notin expects[c] \/ uid[c] \in deleted
          \/ ~(sent[uid[c]] \subseteq Joined)
      BY <1>5, <2>1 DEF NotFound, SavedStored, StoredUids, RowsSent
    <2> QED
      BY <1>5, <2>2 DEF NotFound, Return, TypeOK, Clients
  <1>6. ASSUME NEW c \in Clients, ReadDbError(c)
        PROVE  ReadYourWrites'
    BY <1>6 DEF ReadDbError, TypeOK, Return, Clients, Error
  <1>7. ASSUME NEW c \in Clients, Fill(c)
        PROVE  ReadYourWrites'
    BY <1>7 DEF Fill, TypeOK, Return, Clients, Error
  <1>8. ASSUME NEW c \in Clients, NEW u \in Uids, NEW v \in Orders, Save(c, u, v)
        PROVE  ReadYourWrites'
    BY <1>8 DEF Save, TypeOK, Return, Clients, Error
  <1>9. ASSUME NEW c \in Clients, SaveDb(c)
        PROVE  ReadYourWrites'
    BY <1>9 DEF SaveDb, TypeOK, Return, Clients, Error
  <1>10. ASSUME NEW c \in Clients, SaveDbError(c)
         PROVE  ReadYourWrites'
    BY <1>10 DEF SaveDbError, TypeOK, Return, Clients, Error
  <1>11. ASSUME NEW c \in Clients, SaveCache(c)
         PROVE  ReadYourWrites'
    BY <1>11 DEF SaveCache, TypeOK, Return, Clients, Error
  <1>12. ASSUME NEW c \in Clients, WriteAgain(c)
         PROVE  ReadYourWrites'
    BY <1>12 DEF WriteAgain, TypeOK, Return, Clients, Error
  <1>13. ASSUME NEW u \in Uids, DeleteOrder(u)
         PROVE  ReadYourWrites'
    BY <1>13 DEF DeleteOrder, TypeOK, Return, Clients, Error
  <1>14. ASSUME NEW u \in Uids, WarmNext(u)
         PROVE  ReadYourWrites'
    BY <1>14 DEF WarmNext, TypeOK, Return, Clients, Error
  <1>15. CASE GetLastOrdersUIDs
    BY <1>15 DEF GetLastOrdersUIDs, TypeOK, Return, Clients, Error
  <1>16. ASSUME NEW S \in SUBSET Uids, Evict(S)
         PROVE  ReadYourWrites'
    BY <1>16 DEF Evict, TypeOK, Return, Clients, Error
  <1>17. CASE Restart
    BY <1>17 DEF Restart, TypeOK, Return, Clients, Error
  <1>18. CASE UNCHANGED vars
    BY <1>18 DEF vars, TypeOK, Return, Clients, Error
  <1> QED
    BY <1>1, <1>2, <1>3, <1>4, <1>5, <1>6, <1>7, <1>8, <1>9, <1>10,
       <1>11, <1>12, <1>13, <1>14, <1>15, <1>16, <1>17, <1>18
    DEF Next, Reader, Writer

(* What reaches the cache or a reader comes from a stored row. *)
LEMMA ServedStep ==
  ASSUME IInv, TypeOK', Grows, [Next]_vars
  PROVE  ServedIsStored'
  <1> USE DEF IInv, Grows, ServedIsStored, Goto, dbVars, cacheVars, callVars, warmVars, readVars, saveVars
  <1>1. ASSUME NEW c \in Clients, NEW u \in Uids, GetOrder(c, u)
        PROVE  ServedIsStored'
    BY <1>1 DEF GetOrder, TypeOK
  <1>2. ASSUME NEW c \in Clients, CacheHit(c)
        PROVE  ServedIsStored'
    <2>1. \A u \in Uids, v \in Orders : <<u, v>> \in answers' =>
            <<u, v>> \in answers \/ (u = uid[c] /\ cache[u] # NoOrder)
      BY <1>2 DEF CacheHit, Answer
    <2> QED
      BY <1>2, <2>1 DEF CacheHit
  <1>3. ASSUME NEW c \in Clients, CacheMiss(c)
        PROVE  ServedIsStored'
    BY <1>3 DEF CacheMiss, TypeOK
  <1>4. ASSUME NEW c \in Clients, ReadDb(c)
        PROVE  ServedIsStored'
    BY <1>4 DEF ReadDb, Cache!Begin, TypeOK
  <1>5. ASSUME NEW c \in Clients, NotFound(c)
        PROVE  ServedIsStored'
    BY <1>5 DEF NotFound, TypeOK
  <1>6. ASSUME NEW c \in Clients, ReadDbError(c)
        PROVE  ServedIsStored'
    BY <1>6 DEF ReadDbError, TypeOK
  <1>7. ASSUME NEW c \in Clients, Fill(c)
        PROVE  ServedIsStored'
    <2>1. /\ writing[c] # NoWrite
          /\ writing[c] = <<uid[c], order[c]>>
          /\ uid[c] \in Uids
          /\ uid[c] \notin deleted => db[uid[c]] # NoOrder
      BY <1>7 DEF Fill, TypeOK, WriteStored
    <2>2. \A u \in Uids : cache'[u] = cache[u]
                           \/ (u = uid[c] /\ cache'[u] = order[c])
      BY <1>7, <2>1, WriteStep DEF Fill, WriteEnds
    <2>3. \A u \in Uids, v \in Orders : <<u, v>> \in answers' =>
            <<u, v>> \in answers \/ u = uid[c]
      BY <1>7 DEF Fill, Answer
    <2> QED
      BY <1>7, <2>1, <2>2, <2>3 DEF Fill
  <1>8. ASSUME NEW c \in Clients, NEW u \in Uids, NEW v \in Orders, Save(c, u, v)
        PROVE  ServedIsStored'
    BY <1>8 DEF Save, TypeOK
  <1>9. ASSUME NEW c \in Clients, SaveDb(c)
        PROVE  ServedIsStored'
    BY <1>9 DEF SaveDb, Cache!Begin, TypeOK
  <1>10. ASSUME NEW c \in Clients, SaveDbError(c)
         PROVE  ServedIsStored'
    BY <1>10 DEF SaveDbError, TypeOK
  <1>11. ASSUME NEW c \in Clients, SaveCache(c)
         PROVE  ServedIsStored'
    <2>1. /\ writing[c] # NoWrite
          /\ writing[c] = <<uid[c], order[c]>>
          /\ uid[c] \in Uids
          /\ uid[c] \notin deleted => db[uid[c]] # NoOrder
      BY <1>11 DEF SaveCache, TypeOK, WriteStored
    <2>2. \A u \in Uids : cache'[u] = cache[u]
                           \/ (u = uid[c] /\ cache'[u] = order[c])
      BY <1>11, <2>1, WriteStep DEF SaveCache, WriteEnds
    <2> QED
      BY <1>11, <2>1, <2>2 DEF SaveCache
  <1>12. ASSUME NEW c \in Clients, WriteAgain(c)
         PROVE  ServedIsStored'
    <2>1. /\ writing[c] # NoWrite
          /\ writing[c] = <<uid[c], order[c]>>
          /\ uid[c] \in Uids
          /\ uid[c] \notin deleted => db[uid[c]] # NoOrder
      BY <1>12 DEF WriteAgain, TypeOK, WriteStored
    <2>2. \A u \in Uids : cache'[u] = cache[u]
                           \/ (u = uid[c] /\ cache'[u] = order[c])
      BY <1>12, <2>1, WriteStep DEF WriteAgain, WriteEnds
    <2> QED
      BY <1>12, <2>1, <2>2 DEF WriteAgain
  <1>13. ASSUME NEW u \in Uids, DeleteOrder(u)
         PROVE  ServedIsStored'
    BY <1>13 DEF DeleteOrder, TypeOK
  <1>14. ASSUME NEW u \in Uids, WarmNext(u)
         PROVE  ServedIsStored'
    BY <1>14 DEF WarmNext, TypeOK
  <1>15. CASE GetLastOrdersUIDs
    BY <1>15 DEF GetLastOrdersUIDs, TypeOK
  <1>16. ASSUME NEW S \in SUBSET Uids, Evict(S)
         PROVE  ServedIsStored'
    BY <1>16 DEF Evict, Cache!Drop, TypeOK
  <1>17. CASE Restart
    BY <1>17 DEF Restart, Cache!Crash, TypeOK
  <1>18. CASE UNCHANGED vars
    BY <1>18 DEF vars, TypeOK
  <1> QED
    BY <1>1, <1>2, <1>3, <1>4, <1>5, <1>6, <1>7, <1>8, <1>9, <1>10,
       <1>11, <1>12, <1>13, <1>14, <1>15, <1>16, <1>17, <1>18
    DEF Next, Reader, Writer

(* A call writes to the cache the order it has just saved or read. *)
LEMMA WriteStoredStep ==
  ASSUME IInv, TypeOK', Grows, [Next]_vars
  PROVE  WriteStored'
  <1> USE DEF IInv, Grows, WriteStored, Goto, dbVars, cacheVars, callVars, warmVars, readVars, saveVars
  <1>1. ASSUME NEW c \in Clients, NEW u \in Uids, GetOrder(c, u)
        PROVE  WriteStored'
    BY <1>1 DEF GetOrder, TypeOK, Return, Clients, Cache!Drop, Store
  <1>2. ASSUME NEW c \in Clients, CacheHit(c)
        PROVE  WriteStored'
    BY <1>2 DEF CacheHit, TypeOK, Return, Clients, Cache!Drop, Store
  <1>3. ASSUME NEW c \in Clients, CacheMiss(c)
        PROVE  WriteStored'
    BY <1>3 DEF CacheMiss, TypeOK, Return, Clients, Cache!Drop, Store
  <1>4. ASSUME NEW c \in Clients, ReadDb(c)
        PROVE  WriteStored'
    <2>1. PICK v \in Returned(uid[c]) :
            /\ writing' = [writing EXCEPT ![c] = <<uid[c], v>>]
            /\ order' = [order EXCEPT ![c] = v]
      BY <1>4 DEF ReadDb, Cache!Begin
    <2>2. /\ UNCHANGED <<db, uid, deleted>>
          /\ db[uid[c]] # NoOrder
      BY <1>4 DEF ReadDb
    <2> QED
      BY <2>1, <2>2 DEF TypeOK
  <1>5. ASSUME NEW c \in Clients, NotFound(c)
        PROVE  WriteStored'
    BY <1>5 DEF NotFound, TypeOK, Return, Clients, Cache!Drop, Store
  <1>6. ASSUME NEW c \in Clients, ReadDbError(c)
        PROVE  WriteStored'
    BY <1>6 DEF ReadDbError, TypeOK, Return, Clients, Cache!Drop, Store
  <1>7. ASSUME NEW c \in Clients, Fill(c)
        PROVE  WriteStored'
    <2>1. /\ writing'[c] = NoWrite
          /\ \A d \in Clients \ {c} : writing'[d] = writing[d] /\ order'[d] = order[d]
      BY <1>7, WriteStep DEF Fill, WriteEnds, Return, Cache!Abandon, TypeOK
    <2> QED
      BY <1>7, <2>1 DEF Fill, Return
  <1>8. ASSUME NEW c \in Clients, NEW u \in Uids, NEW v \in Orders, Save(c, u, v)
        PROVE  WriteStored'
    BY <1>8 DEF Save, TypeOK, Return, Clients, Cache!Drop, Store
  <1>9. ASSUME NEW c \in Clients, SaveDb(c)
        PROVE  WriteStored'
    <2>1. /\ writing' = [writing EXCEPT ![c] = <<uid[c], order[c]>>]
          /\ UNCHANGED <<uid, order, deleted>>
      BY <1>9 DEF SaveDb, Cache!Begin
    <2>2. db'[uid[c]] # NoOrder
      BY <1>9, RepoAssumption DEF SaveDb, Store, TypeOK
    <2> QED
      BY <2>1, <2>2, <1>9 DEF TypeOK
  <1>10. ASSUME NEW c \in Clients, SaveDbError(c)
         PROVE  WriteStored'
    BY <1>10 DEF SaveDbError, TypeOK, Return, Clients, Cache!Drop, Store
  <1>11. ASSUME NEW c \in Clients, SaveCache(c)
         PROVE  WriteStored'
    <2>1. /\ writing'[c] = NoWrite
          /\ \A d \in Clients \ {c} : writing'[d] = writing[d] /\ order'[d] = order[d]
      BY <1>11, WriteStep DEF SaveCache, WriteEnds, Return, Cache!Abandon, TypeOK
    <2> QED
      BY <1>11, <2>1 DEF SaveCache, Return
  <1>12. ASSUME NEW c \in Clients, WriteAgain(c)
         PROVE  WriteStored'
    <2>1. \A d \in Clients : writing'[d] \in {writing[d], NoWrite}
      BY <1>12, WriteStep DEF WriteAgain
    <2> QED
      BY <1>12, <2>1 DEF WriteAgain
  <1>13. ASSUME NEW u \in Uids, DeleteOrder(u)
         PROVE  WriteStored'
    BY <1>13 DEF DeleteOrder, TypeOK, Return, Clients, Cache!Drop, Store
  <1>14. ASSUME NEW u \in Uids, WarmNext(u)
         PROVE  WriteStored'
    BY <1>14 DEF WarmNext, TypeOK, Return, Clients, Cache!Drop, Store
  <1>15. CASE GetLastOrdersUIDs
    BY <1>15 DEF GetLastOrdersUIDs, TypeOK, Return, Clients, Cache!Drop, Store
  <1>16. ASSUME NEW S \in SUBSET Uids, Evict(S)
         PROVE  WriteStored'
    BY <1>16 DEF Evict, TypeOK, Return, Clients, Cache!Drop, Store
  <1>17. CASE Restart
    BY <1>17 DEF Restart, Cache!Crash, TypeOK, Return, Clients
  <1>18. CASE UNCHANGED vars
    BY <1>18 DEF vars, TypeOK, Return, Clients, Cache!Drop, Store
  <1> QED
    BY <1>1, <1>2, <1>3, <1>4, <1>5, <1>6, <1>7, <1>8, <1>9, <1>10,
       <1>11, <1>12, <1>13, <1>14, <1>15, <1>16, <1>17, <1>18
    DEF Next, Reader, Writer

(* Rows hold what was sent. *)
LEMMA RowsStep ==
  ASSUME IInv, TypeOK', Grows, [Next]_vars
  PROVE  RowsSent'
  <1> USE DEF IInv, Grows, RowsSent, Goto, Return, dbVars, cacheVars, callVars, warmVars, readVars, saveVars
  <1>1. ASSUME NEW c \in Clients, NEW u \in Uids, GetOrder(c, u)
        PROVE  RowsSent'
    BY <1>1 DEF GetOrder, TypeOK
  <1>2. ASSUME NEW c \in Clients, CacheHit(c)
        PROVE  RowsSent'
    BY <1>2 DEF CacheHit, TypeOK
  <1>3. ASSUME NEW c \in Clients, CacheMiss(c)
        PROVE  RowsSent'
    BY <1>3 DEF CacheMiss, TypeOK
  <1>4. ASSUME NEW c \in Clients, ReadDb(c)
        PROVE  RowsSent'
    BY <1>4 DEF ReadDb, TypeOK
  <1>5. ASSUME NEW c \in Clients, NotFound(c)
        PROVE  RowsSent'
    BY <1>5 DEF NotFound, TypeOK
  <1>6. ASSUME NEW c \in Clients, ReadDbError(c)
        PROVE  RowsSent'
    BY <1>6 DEF ReadDbError, TypeOK
  <1>7. ASSUME NEW c \in Clients, Fill(c)
        PROVE  RowsSent'
    BY <1>7 DEF Fill, TypeOK
  <1>8. ASSUME NEW c \in Clients, NEW u \in Uids, NEW v \in Orders, Save(c, u, v)
        PROVE  RowsSent'
    BY <1>8 DEF Save, TypeOK
  <1>9. ASSUME NEW c \in Clients, SaveDb(c)
        PROVE  RowsSent'
    <2>1. uid[c] \in Uids /\ order[c] \in Orders /\ order[c] \in sent[uid[c]]
      BY <1>9 DEF SaveDb, TypeOK
    <2>2. db' \in {db, [db EXCEPT ![uid[c]] = order[c]]}
      BY <1>9 DEF SaveDb, Store
    <2> QED
      BY <1>9, <2>1, <2>2 DEF SaveDb, TypeOK
  <1>10. ASSUME NEW c \in Clients, SaveDbError(c)
        PROVE  RowsSent'
    <2>1. uid[c] \in Uids /\ order[c] \in Orders /\ order[c] \in sent[uid[c]]
      BY <1>10 DEF SaveDbError, TypeOK
    <2>2. db' \in {db, [db EXCEPT ![uid[c]] = order[c]]}
      BY <1>10 DEF SaveDbError, Store
    <2> QED
      BY <1>10, <2>1, <2>2 DEF SaveDbError, TypeOK
  <1>11. ASSUME NEW c \in Clients, SaveCache(c)
        PROVE  RowsSent'
    BY <1>11 DEF SaveCache, TypeOK
  <1>12. ASSUME NEW c \in Clients, WriteAgain(c)
        PROVE  RowsSent'
    BY <1>12 DEF WriteAgain, TypeOK
  <1>13. ASSUME NEW u \in Uids, DeleteOrder(u)
        PROVE  RowsSent'
    BY <1>13 DEF DeleteOrder, TypeOK
  <1>14. ASSUME NEW u \in Uids, WarmNext(u)
        PROVE  RowsSent'
    BY <1>14 DEF WarmNext, TypeOK
  <1>15. CASE GetLastOrdersUIDs
    BY <1>15 DEF GetLastOrdersUIDs, TypeOK
  <1>16. ASSUME NEW S \in SUBSET Uids, Evict(S)
        PROVE  RowsSent'
    BY <1>16 DEF Evict, TypeOK
  <1>17. CASE Restart
    BY <1>17 DEF Restart, TypeOK
  <1>18. CASE UNCHANGED vars
    BY <1>18 DEF vars, TypeOK
  <1> QED
    BY <1>1, <1>2, <1>3, <1>4, <1>5, <1>6, <1>7, <1>8, <1>9, <1>10,
       <1>11, <1>12, <1>13, <1>14, <1>15, <1>16, <1>17, <1>18
    DEF Next, Reader, Writer

(* Only a save with another content links items to a stored order.           *)
LEMMA MixedStep ==
  ASSUME IInv, TypeOK', Grows, [Next]_vars
  PROVE  MixedDiffer'
  <1> USE DEF IInv, Grows, MixedDiffer, SameContent, dbVars, cacheVars, callVars, warmVars, readVars, saveVars
  <1>1. ASSUME NEW c \in Clients, NEW u \in Uids, GetOrder(c, u)
        PROVE  MixedDiffer'
    BY <1>1 DEF GetOrder, TypeOK
  <1>2. ASSUME NEW c \in Clients, CacheHit(c)
        PROVE  MixedDiffer'
    BY <1>2 DEF CacheHit, TypeOK
  <1>3. ASSUME NEW c \in Clients, CacheMiss(c)
        PROVE  MixedDiffer'
    BY <1>3 DEF CacheMiss, TypeOK
  <1>4. ASSUME NEW c \in Clients, ReadDb(c)
        PROVE  MixedDiffer'
    BY <1>4 DEF ReadDb, TypeOK
  <1>5. ASSUME NEW c \in Clients, NotFound(c)
        PROVE  MixedDiffer'
    BY <1>5 DEF NotFound, TypeOK
  <1>6. ASSUME NEW c \in Clients, ReadDbError(c)
        PROVE  MixedDiffer'
    BY <1>6 DEF ReadDbError, TypeOK
  <1>7. ASSUME NEW c \in Clients, Fill(c)
        PROVE  MixedDiffer'
    BY <1>7 DEF Fill, TypeOK
  <1>8. ASSUME NEW c \in Clients, NEW u \in Uids, NEW v \in Orders, Save(c, u, v)
        PROVE  MixedDiffer'
    BY <1>8 DEF Save, TypeOK
  <1>9. ASSUME NEW c \in Clients, SaveDb(c)
        PROVE  MixedDiffer'
    <2>1. uid[c] \in Uids /\ order[c] \in sent[uid[c]]
      BY <1>9 DEF SaveDb, TypeOK, RowsSent
    <2>2. \/ mixed' = mixed
          \/ /\ mixed' = mixed \cup {uid[c]}
             /\ db[uid[c]] # NoOrder /\ db[uid[c]] # order[c]
      BY <1>9 DEF SaveDb, Store
    <2>3. db[uid[c]] # NoOrder => db[uid[c]] \in sent[uid[c]]
      BY <2>1 DEF RowsSent
    <2> QED
      BY <1>9, <2>1, <2>2, <2>3 DEF SaveDb
  <1>10. ASSUME NEW c \in Clients, SaveDbError(c)
        PROVE  MixedDiffer'
    <2>1. uid[c] \in Uids /\ order[c] \in sent[uid[c]]
      BY <1>10 DEF SaveDbError, TypeOK, RowsSent
    <2>2. \/ mixed' = mixed
          \/ /\ mixed' = mixed \cup {uid[c]}
             /\ db[uid[c]] # NoOrder /\ db[uid[c]] # order[c]
      BY <1>10 DEF SaveDbError, Store
    <2>3. db[uid[c]] # NoOrder => db[uid[c]] \in sent[uid[c]]
      BY <2>1 DEF RowsSent
    <2> QED
      BY <1>10, <2>1, <2>2, <2>3 DEF SaveDbError
  <1>11. ASSUME NEW c \in Clients, SaveCache(c)
        PROVE  MixedDiffer'
    BY <1>11 DEF SaveCache, TypeOK
  <1>12. ASSUME NEW c \in Clients, WriteAgain(c)
        PROVE  MixedDiffer'
    BY <1>12 DEF WriteAgain, TypeOK
  <1>13. ASSUME NEW u \in Uids, DeleteOrder(u)
        PROVE  MixedDiffer'
    BY <1>13 DEF DeleteOrder, TypeOK
  <1>14. ASSUME NEW u \in Uids, WarmNext(u)
        PROVE  MixedDiffer'
    BY <1>14 DEF WarmNext, TypeOK
  <1>15. CASE GetLastOrdersUIDs
    BY <1>15 DEF GetLastOrdersUIDs, TypeOK
  <1>16. ASSUME NEW S \in SUBSET Uids, Evict(S)
        PROVE  MixedDiffer'
    BY <1>16 DEF Evict, TypeOK
  <1>17. CASE Restart
    BY <1>17 DEF Restart, TypeOK
  <1>18. CASE UNCHANGED vars
    BY <1>18 DEF vars, TypeOK
  <1> QED
    BY <1>1, <1>2, <1>3, <1>4, <1>5, <1>6, <1>7, <1>8, <1>9, <1>10,
       <1>11, <1>12, <1>13, <1>14, <1>15, <1>16, <1>17, <1>18
    DEF Next, Reader, Writer

(* An order that is Alike after a step was Alike before, and its rows are    *)
(* read back as they are.                                                    *)
LEMMA AlikeKept ==
  ASSUME Grows, NEW u \in Uids, Alike(u)'
  PROVE  Alike(u)
  BY DEF Grows, Alike, SameContent

LEMMA AlikeReturned ==
  ASSUME IInv, NEW u \in Uids, Alike(u), db[u] # NoOrder
  PROVE  Returned(u) = {db[u]} /\ db[u] \in sent[u]
  BY DEF IInv, RowsSent, MixedDiffer, Alike, Returned

(* What is shown of an order that is Alike is copied, never made up.         *)
Copied(u) ==
  /\ cache[u] \in sent[u] \cup {NoOrder}
  /\ \A c \in Clients : pc[c] = "fill" /\ uid[c] = u => order[c] \in sent[u]
  /\ \A v \in Orders : <<u, v>> \in answers => v \in sent[u]

LEMMA CopiedStep ==
  ASSUME IInv, TypeOK', Grows, [Next]_vars,
         NEW x \in Uids, Alike(x), Copied(x)
  PROVE  Copied(x)'
  <1> USE DEF IInv, Grows, Copied, Goto, Return, dbVars, cacheVars, callVars, warmVars, readVars, saveVars
  <1>1. ASSUME NEW c \in Clients, NEW u \in Uids, GetOrder(c, u)
        PROVE  Copied(x)'
    BY <1>1 DEF GetOrder, TypeOK
  <1>2. ASSUME NEW c \in Clients, CacheHit(c)
        PROVE  Copied(x)'
    BY <1>2 DEF CacheHit, Answer, TypeOK
  <1>3. ASSUME NEW c \in Clients, CacheMiss(c)
        PROVE  Copied(x)'
    BY <1>3 DEF CacheMiss, TypeOK
  <1>4. ASSUME NEW c \in Clients, ReadDb(c)
        PROVE  Copied(x)'
    <2>1. PICK v \in Returned(uid[c]) : order' = [order EXCEPT ![c] = v]
      BY <1>4 DEF ReadDb
    <2>2. uid[c] = x => v \in sent[x]
      BY <1>4, <2>1, AlikeReturned DEF ReadDb
    <2> QED
      BY <1>4, <2>1, <2>2 DEF ReadDb, Cache!Begin, TypeOK
  <1>5. ASSUME NEW c \in Clients, NotFound(c)
        PROVE  Copied(x)'
    BY <1>5 DEF NotFound, TypeOK
  <1>6. ASSUME NEW c \in Clients, ReadDbError(c)
        PROVE  Copied(x)'
    BY <1>6 DEF ReadDbError, TypeOK
  <1>7. ASSUME NEW c \in Clients, Fill(c)
        PROVE  Copied(x)'
    <2>1. /\ writing[c] # NoWrite
          /\ writing[c] = <<uid[c], order[c]>>
          /\ uid[c] \in Uids
      BY <1>7 DEF Fill, TypeOK, WriteStored
    <2>2. \A u \in Uids : cache'[u] = cache[u]
                           \/ (u = uid[c] /\ cache'[u] = order[c])
      BY <1>7, <2>1, WriteStep DEF Fill, WriteEnds
    <2>3. uid[c] = x => order[c] \in sent[x]
      BY <1>7 DEF Fill, RowsSent, TypeOK
    <2>4. \A v \in Orders : <<x, v>> \in answers' =>
            <<x, v>> \in answers \/ (x = uid[c] /\ v = order[c])
      BY <1>7 DEF Fill, Answer
    <2> QED
      BY <1>7, <2>2, <2>3, <2>4 DEF Fill, TypeOK
  <1>8. ASSUME NEW c \in Clients, NEW u \in Uids, NEW v \in Orders, Save(c, u, v)
        PROVE  Copied(x)'
    BY <1>8 DEF Save, TypeOK
  <1>9. ASSUME NEW c \in Clients, SaveDb(c)
        PROVE  Copied(x)'
    BY <1>9 DEF SaveDb, Cache!Begin, TypeOK
  <1>10. ASSUME NEW c \in Clients, SaveDbError(c)
        PROVE  Copied(x)'
    BY <1>10 DEF SaveDbError, TypeOK
  <1>11. ASSUME NEW c \in Clients, SaveCache(c)
        PROVE  Copied(x)'
    <2>1. /\ writing[c] # NoWrite
          /\ writing[c] = <<uid[c], order[c]>>
          /\ uid[c] \in Uids
      BY <1>11 DEF SaveCache, TypeOK, WriteStored
    <2>2. \A u \in Uids : cache'[u] = cache[u]
                           \/ (u = uid[c] /\ cache'[u] = order[c])
      BY <1>11, <2>1, WriteStep DEF SaveCache, WriteEnds
    <2>3. uid[c] = x => order[c] \in sent[x]
      BY <1>11 DEF SaveCache, RowsSent, TypeOK
    <2> QED
      BY <1>11, <2>2, <2>3 DEF SaveCache, TypeOK
  <1>12. ASSUME NEW c \in Clients, WriteAgain(c)
        PROVE  Copied(x)'
    <2>1. /\ writing[c] # NoWrite
          /\ writing[c] = <<uid[c], order[c]>>
          /\ uid[c] \in Uids
      BY <1>12 DEF WriteAgain, TypeOK, WriteStored
    <2>2. \A u \in Uids : cache'[u] = cache[u]
                           \/ (u = uid[c] /\ cache'[u] = order[c])
      BY <1>12, <2>1, WriteStep DEF WriteAgain, WriteEnds
    <2>3. uid[c] = x => order[c] \in sent[x]
      BY <1>12, WriteStep DEF WriteAgain, RowsSent, TypeOK
    <2> QED
      BY <1>12, <2>2, <2>3 DEF WriteAgain, TypeOK
  <1>13. ASSUME NEW u \in Uids, DeleteOrder(u)
        PROVE  Copied(x)'
    BY <1>13 DEF DeleteOrder, TypeOK
  <1>14. ASSUME NEW u \in Uids, WarmNext(u)
        PROVE  Copied(x)'
    BY <1>14 DEF WarmNext, TypeOK
  <1>15. CASE GetLastOrdersUIDs
    BY <1>15 DEF GetLastOrdersUIDs, TypeOK
  <1>16. ASSUME NEW S \in SUBSET Uids, Evict(S)
        PROVE  Copied(x)'
    BY <1>16 DEF Evict, Cache!Drop, TypeOK
  <1>17. CASE Restart
    BY <1>17 DEF Restart, Cache!Crash, TypeOK
  <1>18. CASE UNCHANGED vars
    BY <1>18 DEF vars, TypeOK
  <1> QED
    BY <1>1, <1>2, <1>3, <1>4, <1>5, <1>6, <1>7, <1>8, <1>9, <1>10,
       <1>11, <1>12, <1>13, <1>14, <1>15, <1>16, <1>17, <1>18
    DEF Next, Reader, Writer

LEMMA ContentStep ==
  ASSUME IInv, TypeOK', Grows, [Next]_vars
  PROVE  ContentSent'
  <1>1. ASSUME NEW u \in Uids, Alike(u)' PROVE Copied(u)'
    <2>1. Alike(u)
      BY <1>1, AlikeKept
    <2>2. Copied(u)
      BY <2>1 DEF IInv, ContentSent, Copied
    <2> QED
      BY <2>1, <2>2, CopiedStep
  <1> QED
    BY <1>1 DEF ContentSent, Copied

LEMMA InvStep == IInv /\ [Next]_vars => IInv'
  <1> SUFFICES ASSUME IInv, [Next]_vars PROVE IInv'
    OBVIOUS
  <1>1. TypeOK /\ TypeOK' /\ Grows
    BY TypeStep, GrowsStep DEF IInv
  <1>2. ReadYourWrites' /\ ServedIsStored' /\ WriteStored'
    BY <1>1, MissStep, ServedStep, WriteStoredStep
  <1>3. SavedStored' /\ ExpectsSaved'
    BY <1>1, SavedStep, ExpectsStep
  <1>4. RowsSent' /\ MixedDiffer' /\ ContentSent'
    BY <1>1, RowsStep, MixedStep, ContentStep
  <1> QED
    BY <1>1, <1>2, <1>3, <1>4 DEF IInv

LEMMA Invariance == Spec => []IInv
  BY InitInv, InvStep, PTL DEF Spec

---------------------------------------------------------------------------

(* Every variable of the repository keeps its type, and a call has a write   *)
(* under way exactly while it is in CacheRepository.SaveOrder.               *)
THEOREM RepoTypeCorrect == Spec => []TypeOK
  <1>1. IInv => TypeOK
    BY DEF IInv
  <1> QED
    BY <1>1, Invariance, PTL

(* A reader that starts after SaveOrder returned nil finds the order, when   *)
(* every content it was sent with has its uid for transaction.               *)
THEOREM SavedIsFound == Spec => []ReadYourWrites
  <1>1. IInv => ReadYourWrites
    BY DEF IInv
  <1> QED
    BY <1>1, Invariance, PTL

(* Nothing is cached or shown that is not in the database.                   *)
THEOREM NothingUnstored == Spec => []ServedIsStored
  <1>1. IInv => ServedIsStored
    BY DEF IInv
  <1> QED
    BY <1>1, Invariance, PTL

(* Cache, readers and database agree on an order that is always sent with    *)
(* one content, names its uid as transaction and shares no item.             *)
THEOREM CacheAgrees == Spec => []CopiesAgree
  <1>1. ASSUME IInv PROVE CopiesAgree
    <2> SUFFICES ASSUME NEW u \in Uids \ deleted, Alike(u)
                 PROVE  /\ cache[u] \in {NoOrder, db[u]}
                        /\ \A v \in Orders : <<u, v>> \in answers => v = db[u]
      BY DEF CopiesAgree
    <2>1. {db[u], cache[u]} \subseteq sent[u] \cup {NoOrder}
      BY <1>1 DEF IInv, ContentSent, RowsSent
    <2>2. \A v \in Orders : <<u, v>> \in answers =>
            v \in sent[u] /\ db[u] # NoOrder
      BY <1>1 DEF IInv, ContentSent, ServedIsStored
    <2>3. cache[u] # NoOrder => db[u] # NoOrder
      BY <1>1 DEF IInv, ServedIsStored
    <2> QED
      BY <2>1, <2>2, <2>3 DEF Alike, SameContent
  <1> QED
    BY <1>1, Invariance, PTL

---------------------------------------------------------------------------
(* A deleted order whose last copy is gone.                                  *)

(* A cache write, done or done once more, is of another order than u.        *)
LEMMA PutElsewhere ==
  ASSUME IInv, NEW u \in Uids, Gone(u), NEW c \in Clients,
         pc[c] \in {"fill", "savecache"},
         Cache!Put(c) \/ Cache!Abandon(c)
  PROVE  cache'[u] = NoOrder
  <1>1. writing[c] = <<uid[c], order[c]>> /\ uid[c] \in Uids
    BY DEF IInv, TypeOK, WriteStored
  <1>2. uid[c] # u
    BY DEF Gone
  <1> QED
    BY <1>1, <1>2 DEF Cache!Put, Cache!Abandon, Gone, IInv, TypeOK

LEMMA GoneStep ==
  ASSUME IInv, [Next]_vars, NEW u \in Uids, Gone(u),
         ~ \E c \in Callers, v \in Orders : Save(c, u, v)
  PROVE  Gone(u)'
  <1> USE DEF Gone, Goto, Return, dbVars, cacheVars, callVars, warmVars, readVars,
              saveVars
  <1>0. TypeOK /\ db[u] = NoOrder /\ cache[u] = NoOrder
    BY DEF IInv
  <1>1. ASSUME NEW c \in Clients, Reader(c) PROVE Gone(u)'
    <2>1. ASSUME NEW w \in Uids, GetOrder(c, w) PROVE Gone(u)'
      BY <1>0, <2>1 DEF GetOrder, TypeOK
    <2>2. CASE CacheHit(c)
      BY <1>0, <2>2 DEF CacheHit, TypeOK
    <2>3. CASE CacheMiss(c)
      BY <1>0, <2>3 DEF CacheMiss, TypeOK
    <2>4. CASE ReadDb(c)
      <3>1. uid[c] # u
        BY <1>0, <2>4 DEF ReadDb
      <3>2. UNCHANGED <<db, cache, uid>>
        BY <2>4 DEF ReadDb, Cache!Begin
      <3>3. \A d \in Clients \ {c} : pc'[d] = pc[d]
        BY <1>0, <2>4 DEF ReadDb, TypeOK
      <3> QED
        BY <1>0, <3>1, <3>2, <3>3
    <2>5. CASE NotFound(c)
      BY <1>0, <2>5 DEF NotFound, TypeOK
    <2>6. CASE ReadDbError(c)
      BY <1>0, <2>6 DEF ReadDbError, TypeOK
    <2>7. CASE Fill(c)
      <3>1. cache'[u] = NoOrder
        BY <2>7, PutElsewhere DEF Fill, WriteEnds
      <3>2. UNCHANGED <<db, mixed, uid>> /\ pc' = [pc EXCEPT ![c] = "idle"]
        BY <2>7 DEF Fill
      <3> QED
        BY <1>0, <3>1, <3>2 DEF TypeOK
    <2> QED
      BY <1>1, <2>1, <2>2, <2>3, <2>4, <2>5, <2>6, <2>7 DEF Reader
  <1>2. ASSUME NEW c \in Clients, Writer(c) PROVE Gone(u)'
    <2>1. ASSUME NEW w \in Uids, NEW v \in Orders, Save(c, w, v)
          PROVE  Gone(u)'
      <3>1. c \in Callers /\ w # u
        BY <2>1 DEF Save
      <3>2. UNCHANGED <<db, mixed, cache>>
        BY <2>1 DEF Save
      <3>3. /\ uid'[c] = w
            /\ \A d \in Clients \ {c} : pc'[d] = pc[d] /\ uid'[d] = uid[d]
        BY <1>0, <2>1 DEF Save, TypeOK
      <3> QED
        BY <1>0, <3>1, <3>2, <3>3
    <2>2. CASE SaveDb(c)
      <3>1. uid[c] # u /\ uid[c] \in Uids
        BY <1>0, <2>2 DEF SaveDb, TypeOK
      <3>2. db'[u] = NoOrder
        BY <1>0, <2>2, <3>1 DEF SaveDb, Store, TypeOK
      <3>3. UNCHANGED <<cache, uid>> /\ pc' = [pc EXCEPT ![c] = "savecache"]
        BY <2>2 DEF SaveDb, Cache!Begin
      <3> QED
        BY <1>0, <3>1, <3>2, <3>3 DEF TypeOK
    <2>3. CASE SaveDbError(c)
      <3>1. uid[c] # u /\ uid[c] \in Uids
        BY <1>0, <2>3 DEF SaveDbError, TypeOK
      <3>2. db'[u] = NoOrder
        BY <1>0, <2>3, <3>1 DEF SaveDbError, Store, TypeOK
      <3>3. UNCHANGED <<cache, uid>> /\ pc' = [pc EXCEPT ![c] = "idle"]
        BY <2>3 DEF SaveDbError
      <3> QED
        BY <1>0, <3>1, <3>2, <3>3 DEF TypeOK
    <2>4. CASE SaveCache(c)
      <3>1. cache'[u] = NoOrder
        BY <2>4, PutElsewhere DEF SaveCache, WriteEnds
      <3>2. UNCHANGED <<db, mixed, uid>> /\ pc' = [pc EXCEPT ![c] = "idle"]
        BY <2>4 DEF SaveCache
      <3> QED
        BY <1>0, <3>1, <3>2 DEF TypeOK
    <2> QED
      BY <1>2, <2>1, <2>2, <2>3, <2>4 DEF Writer
  <1>3. ASSUME NEW c \in Clients, WriteAgain(c) PROVE Gone(u)'
    <2>1. pc[c] \in {"fill", "savecache"}
      BY <1>0, <1>3 DEF WriteAgain, Cache!Put, TypeOK
    <2>2. cache'[u] = NoOrder
      BY <1>3, <2>1, PutElsewhere DEF WriteAgain
    <2> QED
      BY <1>3, <2>2 DEF WriteAgain
  <1>4. ASSUME NEW w \in Uids, DeleteOrder(w) PROVE Gone(u)'
    BY <1>0, <1>4 DEF DeleteOrder, TypeOK
  <1>5. ASSUME NEW w \in Uids, WarmNext(w) PROVE Gone(u)'
    BY <1>0, <1>5 DEF WarmNext, TypeOK
  <1>6. CASE GetLastOrdersUIDs
    BY <1>6 DEF GetLastOrdersUIDs
  <1>7. ASSUME NEW S \in SUBSET Uids, Evict(S) PROVE Gone(u)'
    BY <1>0, <1>7 DEF Evict, Cache!Drop
  <1>8. CASE Restart
    BY <1>0, <1>8 DEF Restart, Cache!Crash
  <1>9. CASE UNCHANGED vars
    BY <1>9 DEF vars
  <1> QED
    BY <1>1, <1>2, <1>3, <1>4, <1>5, <1>6, <1>7, <1>8, <1>9 DEF Next

(* A deleted order whose last copy is gone stays gone until it is saved.     *)
THEOREM DeletedStaysGone == Spec => GoneForGood
  <1>1. IInv /\ [Next]_vars =>
          [\A u \in Uids : Gone(u) =>
             Gone(u)' \/ \E c \in Callers, v \in Orders : Save(c, u, v)]_vars
    BY GoneStep
  <1> QED
    BY <1>1, Invariance, PTL DEF Spec, GoneForGood

=============================================================================
