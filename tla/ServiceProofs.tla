--------------------------- MODULE ServiceProofs ---------------------------
(* Proofs about Service, for any number of connection tries, retries and     *)
(* requests and any grace period that the doubling pauses outlast.           *)
EXTENDS Service, TLAPS

(* Before the shutdown begins nothing of it is there; before the consumer    *)
(* and the servers start, nothing of them is; in all of a life the pool is   *)
(* open between the ping that was answered and the disconnection.            *)
PhaseInv ==
  /\ main \in Starting \ {"notify"} =>
       /\ con = "off" /\ \A r \in Requests : rpc[r] = "idle"
       /\ \A s \in Servers : server[s] = "off"
  /\ main \in Starting \cup {"serve"} =>
       \A s \in Closers : closer[s] = "off"
  /\ main \in {"open", "ping"} => tries < Retries
  /\ pools \in {0, 1}
  /\ main = "open" => pools = 0
  /\ main \in {"ping", "cache", "consumer", "notify", "serve"} => pools = 1
  /\ main = "stopping" =>
       /\ pools = 1 <=> ~Begun("db")
       /\ \A s \in Closers : closer[s] # "off"

(* Without faults an attempt fails only on the pool the shutdown has closed, *)
(* and each failure means that the pauses before it have passed since the    *)
(* signal: after k of them, 2^k - 1 seconds.                                 *)
PauseInv ==
  /\ now <= Grace + Lag
  /\ faults = 0 =>
       /\ fails > 0 => main \in {"stopping"} \cup Ended
       /\ con = "sleep" => wake + 1 >= 2 * Delay[fails - 1]
       /\ con \in {"attempt", "save"} => now + 1 >= Delay[fails]
       /\ ~abandoned

(* The shutdown has begun and the process exited: a server had failed, and   *)
(* only then has one.                                                        *)
ExitInv ==
  /\ main = "exited" /\ (\E s \in Closers : closer[s] # "off") =>
       \E s \in Servers : server[s] = "failed"
  /\ \A s \in Servers : server[s] = "failed" => main = "exited"

(* What a request has not yet been told, and what it has. *)
AnswerInv ==
  \A r \in Requests :
    /\ expects[r] => saved
    /\ Joined => ~(expects[r] /\ status[r] = 404)

IInv == TypeOK /\ PhaseInv /\ PauseInv /\ ExitInv /\ AnswerInv

---------------------------------------------------------------------------

USE RetryAssumption, TimeAssumption, JoinedAssumption

LEMMA InitInv == Init => IInv
<1> SUFFICES ASSUME Init PROVE IInv
  OBVIOUS
<1> USE DEF Init, Starting, Ended, Closers, Servers
<1>1. TypeOK
  <2>1. 0 \in 0 .. Retries /\ 0 \in 0 .. RetryCount /\ 0 \in Nat
    OBVIOUS
  <2>2. closer \in [Closers -> {"off", "begin", "wait", "done", "failed"}]
    OBVIOUS
  <2>3. rpc \in [Requests -> {"idle", "cache", "order", "items"}]
    OBVIOUS
  <2>4. expects \in [Requests -> BOOLEAN]
    OBVIOUS
  <2>5. status \in [Requests -> {0, 200, 400, 404, 500}]
    OBVIOUS
  <2>8. server \in [Servers -> {"off", "listen", "failed", "closed"}]
    OBVIOUS
  <2>6. saved \in BOOLEAN /\ cached \in BOOLEAN /\ offset \in BOOLEAN
        /\ abandoned \in BOOLEAN
    BY Zenon
  <2>7. con = "off" /\ main = "open" /\ tries = 0 /\ pools = 0 /\ fails = 0
        /\ wake = 0 /\ now = 0 /\ faults = 0
    BY Zenon
  <2> HIDE DEF Init
  <2> QED BY <2>1, <2>2, <2>3, <2>4, <2>5, <2>6, <2>7, <2>8 DEF TypeOK
<1>2. PhaseInv
  BY DEF PhaseInv, Begun
<1>3. PauseInv
  BY DelayAssumption DEF PauseInv
<1>4. ExitInv /\ AnswerInv
  BY DEF ExitInv, AnswerInv
<1> QED BY <1>1, <1>2, <1>3, <1>4 DEF IInv

LEMMA ParseConfigFailsInv == IInv /\ ParseConfigFails => IInv'
BY DEF ParseConfigFails, vars, mainVars, conVars, httpVars, rpcVars,
         IInv, TypeOK, PhaseInv, PauseInv, ExitInv, AnswerInv, Starting, Ended, Closers, Servers,
         Begun, PoolOpen, Alive, Fault

LEMMA OpenPoolInv == IInv /\ OpenPool => IInv'
BY DEF OpenPool, TryFails, vars, mainVars, conVars, httpVars, rpcVars,
         IInv, TypeOK, PhaseInv, PauseInv, ExitInv, AnswerInv, Starting, Ended, Closers, Servers,
         Begun, PoolOpen, Alive, Fault

LEMMA PingInv == IInv /\ Ping => IInv'
BY DEF Ping, TryFails, vars, mainVars, conVars, httpVars, rpcVars,
         IInv, TypeOK, PhaseInv, PauseInv, ExitInv, AnswerInv, Starting, Ended, Closers, Servers,
         Begun, PoolOpen, Alive, Fault

LEMMA NewCacheInv == IInv /\ NewCache => IInv'
BY DEF NewCache, vars, mainVars, conVars, httpVars, rpcVars,
         IInv, TypeOK, PhaseInv, PauseInv, ExitInv, AnswerInv, Starting, Ended, Closers, Servers,
         Begun, PoolOpen, Alive, Fault

LEMMA StartServingInv == IInv /\ StartServing => IInv'
BY DEF StartServing, vars, mainVars, conVars, httpVars, rpcVars,
         IInv, TypeOK, PhaseInv, PauseInv, ExitInv, AnswerInv, Starting, Ended, Closers, Servers,
         Begun, PoolOpen, Alive, Fault

LEMMA NotifyInv == IInv /\ Notify => IInv'
BY DEF Notify, vars, mainVars, conVars, httpVars, rpcVars,
         IInv, TypeOK, PhaseInv, PauseInv, ExitInv, AnswerInv, Starting, Ended, Closers, Servers,
         Begun, PoolOpen, Alive, Fault

LEMMA EarlySignalInv == IInv /\ EarlySignal => IInv'
BY DEF EarlySignal, vars, mainVars, conVars, httpVars, rpcVars,
         IInv, TypeOK, PhaseInv, PauseInv, ExitInv, AnswerInv, Starting, Ended, Closers, Servers,
         Begun, PoolOpen, Alive, Fault

LEMMA ServeEndsInv == ASSUME IInv, NEW s \in Servers, ServeEnds(s) PROVE IInv'
<1>1. PICK err \in {"failed", "closed"} :
        /\ server' = [server EXCEPT ![s] = err]
        /\ main' = IF err = "failed" THEN "exited" ELSE main
        /\ UNCHANGED faults \/ Fault
  BY DEF ServeEnds, ExitsOn
<1>2. /\ UNCHANGED <<tries, pools, cached, conVars, closer, rpcVars, now>>
      /\ Alive /\ server[s] = "listen"
  BY DEF ServeEnds
<1>3. /\ faults' \in Nat /\ (faults' = 0 => faults = 0)
      /\ main \notin Starting \ {"notify"}
  <2>1. main \notin Starting \ {"notify"}
    BY <1>2 DEF IInv, PhaseInv
  <2> QED BY <1>1, <2>1 DEF Fault, IInv, TypeOK
<1> USE DEF conVars, rpcVars
<1>4. TypeOK'
  BY <1>1, <1>2, <1>3 DEF IInv, TypeOK, Ended
<1>5. PhaseInv'
  BY <1>1, <1>2, <1>3 DEF IInv, TypeOK, PhaseInv, Begun, Starting
<1>6. PauseInv'
  BY <1>1, <1>2, <1>3 DEF IInv, TypeOK, PauseInv, Ended
<1>7. ExitInv'
  <2>1. CASE err = "failed"
    BY <1>1, <2>1 DEF IInv, TypeOK, ExitInv, Alive, Ended
  <2>2. CASE err = "closed"
    BY <1>1, <1>2, <2>2 DEF IInv, TypeOK, ExitInv, Alive, Ended
  <2> QED BY <2>1, <2>2
<1>8. AnswerInv'
  BY <1>2 DEF IInv, AnswerInv
<1> QED BY <1>4, <1>5, <1>6, <1>7, <1>8 DEF IInv

LEMMA CheckStopInv == IInv /\ CheckStop => IInv'
BY DEF CheckStop, vars, mainVars, conVars, httpVars, rpcVars,
         IInv, TypeOK, PhaseInv, PauseInv, ExitInv, AnswerInv, Starting, Ended, Closers, Servers,
         Begun, PoolOpen, Alive, Fault

LEMMA ReadInv == IInv /\ Read => IInv'
<1> SUFFICES ASSUME IInv, Read PROVE IInv'
  OBVIOUS
<1> USE DEF Read
<1>1. TypeOK'
  BY DEF IInv, TypeOK, vars, mainVars, conVars, httpVars, rpcVars, Starting, Ended, Closers, Servers, Begun, PoolOpen, Alive, Fault
<1>2. PhaseInv'
  BY DEF IInv, TypeOK, PhaseInv, vars, mainVars, conVars, httpVars, rpcVars, Starting, Ended, Closers, Servers, Begun, PoolOpen, Alive, Fault
<1>3. PauseInv'
  BY DelayAssumption DEF IInv, TypeOK, PhaseInv, PauseInv, vars, mainVars, conVars, httpVars, rpcVars, Starting, Ended, Closers, Servers, Begun, PoolOpen, Alive, Fault
<1>4. ExitInv'
  BY DEF IInv, TypeOK, PhaseInv, ExitInv, vars, mainVars, conVars, httpVars, rpcVars, Starting, Ended, Closers, Servers, Begun, PoolOpen, Alive, Fault
<1>5. AnswerInv'
  BY DEF IInv, TypeOK, PhaseInv, AnswerInv, vars, mainVars, conVars, httpVars, rpcVars, Starting, Ended, Closers, Servers, Begun, PoolOpen, Alive, Fault
<1> QED BY <1>1, <1>2, <1>3, <1>4, <1>5 DEF IInv

LEMMA AttemptInv == IInv /\ Attempt => IInv'
<1> SUFFICES ASSUME IInv, Attempt PROVE IInv'
  OBVIOUS
<1> USE DEF Attempt, Begun, PoolOpen, Alive, vars, mainVars, conVars, httpVars, rpcVars
<1>1. con = "attempt" /\ fails \in 0 .. RetryCount - 1
  BY DEF IInv, TypeOK
<1>2. Delay[fails] \in Nat
  BY <1>1, DelayAssumption
<1>3. TypeOK'
  BY <1>1, <1>2 DEF IInv, TypeOK, FailAttempt, Backoff
<1>4. PhaseInv'
  BY DEF IInv, TypeOK, PhaseInv, FailAttempt, Starting, Closers, Servers
<1>5. PauseInv'
  <2>1. CASE PoolOpen
    BY <2>1, <1>1, <1>2 DEF IInv, PauseInv, Ended
  <2>2. CASE ~PoolOpen
    <3>1. FailAttempt
      BY <2>2
    <3>2. main \in {"stopping"} \cup Ended
      BY <2>2, <1>1 DEF IInv, TypeOK, PhaseInv, Starting, Ended
    <3>3. faults = 0 => wake' + 1 >= 2 * Delay[fails' - 1]
      BY <3>1, <1>1, <1>2 DEF IInv, TypeOK, PauseInv, FailAttempt, Backoff
    <3> QED BY <3>1, <3>2, <3>3 DEF IInv, PauseInv, FailAttempt
  <2> QED BY <2>1, <2>2
<1>6. ExitInv' /\ AnswerInv'
  BY DEF IInv, ExitInv, AnswerInv
<1> QED BY <1>3, <1>4, <1>5, <1>6 DEF IInv

LEMMA SaveInv == IInv /\ Save => IInv'
<1> SUFFICES ASSUME IInv, Save PROVE IInv'
  OBVIOUS
<1>1. /\ con = "save"
      /\ \/ con' = "check" /\ fails' = 0 /\ UNCHANGED <<wake, faults>>
         \/ FailAttempt /\ (Fault \/ (~PoolOpen /\ UNCHANGED faults))
  BY Zenon DEF Save
<1>2. UNCHANGED <<mainVars, abandoned, closer, httpVars, now>>
  BY Zenon DEF Save
<1>3. offset' \in BOOLEAN /\ saved' \in BOOLEAN /\ (saved => saved')
  <2>1. offset \in BOOLEAN /\ saved \in BOOLEAN
    BY DEF IInv, TypeOK
  <2>2. saved' \in BOOLEAN /\ (saved => saved')
    BY <2>1, Zenon DEF Save
  <2>3. offset' \in {offset, TRUE}
    BY Zenon DEF Save
  <2> QED BY <2>1, <2>2, <2>3
<1>4. fails \in 0 .. RetryCount - 1 /\ Delay[fails] \in Nat
  BY <1>1, DelayAssumption DEF IInv, TypeOK
<1> USE DEF Begun, PoolOpen, Fault, mainVars, httpVars, rpcVars
<1>5. TypeOK'
  <2>1. /\ fails' \in 0 .. RetryCount /\ wake' \in Nat /\ faults' \in Nat
        /\ \/ con' = "check" /\ fails' = 0
           \/ con' = "sleep" /\ fails' > 0
    BY <1>1, <1>4 DEF IInv, TypeOK, FailAttempt, Backoff
  <2> QED BY <2>1, <1>2, <1>3 DEF IInv, TypeOK
<1>6. PhaseInv'
  BY <1>1, <1>2 DEF IInv, TypeOK, PhaseInv, FailAttempt, Starting, Closers, Servers
<1>7. PauseInv'
  <2>1. CASE con' = "check"
    BY <2>1, <1>1, <1>2 DEF IInv, TypeOK, PauseInv, FailAttempt
  <2>2. CASE con' # "check"
    <3>1. FailAttempt /\ (faults' = 0 => ~PoolOpen)
      BY <2>2, <1>1 DEF IInv, TypeOK
    <3>2. ~PoolOpen => main \in {"stopping"} \cup Ended
      BY <1>1 DEF IInv, TypeOK, PhaseInv, Starting, Ended
    <3>3. faults' = 0 => faults = 0
      BY <1>1 DEF IInv, TypeOK
    <3>4. faults' = 0 => wake' + 1 >= 2 * Delay[fails' - 1]
      BY <3>1, <3>3, <1>1, <1>4 DEF IInv, TypeOK, PauseInv, FailAttempt, Backoff
    <3> QED BY <3>1, <3>2, <3>3, <3>4, <1>2 DEF IInv, PauseInv, FailAttempt
  <2> QED BY <2>1, <2>2
<1>8. ExitInv'
  BY <1>1, <1>2 DEF IInv, TypeOK, ExitInv
<1>9. AnswerInv'
  BY <1>2, <1>3 DEF IInv, AnswerInv
<1> QED BY <1>5, <1>6, <1>7, <1>8, <1>9 DEF IInv

LEMMA WakeInv == IInv /\ Wake => IInv'
<1> SUFFICES ASSUME IInv, Wake PROVE IInv'
  OBVIOUS
<1> USE DEF Wake, Begun, vars, mainVars, conVars, httpVars, rpcVars
<1>1. fails \in 1 .. RetryCount - 1
  BY DEF IInv, TypeOK
<1>2. Delay[fails] = 2 * Delay[fails - 1] /\ Delay[fails - 1] \in Nat
  BY <1>1, DelayAssumption
<1>3. TypeOK'
  BY <1>1 DEF IInv, TypeOK
<1>4. PhaseInv'
  BY DEF IInv, TypeOK, PhaseInv, Starting, Closers, Servers
<1>5. PauseInv'
  BY <1>1, <1>2 DEF IInv, TypeOK, PauseInv, Alive, Ended
<1>6. ExitInv' /\ AnswerInv'
  BY DEF IInv, ExitInv, AnswerInv
<1> QED BY <1>3, <1>4, <1>5, <1>6 DEF IInv

LEMMA GiveUpInv == IInv /\ GiveUp => IInv'
BY DelayAssumption, OutlastAssumption DEF GiveUp, vars, mainVars, conVars, httpVars, rpcVars,
         IInv, TypeOK, PhaseInv, PauseInv, ExitInv, AnswerInv, Starting, Ended, Closers, Servers,
         Begun, PoolOpen, Alive, Fault

LEMMA AutoCommitInv == IInv /\ AutoCommit => IInv'
<1> SUFFICES ASSUME IInv, AutoCommit PROVE IInv'
  OBVIOUS
<1> USE DEF AutoCommit, vars, mainVars, conVars, httpVars, rpcVars
<1>1. TypeOK'
  <2>1. offset' \in BOOLEAN
    OBVIOUS
  <2> QED BY <2>1 DEF IInv, TypeOK
<1>2. PhaseInv' /\ PauseInv'
  BY DEF IInv, PhaseInv, PauseInv, Begun
<1>3. ExitInv' /\ AnswerInv'
  BY DEF IInv, ExitInv, AnswerInv
<1> QED BY <1>1, <1>2, <1>3 DEF IInv

LEMMA DisconnectInv == IInv /\ Disconnect => IInv'
BY DEF Disconnect, Move, vars, mainVars, conVars, httpVars, rpcVars,
         IInv, TypeOK, PhaseInv, PauseInv, ExitInv, AnswerInv, Starting, Ended, Closers, Servers,
         Begun, PoolOpen, Alive, Fault

LEMMA StopConsumerInv == IInv /\ StopConsumer => IInv'
<1> SUFFICES ASSUME IInv, StopConsumer PROVE IInv'
  OBVIOUS
<1>1. /\ \/ Move("consumer", "begin", "wait")
         \/ Move("consumer", "wait", "done")
         \/ Move("consumer", "wait", "failed")
      /\ UNCHANGED faults \/ Fault
      /\ offset' \in BOOLEAN
      /\ UNCHANGED <<mainVars, con, fails, wake, saved, abandoned, httpVars, now>>
  BY Zenon DEF StopConsumer, IInv, TypeOK
<1>2. faults' \in Nat /\ (faults' = 0 => faults = 0) /\ (faults > 0 => faults' > 0)
  BY <1>1 DEF Fault, IInv, TypeOK
<1>3. main = "stopping" /\ closer' \in [Closers -> {"off", "begin", "wait", "done", "failed"}]
  BY <1>1 DEF Move, IInv, TypeOK
<1> USE DEF mainVars, httpVars, rpcVars
<1>4. TypeOK'
  BY <1>1, <1>2, <1>3 DEF IInv, TypeOK
<1>5. PhaseInv'
  BY <1>1, <1>3 DEF IInv, TypeOK, PhaseInv, Move, Begun, Starting, Closers, Servers
<1>6. PauseInv' /\ ExitInv' /\ AnswerInv'
  BY <1>1, <1>2, <1>3 DEF IInv, PauseInv, ExitInv, AnswerInv
<1> QED BY <1>4, <1>5, <1>6 DEF IInv

LEMMA ShutdownServersInv == IInv /\ ShutdownServers => IInv'
BY DEF ShutdownServers, Move, vars, mainVars, conVars, httpVars, rpcVars,
         IInv, TypeOK, PhaseInv, PauseInv, ExitInv, AnswerInv, Starting, Ended, Closers, Servers,
         Begun, PoolOpen, Alive, Fault

LEMMA SignalInv == IInv /\ Signal => IInv'
BY DelayAssumption, OutlastAssumption DEF Signal, vars, mainVars, conVars, httpVars, rpcVars,
         IInv, TypeOK, PhaseInv, PauseInv, ExitInv, AnswerInv, Starting, Ended, Closers, Servers,
         Begun, PoolOpen, Alive, Fault

LEMMA CompletedInv == IInv /\ Completed => IInv'
BY DEF Completed, vars, mainVars, conVars, httpVars, rpcVars,
         IInv, TypeOK, PhaseInv, PauseInv, ExitInv, AnswerInv, Starting, Ended, Closers, Servers,
         Begun, PoolOpen, Alive, Fault

LEMMA ForcedInv == IInv /\ Forced => IInv'
BY DEF Forced, vars, mainVars, conVars, httpVars, rpcVars,
         IInv, TypeOK, PhaseInv, PauseInv, ExitInv, AnswerInv, Starting, Ended, Closers, Servers,
         Begun, PoolOpen, Alive, Fault

LEMMA TickInv == IInv /\ Tick => IInv'
<1> SUFFICES ASSUME IInv, Tick PROVE IInv'
  OBVIOUS
<1> USE DEF Tick
<1>1. TypeOK'
  BY DEF IInv, TypeOK, vars, mainVars, conVars, httpVars, rpcVars, Starting, Ended, Closers, Servers, Begun, PoolOpen, Alive, Fault
<1>2. PhaseInv'
  BY DEF IInv, TypeOK, PhaseInv, vars, mainVars, conVars, httpVars, rpcVars, Starting, Ended, Closers, Servers, Begun, PoolOpen, Alive, Fault
<1>3. PauseInv'
  BY DelayAssumption DEF IInv, TypeOK, PhaseInv, PauseInv, vars, mainVars, conVars, httpVars, rpcVars, Starting, Ended, Closers, Servers, Begun, PoolOpen, Alive, Fault
<1>4. ExitInv'
  BY DEF IInv, TypeOK, PhaseInv, ExitInv, vars, mainVars, conVars, httpVars, rpcVars, Starting, Ended, Closers, Servers, Begun, PoolOpen, Alive, Fault
<1>5. AnswerInv'
  BY DEF IInv, TypeOK, PhaseInv, AnswerInv, vars, mainVars, conVars, httpVars, rpcVars, Starting, Ended, Closers, Servers, Begun, PoolOpen, Alive, Fault
<1> QED BY <1>1, <1>2, <1>3, <1>4, <1>5 DEF IInv

---------------------------------------------------------------------------

LEMMA RequestInv ==
  ASSUME IInv, NEW r \in Requests,
         Request(r) \/ LookInCache(r) \/ ReadOrder(r) \/ ReadItems(r)
  PROVE  IInv'
<1>1. /\ UNCHANGED <<mainVars, conVars, closer, server, now>>
      /\ UNCHANGED faults \/ Fault
      /\ main \notin Starting \ {"notify"}
  <2>1. rpc[r] # "idle" => main \notin Starting \ {"notify"}
    BY DEF IInv, PhaseInv
  <2>2. CASE Request(r)
    BY <2>2 DEF Request, IInv, PhaseInv, Servers
  <2>3. CASE LookInCache(r)
    BY <2>1, <2>3 DEF LookInCache
  <2>4. CASE ReadOrder(r)
    BY <2>1, <2>4 DEF ReadOrder
  <2>5. CASE ReadItems(r)
    BY <2>1, <2>5 DEF ReadItems
  <2> QED BY <2>2, <2>3, <2>4, <2>5
<1>2. /\ faults' \in Nat /\ (faults' = 0 => faults = 0)
      /\ faults > 0 => faults' > 0
  BY <1>1 DEF Fault, IInv, TypeOK
<1>3. /\ rpc' \in [Requests -> {"idle", "cache", "order", "items"}]
      /\ expects' \in [Requests -> BOOLEAN]
      /\ status' \in [Requests -> {0, 200, 400, 404, 500}]
      /\ AnswerInv'
  <2> USE DEF Answer, GoOn, AnswerInv, conVars
  <2>1. CASE Request(r)
    BY <2>1 DEF IInv, TypeOK, Request
  <2>2. CASE LookInCache(r)
    BY <2>2 DEF IInv, TypeOK, LookInCache
  <2>3. CASE ReadOrder(r)
    BY <2>3 DEF IInv, TypeOK, ReadOrder
  <2>4. CASE ReadItems(r)
    BY <2>4 DEF IInv, TypeOK, ReadItems
  <2> QED BY <2>1, <2>2, <2>3, <2>4
<1> USE DEF mainVars, conVars
<1>4. TypeOK'
  BY <1>1, <1>2, <1>3 DEF IInv, TypeOK
<1>5. PhaseInv'
  BY <1>1 DEF IInv, PhaseInv, Begun
<1>6. PauseInv' /\ ExitInv'
  BY <1>1, <1>2 DEF IInv, PauseInv, ExitInv
<1> QED BY <1>3, <1>4, <1>5, <1>6 DEF IInv

LEMMA StutterInv == IInv /\ UNCHANGED vars => IInv'
BY DEF IInv, TypeOK, PhaseInv, PauseInv, ExitInv, AnswerInv, Begun, vars,
       mainVars, conVars, httpVars, rpcVars

(* The invariant is inductive. *)
LEMMA StepInv == IInv /\ [Next]_vars => IInv'
<1> SUFFICES ASSUME IInv, [Next]_vars PROVE IInv'
  OBVIOUS
<1>1. CASE Startup
  BY <1>1, ParseConfigFailsInv, OpenPoolInv, PingInv, NewCacheInv, StartServingInv, NotifyInv
     DEF Startup
<1>2. CASE EarlySignal \/ Signal \/ Tick \/ \E s \in Servers : ServeEnds(s)
  BY <1>2, EarlySignalInv, ServeEndsInv, SignalInv, TickInv
<1>3. CASE Consumer
  BY <1>3, CheckStopInv, ReadInv, AttemptInv, SaveInv, WakeInv, GiveUpInv,
     AutoCommitInv DEF Consumer
<1>4. CASE \E r \in Requests :
             Request(r) \/ LookInCache(r) \/ ReadOrder(r) \/ ReadItems(r)
  BY <1>4, RequestInv
<1>5. CASE Closing
  BY <1>5, DisconnectInv, StopConsumerInv, ShutdownServersInv DEF Closing
<1>6. CASE Return
  BY <1>6, CompletedInv, ForcedInv DEF Return
<1>7. CASE Over \/ UNCHANGED vars
  BY <1>7, StutterInv DEF Over
<1> QED BY <1>1, <1>2, <1>3, <1>4, <1>5, <1>6, <1>7 DEF Next

LEMMA Invariance == Spec => []IInv
BY InitInv, StepInv, PTL DEF Spec

(* Every variable keeps its type, for any tries, retries and requests. *)
THEOREM TypeCorrect == Spec => []TypeOK
<1>1. IInv => TypeOK
  BY DEF IInv
<1> QED BY <1>1, Invariance, PTL

(* However often connecting fails, one pool is open while the service runs   *)
(* and none is leaked.                                                       *)
THEOREM NoPoolLeaked == Spec => []OnePool
<1>1. IInv => OnePool
  BY DEF IInv, PhaseInv, OnePool, Starting
<1> QED BY <1>1, Invariance, PTL

(* Closing the database under the consumer costs no message as long as the   *)
(* doubling pauses outlast the shutdown (OutlastAssumption).                 *)
THEOREM ShutdownLosesNothing == Spec => []ShutdownSparesMessages
<1>1. IInv => ShutdownSparesMessages
  BY DEF IInv, PauseInv, ShutdownSparesMessages
<1> QED BY <1>1, Invariance, PTL

(* No request is told that an order saved before it began does not exist,    *)
(* unless the order's payment names another transaction.                     *)
THEOREM SavedIsNever404 == Spec => []NoFalse404
<1>1. IInv => NoFalse404
  BY DEF IInv, AnswerInv, NoFalse404
<1> QED BY <1>1, Invariance, PTL

(* Once the shutdown has begun the process exits with status 1 only when one *)
(* of the servers had failed by itself, though both are told an error.       *)
THEOREM ExitOnlyOnFailure == Spec => []OrderlyExit
<1>1. IInv => OrderlyExit
  BY DEF IInv, ExitInv, OrderlyExit
<1> QED BY <1>1, Invariance, PTL
=============================================================================
