------------------------ MODULE ConfigMetricsProofs ------------------------
(* Proofs about what the whole process uses: its settings (Config), for      *)
(* every set of readable numbers and of names, and its metrics (Metrics), for*)
(* any number of requests, messages and seconds.                             *)
EXTENDS Config, Metrics, FiniteSetTheorems, TLAPS

(* The value in effect for a variable. *)
Effective(k) == IF real[k].kind # "absent" THEN real[k] ELSE InFile(k)

LEMMA KeysAreFields == \A f \in Fields : KeyOf(f) \in Fields
  BY DEF KeyOf, Fields, Default

LEMMA DefaultsPositive ==
  ASSUME NEW f \in Checked, f \notin Text
  PROVE  f \in DOMAIN Default /\ Default[f] \in Int /\ Default[f] > 0
  BY DEF Checked, Fields, Text, Required, Default

LEMMA DefaultsAreNumbers ==
  ASSUME NEW f \in Fields, f \notin Text
  PROVE  Default[f] \in Int
  BY DEF Fields, Default

LEMMA FieldIsNumber ==
  ASSUME envs \in Layers, NEW f \in Fields
  PROVE  Field(f) \in Int
<1>1. envs[KeyOf(f)] \in Values
  BY KeysAreFields DEF Layers
<1>2. envs[KeyOf(f)].kind = "number" => envs[KeyOf(f)].n \in Int
  BY <1>1, BoundsAssumption DEF Values
<1>. QED
  BY <1>2, DefaultsAreNumbers DEF Field

LEMMA ExamplesAreLayers == Example \in Layers /\ Nothing \in Layers
  BY DEF Example, Nothing, Layers, Values, Absent

LEMMA InitTypes == Init => TypeOK
<1>. SUFFICES ASSUME Init PROVE TypeOK
  OBVIOUS
<1>1. real \in Layers /\ file \in Layers
  <2>1. PICK f \in Fields, g \in Fields, u \in Values, v \in Values :
          \/ real = [Example EXCEPT ![f] = u] /\ file = [Nothing EXCEPT ![g] = v]
          \/ real = [Nothing EXCEPT ![f] = u] /\ file = [Example EXCEPT ![g] = v]
    BY DEF Init
  <2>. QED
    BY <2>1, ExamplesAreLayers DEF Layers
<1>2. app \in Apps
  <2>1. [real |-> "", file |-> "", flag |-> "dev"] \in Apps
    BY DEF Apps
  <2>2. app \in Apps \/ app = [real |-> "", file |-> "", flag |-> "dev"]
    BY DEF Init
  <2>. QED
    BY <2>1, <2>2
<1>3. envs \in Layers /\ cfg \in [Fields -> Int]
  <2>1. envs = Nothing /\ cfg = [f \in Fields |-> 0]
    BY DEF Init
  <2>. QED
    BY <2>1, ExamplesAreLayers
<1>. QED
  BY <1>1, <1>2, <1>3 DEF Init, TypeOK

LEMMA StepTypes == TypeOK /\ [Next]_vars => TypeOK'
<1>. SUFFICES ASSUME TypeOK, [Next]_vars PROVE TypeOK'
  OBVIOUS
<1>1. CASE ReadEnv
  <2>1. env' \in Names \cup {"dev"}
    BY <1>1 DEF ReadEnv, TypeOK, Apps
  <2>. QED
    BY <1>1, <2>1 DEF ReadEnv, TypeOK
<1>2. CASE Load
  <2>1. \A f \in Fields : InFile(f) \in Values
    BY DEF InFile, TypeOK, Layers, Absent, Values
  <2>2. envs' \in Layers
    BY <1>2, <2>1 DEF Load, TypeOK, Layers
  <2>. QED
    BY <1>2, <2>2 DEF Load, TypeOK
<1>3. CASE Build
  <2>1. cfg' \in [Fields -> Int]
    BY <1>3, FieldIsNumber DEF Build, TypeOK
  <2>. QED
    BY <1>3, <2>1 DEF Build, TypeOK
<1>4. CASE Validate
  BY <1>4 DEF Validate, TypeOK
<1>5. CASE NewLogger
  BY <1>5 DEF NewLogger, TypeOK
<1>6. CASE FirstLine
  BY <1>6 DEF FirstLine, TypeOK
<1>7. CASE UNCHANGED vars
  BY <1>7 DEF vars, TypeOK
<1>. QED
  BY <1>1, <1>2, <1>3, <1>4, <1>5, <1>6, <1>7 DEF Next

(* Every variable keeps its type, and Env is never empty once it is read. *)
THEOREM TypeCorrect == Spec => []TypeOK
  BY InitTypes, StepTypes, PTL DEF Spec

(* What is known of each stage: the merged environment, the fields built     *)
(* from it, the verdict on them and the logger.                              *)
StageInv ==
  /\ step \in {"loaded", "built", "fatal"} =>
       envs = [f \in Fields |-> Effective(f)]
  /\ step \in {"built", "fatal"} => cfg = [f \in Fields |-> Field(f)]
  /\ Up \/ step = "panic" => \A f \in Checked : cfg[f] > 0
  /\ step = "fatal" => \E f \in Checked : ~(cfg[f] > 0)
  /\ step # "start" => env = IF app.real # "" THEN app.real ELSE app.flag
  /\ step = "logging" /\ logger = "nil" => env \notin {"local", "dev", "prod"}
  /\ step = "panic" => env \notin {"local", "dev", "prod"}

LEMMA InitStage == Init => StageInv
  BY DEF Init, StageInv, Up

LEMMA StepStage == StageInv /\ [Next]_vars => StageInv'
<1>. SUFFICES ASSUME StageInv, [Next]_vars PROVE StageInv'
  OBVIOUS
<1>1. CASE ReadEnv
  BY <1>1 DEF ReadEnv, StageInv, Up
<1>2. CASE Load
  BY <1>2 DEF Load, StageInv, Up, Effective, InFile
<1>3. CASE Build
  BY <1>3 DEF Build, StageInv, Up, Effective, InFile, Field
<1>4. CASE Validate
  BY <1>4 DEF Validate, StageInv, Up, Effective, InFile, Field
<1>5. CASE NewLogger
  BY <1>5 DEF NewLogger, StageInv, Up
<1>6. CASE FirstLine
  BY <1>6 DEF FirstLine, StageInv, Up
<1>7. CASE UNCHANGED vars
  BY <1>7 DEF vars, StageInv, Up, Effective, InFile, Field
<1>. QED
  BY <1>1, <1>2, <1>3, <1>4, <1>5, <1>6, <1>7 DEF Next

LEMMA StageHolds == Spec => []StageInv
  BY InitStage, StepStage, PTL DEF Spec

LEMMA StageImpliesDeserved == TypeOK /\ StageInv => FatalDeserved
<1>. SUFFICES ASSUME TypeOK, StageInv, step = "fatal"
              PROVE  \E f \in Checked :
                       \/ f \in Text /\ Effective(KeyOf(f)).kind \in {"absent", "empty"}
                       \/ f \notin Text /\ Effective(KeyOf(f)).kind = "number"
                            /\ Effective(KeyOf(f)).n <= 0
  BY DEF FatalDeserved, Effective
<1>1. PICK f \in Checked : ~(cfg[f] > 0)
  BY DEF StageInv
<1>2. f \in Fields /\ KeyOf(f) \in Fields
  BY KeysAreFields DEF Checked
<1>3. cfg[f] = Field(f)
  BY <1>2 DEF StageInv
<1>4. envs[KeyOf(f)] = Effective(KeyOf(f)) /\ envs[KeyOf(f)] \in Values
  BY <1>2 DEF StageInv, TypeOK, Layers
<1>5. CASE f \in Text
  <2>1. envs[KeyOf(f)].kind \notin {"junk", "number"}
    BY <1>1, <1>3, <1>5 DEF Field
  <2>2. envs[KeyOf(f)].kind \in {"absent", "empty"}
    BY <1>4, <2>1 DEF Values
  <2>. QED
    BY <1>4, <1>5, <2>2
<1>6. CASE f \notin Text
  <2>1. Default[f] > 0
    BY <1>6, DefaultsPositive
  <2>2. envs[KeyOf(f)].kind = "number" /\ Field(f) = envs[KeyOf(f)].n
    BY <1>1, <1>3, <1>6, <2>1 DEF Field
  <2>3. envs[KeyOf(f)].n \in Int
    BY <1>4, <2>2, BoundsAssumption DEF Values
  <2>4. envs[KeyOf(f)].n <= 0
    BY <1>1, <1>3, <2>2, <2>3
  <2>. QED
    BY <1>4, <1>6, <2>2, <2>4
<1>. QED
  BY <1>5, <1>6

(* A process refuses its settings only for an empty text or a number that is *)
(* not above zero.                                                           *)
THEOREM RefusalDeserved == Spec => []FatalDeserved
  BY TypeCorrect, StageHolds, StageImpliesDeserved, PTL

(* Only an unknown environment name leaves a process without a logger. *)
THEOREM LoggerPresent == Spec => []PanicOnlyUnknown
<1>1. StageInv => PanicOnlyUnknown
  BY DEF StageInv, PanicOnlyUnknown
<1>. QED
  BY <1>1, StageHolds, PTL

---------------------------------------------------------------------------
(* Counters and gauges.                                                      *)

OtherCounters ==
  {"http_other", "cache_hit", "cache_miss", "cache_error",
   "messages_success", "messages_error_parsing", "errors_processing"}

(* No two labels of a metric and no two metrics are the same counter.        *)
LEMMA CounterNames ==
  /\ Codes = {200, 400, 404, 500}
  /\ Outcome[200] = "orders_success" /\ Outcome[400] = "orders_invalid_uid"
  /\ Outcome[404] = "orders_not_found" /\ Outcome[500] = "orders_internal_error"
  /\ Answer[200] = "http_200" /\ Answer[400] = "http_400"
  /\ Answer[404] = "http_404" /\ Answer[500] = "http_500"
  <1>1. Codes = {200, 400, 404, 500}
    BY DEF Codes, Outcome
  <1>2. Outcome[200] = "orders_success" /\ Answer[200] = "http_200"
    BY DEF Outcome, Answer
  <1>3. Outcome[400] = "orders_invalid_uid" /\ Answer[400] = "http_400"
    BY DEF Outcome, Answer
  <1>4. Outcome[404] = "orders_not_found" /\ Answer[404] = "http_404"
    BY DEF Outcome, Answer
  <1>5. Outcome[500] = "orders_internal_error" /\ Answer[500] = "http_500"
    BY DEF Outcome, Answer
  <1> QED
    BY <1>1, <1>2, <1>3, <1>4, <1>5

LEMMA CountersDiffer ==
  /\ \A c \in Codes : Outcome[c] \in Counters /\ Answer[c] \in Counters
  /\ OtherCounters \subseteq Counters
  /\ \A c, d \in Codes :
       /\ Outcome[c] # Answer[d]
       /\ Outcome[c] = Outcome[d] => c = d
       /\ Answer[c] = Answer[d] => c = d
  /\ \A c \in Codes, k \in OtherCounters : Outcome[c] # k /\ Answer[c] # k
  BY CounterNames DEF Counters, OtherCounters

LEMMA BeforeIs ==
  /\ \A c \in Codes :
       /\ Before(Outcome[c]) = {"order", "cache", "database", "deferred", "unwind"}
       /\ Before(Answer[c]) = {"order", "cache", "database", "deferred", "count"}
  /\ \A k \in {"cache_hit", "cache_miss", "cache_error"} :
       Before(k) = {"order", "cache"}
  /\ Before("http_other") = {"other"}
  /\ \A k \in {"messages_success", "messages_error_parsing", "errors_processing"} :
       Before(k) = {}
  <1>1. \A c \in Codes :
          Before(Outcome[c]) = {"order", "cache", "database", "deferred", "unwind"}
    BY CounterNames DEF Before
  <1>2. \A c \in Codes :
          Before(Answer[c]) = {"order", "cache", "database", "deferred", "count"}
    BY CounterNames DEF Before
  <1>3. \A k \in {"cache_hit", "cache_miss", "cache_error"} : Before(k) = {"order", "cache"}
    BY CounterNames DEF Before
  <1>4. Before("http_other") = {"other"}
    BY CounterNames DEF Before
  <1>5. \A k \in {"messages_success", "messages_error_parsing", "errors_processing"} :
          Before(k) = {}
    BY CounterNames DEF Before
  <1> QED
    BY <1>1, <1>2, <1>3, <1>4, <1>5

LEMMA BeforeCases ==
  ASSUME NEW k \in Counters
  PROVE  Before(k) \in {{}, {"other"}, {"order", "cache"},
                        {"order", "cache", "database", "deferred", "unwind"},
                        {"order", "cache", "database", "deferred", "count"}}
  <1>1. \/ \E c \in Codes : k = Outcome[c] \/ k = Answer[c]
        \/ k \in OtherCounters
    BY DEF Counters, OtherCounters
  <1> QED
    BY <1>1, BeforeIs DEF OtherCounters

(* Two sets of requests that differ in r at most.                            *)
LEMMA OneMoves ==
  ASSUME NEW A \in SUBSET Requests, NEW B \in SUBSET Requests, NEW r \in Requests,
         \A q \in Requests \ {r} : q \in A <=> q \in B
  PROVE  /\ Cardinality(A) \in Nat /\ Cardinality(B) \in Nat
         /\ Cardinality(B) = Cardinality(A) + (IF r \in B THEN 1 ELSE 0)
                                            - (IF r \in A THEN 1 ELSE 0)
  <1> DEFINE C == A \ {r}
  <1>1. IsFiniteSet(A) /\ IsFiniteSet(B) /\ IsFiniteSet(C)
    BY MetricsAssumption, FS_Subset
  <1>2. Cardinality(A) \in Nat /\ Cardinality(B) \in Nat /\ Cardinality(C) \in Nat
    BY <1>1, FS_CardinalityType
  <1>3. /\ A = (IF r \in A THEN C \cup {r} ELSE C)
        /\ B = (IF r \in B THEN C \cup {r} ELSE C)
    OBVIOUS
  <1>4. Cardinality(C \cup {r}) = Cardinality(C) + 1
    BY <1>1, FS_AddElement
  <1> HIDE DEF C
  <1>5. Cardinality(A) = Cardinality(C) + (IF r \in A THEN 1 ELSE 0)
    BY <1>2, <1>3, <1>4
  <1>6. Cardinality(B) = Cardinality(C) + (IF r \in B THEN 1 ELSE 0)
    BY <1>2, <1>3, <1>4
  <1> QED
    BY <1>2, <1>5, <1>6

(* A request goes on.                                                        *)
LEMMA AtMoves ==
  ASSUME MetricsTypeOK, NEW r \in Requests, NEW from, NEW to, Goto(r, from, to),
         NEW T
  PROVE  /\ Cardinality(At(T)) \in Nat /\ Cardinality(At(T)') \in Nat
         /\ Cardinality(At(T)') = Cardinality(At(T)) + (IF to \in T THEN 1 ELSE 0)
                                                     - (IF from \in T THEN 1 ELSE 0)
  <1>1. rpc[r] = from /\ rpc'[r] = to /\ \A q \in Requests \ {r} : rpc'[q] = rpc[q]
    BY DEF Goto, MetricsTypeOK
  <1>2. At(T) \in SUBSET Requests /\ At(T)' \in SUBSET Requests
        /\ (r \in At(T) <=> from \in T) /\ (r \in At(T)' <=> to \in T)
        /\ \A q \in Requests \ {r} : q \in At(T) <=> q \in At(T)'
    BY <1>1 DEF At
  <1> HIDE DEF At
  <1> QED
    BY <1>2, OneMoves

(* One more when x is one of S.                                              *)
In(x, S) == IF x \in S THEN 1 ELSE 0

(* The steps, with the status, of the requests in LookedUp and Answering.    *)
Looked == ({"database"} \X Codes) \cup ({"deferred"} \X (Codes \ {400}))

Counted(c) == {<<"count", c>>}

LEMMA AnsweringMoves ==
  ASSUME MetricsTypeOK, NEW r \in Requests, NEW from, NEW to, Goto(r, from, to),
         NEW code \in Codes, status' = [status EXCEPT ![r] = code], NEW c \in Codes
  PROVE  /\ Cardinality(Answering(c)) \in Nat /\ Cardinality(Answering(c)') \in Nat
         /\ Cardinality(Answering(c)') =
              Cardinality(Answering(c)) + In(<<to, code>>, Counted(c))
                                        - In(<<from, status[r]>>, Counted(c))
  <1>1. /\ rpc[r] = from /\ rpc'[r] = to /\ status'[r] = code
        /\ \A q \in Requests \ {r} : rpc'[q] = rpc[q] /\ status'[q] = status[q]
    BY DEF Goto, MetricsTypeOK
  <1>2. /\ Answering(c) \in SUBSET Requests /\ Answering(c)' \in SUBSET Requests
        /\ r \in Answering(c) <=> (from = "count" /\ status[r] = c)
        /\ r \in Answering(c)' <=> (to = "count" /\ code = c)
        /\ \A q \in Requests \ {r} : q \in Answering(c) <=> q \in Answering(c)'
    BY <1>1 DEF Answering
  <1> HIDE DEF Answering
  <1>3. /\ Cardinality(Answering(c)) \in Nat /\ Cardinality(Answering(c)') \in Nat
        /\ Cardinality(Answering(c)') =
             Cardinality(Answering(c)) + (IF r \in Answering(c)' THEN 1 ELSE 0)
                                       - (IF r \in Answering(c) THEN 1 ELSE 0)
    BY <1>2, OneMoves
  <1> QED
    BY <1>2, <1>3 DEF In, Counted

LEMMA LookedUpMoves ==
  ASSUME MetricsTypeOK, NEW r \in Requests, NEW from, NEW to, Goto(r, from, to),
         NEW code \in Codes, status' = [status EXCEPT ![r] = code]
  PROVE  /\ Cardinality(LookedUp) \in Nat /\ Cardinality(LookedUp') \in Nat
         /\ Cardinality(LookedUp') =
              Cardinality(LookedUp) + In(<<to, code>>, Looked)
                                    - In(<<from, status[r]>>, Looked)
  <1>1. /\ rpc[r] = from /\ rpc'[r] = to /\ status'[r] = code
        /\ \A q \in Requests \ {r} : rpc'[q] = rpc[q] /\ status'[q] = status[q]
    BY DEF Goto, MetricsTypeOK
  <1>2. /\ LookedUp \in SUBSET Requests /\ LookedUp' \in SUBSET Requests
        /\ r \in LookedUp <=> <<from, status[r]>> \in Looked
        /\ r \in LookedUp' <=> <<to, code>> \in Looked
        /\ \A q \in Requests \ {r} : q \in LookedUp <=> q \in LookedUp'
    BY <1>1, CounterNames DEF LookedUp, Looked, MetricsTypeOK
  <1>3. /\ Cardinality(LookedUp) \in Nat /\ Cardinality(LookedUp') \in Nat
        /\ Cardinality(LookedUp') =
             Cardinality(LookedUp) + (IF r \in LookedUp' THEN 1 ELSE 0)
                                   - (IF r \in LookedUp THEN 1 ELSE 0)
    BY <1>2, OneMoves
  <1> QED
    BY <1>2, <1>3 DEF In, Counted

LEMMA IncCounts ==
  ASSUME MetricsTypeOK, NEW S \in SUBSET Counters, Inc(S)
  PROVE  \A k \in Counters :
           count[k] \in Nat /\ count'[k] \in Nat /\ count'[k] = count[k] + In(k, S)
  BY MetricsAssumption DEF MetricsTypeOK, Inc, In

(* Request r goes from one step to another, with the status code, and counts *)
(* in S; p is 1 when it panics.                                              *)
Goes(r, from, to, code, S, p) ==
  /\ Goto(r, from, to) /\ status' = [status EXCEPT ![r] = code]
  /\ Inc(S) /\ inFlight' = inFlight + In(to, Steps) - In(from, Steps)
  /\ panics' = panics + p
  /\ UNCHANGED <<cached, busy, worker>>

(* The other variables, but when a request comes in. *)
Rests == UNCHANGED <<failed, events, pending, seen, during>>

(* What S must balance then: the sets of requests that join in or drop out,  *)
(* up to those that unwind.                                                  *)
Unwound(from, to) == In(to, {"unwind"}) - In(from, {"unwind"})

BalancedAnswer(r, from, to, code, S, p, c) ==
  In(Outcome[c], S) - In(Answer[c], S)
    - (In(<<to, code>>, Counted(c)) - In(<<from, status[r]>>, Counted(c)))
    \in 0 .. p - Unwound(from, to)

BalancedLookup(r, from, to, code, S, p) ==
  In("cache_hit", S) + In("cache_miss", S)
    - (In("orders_success", S) + In("orders_not_found", S)
       + In("orders_internal_error", S))
    - (In(<<to, code>>, Looked) - In(<<from, status[r]>>, Looked))
    \in Unwound(from, to) - p .. Unwound(from, to)

Undecided == {"order", "cache", "database", "unwind"}

Balanced(r, from, to, code, S, p) ==
  /\ \A c \in Codes : BalancedAnswer(r, from, to, code, S, p, c)
  /\ cached => BalancedLookup(r, from, to, code, S, p)
  /\ to \in Undecided => code = 200

(* What a request may still count, it counts once; at most one lookup and    *)
(* one outcome at a time.                                                    *)
Handling == {"order", "cache", "database"}
LookupCounters == {"cache_hit", "cache_miss"}
OutcomeCounters == {"orders_success", "orders_not_found", "orders_internal_error"}

Falls(from, to, S, p) ==
  /\ \A k \in Counters :
       /\ to \in Before(k) => from \in Before(k)
       /\ k \in S => from \in Before(k) /\ to \notin Before(k)
  /\ p = 0 \/ (p = 1 /\ from \in Handling /\ to = "unwind")
  /\ to \in Handling => from \in Handling
  /\ \A k, l \in S \cap LookupCounters : k = l
  /\ \A k, l \in S \cap OutcomeCounters : k = l

LEMMA UnwindingMoves ==
  ASSUME MetricsTypeOK, NEW r \in Requests, NEW from, NEW to, Goto(r, from, to)
  PROVE  /\ Unwinding \in Nat /\ Unwinding' \in Nat
         /\ Unwinding' = Unwinding + Unwound(from, to)
  BY AtMoves DEF Unwinding, Unwound, In

LEMMA SumsAreInts ==
  ASSUME NEW f \in [Counters -> Nat]
  PROVE  /\ LookupCounters \subseteq Counters /\ OutcomeCounters \subseteq Counters
         /\ Lookups(f) \in Nat /\ Outcomes(f) \in Nat
  <1>1. LookupCounters \subseteq Counters /\ OutcomeCounters \subseteq Counters
    BY CounterNames DEF Counters, LookupCounters, OutcomeCounters
  <1> QED
    BY <1>1 DEF LookupCounters, OutcomeCounters, Lookups, Outcomes

LEMMA SumsCount ==
  ASSUME MetricsTypeOK, NEW S \in SUBSET Counters, Inc(S)
  PROVE  /\ Lookups(count) \in Nat /\ Outcomes(count) \in Nat
         /\ Lookups(count') =
              Lookups(count) + In("cache_hit", S) + In("cache_miss", S)
         /\ Outcomes(count') =
              Outcomes(count) + In("orders_success", S) + In("orders_not_found", S)
                + In("orders_internal_error", S)
  <1>1. LookupCounters \subseteq Counters /\ OutcomeCounters \subseteq Counters
    BY CounterNames DEF Counters, LookupCounters, OutcomeCounters
  <1>2. \A k \in LookupCounters \cup OutcomeCounters :
          count[k] \in Nat /\ count'[k] = count[k] + In(k, S)
    BY <1>1, IncCounts
  <1> QED
    BY <1>2 DEF LookupCounters, OutcomeCounters, Lookups, Outcomes, In

LEMMA DifferencesMove ==
  ASSUME MetricsTypeOK, Differences, NEW r \in Requests, NEW from, NEW to,
         NEW code \in Codes, NEW S \in SUBSET Counters, NEW p \in {0, 1},
         Goes(r, from, to, code, S, p), Balanced(r, from, to, code, S, p)
  PROVE  Differences'
  <1>0. /\ Goto(r, from, to) /\ status' = [status EXCEPT ![r] = code]
        /\ Inc(S) /\ inFlight' = inFlight + In(to, Steps) - In(from, Steps)
        /\ panics' = panics + p
        /\ UNCHANGED <<cached, busy, worker>>
    BY DEF Goes
  <1>u. /\ Unwinding \in Nat /\ Unwinding' = Unwinding + Unwound(from, to)
        /\ Unwound(from, to) \in Int /\ panics \in Nat
    BY <1>0, UnwindingMoves, MetricsAssumption DEF Unwound, In, MetricsTypeOK
  <1>1. ASSUME NEW c \in Codes
        PROVE  count'[Outcome[c]] - count'[Answer[c]] - Cardinality(Answering(c)')
                 \in 0 .. panics' - Unwinding'
    <2>1. count[Outcome[c]] - count[Answer[c]] - Cardinality(Answering(c))
            \in 0 .. panics - Unwinding
      BY DEF Differences
    <2>2. /\ Cardinality(Answering(c)) \in Nat
          /\ Cardinality(Answering(c)') =
               Cardinality(Answering(c))
                 + In(<<to, code>>, Counted(c))
                 - In(<<from, status[r]>>, Counted(c))
      BY <1>0, AnsweringMoves
    <2>3. /\ count[Outcome[c]] \in Nat /\ count[Answer[c]] \in Nat
          /\ count'[Outcome[c]] = count[Outcome[c]] + In(Outcome[c], S)
          /\ count'[Answer[c]] = count[Answer[c]] + In(Answer[c], S)
      BY <1>0, IncCounts, CountersDiffer
    <2>4. In(Outcome[c], S) - In(Answer[c], S)
            - (In(<<to, code>>, Counted(c)) - In(<<from, status[r]>>, Counted(c)))
            \in 0 .. p - Unwound(from, to)
      BY DEF Balanced, BalancedAnswer
    <2>5. \A x, T : In(x, T) \in Int
      BY DEF In
    <2> QED
      BY <1>0, <1>u, <2>1, <2>2, <2>3, <2>4, <2>5
  <1>2. ASSUME cached'
        PROVE  Lookups(count') - Outcomes(count') - Cardinality(LookedUp')
                 \in Unwinding' - panics' .. Unwinding'
    <2>1. Lookups(count) - Outcomes(count) - Cardinality(LookedUp)
            \in Unwinding - panics .. Unwinding
      BY <1>0, <1>2 DEF Differences
    <2>2. /\ Cardinality(LookedUp) \in Nat
          /\ Cardinality(LookedUp') =
               Cardinality(LookedUp)
                 + In(<<to, code>>, Looked)
                 - In(<<from, status[r]>>, Looked)
      BY <1>0, LookedUpMoves
    <2>3. /\ Lookups(count) \in Nat /\ Outcomes(count) \in Nat
          /\ Lookups(count') =
               Lookups(count) + In("cache_hit", S) + In("cache_miss", S)
          /\ Outcomes(count') =
               Outcomes(count) + In("orders_success", S) + In("orders_not_found", S)
                 + In("orders_internal_error", S)
      BY <1>0, SumsCount
    <2>4. In("cache_hit", S) + In("cache_miss", S)
            - (In("orders_success", S) + In("orders_not_found", S)
               + In("orders_internal_error", S))
            - (In(<<to, code>>, Looked) - In(<<from, status[r]>>, Looked))
            \in Unwound(from, to) - p .. Unwound(from, to)
      BY <1>0, <1>2 DEF Balanced, BalancedLookup
    <2>5. \A x, T : In(x, T) \in Int
      BY DEF In
    <2> QED
      BY <1>0, <1>u, <2>1, <2>2, <2>3, <2>4, <2>5
  <1>3. inFlight' = Cardinality(At(Steps)')
    <2>1. /\ Cardinality(At(Steps)) \in Nat
          /\ Cardinality(At(Steps)') = Cardinality(At(Steps)) + (IF to \in Steps THEN 1 ELSE 0)
                                         - (IF from \in Steps THEN 1 ELSE 0)
      BY <1>0, AtMoves
    <2> QED
      BY <1>0, <2>1 DEF Differences, In
  <1>4. \A q \in Requests : rpc'[q] \in Undecided => status'[q] = 200
    <2>1. /\ rpc'[r] = to /\ status'[r] = code
          /\ \A q \in Requests \ {r} : rpc'[q] = rpc[q] /\ status'[q] = status[q]
      BY <1>0 DEF Goto, MetricsTypeOK
    <2>2. to \in Undecided => code = 200
      BY DEF Balanced
    <2> QED
      BY <2>1, <2>2 DEF Differences, Undecided
  <1>5. busy' = IF worker' = "idle" THEN 0 ELSE 1
    BY <1>0 DEF Differences
  <1>6. (cached' => Lookups(count)' - Outcomes(count)' - Cardinality(LookedUp)'
                      \in Unwinding' - panics' .. Unwinding')
    BY <1>2 DEF Lookups, Outcomes
  <1> QED
    BY <1>1, <1>3, <1>4, <1>5, <1>6 DEF Differences, Undecided

(* And what keeps its counters within the events.                            *)
LEMMA BoundsMove ==
  ASSUME MetricsTypeOK, CountsBounded, NEW r \in Requests, NEW from, NEW to,
         NEW code \in Codes, NEW S \in SUBSET Counters, NEW p \in {0, 1},
         Goes(r, from, to, code, S, p), Falls(from, to, S, p), Rests
  PROVE  CountsBounded'
  <1>0. /\ Goto(r, from, to) /\ Inc(S) /\ panics' = panics + p
        /\ UNCHANGED <<events, worker, failed>>
    BY DEF Goes, Rests
  <1>1. ASSUME NEW k \in Counters
        PROVE  count'[k] + Cardinality(At(Before(k))') <= events
    <2>1. count[k] + Cardinality(At(Before(k))) <= events /\ events \in Nat
      BY MetricsAssumption DEF CountsBounded, MetricsTypeOK
    <2>2. count[k] \in Nat /\ count'[k] = count[k] + In(k, S)
      BY <1>0, IncCounts
    <2>3. /\ Cardinality(At(Before(k))) \in Nat /\ Cardinality(At(Before(k))') \in Nat
          /\ Cardinality(At(Before(k))') =
               Cardinality(At(Before(k))) + (IF to \in Before(k) THEN 1 ELSE 0)
                                          - (IF from \in Before(k) THEN 1 ELSE 0)
      BY <1>0, AtMoves
    <2>4. /\ to \in Before(k) => from \in Before(k)
          /\ k \in S => from \in Before(k) /\ to \notin Before(k)
      BY DEF Falls
    <2> QED
      BY <2>1, <2>2, <2>3, <2>4 DEF In
  <1>2. \A k \in {"messages_success", "messages_error_parsing", "errors_processing"} :
          k \in Counters /\ count'[k] = count[k]
    <2>1. \A k \in {"messages_success", "messages_error_parsing", "errors_processing"} :
            k \in Counters /\ k \notin S
      BY BeforeIs DEF Counters, Falls
    <2> QED
      BY <1>0, <2>1, IncCounts, MetricsAssumption DEF Inc, MetricsTypeOK
  <1>3. \A k : Before(k)' = Before(k)
    BY DEF Before
  <1>4. panics' + Cardinality(At(Handling)') <= events
    <2>1. /\ Cardinality(At(Handling)) \in Nat
          /\ Cardinality(At(Handling)') =
               Cardinality(At(Handling)) + (IF to \in Handling THEN 1 ELSE 0)
                                         - (IF from \in Handling THEN 1 ELSE 0)
      BY <1>0, AtMoves
    <2>2. panics + Cardinality(At(Handling)) <= events
      BY DEF CountsBounded, Handling
    <2>3. panics \in Nat /\ events \in Nat
      BY MetricsAssumption DEF MetricsTypeOK
    <2>4. /\ p = 1 => from \in Handling /\ to \notin Handling
          /\ to \in Handling => from \in Handling
      BY DEF Falls, Handling
    <2> QED
      BY <1>0, <2>1, <2>2, <2>3, <2>4
  <1> QED
    BY <1>0, <1>1, <1>2, <1>3, <1>4 DEF CountsBounded, At, Handling

(* And what a scrape may read while it does.                                 *)
LEMMA ReadingsMove ==
  ASSUME MetricsTypeOK, Readings, NEW r \in Requests, NEW from, NEW to,
         NEW code \in Codes, NEW S \in SUBSET Counters, NEW p \in {0, 1},
         Goes(r, from, to, code, S, p), Falls(from, to, S, p), Rests
  PROVE  Readings'
  <1>0. /\ Goto(r, from, to) /\ Inc(S) /\ panics' = panics + p
        /\ UNCHANGED <<seen, during, cached>> /\ panics \in Nat /\ during \in Nat
        /\ seen \in [Counters -> Nat]
    BY MetricsAssumption DEF Goes, Rests, MetricsTypeOK
  <1>1. \A k \in Counters :
          count[k] \in Nat /\ count'[k] \in Nat /\ count'[k] = count[k] + In(k, S)
    BY <1>0, IncCounts
  <1>2. ASSUME NEW k \in Counters
        PROVE  /\ Cardinality(At(Before(k))) \in Nat
               /\ Cardinality(At(Before(k))') \in Nat
               /\ Cardinality(At(Before(k))') <= Cardinality(At(Before(k)))
               /\ k \in S =>
                    Cardinality(At(Before(k))') + 1 <= Cardinality(At(Before(k)))
    <2>1. /\ Cardinality(At(Before(k))) \in Nat /\ Cardinality(At(Before(k))') \in Nat
          /\ Cardinality(At(Before(k))') =
               Cardinality(At(Before(k))) + (IF to \in Before(k) THEN 1 ELSE 0)
                                          - (IF from \in Before(k) THEN 1 ELSE 0)
      BY <1>0, AtMoves
    <2>2. /\ to \in Before(k) => from \in Before(k)
          /\ k \in S => from \in Before(k) /\ to \notin Before(k)
      BY DEF Falls
    <2> QED
      BY <2>1, <2>2
  <1>3. \A k \in Counters :
          count'[k] + Cardinality(At(Before(k))') <= count[k] + Cardinality(At(Before(k)))
    BY <1>1, <1>2 DEF In
  <1>4. \A k \in Counters : At(Before(k))' = {q \in Requests : rpc'[q] \in Before(k)}
    BY DEF Before, At
  <1>5. \A k \in Counters : seen'[k] <= count'[k]
    BY <1>0, <1>1 DEF Readings, In
  <1>6. ASSUME NEW c \in Codes
        PROVE  /\ count'[Outcome[c]] + Cardinality(At(Before(Outcome[c]))')
                    - seen'[Answer[c]] <= during' + panics'
               /\ count'[Answer[c]] + Cardinality(At(Before(Answer[c]))')
                    - seen'[Outcome[c]] <= during'
    <2>1. Outcome[c] \in Counters /\ Answer[c] \in Counters
      BY CountersDiffer
    <2>2. /\ count[Outcome[c]] + Cardinality(At(Before(Outcome[c])))
               - seen[Answer[c]] <= during + panics
          /\ count[Answer[c]] + Cardinality(At(Before(Answer[c])))
               - seen[Outcome[c]] <= during
      BY DEF Readings
    <2>3. seen[Outcome[c]] \in Nat /\ seen[Answer[c]] \in Nat
      BY <1>0, <2>1
    <2> QED
      BY <1>0, <1>1, <1>2, <1>3, <2>1, <2>2, <2>3
  <1>7. ASSUME cached'
        PROVE  /\ Lookups(count') + Cardinality(At(Before("cache_hit"))')
                    - Outcomes(seen) <= during
               /\ Outcomes(count') + Cardinality(At(Before("orders_success"))')
                    - Lookups(seen) <= during + panics
    <2>1. /\ Lookups(count) + Cardinality(At(Before("cache_hit")))
               - Outcomes(seen) <= during
          /\ Outcomes(count) + Cardinality(At(Before("orders_success")))
               - Lookups(seen) <= during + panics
      BY <1>0, <1>7 DEF Readings
    <2>2. /\ Lookups(count) \in Nat /\ Outcomes(count) \in Nat
          /\ Lookups(count') =
               Lookups(count) + In("cache_hit", S) + In("cache_miss", S)
          /\ Outcomes(count') =
               Outcomes(count) + In("orders_success", S) + In("orders_not_found", S)
                 + In("orders_internal_error", S)
      BY <1>0, SumsCount
    <2>3. /\ LookupCounters \subseteq Counters /\ OutcomeCounters \subseteq Counters
          /\ Lookups(seen) \in Nat /\ Outcomes(seen) \in Nat
      BY <1>0, SumsAreInts
    <2>4. /\ Before("cache_miss") = Before("cache_hit")
          /\ Before("orders_not_found") = Before("orders_success")
          /\ Before("orders_internal_error") = Before("orders_success")
      BY BeforeIs, CounterNames
    <2>5. /\ \A k, l \in S \cap LookupCounters : k = l
          /\ \A k, l \in S \cap OutcomeCounters : k = l
      BY DEF Falls
    <2>6. In("cache_hit", S) + In("cache_miss", S)
            + Cardinality(At(Before("cache_hit"))') <= Cardinality(At(Before("cache_hit")))
      <3>1. /\ "cache_hit" \in Counters /\ "cache_miss" \in Counters
            /\ ~("cache_hit" \in S /\ "cache_miss" \in S)
        BY <2>3, <2>5 DEF LookupCounters
      <3>2. /\ At(Before("cache_miss")) = At(Before("cache_hit"))
            /\ At(Before("cache_miss"))' = At(Before("cache_hit"))'
        BY <1>4, <2>4, <3>1
      <3> QED
        BY <1>2, <3>1, <3>2 DEF In
    <2>7. In("orders_success", S) + In("orders_not_found", S)
            + In("orders_internal_error", S)
            + Cardinality(At(Before("orders_success"))')
            <= Cardinality(At(Before("orders_success")))
      <3>1. /\ OutcomeCounters \subseteq Counters
            /\ ~("orders_success" \in S /\ "orders_not_found" \in S)
            /\ ~("orders_success" \in S /\ "orders_internal_error" \in S)
            /\ ~("orders_not_found" \in S /\ "orders_internal_error" \in S)
        BY <2>3, <2>5 DEF OutcomeCounters
      <3>2. \A k \in OutcomeCounters :
              /\ At(Before(k)) = At(Before("orders_success"))
              /\ At(Before(k))' = At(Before("orders_success"))'
        BY <1>4, <2>4, <3>1 DEF OutcomeCounters
      <3> QED
        BY <1>2, <3>1, <3>2 DEF In, OutcomeCounters
    <2>8. /\ "cache_hit" \in Counters /\ "orders_success" \in Counters
      BY <2>3 DEF LookupCounters, OutcomeCounters
    <2>9. \A x, T : In(x, T) \in Int
      BY DEF In
    <2> QED
      BY <1>0, <1>2, <2>1, <2>2, <2>3, <2>6, <2>7, <2>8, <2>9
  <1>8. cached' =>
          /\ Lookups(count)' + Cardinality(At(Before("cache_hit"))')
               - Outcomes(seen)' <= during'
          /\ Outcomes(count)' + Cardinality(At(Before("orders_success"))')
               - Lookups(seen)' <= during' + panics'
    <2>1. Lookups(count)' = Lookups(count') /\ Outcomes(count)' = Outcomes(count')
          /\ Lookups(seen)' = Lookups(seen) /\ Outcomes(seen)' = Outcomes(seen)
      BY <1>0 DEF Lookups, Outcomes
    <2>2. \A k \in {"cache_hit", "orders_success"} :
            Cardinality(At(Before(k))') \in Int
      BY <1>2, CounterNames DEF Counters
    <2>3. Lookups(count') \in Int /\ Outcomes(count') \in Int
          /\ Lookups(seen) \in Nat /\ Outcomes(seen) \in Nat
      <3>1. count' \in [Counters -> Nat]
        BY <1>0, <1>1 DEF Inc
      <3> QED
        BY <1>0, <3>1, SumsAreInts
    <2> QED
      BY <1>0, <1>7, <2>1, <2>2, <2>3
  <1> QED
    BY <1>5, <1>6, <1>8 DEF Readings

(* Types but for the bounds, which follow from the counts.                   *)
Shapes ==
  /\ cached \in BOOLEAN
  /\ worker \in {"idle", "parse", "create", "return"}
  /\ spent \in 0 .. MaxSpent /\ deferred \in 0 .. MaxSpent
  /\ rpc \in [Requests -> Steps \cup {"idle"}]
  /\ status \in [Requests -> Codes]
  /\ count \in [Counters -> Nat]
  /\ busy \in Int /\ inFlight \in Int
  /\ observed \in 0 .. MaxSpent /\ took \in 0 .. MaxSpent
  /\ failed \in Nat /\ events \in Nat /\ panics \in Nat
  /\ pending \subseteq Scraped
  /\ seen \in [Counters -> Nat] /\ during \in Int

LEMMA TypeShapes == MetricsTypeOK => Shapes
  BY MetricsAssumption DEF MetricsTypeOK, Shapes, Steps

LEMMA ShapesStep ==
  ASSUME Shapes, [MetricsNext]_metricVars
  PROVE  Shapes'
  <1>1. \A S : Inc(S) => count' \in [Counters -> Nat]
    BY DEF Inc, Shapes
  <1>2. CASE HandleMessage
    <2>1. CASE Receive
      BY <2>1, MetricsAssumption DEF Receive, Event, httpVars, scrapeVars, Shapes
    <2>2. CASE TimePasses
      BY <2>2, MetricsAssumption DEF TimePasses, httpVars, scrapeVars, Shapes
    <2>3. CASE ParseOrder
      BY <1>1, <2>3 DEF ParseOrder, httpVars, scrapeVars, Shapes
    <2>4. CASE CreateOrder
      BY <2>4 DEF CreateOrder, httpVars, scrapeVars, Shapes
    <2>5. CASE Return
      BY <2>5 DEF Return, httpVars, scrapeVars, Shapes
    <2> QED
      BY <1>2, <2>1, <2>2, <2>3, <2>4, <2>5 DEF HandleMessage
  <1>3. ASSUME NEW r \in Requests, Serve(r) PROVE Shapes'
    <2>0. Codes = {200, 400, 404, 500}
      BY CounterNames
    <2>1. CASE Enter(r)
      BY <2>0, <2>1 DEF Enter, Event, Goto, Give, kafkaVars, Shapes, Steps
    <2>2. CASE CheckUID(r)
      BY <2>0, <2>2 DEF CheckUID, Goto, Give, kafkaVars, scrapeVars, Shapes, Steps
    <2>3. CASE Look(r)
      BY <1>1, <2>0, <2>3 DEF Look, Goto, Give, kafkaVars, scrapeVars, Shapes, Steps
    <2>4. CASE Query(r)
      BY <2>0, <2>4 DEF Query, Goto, Give, kafkaVars, scrapeVars, Shapes, Steps
    <2>5. CASE Panic(r)
      BY <2>5 DEF Panic, Goto, kafkaVars, scrapeVars, Shapes, Steps
    <2>6. CASE Processed(r)
      BY <1>1, <2>6 DEF Processed, Goto, kafkaVars, scrapeVars, Shapes, Steps
    <2>7. CASE CountRequest(r)
      BY <1>1, <2>7 DEF CountRequest, Goto, kafkaVars, scrapeVars, Shapes, Steps
    <2>8. CASE Leave(r)
      BY <2>8 DEF Leave, Goto, kafkaVars, scrapeVars, Shapes, Steps
    <2> QED
      BY <1>3, <2>1, <2>2, <2>3, <2>4, <2>5, <2>6, <2>7, <2>8 DEF Serve
  <1>4. CASE Scrape
    <2>1. CASE BeginScrape
      BY <2>1 DEF BeginScrape, kafkaVars, httpVars, Shapes
    <2>2. ASSUME NEW k \in Scraped, Collect(k) PROVE Shapes'
      <3>1. pending' \subseteq Scraped
        BY <2>2 DEF Collect, Shapes
      <3>2. seen' \in [Counters -> Nat]
        <4>1. CASE k \in Counters
          BY <2>2, <4>1 DEF Collect, Shapes
        <4>2. CASE k \notin Counters
          BY <2>2, <4>2 DEF Collect, Shapes
        <4> QED
          BY <4>1, <4>2
      <3> QED
        BY <2>2, <3>1, <3>2 DEF Collect, kafkaVars, httpVars, Shapes
    <2> QED
      BY <1>4, <2>1, <2>2 DEF Scrape
  <1>5. CASE UNCHANGED metricVars
    BY <1>5 DEF metricVars, kafkaVars, httpVars, scrapeVars, Shapes
  <1> QED
    BY <1>2, <1>3, <1>4, <1>5 DEF MetricsNext

(* The counters of messages are none of those the differences are about.     *)
MessageCounters == {"messages_success", "messages_error_parsing", "errors_processing"}

LEMMA MessageCountersApart ==
  /\ MessageCounters \subseteq Counters
  /\ \A k \in MessageCounters : Before(k) = {}
  /\ \A c \in Codes : Outcome[c] \notin MessageCounters /\ Answer[c] \notin MessageCounters
  /\ \A k \in LookupCounters \cup OutcomeCounters : k \in Counters /\ k \notin MessageCounters
  <1>1. MessageCounters \subseteq Counters /\ MessageCounters \subseteq OtherCounters
    BY DEF MessageCounters, Counters, OtherCounters
  <1>2. \A k \in MessageCounters : Before(k) = {}
    BY BeforeIs DEF MessageCounters
  <1>3. \A k \in LookupCounters \cup OutcomeCounters : k \in Counters /\ k \notin MessageCounters
    BY CounterNames DEF Counters, LookupCounters, OutcomeCounters, MessageCounters
  <1> QED
    BY <1>1, <1>2, <1>3, CountersDiffer

(* The steps of a message leave the requests where they are.                 *)
LEMMA MessageKeeps ==
  ASSUME MetricsInv, HandleMessage
  PROVE  /\ Differences' /\ CountsBounded' /\ (pending' # {} => Readings')
         /\ UNCHANGED <<panics, pending, seen, during, cached>>
  <1>0. /\ MetricsTypeOK /\ Differences /\ CountsBounded
        /\ pending # {} => Readings
        /\ rpc' = rpc /\ status' = status /\ inFlight' = inFlight /\ cached' = cached
        /\ panics' = panics /\ pending' = pending /\ seen' = seen /\ during' = during
        /\ events \in Nat /\ failed \in Nat /\ panics \in Nat
        /\ seen \in [Counters -> Nat]
    BY MetricsAssumption
    DEF MetricsInv, MetricsTypeOK, HandleMessage, Receive, TimePasses, ParseOrder,
        CreateOrder, Return, httpVars, scrapeVars
  <1>1. /\ LookedUp' = LookedUp
        /\ \A c : Answering(c)' = Answering(c)
        /\ \A T : At(T)' = At(T)
        /\ \A k : Before(k)' = Before(k)
        /\ Unwinding' = Unwinding
    BY <1>0 DEF LookedUp, Answering, At, Before, Unwinding
  <1>2. \A k \in Counters : count[k] \in Nat
    BY <1>0, MetricsAssumption DEF MetricsTypeOK
  <1>3. ASSUME \A k \in Counters : count'[k] \in Nat /\ count'[k] >= count[k],
               \A k \in Counters \ MessageCounters : count'[k] = count[k],
               busy' = IF worker' = "idle" THEN 0 ELSE 1
        PROVE  Differences' /\ (pending' # {} => Readings')
    <2>1. \A c \in Codes : /\ Outcome[c] \in Counters /\ Answer[c] \in Counters
                           /\ count'[Outcome[c]] = count[Outcome[c]]
                           /\ count'[Answer[c]] = count[Answer[c]]
      BY <1>3, MessageCountersApart, CountersDiffer
    <2>2. \A k \in LookupCounters \cup OutcomeCounters : count'[k] = count[k]
      BY <1>3, MessageCountersApart
    <2>3. Lookups(count)' = Lookups(count) /\ Outcomes(count)' = Outcomes(count)
          /\ Lookups(seen)' = Lookups(seen) /\ Outcomes(seen)' = Outcomes(seen)
      BY <1>0, <2>2 DEF Lookups, Outcomes, LookupCounters, OutcomeCounters
    <2>4. Differences'
      BY <1>0, <1>1, <1>3, <2>1, <2>3 DEF Differences
    <2>5. ASSUME Readings PROVE Readings'
      <3>1. \A k \in Counters : seen'[k] <= count'[k]
        BY <1>0, <1>2, <1>3, <2>5 DEF Readings
      <3> QED
        BY <1>0, <1>1, <2>1, <2>3, <2>5, <3>1 DEF Readings
    <2> QED
      BY <1>0, <2>4, <2>5
  <1>4. ASSUME count' = count, events' \in {events, events + 1},
               events' <= MaxEvents,
               worker' = "parse" => worker = "parse" \/ events' = events + 1,
               worker' \in {"parse", "create"} =>
                 \/ worker = worker' /\ failed' = failed
                 \/ events' = events + 1 /\ failed' = failed,
               failed' \in {failed, failed + 1},
               failed' = failed + 1 => worker = "create"
        PROVE  CountsBounded'
    <2>2. ASSUME NEW k \in Counters
          PROVE  count[k] + Cardinality(At(Before(k))) <= events'
      <3>1. count[k] + Cardinality(At(Before(k))) <= events
        BY <1>0 DEF CountsBounded
      <3>2. Cardinality(At(Before(k))) \in Nat
        BY MetricsAssumption, FS_Subset, FS_CardinalityType DEF At
      <3> QED
        BY <1>0, <1>2, <1>4, <3>1, <3>2
    <2>3. \A k \in MessageCounters : k \in Counters /\ count[k] <= events
      <3>1. \A k \in MessageCounters : k \in Counters /\ At(Before(k)) = {}
        BY MessageCountersApart DEF At
      <3>2. Cardinality({}) = 0
        BY FS_EmptySet
      <3>3. \A k \in MessageCounters : count[k] + Cardinality(At(Before(k))) <= events
        BY <1>0, <3>1 DEF CountsBounded
      <3> QED
        BY <1>0, <1>2, <3>1, <3>2, <3>3
    <2>4. worker' = "parse" => /\ count["messages_success"] < events'
                               /\ count["messages_error_parsing"] < events'
                               /\ count["errors_processing"] < events'
      BY <1>0, <1>2, <1>4, <2>3 DEF CountsBounded, MessageCounters
    <2>5. /\ worker' \in {"parse", "create"} => failed' < events'
          /\ failed' <= events'
      BY <1>0, <1>4 DEF CountsBounded
    <2>6. panics + Cardinality(At(Handling)) <= events'
      <3>1. Cardinality(At(Handling)) \in Nat
        BY MetricsAssumption, FS_Subset, FS_CardinalityType DEF At
      <3> QED
        BY <1>0, <1>4, <3>1 DEF CountsBounded, Handling
    <2> QED
      BY <1>0, <1>1, <1>4, <2>2, <2>4, <2>5, <2>6 DEF CountsBounded, Handling
  <1>5. count' = count =>
          /\ \A k \in Counters : count'[k] \in Nat /\ count'[k] >= count[k]
          /\ \A k \in Counters \ MessageCounters : count'[k] = count[k]
    BY <1>2
  <1>6. CASE Receive
    <2>1. busy' = IF worker' = "idle" THEN 0 ELSE 1
      BY <1>0, <1>6 DEF Receive, Differences
    <2>2. CountsBounded'
      BY <1>0, <1>4, <1>6, MetricsAssumption DEF Receive, Event
    <2> QED
      BY <1>0, <1>3, <1>5, <1>6, <2>1, <2>2 DEF Receive
  <1>7. CASE TimePasses
    <2>1. busy' = IF worker' = "idle" THEN 0 ELSE 1
      BY <1>0, <1>7 DEF TimePasses, Differences
    <2>2. CountsBounded'
      BY <1>0, <1>4, <1>7, MetricsAssumption DEF TimePasses, MetricsTypeOK
    <2> QED
      BY <1>0, <1>3, <1>5, <1>7, <2>1, <2>2 DEF TimePasses
  <1>8. CASE CreateOrder
    <2>1. busy' = IF worker' = "idle" THEN 0 ELSE 1
      BY <1>0, <1>8 DEF CreateOrder, Differences
    <2>2. CountsBounded'
      BY <1>0, <1>4, <1>8, MetricsAssumption DEF CreateOrder, MetricsTypeOK
    <2> QED
      BY <1>0, <1>3, <1>5, <1>8, <2>1, <2>2 DEF CreateOrder
  <1>9. CASE Return
    <2>1. busy' = IF worker' = "idle" THEN 0 ELSE 1
      BY <1>0, <1>9, MetricsAssumption DEF Return, Differences, MetricsTypeOK
    <2>2. CountsBounded'
      BY <1>0, <1>4, <1>9, MetricsAssumption DEF Return, MetricsTypeOK
    <2> QED
      BY <1>0, <1>3, <1>5, <1>9, <2>1, <2>2 DEF Return
  <1>10. CASE ParseOrder
    <2>1. PICK S \in {{"messages_error_parsing", "errors_processing"}, {"messages_success"}} :
            Inc(S) /\ worker' # "parse" /\ worker' # "idle" /\ (worker' = "create" \/ worker' = "return")
      BY <1>10 DEF ParseOrder
    <2>2. worker = "parse" /\ UNCHANGED <<busy, failed, events>>
      BY <1>10 DEF ParseOrder
    <2>3. S \subseteq MessageCounters /\ S \subseteq Counters
      BY <2>1, MessageCountersApart DEF MessageCounters
    <2>4. \A k \in Counters : count'[k] = count[k] + In(k, S)
      BY <1>0, <2>1, <2>3, IncCounts
    <2>5. /\ \A k \in Counters : count'[k] \in Nat /\ count'[k] >= count[k]
          /\ \A k \in Counters \ MessageCounters : count'[k] = count[k]
      BY <1>2, <2>3, <2>4 DEF In
    <2>6. busy' = IF worker' = "idle" THEN 0 ELSE 1
      BY <1>0, <2>1, <2>2 DEF Differences
    <2>7. ASSUME NEW k \in Counters
          PROVE  count'[k] + Cardinality(At(Before(k))) <= events
      <3>1. CASE k \notin S
        BY <1>0, <1>2, <2>4, <3>1 DEF CountsBounded, In
      <3>2. CASE k \in S
        <4>1. At(Before(k)) = {} /\ Cardinality({}) = 0
          BY <2>3, <3>2, MessageCountersApart, FS_EmptySet DEF At
        <4>2. count[k] < events /\ count'[k] = count[k] + 1
          BY <1>0, <2>1, <2>2, <2>4, <3>2 DEF CountsBounded, In
        <4> QED
          BY <1>0, <1>2, <4>1, <4>2
      <3> QED
        BY <3>1, <3>2
    <2>8. CountsBounded'
      BY <1>0, <1>1, <2>1, <2>2, <2>7 DEF CountsBounded
    <2> QED
      BY <1>0, <1>3, <2>5, <2>6, <2>8
  <1> QED
    BY <1>6, <1>7, <1>8, <1>9, <1>10 DEF HandleMessage

(* A status that stays, and counters that stay, in the form Goes has them.   *)
LEMMA NothingGiven ==
  ASSUME MetricsTypeOK, NEW r \in Requests, UNCHANGED status
  PROVE  status' = [status EXCEPT ![r] = status[r]]
  BY DEF MetricsTypeOK

LEMMA NothingCounted ==
  ASSUME MetricsTypeOK, UNCHANGED count
  PROVE  Inc({})
  BY DEF MetricsTypeOK, Inc

(* What a step of a request must come to.                                    *)
LEMMA RequestMoves ==
  ASSUME MetricsInv, NEW r \in Requests, NEW from, NEW to, NEW code \in Codes,
         NEW S \in SUBSET Counters, NEW p \in {0, 1},
         Goes(r, from, to, code, S, p), Balanced(r, from, to, code, S, p),
         Falls(from, to, S, p), Rests
  PROVE  /\ Differences' /\ CountsBounded' /\ (pending' # {} => Readings')
         /\ UNCHANGED <<pending, seen, during, cached>>
         /\ panics' >= panics
  <1>1. MetricsTypeOK /\ Differences /\ CountsBounded /\ (pending # {} => Readings)
    BY DEF MetricsInv
  <1>2. Differences'
    BY <1>1, DifferencesMove
  <1>3. CountsBounded'
    BY <1>1, BoundsMove
  <1>4. Readings => Readings'
    BY <1>1, ReadingsMove
  <1>5. panics \in Nat /\ panics' = panics + p
    BY <1>1, MetricsAssumption DEF MetricsTypeOK, Goes
  <1> QED
    BY <1>1, <1>2, <1>3, <1>4, <1>5 DEF Rests, Goes

(* A request comes in.                                                       *)
LEMMA EnterKeeps ==
  ASSUME MetricsInv, NEW r \in Requests, Enter(r)
  PROVE  /\ Differences' /\ CountsBounded' /\ (pending' # {} => Readings')
         /\ UNCHANGED <<pending, seen, panics, cached>>
         /\ pending = {} => UNCHANGED during
  <1>0. /\ MetricsTypeOK /\ Differences /\ CountsBounded
        /\ pending # {} => Readings
        /\ inFlight \in Int /\ events \in Nat /\ panics \in Nat /\ during \in Nat
        /\ failed \in Nat /\ 200 \in Codes
        /\ seen \in [Counters -> Nat] /\ count \in [Counters -> Nat]
    BY MetricsAssumption, CounterNames DEF MetricsInv, MetricsTypeOK
  <1>1. PICK route \in {"order", "other"} : Goto(r, "idle", route)
    BY DEF Enter
  <1>2. /\ UNCHANGED <<cached, busy, worker, failed, count, panics, pending, seen>>
        /\ events' = events + 1 /\ events < MaxEvents /\ inFlight' = inFlight + 1
        /\ status' = [status EXCEPT ![r] = 200]
        /\ pending # {} => during' = during + 1
        /\ pending = {} => during' = during
    BY DEF Enter, Event, Give, kafkaVars
  <1>3. Inc({})
    BY <1>0, <1>2, NothingCounted
  <1>4. Differences'
    <2>1. Goes(r, "idle", route, 200, {}, 0)
      BY <1>0, <1>1, <1>2, <1>3 DEF Goes, In, Steps
    <2>2. Balanced(r, "idle", route, 200, {}, 0)
      BY <1>1 DEF Balanced, BalancedAnswer, BalancedLookup, Unwound, In, Looked, Counted
    <2> QED
      BY <1>0, <2>1, <2>2, DifferencesMove
  <1>5. ASSUME NEW T
        PROVE  /\ Cardinality(At(T)) \in Nat /\ Cardinality(At(T)') \in Nat
               /\ Cardinality(At(T)') <= Cardinality(At(T)) + 1
    BY <1>0, <1>1, AtMoves
  <1>6. \A k : Before(k)' = Before(k)
    BY DEF Before
  <1>7. \A k \in Counters : count[k] \in Nat /\ count'[k] = count[k]
    BY <1>0, <1>2
  <1>8. CountsBounded'
    <2>1. \A k \in Counters : count[k] + Cardinality(At(Before(k))') <= events'
      BY <1>0, <1>2, <1>5, <1>7 DEF CountsBounded
    <2>2. panics + Cardinality(At(Handling)') <= events'
      BY <1>0, <1>2, <1>5 DEF CountsBounded, Handling
    <2>3. worker' = "parse" =>
            /\ count'["messages_success"] < events'
            /\ count'["messages_error_parsing"] < events'
            /\ count'["errors_processing"] < events'
      <3>1. MessageCounters \subseteq Counters
        BY MessageCountersApart
      <3> QED
        BY <1>0, <1>2, <1>7, <3>1 DEF CountsBounded, MessageCounters
    <2>4. /\ worker' \in {"parse", "create"} => failed' < events'
          /\ failed' <= events' /\ events' <= MaxEvents
      BY <1>0, <1>2, MetricsAssumption DEF CountsBounded
    <2> QED
      BY <1>2, <1>6, <2>1, <2>2, <2>3, <2>4 DEF CountsBounded, At, Handling
  <1>9. ASSUME pending # {} PROVE Readings'
    <2>0. Readings /\ during' = during + 1
      BY <1>0, <1>2, <1>9
    <2>1. \A k \in Counters : seen'[k] <= count'[k]
      BY <1>2, <2>0 DEF Readings
    <2>2. ASSUME NEW c \in Codes
          PROVE  /\ count'[Outcome[c]] + Cardinality(At(Before(Outcome[c]))')
                      - seen'[Answer[c]] <= during' + panics'
                 /\ count'[Answer[c]] + Cardinality(At(Before(Answer[c]))')
                      - seen'[Outcome[c]] <= during'
      <3>1. Outcome[c] \in Counters /\ Answer[c] \in Counters
        BY CountersDiffer
      <3>2. /\ count[Outcome[c]] + Cardinality(At(Before(Outcome[c])))
                 - seen[Answer[c]] <= during + panics
            /\ count[Answer[c]] + Cardinality(At(Before(Answer[c])))
                 - seen[Outcome[c]] <= during
        BY <2>0 DEF Readings
      <3>3. /\ count[Outcome[c]] \in Nat /\ count[Answer[c]] \in Nat
            /\ seen[Outcome[c]] \in Nat /\ seen[Answer[c]] \in Nat
        BY <1>0, <3>1
      <3> QED
        BY <1>0, <1>2, <1>5, <2>0, <3>2, <3>3
    <2>3. ASSUME cached'
          PROVE  /\ Lookups(count') + Cardinality(At(Before("cache_hit"))')
                      - Outcomes(seen') <= during'
                 /\ Outcomes(count') + Cardinality(At(Before("orders_success"))')
                      - Lookups(seen') <= during' + panics'
      <3>1. /\ Lookups(count) + Cardinality(At(Before("cache_hit")))
                 - Outcomes(seen) <= during
            /\ Outcomes(count) + Cardinality(At(Before("orders_success")))
                 - Lookups(seen) <= during + panics
        BY <1>2, <2>0, <2>3 DEF Readings
      <3>2. /\ Lookups(count) \in Nat /\ Outcomes(count) \in Nat
            /\ Lookups(seen) \in Nat /\ Outcomes(seen) \in Nat
        BY <1>0, SumsAreInts
      <3>3. /\ Lookups(count') = Lookups(count) /\ Outcomes(count') = Outcomes(count)
            /\ Lookups(seen') = Lookups(seen) /\ Outcomes(seen') = Outcomes(seen)
        BY <1>2
      <3> QED
        BY <1>0, <1>2, <1>5, <2>0, <3>1, <3>2, <3>3
    <2>4. /\ Lookups(count)' = Lookups(count') /\ Outcomes(count)' = Outcomes(count')
          /\ Lookups(seen)' = Lookups(seen') /\ Outcomes(seen)' = Outcomes(seen')
      BY DEF Lookups, Outcomes
    <2> QED
      BY <2>1, <2>2, <2>3, <2>4 DEF Readings
  <1> QED
    BY <1>2, <1>4, <1>8, <1>9

(* The steps at which each counter falls due, for every request.             *)
LEMMA FallsHold ==
  /\ Falls("order", "deferred", {}, 0)
  /\ Falls("order", "cache", {}, 0) /\ Falls("order", "database", {}, 0)
  /\ Falls("cache", "deferred", {"cache_hit"}, 0)
  /\ Falls("cache", "database", {"cache_miss"}, 0)
  /\ Falls("cache", "database", {"cache_miss", "cache_error"}, 0)
  /\ Falls("database", "deferred", {}, 0)
  /\ Falls("other", "leave", {}, 0) /\ Falls("other", "leave", {"http_other"}, 0)
  /\ \A s \in Handling : Falls(s, "unwind", {}, 1)
  /\ \A c \in Codes : /\ Falls("deferred", "count", {Outcome[c]}, 0)
                      /\ Falls("unwind", "leave", {Outcome[c]}, 0)
                      /\ Falls("count", "leave", {Answer[c]}, 0)
  /\ Falls("leave", "idle", {}, 0)
  <1> DEFINE Moves(from, to) ==
               \A k \in Counters : to \in Before(k) => from \in Before(k)
  <1>1. /\ Moves("order", "deferred") /\ Moves("order", "cache")
        /\ Moves("order", "database") /\ Moves("cache", "deferred")
        /\ Moves("cache", "database") /\ Moves("database", "deferred")
        /\ Moves("other", "leave") /\ Moves("deferred", "count")
        /\ Moves("unwind", "leave") /\ Moves("count", "leave")
        /\ Moves("leave", "idle")
        /\ \A s \in Handling : Moves(s, "unwind")
    <2>1. \A s \in Handling, k \in Counters : "unwind" \in Before(k) => s \in Before(k)
      BY BeforeCases DEF Handling
    <2> QED
      BY <2>1, BeforeCases
  <1>2. ASSUME NEW k \in {"cache_hit", "cache_miss", "cache_error"}
        PROVE  "cache" \in Before(k) /\ "deferred" \notin Before(k)
                 /\ "database" \notin Before(k)
    BY BeforeIs
  <1>3. "other" \in Before("http_other") /\ "leave" \notin Before("http_other")
    BY BeforeIs
  <1>4. ASSUME NEW c \in Codes
        PROVE  /\ "deferred" \in Before(Outcome[c]) /\ "count" \notin Before(Outcome[c])
               /\ "unwind" \in Before(Outcome[c]) /\ "leave" \notin Before(Outcome[c])
               /\ "count" \in Before(Answer[c]) /\ "leave" \notin Before(Answer[c])
    BY BeforeIs
  <1> HIDE DEF Moves
  <1>5. ASSUME NEW from, NEW to, NEW S, Moves(from, to), to \notin Handling \/ from \in Handling,
               \A k \in S : from \in Before(k) /\ to \notin Before(k),
               \A k, l \in S : k # l => k = "cache_error" \/ l = "cache_error"
        PROVE  Falls(from, to, S, 0)
    <2>1. "cache_error" \notin LookupCounters \cup OutcomeCounters
      BY DEF LookupCounters, OutcomeCounters
    <2> QED
      BY <1>5, <2>1 DEF Falls, Moves
  <1>6. \A s \in Handling : Falls(s, "unwind", {}, 1)
    BY <1>1 DEF Falls, Moves, Handling
  <1>7. /\ Falls("order", "deferred", {}, 0)
        /\ Falls("order", "cache", {}, 0) /\ Falls("order", "database", {}, 0)
        /\ Falls("database", "deferred", {}, 0)
        /\ Falls("other", "leave", {}, 0) /\ Falls("leave", "idle", {}, 0)
    BY <1>1, <1>5 DEF Handling
  <1>8. /\ Falls("cache", "deferred", {"cache_hit"}, 0)
        /\ Falls("cache", "database", {"cache_miss"}, 0)
        /\ Falls("cache", "database", {"cache_miss", "cache_error"}, 0)
    BY <1>1, <1>2, <1>5 DEF Handling
  <1>9. Falls("other", "leave", {"http_other"}, 0)
    BY <1>1, <1>3, <1>5 DEF Handling
  <1>10. \A c \in Codes : /\ Falls("deferred", "count", {Outcome[c]}, 0)
                          /\ Falls("unwind", "leave", {Outcome[c]}, 0)
                          /\ Falls("count", "leave", {Answer[c]}, 0)
    BY <1>1, <1>4, <1>5 DEF Handling
  <1> QED
    BY <1>6, <1>7, <1>8, <1>9, <1>10

LEMMA RequestKeeps ==
  ASSUME MetricsInv, NEW r \in Requests, Serve(r), ~Enter(r)
  PROVE  /\ Differences' /\ CountsBounded' /\ (pending' # {} => Readings')
         /\ UNCHANGED <<pending, seen, during, cached>>
         /\ panics' >= panics
  <1>0. /\ MetricsTypeOK /\ Differences
        /\ status[r] \in Codes /\ inFlight \in Int /\ panics \in Nat
        /\ cached \in BOOLEAN /\ {} \in SUBSET Counters
        /\ rpc[r] \in Undecided => status[r] = 200
    BY MetricsAssumption DEF MetricsInv, MetricsTypeOK, Differences, Undecided
  <1> USE DEF Unwound
  <1>1. CASE CheckUID(r)
    <2>1. Rests /\ UNCHANGED <<cached, busy, worker, count, inFlight, panics>>
      BY <1>1 DEF CheckUID, kafkaVars, scrapeVars, Rests
    <2>2. PICK to \in {"deferred", "cache", "database"}, code \in Codes :
            /\ Goto(r, "order", to) /\ status' = [status EXCEPT ![r] = code]
            /\ cached => <<to, code>> \notin Looked
            /\ to # "deferred" => code = 200
      BY <1>0, <1>1, NothingGiven, CounterNames
      DEF CheckUID, Give, Looked, Goto, Undecided
    <2>3. Goes(r, "order", to, code, {}, 0)
      BY <1>0, <2>1, <2>2, NothingCounted DEF Goes, In, Steps
    <2>4. Balanced(r, "order", to, code, {}, 0)
      BY <2>2 DEF Balanced, BalancedAnswer, BalancedLookup, In, Looked, Counted, Undecided
    <2> QED
      BY <1>0, <2>1, <2>2, <2>3, <2>4, FallsHold, RequestMoves
  <1>2. CASE Look(r)
    <2>1. Rests /\ UNCHANGED <<cached, busy, worker, inFlight, panics>>
      BY <1>2 DEF Look, kafkaVars, scrapeVars, Rests
    <2>2. PICK to \in {"deferred", "database"}, code \in Codes,
               S \in {{"cache_hit"}, {"cache_miss"}, {"cache_miss", "cache_error"}} :
            /\ Goto(r, "cache", to) /\ status' = [status EXCEPT ![r] = code]
            /\ Inc(S) /\ <<to, code>> \in Looked /\ code = 200
            /\ to = "deferred" <=> S = {"cache_hit"}
      BY <1>0, <1>2, NothingGiven, CounterNames DEF Look, Give, Looked, Goto, Undecided
    <2>3. S \in SUBSET Counters
      BY <2>2 DEF Counters
    <2>4. Goes(r, "cache", to, code, S, 0)
      BY <1>0, <2>1, <2>2 DEF Goes, In, Steps
    <2>5. ASSUME NEW c \in Codes
          PROVE  BalancedAnswer(r, "cache", to, code, S, 0, c)
      <3>1. Outcome[c] \notin S /\ Answer[c] \notin S
        BY <2>2, CountersDiffer DEF OtherCounters
      <3> QED
        BY <2>2, <3>1 DEF In, Counted, BalancedAnswer
    <2>6. BalancedLookup(r, "cache", to, code, S, 0)
      BY <2>2 DEF In, Looked, BalancedLookup
    <2>7. Balanced(r, "cache", to, code, S, 0)
      BY <2>2, <2>5, <2>6 DEF Balanced
    <2>8. Falls("cache", to, S, 0)
      BY <2>2, FallsHold
    <2> QED
      BY <2>1, <2>3, <2>4, <2>7, <2>8, RequestMoves
  <1>3. CASE Query(r)
    <2>1. Rests /\ UNCHANGED <<cached, busy, worker, count, inFlight, panics>>
      BY <1>3 DEF Query, kafkaVars, scrapeVars, Rests
    <2>2. PICK code \in {200, 404, 500} : Give(r, code)
      BY <1>3 DEF Query
    <2>3. /\ Goto(r, "database", "deferred") /\ status' = [status EXCEPT ![r] = code]
          /\ code \in Codes /\ code # 400
      <3>1. code \in Codes /\ code # 400
        BY <2>2, CounterNames
      <3> QED
        BY <1>3, <2>2, <3>1 DEF Query, Give
    <2>4. Goes(r, "database", "deferred", code, {}, 0)
      BY <1>0, <2>1, <2>3, NothingCounted DEF Goes, In, Steps
    <2>5. Balanced(r, "database", "deferred", code, {}, 0)
      BY <1>0, <2>3
      DEF Balanced, BalancedAnswer, BalancedLookup, In, Looked, Counted, Undecided
    <2>6. Falls("database", "deferred", {}, 0)
      BY FallsHold
    <2> QED
      BY <1>0, <2>1, <2>3, <2>4, <2>5, <2>6, RequestMoves
  <1>4. CASE Panic(r)
    <2>1. Rests /\ UNCHANGED <<cached, busy, worker, count, inFlight, status>>
      BY <1>4 DEF Panic, kafkaVars, scrapeVars, Rests
    <2>2. Inc({}) /\ status' = [status EXCEPT ![r] = status[r]]
      BY <1>0, <2>1, NothingGiven, NothingCounted
    <2>3. CASE Goto(r, "other", "leave") /\ UNCHANGED panics
      <3>1. Goes(r, "other", "leave", status[r], {}, 0)
        <4>1. inFlight' = inFlight + In("leave", Steps) - In("other", Steps)
          BY <1>0, <2>1 DEF In, Steps
        <4>2. panics' = panics + 0
          BY <1>0, <2>1, <2>2, <2>3
        <4> QED
          BY <1>0, <2>1, <2>2, <2>3, <4>1, <4>2 DEF Goes
      <3>2. Balanced(r, "other", "leave", status[r], {}, 0)
        BY DEF Balanced, BalancedAnswer, BalancedLookup, In, Looked, Counted, Undecided
      <3> QED
        BY <1>0, <2>1, <3>1, <3>2, FallsHold, RequestMoves
    <2>4. CASE panics' = panics + 1 /\ \E s \in Handling : Goto(r, s, "unwind")
      <3>1. PICK s \in Handling : Goto(r, s, "unwind")
        BY <2>4
      <3>2. status[r] = 200
        BY <1>0, <3>1 DEF Goto, Undecided, Handling
      <3>3. Goes(r, s, "unwind", status[r], {}, 1)
        <4>1. inFlight' = inFlight + In("unwind", Steps) - In(s, Steps)
          BY <1>0, <2>1 DEF In, Steps, Handling
        <4>2. panics' = panics + 1
          BY <1>0, <2>1, <2>2, <2>4, <3>1
        <4> QED
          BY <1>0, <2>1, <2>2, <2>4, <3>1, <4>1, <4>2 DEF Goes
      <3>4. Balanced(r, s, "unwind", status[r], {}, 1)
        BY <1>0, <3>1, <3>2
        DEF Balanced, BalancedAnswer, BalancedLookup, In, Looked, Counted, Handling
      <3> QED
        BY <1>0, <2>1, <3>3, <3>4, FallsHold, RequestMoves
    <2> QED
      BY <1>4, <2>3, <2>4 DEF Panic, Handling
  <1>5. CASE Processed(r)
    <2> DEFINE code == status[r]
               S == {Outcome[code]}
    <2>1. Rests /\ UNCHANGED <<cached, busy, worker, inFlight, status, panics>>
      BY <1>5 DEF Processed, kafkaVars, scrapeVars, Rests
    <2>2. /\ Inc(S) /\ status' = [status EXCEPT ![r] = code]
          /\ S \in SUBSET Counters /\ code \in Codes
      BY <1>0, <1>5, <2>1, NothingGiven, CountersDiffer DEF Processed
    <2>3. \A c \in Codes : (Outcome[c] \in S <=> code = c) /\ Answer[c] \notin S
      BY <2>2, CountersDiffer
    <2>4. /\ "cache_hit" \notin S /\ "cache_miss" \notin S
          /\ "orders_success" \in S <=> code = 200
          /\ "orders_not_found" \in S <=> code = 404
          /\ "orders_internal_error" \in S <=> code = 500
          /\ code \in {200, 400, 404, 500} /\ code = status[r]
      BY <2>2, CounterNames
    <2> HIDE DEF S, code
    <2>5. CASE Goto(r, "deferred", "count")
      <3>1. Goes(r, "deferred", "count", code, S, 0)
        <4>1. inFlight' = inFlight + In("count", Steps) - In("deferred", Steps)
          BY <1>0, <2>1 DEF In, Steps
        <4>2. panics' = panics + 0
          BY <1>0, <2>1, <2>2, <2>5
        <4> QED
          BY <1>0, <2>1, <2>2, <2>5, <4>1, <4>2 DEF Goes
      <3>2. Balanced(r, "deferred", "count", code, S, 0)
        BY <2>2, <2>3, <2>4, CounterNames
        DEF Balanced, BalancedAnswer, BalancedLookup, In, Looked, Counted, Undecided
      <3>3. Falls("deferred", "count", S, 0)
        BY <2>2, FallsHold DEF S
      <3> QED
        BY <2>1, <2>2, <3>1, <3>2, <3>3, RequestMoves
    <2>6. CASE Goto(r, "unwind", "leave")
      <3>0. code = 200
        BY <1>0, <2>4, <2>6 DEF Goto, Undecided
      <3>1. Goes(r, "unwind", "leave", code, S, 0)
        <4>1. inFlight' = inFlight + In("leave", Steps) - In("unwind", Steps)
          BY <1>0, <2>1 DEF In, Steps
        <4>2. panics' = panics + 0
          BY <1>0, <2>1, <2>2, <2>6
        <4> QED
          BY <1>0, <2>1, <2>2, <2>6, <4>1, <4>2 DEF Goes
      <3>2. Balanced(r, "unwind", "leave", code, S, 0)
        BY <2>2, <2>3, <2>4, <3>0
        DEF Balanced, BalancedAnswer, BalancedLookup, In, Looked, Counted, Undecided
      <3>3. Falls("unwind", "leave", S, 0)
        BY <2>2, FallsHold DEF S
      <3> QED
        BY <2>1, <2>2, <3>1, <3>2, <3>3, RequestMoves
    <2> QED
      BY <1>5, <2>5, <2>6 DEF Processed
  <1>6. CASE CountRequest(r)
    <2> DEFINE code == status[r]
    <2>1. Rests /\ UNCHANGED <<cached, busy, worker, inFlight, status, panics>>
      BY <1>6 DEF CountRequest, kafkaVars, scrapeVars, Rests
    <2>2. code \in Codes /\ status' = [status EXCEPT ![r] = code] /\ code = status[r]
      BY <1>0, <2>1, NothingGiven
    <2>3. CASE Goto(r, "count", "leave") /\ Inc({Answer[code]})
      <3> DEFINE S == {Answer[code]}
      <3>1. Inc(S) /\ S \in SUBSET Counters
        BY <2>2, <2>3, CountersDiffer
      <3>2. \A c \in Codes : (Answer[c] \in S <=> status[r] = c) /\ Outcome[c] \notin S
        BY <2>2, CountersDiffer
      <3>3. \A k \in {"cache_hit", "cache_miss", "orders_success", "orders_not_found",
                      "orders_internal_error"} : k \notin S
        BY <2>2, CounterNames
      <3>4. Falls("count", "leave", S, 0)
        BY <2>2, FallsHold
      <3> HIDE DEF S, code
      <3>5. Goes(r, "count", "leave", code, S, 0)
        <4>1. inFlight' = inFlight + In("leave", Steps) - In("count", Steps)
          BY <1>0, <2>1 DEF In, Steps
        <4>2. panics' = panics + 0
          BY <1>0, <2>1, <2>2, <2>3, <3>1
        <4> QED
          BY <1>0, <2>1, <2>2, <2>3, <3>1, <4>1, <4>2 DEF Goes
      <3>6. Balanced(r, "count", "leave", code, S, 0)
        BY <2>2, <3>2, <3>3
        DEF Balanced, BalancedAnswer, BalancedLookup, In, Looked, Counted, Undecided
      <3> QED
        BY <2>1, <2>2, <3>1, <3>4, <3>5, <3>6, RequestMoves
    <2>4. CASE Goto(r, "other", "leave") /\ Inc({"http_other"})
      <3> DEFINE S == {"http_other"}
      <3>1. Inc(S) /\ S \in SUBSET Counters
        BY <2>4 DEF Counters
      <3>2. \A c \in Codes : Answer[c] \notin S /\ Outcome[c] \notin S
        BY CountersDiffer DEF OtherCounters
      <3>3. \A k \in {"cache_hit", "cache_miss", "orders_success", "orders_not_found",
                      "orders_internal_error"} : k \notin S
        OBVIOUS
      <3>4. Falls("other", "leave", S, 0)
        BY FallsHold
      <3> HIDE DEF S, code
      <3>5. Goes(r, "other", "leave", code, S, 0)
        <4>1. inFlight' = inFlight + In("leave", Steps) - In("other", Steps)
          BY <1>0, <2>1 DEF In, Steps
        <4>2. panics' = panics + 0
          BY <1>0, <2>1, <2>2, <2>4, <3>1
        <4> QED
          BY <1>0, <2>1, <2>2, <2>4, <3>1, <4>1, <4>2 DEF Goes
      <3>6. Balanced(r, "other", "leave", code, S, 0)
        BY <2>2, <3>2, <3>3
        DEF Balanced, BalancedAnswer, BalancedLookup, In, Looked, Counted, Undecided
      <3> QED
        BY <2>1, <2>2, <3>1, <3>4, <3>5, <3>6, RequestMoves
    <2> QED
      BY <1>6, <2>3, <2>4 DEF CountRequest
  <1>7. CASE Leave(r)
    <2>1. /\ Rests /\ UNCHANGED <<cached, busy, worker, status, count, panics>>
          /\ Goto(r, "leave", "idle") /\ inFlight' = inFlight - 1
      BY <1>7 DEF Leave, kafkaVars, scrapeVars, Rests
    <2>2. Inc({}) /\ status' = [status EXCEPT ![r] = status[r]]
      BY <1>0, <2>1, NothingGiven, NothingCounted
    <2>3. Goes(r, "leave", "idle", status[r], {}, 0)
      <3>1. inFlight' = inFlight + In("idle", Steps) - In("leave", Steps)
        BY <1>0, <2>1 DEF In, Steps
      <3>2. panics' = panics + 0
        BY <1>0, <2>1, <2>2
      <3> QED
        BY <1>0, <2>1, <2>2, <3>1, <3>2 DEF Goes
    <2>4. Balanced(r, "leave", "idle", status[r], {}, 0)
      BY DEF Balanced, BalancedAnswer, BalancedLookup, In, Looked, Counted, Undecided
    <2> QED
      BY <1>0, <2>1, <2>3, <2>4, FallsHold, RequestMoves
  <1> QED
    BY <1>1, <1>2, <1>3, <1>4, <1>5, <1>6, <1>7 DEF Serve

(* Sets of requests that have none in common.                                *)
LEMMA SubsetSmaller ==
  ASSUME NEW A \in SUBSET Requests, NEW C \in SUBSET Requests, A \subseteq C
  PROVE  Cardinality(A) \in Nat /\ Cardinality(C) \in Nat
           /\ Cardinality(A) <= Cardinality(C)
  BY MetricsAssumption, FS_Subset, FS_CardinalityType

LEMMA DisjointSum ==
  ASSUME NEW A \in SUBSET Requests, NEW B \in SUBSET Requests, A \cap B = {}
  PROVE  /\ Cardinality(A) \in Nat /\ Cardinality(B) \in Nat
         /\ Cardinality(A \cup B) = Cardinality(A) + Cardinality(B)
  <1>1. IsFiniteSet(A) /\ IsFiniteSet(B) /\ Cardinality(A) \in Nat /\ Cardinality(B) \in Nat
    BY MetricsAssumption, FS_Subset, FS_CardinalityType
  <1>2. Cardinality(A \cup B) = Cardinality(A) + Cardinality(B) - Cardinality(A \cap B)
    BY <1>1, FS_Union
  <1>3. Cardinality(A \cap B) = 0
    BY FS_EmptySet
  <1> QED
    BY <1>1, <1>2, <1>3

(* As a scrape begins, all it may read differs by requests in flight.        *)
LEMMA ReadingsBegin ==
  ASSUME MetricsTypeOK, Differences, seen' = count, during' = inFlight,
         UNCHANGED <<count, rpc, status, cached, panics>>
  PROVE  Readings'
  <1> DEFINE Open == {"order", "cache", "database", "deferred"}
             U == At({"unwind"})
  <1>0. /\ count \in [Counters -> Nat] /\ panics \in Nat
        /\ inFlight = Cardinality(At(Steps)) /\ Unwinding = Cardinality(U)
        /\ U \in SUBSET Requests /\ At(Open) \in SUBSET Requests
        /\ At(Steps) \in SUBSET Requests
    BY MetricsAssumption DEF MetricsTypeOK, Differences, Unwinding, At
  <1>1. /\ \A T : At(T)' = At(T)
        /\ \A k : Before(k)' = Before(k)
    BY DEF At, Before
  <1>2. /\ At(Open \cup {"unwind"}) = At(Open) \cup U /\ At(Open) \cap U = {}
        /\ At(Open) \cup U \subseteq At(Steps)
    BY DEF At, Steps
  <1>3. /\ Cardinality(At(Open)) \in Nat /\ Cardinality(U) \in Nat
        /\ Cardinality(At(Open \cup {"unwind"})) = Cardinality(At(Open)) + Cardinality(U)
        /\ Cardinality(At(Open)) <= inFlight /\ inFlight \in Nat
    BY <1>0, <1>2, DisjointSum, SubsetSmaller
  <1>4. \A k \in Counters : seen'[k] <= count'[k]
    BY <1>0
  <1>5. ASSUME NEW c \in Codes
        PROVE  /\ count[Outcome[c]] + Cardinality(At(Before(Outcome[c])))
                    - count[Answer[c]] <= inFlight + panics
               /\ count[Answer[c]] + Cardinality(At(Before(Answer[c])))
                    - count[Outcome[c]] <= inFlight
    <2>1. /\ count[Outcome[c]] \in Nat /\ count[Answer[c]] \in Nat
          /\ count[Outcome[c]] - count[Answer[c]] - Cardinality(Answering(c))
               \in 0 .. panics - Cardinality(U)
      BY <1>0, CountersDiffer DEF Differences
    <2>2. Before(Outcome[c]) = Open \cup {"unwind"} /\ Before(Answer[c]) = Open \cup {"count"}
      BY BeforeIs
    <2>3. /\ Answering(c) \in SUBSET Requests /\ Answering(c) \cap At(Open) = {}
          /\ Answering(c) \cup At(Open) \subseteq At(Steps)
          /\ At(Open \cup {"count"}) \subseteq At(Steps)
      BY DEF Answering, At, Steps
    <2> HIDE DEF Open, U
    <2>4. /\ Cardinality(Answering(c)) \in Nat
          /\ Cardinality(Answering(c)) + Cardinality(At(Open)) <= inFlight
          /\ Cardinality(At(Open \cup {"count"})) \in Nat
          /\ Cardinality(At(Open \cup {"count"})) <= inFlight
      <3>1. /\ Cardinality(Answering(c)) \in Nat
            /\ Cardinality(Answering(c) \cup At(Open))
                 = Cardinality(Answering(c)) + Cardinality(At(Open))
        BY <1>0, <2>3, DisjointSum
      <3>2. Cardinality(Answering(c) \cup At(Open)) <= inFlight
        BY <1>0, <2>3, SubsetSmaller
      <3>3. At(Open \cup {"count"}) \in SUBSET Requests
        BY DEF At
      <3>4. /\ Cardinality(At(Open \cup {"count"})) \in Nat
            /\ Cardinality(At(Open \cup {"count"})) <= inFlight
        BY <1>0, <2>3, <3>3, SubsetSmaller
      <3> QED
        BY <3>1, <3>2, <3>4
    <2> QED
      BY <1>0, <1>3, <2>1, <2>2, <2>4
  <1>6. ASSUME cached
        PROVE  /\ Lookups(count) + Cardinality(At(Before("cache_hit")))
                    - Outcomes(count) <= inFlight
               /\ Outcomes(count) + Cardinality(At(Before("orders_success")))
                    - Lookups(count) <= inFlight + panics
    <2>1. /\ Lookups(count) \in Nat /\ Outcomes(count) \in Nat
          /\ Lookups(count) - Outcomes(count) - Cardinality(LookedUp)
               \in Cardinality(U) - panics .. Cardinality(U)
      BY <1>0, <1>6, SumsAreInts DEF Differences
    <2>2. /\ Before("cache_hit") = {"order", "cache"}
          /\ Before("orders_success") = Open \cup {"unwind"}
      BY BeforeIs, CounterNames
    <2> DEFINE New == At({"order", "cache"})
    <2>3. /\ LookedUp \in SUBSET Requests /\ New \in SUBSET Requests
          /\ LookedUp \cap U = {} /\ (LookedUp \cup U) \cap New = {}
          /\ LookedUp \cup U \in SUBSET Requests
          /\ (LookedUp \cup U) \cup New \subseteq At(Steps)
      BY DEF LookedUp, At, Steps
    <2> HIDE DEF Open, U, New
    <2>4. /\ Cardinality(LookedUp) \in Nat /\ Cardinality(New) \in Nat
          /\ Cardinality(LookedUp \cup U) = Cardinality(LookedUp) + Cardinality(U)
      BY <1>0, <2>3, DisjointSum
    <2>5. Cardinality((LookedUp \cup U) \cup New)
            = Cardinality(LookedUp \cup U) + Cardinality(New)
      BY <2>3, DisjointSum
    <2>6. Cardinality((LookedUp \cup U) \cup New) <= inFlight
      BY <1>0, <2>3, SubsetSmaller
    <2>7. Cardinality(LookedUp) + Cardinality(U) + Cardinality(New) <= inFlight
      BY <1>3, <2>4, <2>5, <2>6
    <2>8. /\ At(Before("cache_hit")) = New
          /\ At(Before("orders_success")) = At(Open \cup {"unwind"})
      BY <2>2 DEF New
    <2> QED
      BY <1>0, <1>3, <2>1, <2>4, <2>7, <2>8
  <1>7. /\ Lookups(count)' = Lookups(count) /\ Outcomes(count)' = Outcomes(count)
        /\ Lookups(seen)' = Lookups(count) /\ Outcomes(seen)' = Outcomes(count)
    BY DEF Lookups, Outcomes
  <1> QED
    BY <1>1, <1>4, <1>5, <1>6, <1>7 DEF Readings

(* A counter that is read shows no less than as the scrape began.            *)
LEMMA ReadingsCollect ==
  ASSUME MetricsTypeOK, Readings, NEW k, Collect(k)
  PROVE  Readings'
  <1>0. /\ count \in [Counters -> Nat] /\ seen \in [Counters -> Nat]
        /\ panics \in Nat /\ during \in Nat
        /\ UNCHANGED <<count, rpc, during, panics, cached>>
    BY MetricsAssumption DEF MetricsTypeOK, Collect, httpVars
  <1>1. \A l \in Counters :
          count[l] \in Nat /\ seen[l] \in Nat /\ seen'[l] \in Nat
            /\ seen[l] <= seen'[l] /\ seen'[l] <= count[l]
    BY <1>0 DEF Collect, Readings
  <1>2. /\ \A T : At(T)' = At(T)
        /\ \A l : Before(l)' = Before(l)
    BY <1>0 DEF At, Before
  <1>3. \A T : Cardinality(At(T)) \in Nat
    BY SubsetSmaller DEF At
  <1>4. ASSUME NEW c \in Codes
        PROVE  /\ count[Outcome[c]] + Cardinality(At(Before(Outcome[c])))
                    - seen'[Answer[c]] <= during + panics
               /\ count[Answer[c]] + Cardinality(At(Before(Answer[c])))
                    - seen'[Outcome[c]] <= during
    <2>1. Outcome[c] \in Counters /\ Answer[c] \in Counters
      BY CountersDiffer
    <2>2. /\ count[Outcome[c]] + Cardinality(At(Before(Outcome[c])))
               - seen[Answer[c]] <= during + panics
          /\ count[Answer[c]] + Cardinality(At(Before(Answer[c])))
               - seen[Outcome[c]] <= during
      BY DEF Readings
    <2> QED
      BY <1>0, <1>1, <1>3, <2>1, <2>2
  <1>5. /\ Lookups(seen)' \in Nat /\ Outcomes(seen)' \in Nat
        /\ Lookups(seen) <= Lookups(seen)' /\ Outcomes(seen) <= Outcomes(seen)'
    <2>1. LookupCounters \subseteq Counters /\ OutcomeCounters \subseteq Counters
      BY CounterNames DEF Counters, LookupCounters, OutcomeCounters
    <2> QED
      BY <1>1, <2>1 DEF Lookups, Outcomes, LookupCounters, OutcomeCounters
  <1>6. /\ Lookups(count) \in Nat /\ Outcomes(count) \in Nat
        /\ Lookups(seen) \in Nat /\ Outcomes(seen) \in Nat
        /\ Lookups(count)' = Lookups(count) /\ Outcomes(count)' = Outcomes(count)
    BY <1>0, SumsAreInts DEF Lookups, Outcomes
  <1>7. cached => /\ Lookups(count) + Cardinality(At(Before("cache_hit")))
                       - Outcomes(seen)' <= during
                  /\ Outcomes(count) + Cardinality(At(Before("orders_success")))
                       - Lookups(seen)' <= during + panics
    BY <1>0, <1>3, <1>5, <1>6 DEF Readings
  <1> QED
    BY <1>0, <1>1, <1>2, <1>4, <1>6, <1>7 DEF Readings

(* What the readings may be bounds what they are.                            *)
LEMMA ReadingsSuffice ==
  Shapes /\ Readings /\ during \in Nat => AnswersAgree /\ HitRateSound
  <1> SUFFICES ASSUME Shapes, Readings, during \in Nat
               PROVE  AnswersAgree /\ HitRateSound
    OBVIOUS
  <1>0. count \in [Counters -> Nat] /\ seen \in [Counters -> Nat] /\ panics \in Nat
    BY DEF Shapes
  <1>1. \A T : Cardinality(At(T)) \in Nat
    BY SubsetSmaller DEF At
  <1>2. ASSUME NEW c \in Codes
        PROVE  seen[Outcome[c]] - seen[Answer[c]] \in - during .. during + panics
    <2>1. Outcome[c] \in Counters /\ Answer[c] \in Counters
      BY CountersDiffer
    <2>2. /\ count[Outcome[c]] \in Nat /\ count[Answer[c]] \in Nat
          /\ seen[Outcome[c]] \in Nat /\ seen[Answer[c]] \in Nat
          /\ seen[Outcome[c]] <= count[Outcome[c]] /\ seen[Answer[c]] <= count[Answer[c]]
      BY <1>0, <2>1 DEF Readings
    <2>3. /\ count[Outcome[c]] + Cardinality(At(Before(Outcome[c])))
               - seen[Answer[c]] <= during + panics
          /\ count[Answer[c]] + Cardinality(At(Before(Answer[c])))
               - seen[Outcome[c]] <= during
      BY DEF Readings
    <2> QED
      BY <1>0, <1>1, <2>2, <2>3
  <1>3. ASSUME cached
        PROVE  Lookups(seen) - Outcomes(seen) \in - (during + panics) .. during
    <2>1. LookupCounters \subseteq Counters /\ OutcomeCounters \subseteq Counters
      BY CounterNames DEF Counters, LookupCounters, OutcomeCounters
    <2>2. /\ Lookups(count) \in Nat /\ Outcomes(count) \in Nat
          /\ Lookups(seen) \in Nat /\ Outcomes(seen) \in Nat
      BY <1>0, SumsAreInts
    <2>3. Lookups(seen) <= Lookups(count) /\ Outcomes(seen) <= Outcomes(count)
      BY <1>0, <2>1
      DEF Readings, Lookups, Outcomes, LookupCounters, OutcomeCounters
    <2>4. /\ Lookups(count) + Cardinality(At(Before("cache_hit")))
               - Outcomes(seen) <= during
          /\ Outcomes(count) + Cardinality(At(Before("orders_success")))
               - Lookups(seen) <= during + panics
      BY <1>3 DEF Readings
    <2> QED
      BY <1>0, <1>1, <2>2, <2>3, <2>4
  <1>4. AnswersAgree
    BY <1>2 DEF AnswersAgree
  <1>5. HitRateSound
    BY <1>3 DEF HitRateSound
  <1> QED
    BY <1>4, <1>5

LEMMA ReadingsSufficeNext ==
  (Shapes /\ Readings /\ during \in Nat => AnswersAgree /\ HitRateSound)'
  BY ReadingsSuffice, PTL

(* The values of a scrape that is over are history: only panics go on.       *)
LEMMA ScrapeOver ==
  ASSUME Shapes, AnswersAgree, HitRateSound, during \in Nat, panics' \in Nat,
         panics <= panics', UNCHANGED <<pending, seen, during, cached>>
  PROVE  AnswersAgree' /\ HitRateSound'
  <1>1. \A c \in Codes : seen[Outcome[c]] \in Nat /\ seen[Answer[c]] \in Nat
    BY CountersDiffer DEF Shapes
  <1>2. Lookups(seen) \in Nat /\ Outcomes(seen) \in Nat /\ panics \in Nat
    BY SumsAreInts DEF Shapes
  <1>3. AnswersAgree'
    BY <1>1, <1>2 DEF AnswersAgree
  <1>4. Lookups(seen)' = Lookups(seen) /\ Outcomes(seen)' = Outcomes(seen)
    BY DEF Lookups, Outcomes
  <1>5. HitRateSound'
    BY <1>2, <1>4 DEF HitRateSound
  <1> QED
    BY <1>3, <1>5

LEMMA MetricsInvInit == MetricsInit => MetricsInv
  <1> SUFFICES ASSUME MetricsInit PROVE MetricsInv
    OBVIOUS
  <1>1. /\ \A k \in Counters : count[k] = 0 /\ seen[k] = 0
        /\ \A c \in Codes : Outcome[c] \in Counters /\ Answer[c] \in Counters
        /\ LookupCounters \subseteq Counters /\ OutcomeCounters \subseteq Counters
        /\ \A r \in Requests : rpc[r] = "idle"
    BY CountersDiffer, CounterNames
    DEF MetricsInit, Counters, LookupCounters, OutcomeCounters
  <1>2. /\ LookedUp = {} /\ At(Steps) = {} /\ At({"unwind"}) = {} /\ At(Handling) = {}
        /\ \A c \in Codes : Answering(c) = {}
        /\ \A k \in Counters : At(Before(k)) = {}
    <2>1. \A k \in Counters : "idle" \notin Before(k)
      BY BeforeCases
    <2> QED
      BY <1>1, <2>1 DEF LookedUp, At, Steps, Answering, Handling
  <1>3. Cardinality({}) = 0
    BY FS_EmptySet
  <1>4. /\ Lookups(count) = 0 /\ Outcomes(count) = 0
        /\ Lookups(seen) = 0 /\ Outcomes(seen) = 0
    BY <1>1 DEF Lookups, Outcomes, LookupCounters, OutcomeCounters
  <1>5. Differences
    <2>1. /\ \A c \in Codes : count[Outcome[c]] - count[Answer[c]] - Cardinality(Answering(c)) = 0
          /\ Unwinding = 0 /\ Cardinality(At(Steps)) = 0 /\ Cardinality(LookedUp) = 0
      <3>1. Unwinding = 0 /\ Cardinality(At(Steps)) = 0 /\ Cardinality(LookedUp) = 0
        BY <1>2, <1>3 DEF Unwinding
      <3>2. \A c \in Codes : Cardinality(Answering(c)) = 0
        BY <1>2, <1>3
      <3>3. \A c \in Codes : count[Outcome[c]] = 0 /\ count[Answer[c]] = 0
        BY <1>1
      <3> QED
        BY <3>1, <3>2, <3>3
    <2>2. panics = 0 /\ inFlight = 0 /\ busy = 0 /\ worker = "idle"
      BY DEF MetricsInit
    <2>3. \A r \in Requests : rpc[r] \notin Undecided
      BY <1>1 DEF Undecided
    <2> QED
      BY <1>4, <2>1, <2>2, <2>3 DEF Differences, Undecided
  <1>6. CountsBounded
    <2>1. /\ \A k \in Counters : count[k] + Cardinality(At(Before(k))) = 0
          /\ Cardinality(At(Handling)) = 0
      BY <1>1, <1>2, <1>3
    <2>2. panics = 0 /\ failed = 0 /\ events = 0 /\ worker = "idle"
      BY DEF MetricsInit
    <2> QED
      BY <2>1, <2>2, MetricsAssumption DEF CountsBounded, Handling
  <1>7. Cardinality(Requests) \in Nat
    BY MetricsAssumption, FS_CardinalityType
  <1>8. MetricsTypeOK
    BY <1>7, CounterNames, MetricsAssumption DEF MetricsInit, MetricsTypeOK
  <1>9. AnswersAgree /\ HitRateSound
    <2>1. during = 0 /\ panics = 0
      BY DEF MetricsInit
    <2>2. \A c \in Codes : seen[Outcome[c]] = 0 /\ seen[Answer[c]] = 0
      BY <1>1
    <2> QED
      BY <1>4, <2>1, <2>2 DEF AnswersAgree, HitRateSound
  <1> QED
    BY <1>5, <1>6, <1>8, <1>9 DEF MetricsInv, MetricsInit

LEMMA ScrapeKeeps ==
  ASSUME MetricsInv, Scrape
  PROVE  Differences' /\ CountsBounded' /\ Readings'
           /\ UNCHANGED panics /\ during' \in Nat
  <1>0. /\ MetricsTypeOK /\ Differences /\ CountsBounded
        /\ UNCHANGED <<cached, worker, busy, failed, rpc, status, inFlight, panics,
                       count, events>>
    BY DEF MetricsInv, Scrape, BeginScrape, Collect, kafkaVars, httpVars
  <1>1. Differences' /\ CountsBounded'
    BY <1>0 DEF Differences, CountsBounded, LookedUp, Answering, At, Before,
                Unwinding, Lookups, Outcomes
  <1>2. inFlight \in Nat /\ during \in Nat
    BY <1>0, MetricsAssumption, FS_CardinalityType DEF MetricsTypeOK
  <1>3. CASE BeginScrape
    BY <1>0, <1>1, <1>2, <1>3, ReadingsBegin DEF BeginScrape
  <1>4. CASE \E k \in Scraped : Collect(k)
    <2>1. PICK k \in Scraped : Collect(k)
      BY <1>4
    <2>2. Readings
      BY <2>1 DEF Collect, MetricsInv
    <2> QED
      BY <1>0, <1>1, <1>2, <2>1, <2>2, ReadingsCollect DEF Collect
  <1> QED
    BY <1>3, <1>4 DEF Scrape

LEMMA MetricsInvStep == MetricsInv /\ [MetricsNext]_metricVars => MetricsInv'
  <1> SUFFICES ASSUME MetricsInv, [MetricsNext]_metricVars PROVE MetricsInv'
    OBVIOUS
  <1>0. /\ Shapes /\ during \in Nat /\ panics \in Nat
        /\ AnswersAgree /\ HitRateSound
    BY TypeShapes, MetricsAssumption DEF MetricsInv, MetricsTypeOK
  <1>1. Shapes'
    BY <1>0, ShapesStep
  <1>2. /\ Differences' /\ CountsBounded' /\ (pending' # {} => Readings')
        /\ during' \in Nat /\ AnswersAgree' /\ HitRateSound'
    <2>1. CASE HandleMessage
      BY <1>0, <2>1, MessageKeeps, ScrapeOver
    <2>2. ASSUME NEW r \in Requests, Enter(r)
          PROVE  /\ Differences' /\ CountsBounded' /\ (pending' # {} => Readings')
                 /\ during' \in Nat /\ AnswersAgree' /\ HitRateSound'
      <3>1. /\ Differences' /\ CountsBounded' /\ (pending' # {} => Readings')
            /\ UNCHANGED <<pending, seen, panics, cached>>
            /\ pending = {} => UNCHANGED during
        BY <2>2, EnterKeeps
      <3>2. during' \in Nat
        BY <1>0, <2>2 DEF Enter
      <3>3. CASE pending = {}
        BY <1>0, <3>1, <3>2, <3>3, ScrapeOver
      <3>4. CASE pending # {}
        <4>1. pending' # {}
          BY <3>1, <3>4
        <4> QED
          BY <3>1, <3>2, <4>1 DEF AnswersAgree, HitRateSound
      <3> QED
        BY <3>1, <3>2, <3>3, <3>4
    <2>3. ASSUME NEW r \in Requests, Serve(r), ~Enter(r)
          PROVE  /\ Differences' /\ CountsBounded' /\ (pending' # {} => Readings')
                 /\ during' \in Nat /\ AnswersAgree' /\ HitRateSound'
      <3>1. panics' \in Nat
        BY <1>1 DEF Shapes
      <3> QED
        BY <1>0, <2>3, <3>1, RequestKeeps, ScrapeOver
    <2>4. CASE Scrape
      <3>1. Differences' /\ CountsBounded' /\ Readings' /\ during' \in Nat
        BY <2>4, ScrapeKeeps
      <3>2. AnswersAgree' /\ HitRateSound'
        BY <1>1, <3>1, ReadingsSufficeNext
      <3> QED
        BY <3>1, <3>2
    <2>5. CASE UNCHANGED metricVars
      <3>1. /\ Differences' /\ CountsBounded' /\ (pending' # {} => Readings')
            /\ UNCHANGED <<pending, seen, during, cached, panics>>
        <4>1. UNCHANGED <<cached, worker, busy, failed, rpc, status, inFlight, panics,
                          count, events, pending, seen, during>>
          BY <2>5 DEF metricVars, kafkaVars, httpVars, scrapeVars
        <4>2. /\ \A T : At(T)' = At(T)
              /\ \A k : Before(k)' = Before(k)
              /\ LookedUp' = LookedUp /\ \A c : Answering(c)' = Answering(c)
              /\ Lookups(count)' = Lookups(count) /\ Outcomes(count)' = Outcomes(count)
              /\ Lookups(seen)' = Lookups(seen) /\ Outcomes(seen)' = Outcomes(seen)
              /\ Unwinding' = Unwinding
          BY <4>1 DEF At, Before, LookedUp, Answering, Lookups, Outcomes, Unwinding
        <4>3. Differences'
          BY <4>1, <4>2 DEF MetricsInv, Differences
        <4>4. CountsBounded'
          BY <4>1, <4>2 DEF MetricsInv, CountsBounded
        <4>5. Readings => Readings'
          BY <4>1, <4>2 DEF Readings
        <4> QED
          BY <4>1, <4>3, <4>4, <4>5 DEF MetricsInv
      <3> QED
        BY <1>0, <3>1, ScrapeOver
    <2> QED
      BY <2>1, <2>2, <2>3, <2>4, <2>5 DEF MetricsNext
  (* The counts bound the counters. *)
  <1>3. MetricsTypeOK'
    <2>0. /\ events' \in Nat /\ failed' \in Nat /\ panics' \in Nat
          /\ events' <= MaxEvents /\ failed' <= events'
          /\ count' \in [Counters -> Nat] /\ seen' \in [Counters -> Nat]
      BY <1>1, <1>2 DEF Shapes, CountsBounded
    <2>1. \A k \in Counters : count'[k] \in 0 .. MaxEvents
      <3> SUFFICES ASSUME NEW k \in Counters PROVE count'[k] \in 0 .. MaxEvents
        OBVIOUS
      <3>1. count'[k] + Cardinality(At(Before(k)))' <= events'
        BY <1>2 DEF CountsBounded
      <3>2. Cardinality(At(Before(k)))' \in Nat
        BY MetricsAssumption, FS_Subset, FS_CardinalityType DEF At
      <3>3. count'[k] \in Nat
        BY <2>0
      <3> QED
        BY <2>0, <3>1, <3>2, <3>3, MetricsAssumption
    <2>2. inFlight' \in 0 .. Cardinality(Requests)
      <3>1. At(Steps)' \subseteq Requests
        BY DEF At
      <3>2. /\ Cardinality(At(Steps)') <= Cardinality(Requests)
            /\ Cardinality(At(Steps)') \in Nat /\ Cardinality(Requests) \in Nat
        BY <3>1, MetricsAssumption, FS_Subset, FS_CardinalityType
      <3> QED
        BY <1>2, <3>2 DEF Differences
    <2>3. busy' \in 0 .. 1
      BY <1>2 DEF Differences
    <2>4. /\ failed' \in 0 .. MaxEvents /\ events' \in 0 .. MaxEvents
          /\ panics' \in 0 .. MaxEvents
      <3>1. panics' + Cardinality(At(Handling))' <= events'
        BY <1>2 DEF CountsBounded, Handling
      <3>2. Cardinality(At(Handling))' \in Nat
        BY MetricsAssumption, FS_Subset, FS_CardinalityType DEF At
      <3> QED
        BY <2>0, <3>1, <3>2, MetricsAssumption
    <2>5. \A k \in Counters : seen'[k] \in 0 .. MaxEvents
      <3>1. \A k \in Counters : seen'[k] \in Nat
        BY <2>0
      <3>2. \A k \in Counters : seen[k] \in 0 .. MaxEvents /\ count[k] \in 0 .. MaxEvents
        BY DEF MetricsInv, MetricsTypeOK
      <3>3. CASE Scrape
        <4>1. CASE BeginScrape
          BY <3>2, <4>1 DEF BeginScrape
        <4>2. ASSUME NEW k \in Scraped, Collect(k)
              PROVE  \A l \in Counters : seen'[l] \in 0 .. MaxEvents
          BY <1>0, <3>2, <4>2 DEF Collect, Shapes
        <4> QED
          BY <3>3, <4>1, <4>2 DEF Scrape
      <3>4. CASE ~Scrape
        <4>1. seen' = seen
          BY <3>4 DEF MetricsNext, HandleMessage, Receive, TimePasses, ParseOrder,
             CreateOrder, Return, Serve, Enter, CheckUID, Look, Query, Panic, Processed,
             CountRequest, Leave, metricVars, scrapeVars
        <4> QED
          BY <3>2, <4>1
      <3> QED
        BY <3>3, <3>4
    <2>6. count' \in [Counters -> 0 .. MaxEvents] /\ seen' \in [Counters -> 0 .. MaxEvents]
      BY <2>0, <2>1, <2>5
    <2> QED
      BY <1>1, <1>2, <2>2, <2>3, <2>4, <2>6 DEF Shapes, MetricsTypeOK, Steps
  <1> QED
    BY <1>2, <1>3 DEF MetricsInv

LEMMA MetricsInvariance == MetricsSpec => []MetricsInv
  BY MetricsInvInit, MetricsInvStep, PTL DEF MetricsSpec

(* Every metric keeps its type: no gauge goes below zero, and no counter is  *)
(* moved twice by the same message or request.                               *)
THEOREM MetricsTypeCorrect == MetricsSpec => []MetricsTypeOK
  <1>1. MetricsInv => MetricsTypeOK
    BY DEF MetricsInv
  <1> QED
    BY <1>1, MetricsInvariance, PTL

(* However the readings of a scrape fall between the steps of any number of  *)
(* requests, outcomes and answers differ by the requests in flight while it  *)
(* was taken and by the panics so far.                                       *)
THEOREM AnswersAlwaysAgree == MetricsSpec => []AnswersAgree
  <1>1. MetricsInv => AnswersAgree
    BY DEF MetricsInv
  <1> QED
    BY <1>1, MetricsInvariance, PTL

(* And hits and misses are lookups of orders, but for the same requests.     *)
THEOREM HitRateIsSound == MetricsSpec => []HitRateSound
  <1>1. MetricsInv => HitRateSound
    BY DEF MetricsInv
  <1> QED
    BY <1>1, MetricsInvariance, PTL

(* On whatever path messages and requests end, the gauges come back to zero. *)
THEOREM GaugesComeBack == MetricsSpec => []GaugesReturn
  <1>1. MetricsInv => GaugesReturn
    <2> SUFFICES ASSUME MetricsInv PROVE GaugesReturn
      OBVIOUS
    <2>1. (\A r \in Requests : rpc[r] = "idle") => Cardinality(At(Steps)) = 0
      <3>1. (\A r \in Requests : rpc[r] = "idle") => At(Steps) = {}
        BY DEF At, Steps
      <3> QED
        BY <3>1, FS_EmptySet
    <2> QED
      BY <2>1 DEF MetricsInv, Differences, GaugesReturn
  <1> QED
    BY <1>1, MetricsInvariance, PTL
=============================================================================
