-------------------------------- MODULE Config --------------------------------
(* How a process comes by its settings: MustLoad (configs/config.go), the    *)
(* loader that lays a .env file under the environment, and NewLogger         *)
(* (pkg/logger/logger.go), up to the first line that is logged.  Retries,    *)
(* capacity and time limits that other modules take as constants are read    *)
(* here.                                                                     *)
(*                                                                           *)
(* A value in the environment is absent, empty, text that is no number, or a *)
(* number (of seconds, milliseconds or things; 0 and 1 are the booleans).  A *)
(* field is an integer; of a text field 1 says that it is not empty.         *)
EXTENDS Integers

CONSTANTS
  Readable,  \* bound: the numbers tried, in variables
  Names      \* bound: the environment names tried, in APP_ENV and -env

ASSUME BoundsAssumption == Readable \subseteq Int /\ "" \notin Names

Required == {"POSTGRES_USER", "POSTGRES_PASSWORD", "POSTGRES_DB",
  "POSTGRES_HOST", "POSTGRES_PORT", "REDIS_HOST", "KAFKA_BOOTSTRAP_SERVERS",
  "KAFKA_TOPIC", "KAFKA_CONSUMER_GROUP", "KAFKA_AUTO_OFFSET_RESET",
  "HTTP_PORT"}
Text == Required \cup {"REDIS_USER", "REDIS_PASSWORD"}

(* The second arguments of getEnvAsInt, getEnvAsDuration and getEnvAsBool. *)
Default == [
  POSTGRES_CONNECT_TIMEOUT |-> 5, POSTGRES_RETRIES |-> 1,
  REDIS_MAX_RETRIES |-> 3, REDIS_DIAL_TIMEOUT |-> 5,
  REDIS_READ_TIMEOUT |-> 5, REDIS_WRITE_TIMEOUT |-> 5, REDIS_CAPACITY |-> 100,
  KAFKA_AUTO_COMMIT_INTERVAL_MS |-> 1000, KAFKA_SESSION_TIMEOUT_MS |-> 1000,
  KAFKA_PRODUCER_NUM_OF_KEYS |-> 20, KAFKA_FLUSH_TIMEOUT |-> 5000,
  HTTP_READ_TIMEOUT |-> 10, HTTP_WRITE_TIMEOUT |-> 10,
  HTTP_IDLE_TIMEOUT |-> 60, REDIS_DB |-> 0, REDIS_WARMUP |-> 0 ]

(* A field bears the name of the variable example.env sets it with. *)
Fields == Text \cup DOMAIN Default
Checked == Fields \ {"REDIS_USER", "REDIS_PASSWORD", "REDIS_DB", "REDIS_WARMUP"}

Values == [kind : {"absent", "empty", "junk"}, n : {1}]
            \cup [kind : {"number"}, n : Readable]
Absent == [kind |-> "absent", n |-> 1]
Layers == [Fields -> Values]

VARIABLES
  real,    \* the environment the process is started with
  file,    \* the .env file, all absent when there is none
  parses,  \* godotenv can read every line of the file
  app,     \* app.real, app.file, app.flag: APP_ENV and -env, "" when not set
  step,    \* what has been done, or how the process ended
  env,     \* Config.Env
  envs,    \* what the loader returns
  cfg,     \* the fields of Config
  logger   \* the level the logger writes from, "nil" when there is none

vars == <<real, file, parses, app, step, env, envs, cfg, logger>>

Apps == [real : Names \cup {""}, file : Names \cup {""},
         flag : Names \cup {"dev"}]

TypeOK ==
  /\ real \in Layers /\ file \in Layers /\ envs \in Layers
  /\ app \in Apps /\ parses \in BOOLEAN
  /\ env \in Names \cup {"dev"} \/ (env = "" /\ step = "start")
  /\ step \in {"start", "env", "loaded", "built", "valid", "logging",
               "running", "fatal", "panic"}
  /\ cfg \in [Fields -> Int]
  /\ logger \in {"nil", "debug", "info"}

(* Like example.env: all that is required, the numbers left to the defaults. *)
Example ==
  [f \in Fields |-> IF f \in Required THEN [kind |-> "junk", n |-> 1] ELSE Absent]
Nothing == [f \in Fields |-> Absent]

(* Everything comes from the environment or from the file, with one variable *)
(* changed in each.                                                          *)
Init ==
  /\ \E f, g \in Fields, u, v \in Values :
       \/ real = [Example EXCEPT ![f] = u] /\ file = [Nothing EXCEPT ![g] = v]
       \/ real = [Nothing EXCEPT ![f] = u] /\ file = [Example EXCEPT ![g] = v]
  /\ \/ app \in Apps /\ real \in {Example, Nothing} /\ file \in {Example, Nothing}
     \/ app = [real |-> "", file |-> "", flag |-> "dev"]
  /\ parses \in BOOLEAN
  /\ step = "start" /\ env = "" /\ envs = Nothing
  /\ cfg = [f \in Fields |-> 0] /\ logger = "nil"

---------------------------------------------------------------------------

(* APP_ENV of the environment, or else the flag; the file is not read yet. *)
ReadEnv ==
  /\ step = "start"
  /\ step' = "env"
  /\ env' = IF app.real # "" THEN app.real ELSE app.flag
  /\ UNCHANGED <<real, file, parses, app, envs, cfg, logger>>

(* godotenv.Load parses the file before it sets a variable: one bad line and *)
(* the file is dropped whole, as if there were none.  The error is ignored.  *)
InFile(f) == IF parses THEN file[f] ELSE Absent

(* DotEnvLoader.Load: a variable that exists, be it empty, hides the one of  *)
(* the file.                                                                 *)
Load ==
  /\ step = "env"
  /\ step' = "loaded"
  /\ envs' = [f \in Fields |-> IF real[f].kind # "absent" THEN real[f] ELSE InFile(f)]
  /\ UNCHANGED <<real, file, parses, app, env, cfg, logger>>

(* IdleTimeout is read from the variable of WriteTimeout. *)
KeyOf(f) == IF f = "HTTP_IDLE_TIMEOUT" THEN "HTTP_WRITE_TIMEOUT" ELSE f

(* Seeded bug: the value of strconv.Atoi is used when it reports an error. *)
FieldJunkIsZero(f) ==
  LET v == envs[KeyOf(f)]
  IN IF f \in Text THEN IF v.kind \in {"junk", "number"} THEN 1 ELSE 0
     ELSE IF v.kind = "junk" THEN 0
     ELSE IF v.kind = "number" THEN v.n ELSE Default[f]

(* getEnvAsInt and the like: what is empty or unreadable gives the default. *)
Field(f) ==
  LET v == envs[KeyOf(f)]
  IN IF f \in Text THEN IF v.kind \in {"junk", "number"} THEN 1 ELSE 0
     ELSE IF v.kind = "number" /\ (f = "REDIS_WARMUP" => v.n \in {0, 1})
          THEN v.n ELSE Default[f]

Build ==
  /\ step = "loaded"
  /\ step' = "built"
  /\ cfg' = [f \in Fields |-> Field(f)]
  /\ UNCHANGED <<real, file, parses, app, env, envs, logger>>

(* validateConfig, and log.Fatalf on its error. *)
Validate ==
  /\ step = "built"
  /\ step' = IF \A f \in Checked : cfg[f] > 0 THEN "valid" ELSE "fatal"
  /\ UNCHANGED <<real, file, parses, app, env, envs, cfg, logger>>

(* NewLogger: any other Env leaves the logger nil. *)
NewLogger ==
  /\ step = "valid"
  /\ step' = "logging"
  /\ logger' = IF env \in {"local", "dev"} THEN "debug"
               ELSE IF env = "prod" THEN "info" ELSE "nil"
  /\ UNCHANGED <<real, file, parses, app, env, envs, cfg>>

(* The first line of Connect. *)
FirstLine ==
  /\ step = "logging"
  /\ step' = IF logger = "nil" THEN "panic" ELSE "running"
  /\ UNCHANGED <<real, file, parses, app, env, envs, cfg, logger>>

Next == ReadEnv \/ Load \/ Build \/ Validate \/ NewLogger \/ FirstLine

Spec == Init /\ [][Next]_vars

---------------------------------------------------------------------------
(* Properties.                                                               *)

Up == step \in {"valid", "logging", "running"}

(* A process refuses its settings only for a text that is empty, or a number *)
(* that is zero or less, in the variable itself: an unreadable number is no  *)
(* reason, and a file is none beside a complete environment, whatever it     *)
(* holds and be it garbage.  A file that cannot be parsed counts as absent   *)
(* in every variable (config.go:116-173, dotEnvLoader.go:13).                *)
FatalDeserved ==
  step = "fatal" =>
    \E f \in Checked :
      LET k == KeyOf(f)
          v == IF real[k].kind # "absent" THEN real[k] ELSE InFile(k)
      IN \/ f \in Text /\ v.kind \in {"absent", "empty"}
         \/ f \notin Text /\ v.kind = "number" /\ v.n <= 0

(* A process that dies at its first line of log was started with an unknown  *)
(* name, in APP_ENV or, without it, in -env (config.go:63-68, logger.go:30). *)
PanicOnlyUnknown ==
  step = "panic" =>
    /\ env \notin {"local", "dev", "prod"}
    /\ app.real = "" => env = app.flag

(* Said but not so: HTTP_IDLE_TIMEOUT sets the idle time limit               *)
(* (example.env:34).                                                         *)
IdleFromIdle ==
  Up =>
    LET v == IF real["HTTP_IDLE_TIMEOUT"].kind # "absent"
             THEN real["HTTP_IDLE_TIMEOUT"] ELSE file["HTTP_IDLE_TIMEOUT"]
    IN v.kind = "number" => cfg["HTTP_IDLE_TIMEOUT"] = v.n

(* Said but not so: APP_ENV can be set in the .env file (README.md:5,        *)
(* example.env:1).                                                           *)
EnvFromFile ==
  Up /\ app.real = "" /\ app.file # "" => env = app.file
=============================================================================
