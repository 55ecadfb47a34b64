---------------------------- MODULE Configuration ----------------------------
(***************************************************************************)
(* From the environment to a running process: config.Load reads and checks *)
(* the variables one after the other and stops at the first it refuses;    *)
(* main then builds the components, each of which checks its share again.  *)
(*                                                                         *)
(* A variable's value is what is left of its text after strings.TrimSpace: *)
(* Empty, Malformed (no integer, no host:port, no URL, as the variable     *)
(* demands), or the parts the checks look at.  Names go without MANORECK_. *)
(***************************************************************************)
EXTENDS Naturals, Sequences

CONSTANTS
    Choices,    \* the values each variable may be set to
    Unset,      \* the variable is not in the environment
    Empty,      \* set, and nothing but white space
    Malformed,  \* set to text that does not parse
    Nobody,     \* nothing has been refused
    Unnamed     \* refused by an error that names no variable

\* The order in which Load reads, and main builds.
Variables == <<
    "ENVIRONMENT", "LOG_LEVEL", "HTTP_ADDRESS", "HTTP_SHUTDOWN_TIMEOUT_SECONDS",
    "READINESS_TIMEOUT_SECONDS", "DATABASE_URL", "DATABASE_MAX_CONNECTIONS",
    "DATABASE_MIN_CONNECTIONS", "NATS_URL", "OUTBOX_POLL_MILLISECONDS",
    "OUTBOX_LEASE_SECONDS", "OUTBOX_BATCH_SIZE", "OUTBOX_MAX_ATTEMPTS",
    "OUTBOX_BASE_BACKOFF_SECONDS", "OUTBOX_MAX_BACKOFF_SECONDS", "REDIS_URL",
    "REDIS_KEY_PREFIX", "OBJECT_STORAGE_ENDPOINT", "OBJECT_STORAGE_BUCKET",
    "OBJECT_STORAGE_ACCESS_KEY", "OBJECT_STORAGE_SECRET_KEY">>
Components == <<"database", "nats", "redis", "objects", "relay", "consumer", "set">>

Names == {Variables[i] : i \in 1..Len(Variables)}

VARIABLES
    env,     \* the process environment
    step,    \* how far main has come: variables first, components after them
    blamed   \* what the startup error is about

vars == <<env, step, blamed>>

Loading == step <= Len(Variables)
Running == step > Len(Variables) + Len(Components)
Variable == Variables[step]
Component == Components[step - Len(Variables)]

-----------------------------------------------------------------------------
(***************************************************************************)
(* Values and defaults.                                                    *)
(***************************************************************************)

\* A URL by the parts Load looks at; "driver" says whether the driver that
\* is given the URL can parse it too.
URL(scheme, path, driver) ==
    [scheme |-> scheme, host |-> TRUE, path |-> path, extra |-> FALSE, driver |-> driver]

\* A key prefix by its length, its first character and the others.
Prefix(length, first, rest) == [length |-> length, first |-> first, rest |-> rest]

\* A bucket name by its length, whether its characters and separators are
\* "valid", and the numbers it consists of when it is nothing but numbers
\* (without leading zeros) separated by dots.
Bucket(length, form, numbers) == [length |-> length, form |-> form, numbers |-> numbers]

\* Mutant of DefaultMinConnections: more than a pool of one allows.
DefaultMinConnectionsTwo == 2

DefaultMinConnections == 1

Default(v) ==
    CASE v = "ENVIRONMENT" -> "local"
      [] v = "LOG_LEVEL" -> "info"
      [] v = "HTTP_ADDRESS" -> [port |-> 8080]
      [] v = "HTTP_SHUTDOWN_TIMEOUT_SECONDS" -> 10
      [] v = "READINESS_TIMEOUT_SECONDS" -> 2
      [] v = "DATABASE_URL" -> URL("postgres", "name", TRUE)
      [] v = "DATABASE_MAX_CONNECTIONS" -> 10
      [] v = "DATABASE_MIN_CONNECTIONS" -> DefaultMinConnections
      [] v = "NATS_URL" -> URL("nats", "", TRUE)
      [] v = "OUTBOX_POLL_MILLISECONDS" -> 250
      [] v = "OUTBOX_LEASE_SECONDS" -> 30
      [] v = "OUTBOX_BATCH_SIZE" -> 100
      [] v = "OUTBOX_MAX_ATTEMPTS" -> 8
      [] v = "OUTBOX_BASE_BACKOFF_SECONDS" -> 1
      [] v = "OUTBOX_MAX_BACKOFF_SECONDS" -> 300
      [] v = "REDIS_URL" -> URL("redis", "name", TRUE)
      [] v = "REDIS_KEY_PREFIX" -> Prefix(8, "letter", "word")
      [] v = "OBJECT_STORAGE_ENDPOINT" -> URL("http", "", TRUE)
      [] v = "OBJECT_STORAGE_BUCKET" -> Bucket(14, "valid", <<>>)
      [] OTHER -> "local-key"

\* The marks are none of the values they stand beside.
ASSUME MarksAssumption ==
    /\ Nobody \notin Names /\ Unnamed \notin Names /\ Nobody # Unnamed
    /\ \A v \in Names : Default(v) \notin {Empty, Malformed}

Value(v) == IF env[v] = Unset THEN Default(v) ELSE env[v]

-----------------------------------------------------------------------------
(***************************************************************************)
(* config.Load.                                                            *)
(***************************************************************************)

\* Mutant of ShortestMaxBackoff: the two backoffs are checked independently.
ShortestMaxBackoffOne == 1

ShortestMaxBackoff == Value("OUTBOX_BASE_BACKOFF_SECONDS")

\* The integers each integer variable may be; two bounds are other variables.
IntegerRange(v) ==
    CASE v \in {"HTTP_SHUTDOWN_TIMEOUT_SECONDS", "READINESS_TIMEOUT_SECONDS"} -> 1..60
      [] v = "DATABASE_MAX_CONNECTIONS" -> 1..100
      [] v = "DATABASE_MIN_CONNECTIONS" -> 0..Value("DATABASE_MAX_CONNECTIONS")
      [] v = "OUTBOX_POLL_MILLISECONDS" -> 10..60000
      [] v = "OUTBOX_LEASE_SECONDS" -> 1..3600
      [] v = "OUTBOX_BATCH_SIZE" -> 1..1000
      [] v = "OUTBOX_MAX_ATTEMPTS" -> 1..100
      [] v = "OUTBOX_BASE_BACKOFF_SECONDS" -> 1..3600
      [] v = "OUTBOX_MAX_BACKOFF_SECONDS" -> ShortestMaxBackoff..86400

Parsed(v) == Value(v) \notin {Empty, Malformed}

IsURL(v, schemes) ==
    Parsed(v) /\ Value(v).scheme \in schemes /\ Value(v).host

Ports == 1..65535

ValidAddress == Parsed("HTTP_ADDRESS") /\ Value("HTTP_ADDRESS").port \in Ports

ValidDatabaseURL ==
    /\ IsURL("DATABASE_URL", {"postgres", "postgresql"})
    /\ Value("DATABASE_URL").path \notin {"", "/"}

ValidNATSURL == IsURL("NATS_URL", {"nats", "tls"})

ValidRedisURL == IsURL("REDIS_URL", {"redis", "rediss"})

\* redisKeyPrefixPattern
ValidPrefix ==
    /\ Parsed("REDIS_KEY_PREFIX")
    /\ LET p == Value("REDIS_KEY_PREFIX")
       IN  p.length \in 2..63 /\ p.first = "letter" /\ p.rest = "word"

ValidEndpoint ==
    /\ IsURL("OBJECT_STORAGE_ENDPOINT", {"http", "https"})
    /\ Value("OBJECT_STORAGE_ENDPOINT").path \in {"", "/"}
    /\ ~Value("OBJECT_STORAGE_ENDPOINT").extra

\* net.ParseIP of a name without colons
IsIP(b) == Len(b.numbers) = 4 /\ \A i \in 1..4 : b.numbers[i] <= 255

ValidBucketName ==
    /\ Parsed("OBJECT_STORAGE_BUCKET")
    /\ LET b == Value("OBJECT_STORAGE_BUCKET")
       IN  b.length \in 3..63 /\ b.form = "valid" /\ ~IsIP(b)

\* What Load demands of each variable.
Accepts(v) ==
    CASE v = "ENVIRONMENT" -> Value(v) \in {"local", "test", "sandbox"}
      [] v = "LOG_LEVEL" -> Parsed(v)
      [] v = "HTTP_ADDRESS" -> ValidAddress
      [] v = "DATABASE_URL" -> ValidDatabaseURL
      [] v = "NATS_URL" -> ValidNATSURL
      [] v = "REDIS_URL" -> ValidRedisURL
      [] v = "REDIS_KEY_PREFIX" -> ValidPrefix
      [] v = "OBJECT_STORAGE_ENDPOINT" -> ValidEndpoint
      [] v = "OBJECT_STORAGE_BUCKET" -> ValidBucketName
      [] v \in {"OBJECT_STORAGE_ACCESS_KEY", "OBJECT_STORAGE_SECRET_KEY"} ->
            Value(v) # Empty
      [] OTHER -> Value(v) \in IntegerRange(v)

-----------------------------------------------------------------------------
(***************************************************************************)
(* The constructors main calls: what each checks itself, once more.        *)
(***************************************************************************)
NewDatabase ==
    /\ Value("DATABASE_MAX_CONNECTIONS") >= 1
    /\ Value("DATABASE_MIN_CONNECTIONS") \in 0..Value("DATABASE_MAX_CONNECTIONS")

NewNATS == Value("NATS_URL") # Empty

\* Load has trimmed the prefix, so it has no white space around it.
NewRedis ==
    LET p == Value("REDIS_KEY_PREFIX")
    IN  p.length > 0 /\ p.first # "colon" /\ p.rest # "colon"

NewObjectStore ==
    LET u == Value("OBJECT_STORAGE_ENDPOINT")
    IN  /\ u.scheme \in {"http", "https"} /\ u.host
        /\ u.path \in {"", "/"} /\ ~u.extra
        /\ Value("OBJECT_STORAGE_ACCESS_KEY") # Empty
        /\ Value("OBJECT_STORAGE_SECRET_KEY") # Empty

\* The worker ID is drawn here too; running out of randomness is not about
\* configuration and left out.
NewRelay ==
    /\ Value("OUTBOX_POLL_MILLISECONDS") > 0
    /\ Value("OUTBOX_LEASE_SECONDS") > 0
    /\ Value("OUTBOX_BATCH_SIZE") \in 1..1000
    /\ Value("OUTBOX_MAX_ATTEMPTS") >= 1
    /\ Value("OUTBOX_BASE_BACKOFF_SECONDS") > 0
    /\ Value("OUTBOX_MAX_BACKOFF_SECONDS") >= Value("OUTBOX_BASE_BACKOFF_SECONDS")

\* The names of main's components differ.
NewSet == Value("READINESS_TIMEOUT_SECONDS") > 0

\* The consumer's constructor is given what the others built.
Agrees(c) ==
    CASE c = "database" -> NewDatabase
      [] c = "nats" -> NewNATS
      [] c = "redis" -> NewRedis
      [] c = "objects" -> NewObjectStore
      [] c = "relay" -> NewRelay
      [] c = "consumer" -> TRUE
      [] c = "set" -> NewSet

\* What it leaves to its driver: pgxpool.ParseConfig, redis.ParseURL and
\* s3utils.CheckValidBucketNameStrict, which refuses any four numbers.
DriverAgrees(c) ==
    CASE c = "database" -> Value("DATABASE_URL").driver
      [] c = "redis" -> Value("REDIS_URL").driver
      [] c = "objects" -> Len(Value("OBJECT_STORAGE_BUCKET").numbers) # 4
      [] OTHER -> TRUE

-----------------------------------------------------------------------------
\* Nothing has been read; the environment may be any.
Begin == step = 1 /\ blamed = Nobody

\* At most two variables are set: no check looks at more than two.
Init ==
    /\ \E v, w \in Names : \E x \in Choices[v] \cup {Unset}, y \in Choices[w] \cup {Unset} :
        env = [n \in Names |-> IF n = w THEN y ELSE IF n = v THEN x ELSE Unset]
    /\ Begin

Go ==
    /\ step' = step + 1
    /\ UNCHANGED <<env, blamed>>

Refuse(what) ==
    /\ blamed' = what
    /\ UNCHANGED <<env, step>>

ReadVariable ==
    /\ Loading /\ blamed = Nobody
    /\ IF Accepts(Variable) THEN Go ELSE Refuse(Variable)

BuildComponent ==
    /\ ~Loading /\ ~Running /\ blamed = Nobody
    /\ IF Agrees(Component) /\ DriverAgrees(Component) THEN Go ELSE Refuse(Unnamed)

Next == ReadVariable \/ BuildComponent

\* Every environment, and those that are checked.
AnySpec == Begin /\ [][Next]_vars
Spec == Init /\ [][Next]_vars

-----------------------------------------------------------------------------
(***************************************************************************)
(* Properties.                                                             *)
(***************************************************************************)

\* Load and the constructors have the same rules, written twice: whatever
\* Load accepts, the constructors' own checks accept, and only a driver's
\* parser can still stop the process.
OnlyDriversRefuse ==
    ~Loading /\ ~Running => Agrees(Component)

\* The variables whose values the drivers parse.
DriverVariables == {"DATABASE_URL", "REDIS_URL", "OBJECT_STORAGE_BUCKET"}

\* No default is ever at fault.  The variable an error of Load's names is one
\* that is set, or it is the longest backoff and the shortest one has been set
\* beyond the longest one's default; a driver refuses only a value that is
\* set.  In particular a process with an empty environment starts.
RefusalDeserved ==
    /\ blamed \in Names =>
        \/ env[blamed] # Unset
        \/ /\ blamed = "OUTBOX_MAX_BACKOFF_SECONDS"
           /\ Value("OUTBOX_BASE_BACKOFF_SECONDS") > Default("OUTBOX_MAX_BACKOFF_SECONDS")
    /\ blamed = Unnamed => \E v \in DriverVariables : env[v] # Unset

\* "Invalid startup configuration names the affected variable and stops the
\* process before it accepts work."
RefusalNamesVariable == blamed # Unnamed
=============================================================================
