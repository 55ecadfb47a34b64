------------------------- MODULE ConfigurationProofs -------------------------
(***************************************************************************)
(* Proofs about Configuration, for every environment: any number of        *)
(* variables set, to any values at all, not just the two of a run.         *)
(***************************************************************************)
EXTENDS Configuration, Integers, TLAPS

\* The inductive invariant: whatever has been read was accepted, and the
\* variable an error names is the one being read.
AcceptedSoFar ==
    /\ step \in 1..(Len(Variables) + Len(Components) + 1)
    /\ \A i \in 1..Len(Variables) : i < step => Accepts(Variables[i])
    /\ blamed \in Names => Loading /\ blamed = Variable /\ ~Accepts(blamed)

\* The lengths of the two lists.
LEMMA Lengths == Len(Variables) = 21 /\ Len(Components) = 7
BY DEF Variables, Components

\* The places of the variables that others depend on.
LEMMA Places ==
    /\ Variables[4] = "HTTP_SHUTDOWN_TIMEOUT_SECONDS"
    /\ Variables[5] = "READINESS_TIMEOUT_SECONDS"
    /\ Variables[7] = "DATABASE_MAX_CONNECTIONS"
    /\ Variables[8] = "DATABASE_MIN_CONNECTIONS"
    /\ Variables[9] = "NATS_URL"
    /\ Variables[10] = "OUTBOX_POLL_MILLISECONDS"
    /\ Variables[11] = "OUTBOX_LEASE_SECONDS"
    /\ Variables[12] = "OUTBOX_BATCH_SIZE"
    /\ Variables[13] = "OUTBOX_MAX_ATTEMPTS"
    /\ Variables[14] = "OUTBOX_BASE_BACKOFF_SECONDS"
    /\ Variables[15] = "OUTBOX_MAX_BACKOFF_SECONDS"
    /\ Variables[17] = "REDIS_KEY_PREFIX"
    /\ Variables[18] = "OBJECT_STORAGE_ENDPOINT"
    /\ Variables[20] = "OBJECT_STORAGE_ACCESS_KEY"
    /\ Variables[21] = "OBJECT_STORAGE_SECRET_KEY"
BY DEF Variables

\* Each component and its constructor.
LEMMA ComponentPlaces ==
    /\ Components[1] = "database" /\ Components[2] = "nats" /\ Components[3] = "redis"
    /\ Components[4] = "objects" /\ Components[5] = "relay" /\ Components[6] = "consumer"
    /\ Components[7] = "set"
BY DEF Components

\* Checks look at the environment only, which nobody changes.
LEMMA AcceptsKept ==
    ASSUME UNCHANGED env, NEW v
    PROVE  Accepts(v)' <=> Accepts(v)
<1>1. \A x : Value(x)' = Value(x)
    BY DEF Value
<1>2. IntegerRange(v)' = IntegerRange(v)
    BY <1>1 DEF IntegerRange, ShortestMaxBackoff
<1>3. ValidAddress' <=> ValidAddress
    BY DEF ValidAddress, Parsed, Value
<1>4. ValidDatabaseURL' <=> ValidDatabaseURL
    BY DEF ValidDatabaseURL, IsURL, Parsed, Value
<1>5. ValidNATSURL' <=> ValidNATSURL
    BY DEF ValidNATSURL, IsURL, Parsed, Value
<1>6. ValidRedisURL' <=> ValidRedisURL
    BY DEF ValidRedisURL, IsURL, Parsed, Value
<1>7. ValidPrefix' <=> ValidPrefix
    BY DEF ValidPrefix, Parsed, Value
<1>8. ValidEndpoint' <=> ValidEndpoint
    BY DEF ValidEndpoint, IsURL, Parsed, Value
<1>9. ValidBucketName' <=> ValidBucketName
    BY DEF ValidBucketName, IsIP, Parsed, Value
<1>10. Parsed(v)' <=> Parsed(v)
    BY DEF Parsed, Value
<1> QED
    BY <1>1, <1>2, <1>3, <1>4, <1>5, <1>6, <1>7, <1>8, <1>9, <1>10 DEF Accepts

-----------------------------------------------------------------------------
\* The check of each kind of variable.
LEMMA AcceptsText ==
    /\ Accepts("ENVIRONMENT") <=> Value("ENVIRONMENT") \in {"local", "test", "sandbox"}
    /\ Accepts("LOG_LEVEL") <=> Parsed("LOG_LEVEL")
    /\ Accepts("HTTP_ADDRESS") <=> ValidAddress
    /\ Accepts("DATABASE_URL") <=> ValidDatabaseURL
    /\ Accepts("NATS_URL") <=> ValidNATSURL
    /\ Accepts("REDIS_URL") <=> ValidRedisURL
    /\ Accepts("REDIS_KEY_PREFIX") <=> ValidPrefix
    /\ Accepts("OBJECT_STORAGE_ENDPOINT") <=> ValidEndpoint
    /\ Accepts("OBJECT_STORAGE_BUCKET") <=> ValidBucketName
    /\ Accepts("OBJECT_STORAGE_ACCESS_KEY") <=> Value("OBJECT_STORAGE_ACCESS_KEY") # Empty
    /\ Accepts("OBJECT_STORAGE_SECRET_KEY") <=> Value("OBJECT_STORAGE_SECRET_KEY") # Empty
BY DEF Accepts

\* Integers are checked against their ranges.
LEMMA AcceptsInteger ==
    ASSUME NEW v \in {"READINESS_TIMEOUT_SECONDS", "DATABASE_MAX_CONNECTIONS",
                      "DATABASE_MIN_CONNECTIONS", "OUTBOX_POLL_MILLISECONDS",
                      "OUTBOX_LEASE_SECONDS", "OUTBOX_BATCH_SIZE", "OUTBOX_MAX_ATTEMPTS",
                      "OUTBOX_BASE_BACKOFF_SECONDS", "OUTBOX_MAX_BACKOFF_SECONDS"}
    PROVE  Accepts(v) <=> Value(v) \in IntegerRange(v)
BY DEF Accepts

\* Six of the ranges begin above zero.
LEMMA PositiveRanges ==
    ASSUME NEW v \in {"READINESS_TIMEOUT_SECONDS", "DATABASE_MAX_CONNECTIONS",
                      "OUTBOX_POLL_MILLISECONDS", "OUTBOX_LEASE_SECONDS",
                      "OUTBOX_MAX_ATTEMPTS", "OUTBOX_BASE_BACKOFF_SECONDS"},
           NEW n \in IntegerRange(v)
    PROVE  n \in Int /\ n > 0 /\ n >= 1
<1> DEFINE R(lo, hi) == lo..hi
<1>1. \A lo, hi \in Nat : lo >= 1 => \A k \in R(lo, hi) : k \in Int /\ k > 0 /\ k >= 1
    OBVIOUS
<1>2. v = "READINESS_TIMEOUT_SECONDS" => IntegerRange(v) = R(1, 60)
    BY DEF IntegerRange
<1>3. v = "DATABASE_MAX_CONNECTIONS" => IntegerRange(v) = R(1, 100)
    BY DEF IntegerRange
<1>4. v = "OUTBOX_POLL_MILLISECONDS" => IntegerRange(v) = R(10, 60000)
    BY DEF IntegerRange
<1>5. v = "OUTBOX_LEASE_SECONDS" => IntegerRange(v) = R(1, 3600)
    BY DEF IntegerRange
<1>6. v = "OUTBOX_MAX_ATTEMPTS" => IntegerRange(v) = R(1, 100)
    BY DEF IntegerRange
<1>7. v = "OUTBOX_BASE_BACKOFF_SECONDS" => IntegerRange(v) = R(1, 3600)
    BY DEF IntegerRange
<1> HIDE DEF R
<1> QED
    BY <1>1, <1>2, <1>3, <1>4, <1>5, <1>6, <1>7

\* The checks of database.New follow from the ranges of its two integers.
LEMMA DatabaseAgrees ==
    Accepts("DATABASE_MAX_CONNECTIONS") /\ Accepts("DATABASE_MIN_CONNECTIONS") => NewDatabase
<1>1. Accepts("DATABASE_MAX_CONNECTIONS") => Value("DATABASE_MAX_CONNECTIONS") >= 1
    BY AcceptsInteger, PositiveRanges, Zenon
<1>2. IntegerRange("DATABASE_MIN_CONNECTIONS") = 0..Value("DATABASE_MAX_CONNECTIONS")
    BY DEF IntegerRange
<1> QED
    BY <1>1, <1>2, AcceptsInteger, Zenon DEF NewDatabase

\* The checks of natsclient.New follow from those of Load.
LEMMA NATSAgrees == ValidNATSURL => NewNATS
BY DEF NewNATS, ValidNATSURL, IsURL, Parsed

\* The checks of redisclient.New follow from the pattern of the key prefix.
LEMMA RedisAgrees == ValidPrefix => NewRedis
BY DEF NewRedis, ValidPrefix

\* The checks of objectstorage.New follow from those of Load.
LEMMA ObjectStoreAgrees ==
    /\ ValidEndpoint
    /\ Value("OBJECT_STORAGE_ACCESS_KEY") # Empty /\ Value("OBJECT_STORAGE_SECRET_KEY") # Empty
    => NewObjectStore
BY Zenon DEF NewObjectStore, ValidEndpoint, IsURL

\* The checks of outbox.NewRelay follow from the ranges of its six integers.
LEMMA RelayAgrees ==
    /\ Accepts("OUTBOX_POLL_MILLISECONDS") /\ Accepts("OUTBOX_LEASE_SECONDS")
    /\ Accepts("OUTBOX_BATCH_SIZE") /\ Accepts("OUTBOX_MAX_ATTEMPTS")
    /\ Accepts("OUTBOX_BASE_BACKOFF_SECONDS") /\ Accepts("OUTBOX_MAX_BACKOFF_SECONDS")
    => NewRelay
<1>1. Accepts("OUTBOX_POLL_MILLISECONDS") => Value("OUTBOX_POLL_MILLISECONDS") > 0
    BY AcceptsInteger, PositiveRanges, Zenon
<1>2. Accepts("OUTBOX_LEASE_SECONDS") => Value("OUTBOX_LEASE_SECONDS") > 0
    BY AcceptsInteger, PositiveRanges, Zenon
<1>3. Accepts("OUTBOX_BATCH_SIZE") => Value("OUTBOX_BATCH_SIZE") \in 1..1000
    BY DEF Accepts, IntegerRange
<1>4. Accepts("OUTBOX_MAX_ATTEMPTS") => Value("OUTBOX_MAX_ATTEMPTS") >= 1
    BY AcceptsInteger, PositiveRanges, Zenon
<1>5. Accepts("OUTBOX_BASE_BACKOFF_SECONDS") =>
            Value("OUTBOX_BASE_BACKOFF_SECONDS") \in Int /\ Value("OUTBOX_BASE_BACKOFF_SECONDS") > 0
    BY AcceptsInteger, PositiveRanges, Zenon
<1>6. Accepts("OUTBOX_BASE_BACKOFF_SECONDS") /\ Accepts("OUTBOX_MAX_BACKOFF_SECONDS") =>
            Value("OUTBOX_MAX_BACKOFF_SECONDS") >= Value("OUTBOX_BASE_BACKOFF_SECONDS")
    <2> DEFINE R(lo) == lo..86400
    <2>1. IntegerRange("OUTBOX_MAX_BACKOFF_SECONDS") = R(Value("OUTBOX_BASE_BACKOFF_SECONDS"))
        BY DEF IntegerRange, ShortestMaxBackoff
    <2>2. \A lo \in Int : \A n \in R(lo) : n >= lo
        OBVIOUS
    <2> HIDE DEF R
    <2> QED
        BY <1>5, <2>1, <2>2, AcceptsInteger, Zenon
<1>7. Accepts("OUTBOX_BASE_BACKOFF_SECONDS") => Value("OUTBOX_BASE_BACKOFF_SECONDS") > 0
    BY <1>5, Zenon
<1> QED
    BY <1>1, <1>2, <1>3, <1>4, <1>6, <1>7, ZenonT(60) DEF NewRelay

\* The check of dependency.NewSet follows from the range of its timeout.
LEMMA SetAgrees == Accepts("READINESS_TIMEOUT_SECONDS") => NewSet
BY AcceptsInteger, PositiveRanges, Zenon DEF NewSet

\* Each component's constructor.
LEMMA AgreesEach ==
    /\ Agrees("database") <=> NewDatabase
    /\ Agrees("nats") <=> NewNATS
    /\ Agrees("redis") <=> NewRedis
    /\ Agrees("objects") <=> NewObjectStore
    /\ Agrees("relay") <=> NewRelay
    /\ Agrees("consumer")
    /\ Agrees("set") <=> NewSet
BY DEF Agrees

\* What Load accepts, the constructors' own checks accept.
LEMMA ConstructorsAgree ==
    ASSUME \A i \in 1..Len(Variables) : Accepts(Variables[i]),
           NEW c \in 1..Len(Components)
    PROVE  Agrees(Components[c])
<1>1. /\ Accepts(Variables[5]) /\ Accepts(Variables[7]) /\ Accepts(Variables[8])
      /\ Accepts(Variables[9]) /\ Accepts(Variables[10]) /\ Accepts(Variables[11])
      /\ Accepts(Variables[12]) /\ Accepts(Variables[13]) /\ Accepts(Variables[14])
      /\ Accepts(Variables[15]) /\ Accepts(Variables[17]) /\ Accepts(Variables[18])
      /\ Accepts(Variables[20]) /\ Accepts(Variables[21])
    BY Lengths
<1>2. NewDatabase
    BY <1>1, Places, DatabaseAgrees, Zenon
<1>3. NewNATS
    BY <1>1, Places, AcceptsText, NATSAgrees, Zenon
<1>4. NewRedis
    BY <1>1, Places, AcceptsText, RedisAgrees, Zenon
<1>5. NewObjectStore
    BY <1>1, Places, AcceptsText, ObjectStoreAgrees, Zenon
<1>6. NewRelay
    BY <1>1, Places, RelayAgrees, Zenon
<1>7. NewSet
    BY <1>1, Places, SetAgrees, Zenon
<1>8. c \in {1, 2, 3, 4, 5, 6, 7}
    BY Lengths
<1> QED
    BY <1>2, <1>3, <1>4, <1>5, <1>6, <1>7, <1>8, AgreesEach, ComponentPlaces, Zenon

\* The default port is one.
LEMMA DefaultPort == Default("HTTP_ADDRESS").port \in Ports
<1>1. 8080 \in Ports
    BY DEF Ports
<1>2. Default("HTTP_ADDRESS").port = 8080
    BY DEF Default
<1> QED
    BY <1>1, <1>2

\* The parts of a default URL.
LEMMA URLParts ==
    ASSUME NEW scheme, NEW path, NEW driver
    PROVE  LET u == URL(scheme, path, driver)
           IN  u.scheme = scheme /\ u.path = path /\ u.host /\ ~u.extra
BY DEF URL

\* The default URLs are of the form Load demands.
LEMMA URLDefaults ==
    /\ Parsed("DATABASE_URL") /\ Value("DATABASE_URL") = URL("postgres", "name", TRUE) =>
            ValidDatabaseURL
    /\ Parsed("NATS_URL") /\ Value("NATS_URL") = URL("nats", "", TRUE) =>
            ValidNATSURL
    /\ Parsed("REDIS_URL") /\ Value("REDIS_URL") = URL("redis", "name", TRUE) =>
            ValidRedisURL
    /\ Parsed("OBJECT_STORAGE_ENDPOINT") /\
            Value("OBJECT_STORAGE_ENDPOINT") = URL("http", "", TRUE) => ValidEndpoint
<1>1. Parsed("DATABASE_URL") /\ Value("DATABASE_URL") = URL("postgres", "name", TRUE) =>
            ValidDatabaseURL
    <2>1. LET u == URL("postgres", "name", TRUE)
          IN  u.scheme = "postgres" /\ u.path = "name" /\ u.host /\ ~u.extra
        BY URLParts
    <2> QED
        BY <2>1, Zenon DEF ValidDatabaseURL, IsURL
<1>2. Parsed("NATS_URL") /\ Value("NATS_URL") = URL("nats", "", TRUE) => ValidNATSURL
    <2>1. LET u == URL("nats", "", TRUE)
          IN  u.scheme = "nats" /\ u.path = "" /\ u.host /\ ~u.extra
        BY URLParts
    <2> QED
        BY <2>1, Zenon DEF ValidNATSURL, IsURL
<1>3. Parsed("REDIS_URL") /\ Value("REDIS_URL") = URL("redis", "name", TRUE) => ValidRedisURL
    <2>1. LET u == URL("redis", "name", TRUE)
          IN  u.scheme = "redis" /\ u.path = "name" /\ u.host /\ ~u.extra
        BY URLParts
    <2> QED
        BY <2>1, Zenon DEF ValidRedisURL, IsURL
<1>4. Parsed("OBJECT_STORAGE_ENDPOINT") /\
            Value("OBJECT_STORAGE_ENDPOINT") = URL("http", "", TRUE) => ValidEndpoint
    <2>1. LET u == URL("http", "", TRUE)
          IN  u.scheme = "http" /\ u.path = "" /\ u.host /\ ~u.extra
        BY URLParts
    <2> QED
        BY <2>1, Zenon DEF ValidEndpoint, IsURL
<1> QED
    BY <1>1, <1>2, <1>3, <1>4, Zenon

\* An integer that is not set passes its check on its default.
LEMMA IntegerDefaults ==
    ASSUME NEW v \in {"HTTP_SHUTDOWN_TIMEOUT_SECONDS", "READINESS_TIMEOUT_SECONDS",
                      "DATABASE_MAX_CONNECTIONS", "DATABASE_MIN_CONNECTIONS",
                      "OUTBOX_POLL_MILLISECONDS", "OUTBOX_LEASE_SECONDS", "OUTBOX_BATCH_SIZE",
                      "OUTBOX_MAX_ATTEMPTS", "OUTBOX_BASE_BACKOFF_SECONDS",
                      "OUTBOX_MAX_BACKOFF_SECONDS"},
           env[v] = Unset,
           v = "DATABASE_MIN_CONNECTIONS" => Value("DATABASE_MAX_CONNECTIONS") \in 1..100,
           v = "OUTBOX_MAX_BACKOFF_SECONDS" => Value("OUTBOX_BASE_BACKOFF_SECONDS") \in 1..300
    PROVE  Accepts(v)
<1>1. Accepts(v) <=> Value(v) \in IntegerRange(v)
    BY DEF Accepts
<1>2. Value(v) = Default(v)
    BY DEF Value
<1>3. CASE v = "HTTP_SHUTDOWN_TIMEOUT_SECONDS"
    <2>1. Default(v) \in IntegerRange(v)
        BY <1>3 DEF Default, IntegerRange
    <2> QED
        BY <1>1, <1>2, <2>1, Zenon
<1>4. CASE v = "READINESS_TIMEOUT_SECONDS"
    <2>1. Default(v) \in IntegerRange(v)
        BY <1>4 DEF Default, IntegerRange
    <2> QED
        BY <1>1, <1>2, <2>1, Zenon
<1>5. CASE v = "DATABASE_MAX_CONNECTIONS"
    <2>1. Default(v) \in IntegerRange(v)
        BY <1>5 DEF Default, IntegerRange
    <2> QED
        BY <1>1, <1>2, <2>1, Zenon
<1>6. CASE v = "OUTBOX_POLL_MILLISECONDS"
    <2>1. Default(v) \in IntegerRange(v)
        BY <1>6 DEF Default, IntegerRange
    <2> QED
        BY <1>1, <1>2, <2>1, Zenon
<1>7. CASE v = "OUTBOX_LEASE_SECONDS"
    <2>1. Default(v) \in IntegerRange(v)
        BY <1>7 DEF Default, IntegerRange
    <2> QED
        BY <1>1, <1>2, <2>1, Zenon
<1>8. CASE v = "OUTBOX_BATCH_SIZE"
    <2>1. Default(v) \in IntegerRange(v)
        BY <1>8 DEF Default, IntegerRange
    <2> QED
        BY <1>1, <1>2, <2>1, Zenon
<1>9. CASE v = "OUTBOX_MAX_ATTEMPTS"
    <2>1. Default(v) \in IntegerRange(v)
        BY <1>9 DEF Default, IntegerRange
    <2> QED
        BY <1>1, <1>2, <2>1, Zenon
<1>10. CASE v = "OUTBOX_BASE_BACKOFF_SECONDS"
    <2>1. Default(v) \in IntegerRange(v)
        BY <1>10 DEF Default, IntegerRange
    <2> QED
        BY <1>1, <1>2, <2>1, Zenon
<1>11. CASE v = "DATABASE_MIN_CONNECTIONS"
    <2>1. Default(v) = 1
        BY <1>11 DEF Default, DefaultMinConnections
    <2>2. IntegerRange(v) = 0..Value("DATABASE_MAX_CONNECTIONS")
        BY <1>11 DEF IntegerRange
    <2>3. 1 \in IntegerRange(v)
        <3>1. PICK m : m = Value("DATABASE_MAX_CONNECTIONS")
            OBVIOUS
        <3>2. m \in 1..100 /\ IntegerRange(v) = 0..m
            BY <1>11, <2>2, <3>1, Zenon
        <3> QED
            BY <3>2
    <2> QED
        BY <1>1, <1>2, <2>1, <2>3, Zenon
<1>12. CASE v = "OUTBOX_MAX_BACKOFF_SECONDS"
    <2>1. Default(v) = 300
        BY <1>12 DEF Default
    <2>2. ShortestMaxBackoff \in 1..300
        BY <1>12, Zenon DEF ShortestMaxBackoff
    <2>3. Default(v) \in IntegerRange(v)
        <3> DEFINE R == ShortestMaxBackoff..86400
        <3>1. IntegerRange(v) = R
            BY <1>12 DEF IntegerRange
        <3>2. 300 \in R
            BY <2>2
        <3> HIDE DEF R
        <3> QED
            BY <2>1, <3>1, <3>2, Zenon
    <2> QED
        BY <1>1, <1>2, <2>3, Zenon
<1> QED
    BY <1>3, <1>4, <1>5, <1>6, <1>7, <1>8, <1>9, <1>10, <1>11, <1>12

\* A variable that is not set passes its check on its default, unless it is
\* the longest backoff and the shortest one is longer than its default.
LEMMA DefaultsAccepted ==
    ASSUME NEW v \in Names, env[v] = Unset,
           v = "DATABASE_MIN_CONNECTIONS" => Value("DATABASE_MAX_CONNECTIONS") \in 1..100,
           v = "OUTBOX_MAX_BACKOFF_SECONDS" => Value("OUTBOX_BASE_BACKOFF_SECONDS") \in 1..300
    PROVE  Accepts(v)
<1>1. Value(v) = Default(v) /\ Parsed(v)
    BY MarksAssumption DEF Value, Parsed
<1>2. v \in {"ENVIRONMENT", "LOG_LEVEL", "HTTP_ADDRESS", "HTTP_SHUTDOWN_TIMEOUT_SECONDS",
             "READINESS_TIMEOUT_SECONDS", "DATABASE_URL", "DATABASE_MAX_CONNECTIONS",
             "DATABASE_MIN_CONNECTIONS", "NATS_URL", "OUTBOX_POLL_MILLISECONDS",
             "OUTBOX_LEASE_SECONDS", "OUTBOX_BATCH_SIZE", "OUTBOX_MAX_ATTEMPTS",
             "OUTBOX_BASE_BACKOFF_SECONDS", "OUTBOX_MAX_BACKOFF_SECONDS", "REDIS_URL",
             "REDIS_KEY_PREFIX", "OBJECT_STORAGE_ENDPOINT", "OBJECT_STORAGE_BUCKET",
             "OBJECT_STORAGE_ACCESS_KEY", "OBJECT_STORAGE_SECRET_KEY"}
    BY DEF Names, Variables
<1>3. CASE v = "ENVIRONMENT"
    <2>1. Default(v) = "local"
        BY <1>3 DEF Default
    <2> QED
        BY <1>1, <1>3, <2>1, AcceptsText
<1>4. CASE v = "LOG_LEVEL"
    BY <1>1, <1>4, AcceptsText
<1>5. CASE v = "HTTP_ADDRESS"
    BY <1>1, <1>5, DefaultPort, AcceptsText, Zenon DEF ValidAddress
<1>6. CASE v = "DATABASE_URL"
    <2>1. Default(v) = URL("postgres", "name", TRUE)
        BY <1>6 DEF Default
    <2> QED
        BY <1>1, <1>6, <2>1, URLDefaults, AcceptsText, Zenon
<1>7. CASE v = "NATS_URL"
    <2>1. Default(v) = URL("nats", "", TRUE)
        BY <1>7 DEF Default
    <2> QED
        BY <1>1, <1>7, <2>1, URLDefaults, AcceptsText, Zenon
<1>8. CASE v = "REDIS_URL"
    <2>1. Default(v) = URL("redis", "name", TRUE)
        BY <1>8 DEF Default
    <2> QED
        BY <1>1, <1>8, <2>1, URLDefaults, AcceptsText, Zenon
<1>9. CASE v = "REDIS_KEY_PREFIX"
    <2>1. Default(v) = Prefix(8, "letter", "word")
        BY <1>9 DEF Default
    <2>2. ValidPrefix
        BY <1>1, <1>9, <2>1 DEF ValidPrefix, Prefix
    <2> QED
        BY <1>9, <2>2, AcceptsText
<1>10. CASE v = "OBJECT_STORAGE_ENDPOINT"
    <2>1. Default(v) = URL("http", "", TRUE)
        BY <1>10 DEF Default
    <2> QED
        BY <1>1, <1>10, <2>1, URLDefaults, AcceptsText, Zenon
<1>11. CASE v = "OBJECT_STORAGE_BUCKET"
    <2>1. Default(v) = Bucket(14, "valid", <<>>)
        BY <1>11 DEF Default
    <2>2. ValidBucketName
        BY <1>1, <1>11, <2>1 DEF ValidBucketName, Bucket, IsIP
    <2> QED
        BY <1>11, <2>2, AcceptsText
<1>12. CASE v \in {"OBJECT_STORAGE_ACCESS_KEY", "OBJECT_STORAGE_SECRET_KEY"}
    BY <1>1, <1>12, AcceptsText DEF Parsed
<1>13. CASE v \in {"HTTP_SHUTDOWN_TIMEOUT_SECONDS", "READINESS_TIMEOUT_SECONDS",
                  "DATABASE_MAX_CONNECTIONS", "DATABASE_MIN_CONNECTIONS",
                  "OUTBOX_POLL_MILLISECONDS", "OUTBOX_LEASE_SECONDS", "OUTBOX_BATCH_SIZE",
                  "OUTBOX_MAX_ATTEMPTS", "OUTBOX_BASE_BACKOFF_SECONDS",
                  "OUTBOX_MAX_BACKOFF_SECONDS"}
    BY <1>13, IntegerDefaults
<1> QED
    BY <1>2, <1>3, <1>4, <1>5, <1>6, <1>7, <1>8, <1>9, <1>10, <1>11, <1>12, <1>13

-----------------------------------------------------------------------------
\* Every step keeps AcceptedSoFar.
LEMMA AcceptedSoFarStep == AcceptedSoFar /\ [Next]_vars => AcceptedSoFar'
<1> SUFFICES ASSUME AcceptedSoFar, [Next]_vars PROVE AcceptedSoFar'
    OBVIOUS
<1>0. step \in 1..29
    BY Lengths DEF AcceptedSoFar
<1>1. UNCHANGED env
    BY DEF Next, ReadVariable, BuildComponent, Go, Refuse, vars
<1>2. \A v : Accepts(v)' <=> Accepts(v)
    BY <1>1, AcceptsKept
<1>3. ASSUME Loading, blamed = Nobody, Accepts(Variable), Go PROVE AcceptedSoFar'
    <2>1. step \in 1..21 /\ step' = step + 1 /\ blamed' = Nobody
        BY <1>0, <1>3, Lengths DEF Loading, Go
    <2>2. \A i \in 1..Len(Variables) : i < step' => Accepts(Variables[i])
        BY <1>3, <2>1, Lengths DEF AcceptedSoFar, Variable
    <2> QED
        BY <1>2, <2>1, <2>2, Lengths, MarksAssumption DEF AcceptedSoFar
<1>4. ASSUME Loading, ~Accepts(Variable), Refuse(Variable) PROVE AcceptedSoFar'
    <2>1. step' = step /\ blamed' = Variable /\ Loading' /\ Variable' = Variable
        BY <1>4 DEF Refuse, Loading, Variable
    <2>2. ~Accepts(Variable')
        BY <1>4, <2>1
    <2>3. ~Accepts(blamed)'
        BY <1>1, <1>4, <2>1, <1>2
    <2> QED
        BY <1>2, <2>1, <2>3 DEF AcceptedSoFar
<1>5. ASSUME ~Loading, ~Running, blamed = Nobody, Go PROVE AcceptedSoFar'
    <2>1. step \in 22..28 /\ step' = step + 1 /\ blamed' = Nobody
        BY <1>0, <1>5, Lengths DEF Loading, Running, Go
    <2> QED
        BY <1>2, <2>1, Lengths, MarksAssumption DEF AcceptedSoFar
<1>6. ASSUME Refuse(Unnamed) PROVE AcceptedSoFar'
    BY <1>2, <1>6, MarksAssumption DEF AcceptedSoFar, Refuse
<1>7. CASE UNCHANGED vars
    <2>1. UNCHANGED <<env, step, blamed>>
        BY <1>7 DEF vars
    <2>2. Accepts(blamed)' <=> Accepts(blamed)
        BY <1>2, <2>1
    <2> QED
        BY <1>2, <2>1, <2>2 DEF AcceptedSoFar, Loading, Variable
<1> QED
    BY <1>3, <1>4, <1>5, <1>6, <1>7 DEF Next, ReadVariable, BuildComponent

\* Nothing has been read yet.
LEMMA AcceptedSoFarInit == Begin => AcceptedSoFar
BY Lengths, MarksAssumption DEF Begin, AcceptedSoFar

\* The environments the runs enumerate are some of those the theorems are about.
LEMMA SpecIsAny == Spec => AnySpec
BY DEF Spec, AnySpec, Init

\* Whatever Load has read so far it has accepted.
THEOREM AcceptedSoFarInvariant == AnySpec => []AcceptedSoFar
BY AcceptedSoFarInit, AcceptedSoFarStep, PTL DEF AnySpec

\* Load and the constructors of main agree on every environment: after Load
\* only a driver's own parser can refuse.
THEOREM OnlyDriversRefuseAlways == AnySpec => []OnlyDriversRefuse
<1>1. AcceptedSoFar => OnlyDriversRefuse
    <2> SUFFICES ASSUME AcceptedSoFar, ~Loading, ~Running PROVE Agrees(Component)
        BY DEF OnlyDriversRefuse
    <2>1. step \in 22..28
        BY Lengths DEF AcceptedSoFar, Loading, Running
    <2>2. \A i \in 1..Len(Variables) : Accepts(Variables[i])
        BY <2>1, Lengths DEF AcceptedSoFar
    <2>3. step - Len(Variables) \in 1..Len(Components)
        BY <2>1, Lengths
    <2> QED
        BY <2>2, <2>3, ConstructorsAgree DEF Component
<1> QED
    BY <1>1, AcceptedSoFarInvariant, PTL

\* A default is one its driver can parse.
LEMMA DriverDefaults ==
    /\ Default("DATABASE_URL").driver /\ Default("REDIS_URL").driver
    /\ Len(Default("OBJECT_STORAGE_BUCKET").numbers) # 4
<1>1. Default("DATABASE_URL").driver /\ Default("REDIS_URL").driver
    BY DEF Default, URL
<1>2. Default("OBJECT_STORAGE_BUCKET") = Bucket(14, "valid", <<>>)
    BY DEF Default
<1>3. Len(Bucket(14, "valid", <<>>).numbers) = 0
    BY DEF Bucket
<1> QED
    BY <1>1, <1>2, <1>3

\* A driver refuses only a value that is set.
LEMMA DriversDeserve ==
    ASSUME NEW c, ~DriverAgrees(c)
    PROVE  \E v \in DriverVariables : env[v] # Unset
<1>1. c \in {"database", "redis", "objects"}
    BY DEF DriverAgrees
<1>2. CASE c = "database"
    <2>1. ~Value("DATABASE_URL").driver
        BY <1>2 DEF DriverAgrees
    <2> QED
        BY <2>1, DriverDefaults, Zenon DEF Value, DriverVariables
<1>3. CASE c = "redis"
    <2>1. ~Value("REDIS_URL").driver
        BY <1>3 DEF DriverAgrees
    <2> QED
        BY <2>1, DriverDefaults, Zenon DEF Value, DriverVariables
<1>4. CASE c = "objects"
    <2>1. Len(Value("OBJECT_STORAGE_BUCKET").numbers) = 4
        BY <1>4 DEF DriverAgrees
    <2> QED
        BY <2>1, DriverDefaults, Zenon DEF Value, DriverVariables
<1> QED
    BY <1>1, <1>2, <1>3, <1>4

\* What is accepted as the shortest backoff is below the longest one's default
\* or beyond it.
LEMMA Beyond ==
    ASSUME NEW s \in 1..3600, ~(s \in 1..300), NEW l, l = 300
    PROVE  s > l
OBVIOUS

\* Load refuses a variable that is not set in one case only.
LEMMA LoadDeserves ==
    ASSUME AcceptedSoFar, blamed \in Names, env[blamed] = Unset
    PROVE  /\ blamed = "OUTBOX_MAX_BACKOFF_SECONDS"
           /\ Value("OUTBOX_BASE_BACKOFF_SECONDS") > Default("OUTBOX_MAX_BACKOFF_SECONDS")
<1> DEFINE Shortest == Value("OUTBOX_BASE_BACKOFF_SECONDS")
           Longest == Default("OUTBOX_MAX_BACKOFF_SECONDS")
<1> SUFFICES blamed = "OUTBOX_MAX_BACKOFF_SECONDS" /\ Shortest > Longest
    OBVIOUS
<1>1. /\ step \in 1..21 /\ blamed = Variables[step] /\ ~Accepts(blamed)
      /\ \A i \in 1..21 : i < step => Accepts(Variables[i])
    BY Lengths DEF AcceptedSoFar, Loading, Variable
<1>2. ASSUME blamed = "DATABASE_MIN_CONNECTIONS"
      PROVE  Value("DATABASE_MAX_CONNECTIONS") \in 1..100
    <2>1. step = 8
        BY <1>1, <1>2 DEF Variables
    <2>2. Accepts("DATABASE_MAX_CONNECTIONS")
        BY <1>1, <2>1, Places
    <2> QED
        BY <2>2 DEF Accepts, IntegerRange
<1>3. blamed = "OUTBOX_MAX_BACKOFF_SECONDS" => Shortest \in 1..3600
    <2> SUFFICES ASSUME blamed = "OUTBOX_MAX_BACKOFF_SECONDS" PROVE Shortest \in 1..3600
        OBVIOUS
    <2>1. step = 15
        BY <1>1 DEF Variables
    <2>2. Accepts("OUTBOX_BASE_BACKOFF_SECONDS")
        BY <1>1, <2>1, Places
    <2> QED
        BY <2>2 DEF Accepts, IntegerRange
<1>4. blamed = "OUTBOX_MAX_BACKOFF_SECONDS" /\ ~(Shortest \in 1..300)
    BY <1>1, <1>2, DefaultsAccepted
<1>5. Longest = 300
    BY DEF Default
<1>6. Shortest \in 1..3600
    BY <1>3, <1>4
<1> HIDE DEF Shortest, Longest
<1>7. Shortest > Longest
    BY <1>4, <1>5, <1>6, Beyond
<1> QED
    BY <1>4, <1>7

\* No default is ever at fault, whatever other variables are set: neither in
\* Load nor in a driver.
THEOREM RefusalDeservedAlways == AnySpec => []RefusalDeserved
<1> DEFINE Drivers == blamed = Unnamed => \E v \in DriverVariables : env[v] # Unset
<1>1. Begin => Drivers
    BY MarksAssumption DEF Begin
<1>2. AcceptedSoFar /\ OnlyDriversRefuse /\ Drivers /\ [Next]_vars => Drivers'
    <2> SUFFICES ASSUME AcceptedSoFar, OnlyDriversRefuse, Drivers, [Next]_vars,
                        blamed' = Unnamed
                 PROVE  \E v \in DriverVariables : env'[v] # Unset
        OBVIOUS
    <2>1. UNCHANGED env
        BY DEF Next, ReadVariable, BuildComponent, Go, Refuse, vars
    <2>2. ASSUME blamed # Unnamed PROVE ~DriverAgrees(Component)
        <3>1. ~Loading /\ ~Running /\ ~(Agrees(Component) /\ DriverAgrees(Component))
            <4>1. ASSUME Loading, Refuse(Variable) PROVE FALSE
                <5>1. Variable \in Names
                    BY <4>1 DEF AcceptedSoFar, Loading, Variable, Names
                <5> QED
                    BY <4>1, <5>1, MarksAssumption DEF Refuse
            <4> QED
                BY <2>2, <4>1 DEF Next, ReadVariable, BuildComponent, Go, Refuse, vars
        <3> QED
            BY <3>1 DEF OnlyDriversRefuse
    <2> QED
        BY <2>1, <2>2, DriversDeserve
<1>3. AcceptedSoFar /\ Drivers => RefusalDeserved
    BY LoadDeserves DEF RefusalDeserved
<1> QED
    BY <1>1, <1>2, <1>3, AcceptedSoFarInvariant, OnlyDriversRefuseAlways, PTL DEF AnySpec
=============================================================================
