--------------------------- MODULE MCConfiguration ---------------------------
(* The values TLC sets variables to: both sides of every bound, and one     *)
(* value for every way a check can fail.                                    *)
EXTENDS Configuration, Integers

Ends(low, high) == {low - 1, low, high, high + 1}
NoHost(u) == [u EXCEPT !.host = FALSE]
Extra(u) == [u EXCEPT !.extra = TRUE]

Tried(v) ==
    CASE v = "ENVIRONMENT" -> {"sandbox", "production"}
      [] v = "LOG_LEVEL" -> {"debug", Malformed}
      [] v = "HTTP_ADDRESS" -> {[port |-> p] : p \in Ends(1, 65535)} \cup {Malformed}
      [] v = "DATABASE_URL" ->
            {URL("postgresql", "name", TRUE), URL("postgres", "name", FALSE),
             URL("postgres", "/", TRUE), URL("mysql", "name", TRUE),
             NoHost(URL("postgres", "name", TRUE)), Malformed}
      [] v = "NATS_URL" ->
            {URL("tls", "", TRUE), URL("http", "", TRUE), NoHost(URL("nats", "", TRUE)), Malformed}
      [] v = "REDIS_URL" ->
            {URL("rediss", "name", TRUE), URL("redis", "name", FALSE),
             URL("http", "", TRUE), NoHost(URL("redis", "", TRUE)), Malformed}
      [] v = "REDIS_KEY_PREFIX" ->
            {Prefix(n, "letter", "word") : n \in Ends(2, 63)} \cup
            {Prefix(5, "digit", "word"), Prefix(5, "letter", "colon"), Prefix(5, "colon", "word")}
      [] v = "OBJECT_STORAGE_ENDPOINT" ->
            {URL("https", "/", TRUE), URL("http", "name", TRUE), URL("ftp", "", TRUE),
             Extra(URL("http", "", TRUE)), NoHost(URL("http", "", TRUE)), Malformed}
      [] v = "OBJECT_STORAGE_BUCKET" ->
            {Bucket(n, "valid", <<>>) : n \in Ends(3, 63)} \cup
            {Bucket(9, "separators", <<>>), Bucket(9, "characters", <<>>),
             Bucket(8, "valid", <<10, 0, 0, 1>>), Bucket(9, "valid", <<256, 1, 1, 1>>),
             Bucket(5, "valid", <<1, 2, 3>>)}
      [] v \in {"OBJECT_STORAGE_ACCESS_KEY", "OBJECT_STORAGE_SECRET_KEY"} -> {"key"}
      [] v = "DATABASE_MIN_CONNECTIONS" -> {-1, 0, 1, 2, 10, 11, 100, Malformed}
      [] v = "DATABASE_MAX_CONNECTIONS" -> Ends(1, 100) \cup {2, Malformed}
      [] v = "OUTBOX_POLL_MILLISECONDS" -> Ends(10, 60000) \cup {Malformed}
      [] v = "OUTBOX_LEASE_SECONDS" -> Ends(1, 3600) \cup {Malformed}
      [] v = "OUTBOX_BATCH_SIZE" -> Ends(1, 1000) \cup {Malformed}
      [] v = "OUTBOX_MAX_ATTEMPTS" -> Ends(1, 100) \cup {Malformed}
      [] v = "OUTBOX_BASE_BACKOFF_SECONDS" -> Ends(1, 3600) \cup {300, 301, Malformed}
      [] v = "OUTBOX_MAX_BACKOFF_SECONDS" -> Ends(1, 86400) \cup {2, 3600, Malformed}
      [] OTHER -> Ends(1, 60) \cup {Malformed}

MCChoices == [v \in Names |-> Tried(v) \cup {Empty}]
=============================================================================
