---------------------------- MODULE EphemeralStore ----------------------------
(***************************************************************************)
(* The Redis adapter: clients with different key prefixes share one Redis, *)
(* and each is to see an expiring key-value map of its own.                *)
(*                                                                         *)
(* Prefixes and keys are sequences of characters, because isolation rests  *)
(* on how the two are put together.  Get changes nothing and is an         *)
(* operator; what a caller is told of a failed call is left out, since the *)
(* call either took effect or did not.                                     *)
(***************************************************************************)
EXTENDS Integers, Sequences

CONSTANTS
    Characters,    \* what prefixes and keys are made of
    Prefixes,      \* values of Config.KeyPrefix offered to New
    Keys,          \* keys callers pass, acceptable or not
    Values,
    Expiries,      \* durations callers pass, in ticks, acceptable or not
    MaxKeyLength,  \* longest acceptable key
    MaxPuts,       \* bound: writes considered
    Absent,        \* no entry
    Forever        \* an entry without expiry

ASSUME EphemeralAssumption ==
    /\ ":" \in Characters
    /\ Prefixes \subseteq Seq(Characters)
    /\ Keys \subseteq Seq(Characters)
    /\ Expiries \subseteq Int
    /\ MaxKeyLength \in Nat \ {0}
    /\ MaxPuts \in Nat

VARIABLES
    client,   \* what became of the client of each prefix
    entries,  \* what Redis holds, by qualified key
    own,      \* history: the map each client's own calls amount to
    puts      \* writes so far

vars == <<client, entries, own, puts>>

HasSpace(s) == s[1] = " " \/ s[Len(s)] = " "

\* Mutant of ValidPrefix: colons are allowed.
ValidPrefixWithColon(prefix) == prefix # <<>> /\ ~HasSpace(prefix)

\* New: not empty, nothing to trim, no colon.
ValidPrefix(prefix) ==
    /\ prefix # <<>>
    /\ ~HasSpace(prefix)
    /\ \A i \in 1..Len(prefix) : prefix[i] # ":"

ValidKey(key) == key # <<>> /\ ~HasSpace(key) /\ Len(key) <= MaxKeyLength

\* Mutant of ValidExpiry: zero is allowed.
ValidExpiryOrZero(expiry) == expiry >= 0

ValidExpiry(expiry) == expiry > 0

QualifiedKey(prefix, key) == prefix \o <<":">> \o key

Names == {QualifiedKey(prefix, key) : prefix \in Prefixes, key \in Keys}

Init ==
    /\ client = [p \in Prefixes |-> IF ValidPrefix(p) THEN "down" ELSE "rejected"]
    /\ entries = [n \in Names |-> Absent]
    /\ own = [call \in Prefixes \X Keys |-> Absent]
    /\ puts = 0

Start(p) ==
    /\ client[p] = "down"
    /\ client' = [client EXCEPT ![p] = "up"]
    /\ UNCHANGED <<entries, own, puts>>

Close(p) ==
    /\ client[p] = "up"
    /\ client' = [client EXCEPT ![p] = "down"]
    /\ UNCHANGED <<entries, own, puts>>

\* Redis: SET with the expiry the driver sends for a duration.  One that is
\* not positive means none, but for redis.KeepTTL, which keeps the one the
\* entry has.
KeepTTL == -1

Set(old, value, expiry) ==
    [value |-> value,
     ttl |-> IF expiry > 0 THEN expiry
             ELSE IF expiry = KeepTTL /\ old # Absent THEN old.ttl ELSE Forever]

Put(p, k, v, x) ==
    /\ client[p] = "up" /\ puts < MaxPuts
    /\ ValidExpiry(x)
    /\ ValidKey(k)
    /\ LET n == QualifiedKey(p, k)
       IN  /\ entries' = [entries EXCEPT ![n] = Set(@, v, x)]
           /\ own' = [own EXCEPT ![<<p, k>>] = Set(@, v, x)]
    /\ puts' = puts + 1
    /\ UNCHANGED client

Delete(p, k) ==
    /\ client[p] = "up"
    /\ ValidKey(k)
    /\ entries' = [entries EXCEPT ![QualifiedKey(p, k)] = Absent]
    /\ own' = [own EXCEPT ![<<p, k>>] = Absent]
    /\ UNCHANGED <<client, puts>>

\* The value Get returns, or Absent for ErrNotFound.
Get(p, k) ==
    LET entry == entries[QualifiedKey(p, k)]
    IN  IF entry = Absent THEN Absent ELSE entry.value

Aged(entry) ==
    IF entry = Absent \/ entry.ttl = Forever THEN entry
    ELSE IF entry.ttl = 1 THEN Absent
    ELSE [entry EXCEPT !.ttl = @ - 1]

Tick ==
    /\ entries' = [n \in Names |-> Aged(entries[n])]
    /\ own' = [call \in Prefixes \X Keys |-> Aged(own[call])]
    /\ UNCHANGED <<client, puts>>

Next ==
    \/ \E p \in Prefixes : Start(p) \/ Close(p)
    \/ \E p \in Prefixes, k \in Keys :
        \/ Delete(p, k)
        \/ \E v \in Values, x \in Expiries : Put(p, k, v, x)
    \/ Tick

SafetySpec == Init /\ [][Next]_vars
Spec == SafetySpec /\ WF_vars(Tick)

-----------------------------------------------------------------------------
(***************************************************************************)
(* Properties.                                                             *)
(***************************************************************************)

\* Every variable keeps its type; entries carry one of the durations that
\* callers passed, or what is left of it.
TypeOK ==
    /\ client \in [Prefixes -> {"rejected", "down", "up"}]
    /\ \A n \in Names : entries[n] # Absent =>
        /\ entries[n].value \in Values
        /\ \E x \in Expiries : entries[n].ttl \in 1..x
    /\ puts \in 0..MaxPuts

\* Isolation: Get of a client returns what that client itself stored under
\* the very same key and has neither deleted nor let expire, whatever the
\* clients of other prefixes do.
PrivateView ==
    \A p \in Prefixes, k \in Keys :
        client[p] # "rejected" /\ ValidKey(k) =>
            Get(p, k) = IF own[<<p, k>>] = Absent THEN Absent ELSE own[<<p, k>>].value

\* What Redis holds under a client's keys is what the client put there, its
\* remaining lifetime included: the inductive invariant behind PrivateView.
Entry == [value : Values, ttl : Nat \ {0}]
Mirrored ==
    /\ TypeOK
    /\ entries \in [Names -> Entry \cup {Absent}]
    /\ own \in [Prefixes \X Keys -> Entry \cup {Absent}]
    /\ \A p \in Prefixes : client[p] # "rejected" =>
        /\ ValidPrefix(p)
        /\ \A k \in Keys : entries[QualifiedKey(p, k)] = own[<<p, k>>]

\* "A positive expiry is mandatory so Redis cannot accidentally become
\* authoritative state": whatever is stored is gone in the end, once it is no
\* longer written (MaxPuts ends the writing).
EverythingExpires ==
    \A n \in Names : entries[n] # Absent ~> entries[n] = Absent
=============================================================================
