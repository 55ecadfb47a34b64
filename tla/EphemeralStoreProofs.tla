------------------------- MODULE EphemeralStoreProofs -------------------------
(***************************************************************************)
(* Proofs about EphemeralStore, for any prefixes, keys, values, durations  *)
(* and number of writes.  Isolation rests on one fact about strings: as    *)
(* long as no prefix holds a colon, a qualified key has one reading.       *)
(***************************************************************************)
EXTENDS EphemeralStore, SequenceTheorems, TLAPS

USE EphemeralAssumption

\* The characters of a qualified key.
LEMMA QualifiedKeyChars ==
    ASSUME NEW p \in Seq(Characters), NEW k \in Seq(Characters)
    PROVE  /\ Len(QualifiedKey(p, k)) = Len(p) + 1 + Len(k)
           /\ \A i \in 1..Len(p) : QualifiedKey(p, k)[i] = p[i]
           /\ QualifiedKey(p, k)[Len(p) + 1] = ":"
           /\ \A i \in 1..Len(k) : QualifiedKey(p, k)[Len(p) + 1 + i] = k[i]
<1> DEFINE c == <<":">>
           pc == p \o c
<1>1. c \in Seq(Characters) /\ Len(c) = 1 /\ c[1] = ":"
    <2>1. \A x \in Characters : <<x>> \in Seq(Characters)
        OBVIOUS
    <2>2. \A x : Len(<<x>>) = 1 /\ <<x>>[1] = x
        OBVIOUS
    <2> QED
        BY <2>1, <2>2
<1> HIDE DEF c
<1>2. Len(p) \in Nat /\ Len(k) \in Nat
    BY LenProperties
<1>3. /\ pc \in Seq(Characters)
      /\ Len(pc) = Len(p) + 1
      /\ \A i \in 1..(Len(p) + 1) : pc[i] = IF i <= Len(p) THEN p[i] ELSE c[i - Len(p)]
    BY <1>1, ConcatProperties
<1> HIDE DEF pc
<1>4. /\ Len(pc \o k) = Len(p) + 1 + Len(k)
      /\ \A i \in 1..(Len(p) + 1 + Len(k)) :
            (pc \o k)[i] = IF i <= Len(p) + 1 THEN pc[i] ELSE k[i - (Len(p) + 1)]
    <2>1. /\ Len(pc \o k) = Len(pc) + Len(k)
          /\ \A i \in 1..(Len(pc) + Len(k)) :
                (pc \o k)[i] = IF i <= Len(pc) THEN pc[i] ELSE k[i - Len(pc)]
        BY <1>3, ConcatProperties
    <2> QED
        BY <1>3, <2>1
<1>5. QualifiedKey(p, k) = pc \o k
    BY DEF QualifiedKey, pc, c
<1>6. \A i \in 1..Len(p) : (pc \o k)[i] = p[i]
    BY <1>2, <1>3, <1>4
<1>7. (pc \o k)[Len(p) + 1] = ":"
    BY <1>1, <1>2, <1>3, <1>4
<1>8. \A i \in 1..Len(k) : (pc \o k)[Len(p) + 1 + i] = k[i]
    BY <1>2, <1>4
<1> QED
    BY <1>4, <1>5, <1>6, <1>7, <1>8

\* The first colon ends the prefix: of two prefixes without a colon whose
\* qualified keys are equal neither is the shorter one.
LEMMA NotShorter ==
    ASSUME NEW p \in Seq(Characters), NEW q \in Seq(Characters),
           NEW k \in Seq(Characters), NEW l \in Seq(Characters),
           ValidPrefix(q), QualifiedKey(p, k) = QualifiedKey(q, l)
    PROVE  Len(q) <= Len(p)
<1>1. Len(p) \in Nat /\ Len(q) \in Nat
    BY LenProperties
<1>2. SUFFICES ASSUME Len(p) < Len(q) PROVE FALSE
    BY <1>1
<1>3. Len(p) + 1 \in 1..Len(q)
    BY <1>1, <1>2
<1>4. q[Len(p) + 1] # ":"
    BY <1>3 DEF ValidPrefix
<1>5. QualifiedKey(p, k)[Len(p) + 1] = ":"
    BY QualifiedKeyChars
<1>6. QualifiedKey(q, l)[Len(p) + 1] = q[Len(p) + 1]
    BY <1>3, QualifiedKeyChars
<1> QED
    BY <1>4, <1>5, <1>6

\* Clients that New accepted never share a qualified key.
THEOREM QualifiedKeyInjective ==
    ASSUME NEW p \in Seq(Characters), NEW q \in Seq(Characters),
           NEW k \in Seq(Characters), NEW l \in Seq(Characters),
           ValidPrefix(p), ValidPrefix(q),
           QualifiedKey(p, k) = QualifiedKey(q, l)
    PROVE  p = q /\ k = l
<1>1. /\ Len(p) \in Nat /\ Len(q) \in Nat /\ Len(k) \in Nat /\ Len(l) \in Nat
      /\ Len(p) = Len(q)
    BY NotShorter, LenProperties
<1>2. p = q
    <2>1. /\ \A i \in 1..Len(p) : QualifiedKey(p, k)[i] = p[i]
          /\ \A i \in 1..Len(q) : QualifiedKey(q, l)[i] = q[i]
        BY QualifiedKeyChars
    <2> QED
        BY <1>1, <2>1, SeqEqual
<1>3. Len(k) = Len(l)
    <2>1. /\ Len(QualifiedKey(p, k)) = Len(p) + 1 + Len(k)
          /\ Len(QualifiedKey(q, l)) = Len(q) + 1 + Len(l)
        BY QualifiedKeyChars
    <2> QED
        BY <1>1, <2>1
<1>4. k = l
    <2>1. \A i \in 1..Len(k) : k[i] = l[i]
        <3>1. ASSUME NEW i \in 1..Len(k) PROVE k[i] = l[i]
            <4>1. QualifiedKey(p, k)[Len(p) + 1 + i] = k[i]
                BY QualifiedKeyChars
            <4>2. QualifiedKey(q, l)[Len(q) + 1 + i] = l[i]
                <5>1. i \in 1..Len(l)
                    BY <1>3
                <5> QED
                    BY <5>1, QualifiedKeyChars
            <4> QED
                BY <1>1, <4>1, <4>2
        <3> QED
            BY <3>1
    <2> QED
        BY <1>3, <2>1, SeqEqual
<1> QED
    BY <1>2, <1>4

-----------------------------------------------------------------------------
\* What is stored with a positive expiry is an entry that expires.
LEMMA SetEntry ==
    ASSUME NEW old, NEW v \in Values, NEW x \in Expiries, ValidExpiry(x)
    PROVE  Set(old, v, x) = [value |-> v, ttl |-> x] /\ Set(old, v, x) \in Entry
BY DEF Set, ValidExpiry, Entry

\* An entry ages into an entry with less to live, or into nothing.
LEMMA AgedEntry ==
    ASSUME NEW entry \in Entry \cup {Absent}
    PROVE  /\ Aged(entry) \in Entry \cup {Absent}
           /\ Aged(entry) # Absent =>
                entry # Absent /\ Aged(entry).value = entry.value /\ Aged(entry).ttl <= entry.ttl
<1>1. CASE entry = Absent
    BY <1>1 DEF Aged
<1>2. CASE entry # Absent
    <2>1. entry \in Entry /\ entry.ttl \in Nat \ {0} /\ entry.value \in Values
        BY <1>2 DEF Entry
    <2>2. CASE entry.ttl = Forever
        BY <1>2, <2>1, <2>2 DEF Aged
    <2>3. CASE entry.ttl # Forever /\ entry.ttl = 1
        BY <1>2, <2>1, <2>3 DEF Aged
    <2>4. CASE entry.ttl # Forever /\ entry.ttl # 1
        <3>1. Aged(entry) = [entry EXCEPT !.ttl = entry.ttl - 1]
            BY <1>2, <2>4 DEF Aged
        <3>2. entry.ttl - 1 \in Nat \ {0} /\ entry.ttl - 1 <= entry.ttl
            BY <2>1, <2>4
        <3>3. [entry EXCEPT !.ttl = entry.ttl - 1] = [value |-> entry.value, ttl |-> entry.ttl - 1]
            BY <2>1 DEF Entry
        <3> QED
            BY <1>2, <2>1, <3>1, <3>2, <3>3 DEF Entry
    <2> QED
        BY <2>2, <2>3, <2>4
<1> QED
    BY <1>1, <1>2

\* A qualified key is one of Redis's names.
LEMMA QualifiedKeyName ==
    ASSUME NEW p \in Prefixes, NEW k \in Keys
    PROVE  QualifiedKey(p, k) \in Names /\ <<p, k>> \in Prefixes \X Keys
BY DEF Names

\* Starting and closing clients keeps the mirror.
LEMMA ClientStep ==
    ASSUME Mirrored, NEW p \in Prefixes, Start(p) \/ Close(p)
    PROVE  Mirrored'
<1>1. client \in [Prefixes -> {"rejected", "down", "up"}]
    BY DEF Mirrored, TypeOK
<1>2. /\ client' \in [Prefixes -> {"rejected", "down", "up"}]
      /\ \A q \in Prefixes : client'[q] # "rejected" => client[q] # "rejected"
      /\ UNCHANGED <<entries, own, puts>>
    BY <1>1 DEF Start, Close
<1>3. TypeOK'
    BY <1>2 DEF Mirrored, TypeOK
<1> QED
    BY <1>2, <1>3 DEF Mirrored

\* A write of one client under one of its keys keeps the mirror: no other
\* client's key has the same qualified key.
LEMMA WriteStep ==
    ASSUME Mirrored, NEW p \in Prefixes, NEW k \in Keys, client[p] = "up",
           NEW e \in Entry \cup {Absent},
           entries' = [entries EXCEPT ![QualifiedKey(p, k)] = e],
           own' = [own EXCEPT ![<<p, k>>] = e],
           UNCHANGED client
    PROVE  /\ entries' \in [Names -> Entry \cup {Absent}]
           /\ own' \in [Prefixes \X Keys -> Entry \cup {Absent}]
           /\ \A q \in Prefixes : client'[q] # "rejected" =>
                /\ ValidPrefix(q)
                /\ \A l \in Keys : entries'[QualifiedKey(q, l)] = own'[<<q, l>>]
<1>1. /\ entries \in [Names -> Entry \cup {Absent}]
      /\ own \in [Prefixes \X Keys -> Entry \cup {Absent}]
    BY DEF Mirrored
<1>2. /\ entries' \in [Names -> Entry \cup {Absent}]
      /\ own' \in [Prefixes \X Keys -> Entry \cup {Absent}]
    BY <1>1
<1>3. ASSUME NEW q \in Prefixes, client'[q] # "rejected" PROVE ValidPrefix(q)
    BY <1>3 DEF Mirrored
<1>4. ASSUME NEW q \in Prefixes, client'[q] # "rejected", NEW l \in Keys
      PROVE  entries'[QualifiedKey(q, l)] = own'[<<q, l>>]
    <2>1. entries[QualifiedKey(q, l)] = own[<<q, l>>] /\ ValidPrefix(q) /\ ValidPrefix(p)
        BY <1>4 DEF Mirrored
    <2>2. CASE q = p /\ l = k
        BY <1>1, <2>2, QualifiedKeyName
    <2>3. CASE ~(q = p /\ l = k)
        <3>1. QualifiedKey(q, l) # QualifiedKey(p, k)
            BY <2>1, <2>3, QualifiedKeyInjective
        <3>2. <<q, l>> # <<p, k>>
            BY <2>3
        <3> QED
            BY <1>1, <2>1, <3>1, <3>2, QualifiedKeyName
    <2> QED
        BY <2>2, <2>3
<1> QED
    BY <1>2, <1>3, <1>4

\* Put keeps the mirror.
LEMMA PutStep ==
    ASSUME Mirrored, NEW p \in Prefixes, NEW k \in Keys, NEW v \in Values, NEW x \in Expiries,
           Put(p, k, v, x)
    PROVE  Mirrored'
<1> DEFINE e == [value |-> v, ttl |-> x]
<1>1. e \in Entry /\ x \in Int /\ x > 0
    BY SetEntry DEF Put, ValidExpiry
<1>2. /\ entries' = [entries EXCEPT ![QualifiedKey(p, k)] = e]
      /\ own' = [own EXCEPT ![<<p, k>>] = e]
      /\ client[p] = "up" /\ UNCHANGED client
      /\ puts < MaxPuts /\ puts' = puts + 1
    BY SetEntry DEF Put
<1>3. e.value \in Values /\ e.ttl \in 1..x
    BY <1>1
<1> HIDE DEF e
<1>4. /\ entries \in [Names -> Entry \cup {Absent}]
      /\ client \in [Prefixes -> {"rejected", "down", "up"}] /\ puts \in 0..MaxPuts
    BY DEF Mirrored, TypeOK
<1>5. TypeOK'
    <2>1. ASSUME NEW n \in Names, entries'[n] # Absent
          PROVE  entries'[n].value \in Values /\ \E y \in Expiries : entries'[n].ttl \in 1..y
        <3>1. CASE n = QualifiedKey(p, k)
            BY <1>2, <1>3, <1>4, <3>1
        <3>2. CASE n # QualifiedKey(p, k)
            <4>1. entries'[n] = entries[n]
                BY <1>2, <1>4, <3>2
            <4> QED
                BY <2>1, <4>1 DEF Mirrored, TypeOK
        <3> QED
            BY <3>1, <3>2
    <2>2. puts' \in 0..MaxPuts
        BY <1>2, <1>4
    <2> QED
        BY <1>2, <1>4, <2>1, <2>2 DEF TypeOK
<1> QED
    BY <1>1, <1>2, <1>5, WriteStep DEF Mirrored

\* Delete keeps the mirror.
LEMMA DeleteStep ==
    ASSUME Mirrored, NEW p \in Prefixes, NEW k \in Keys, Delete(p, k)
    PROVE  Mirrored'
<1>1. /\ entries' = [entries EXCEPT ![QualifiedKey(p, k)] = Absent]
      /\ own' = [own EXCEPT ![<<p, k>>] = Absent]
      /\ client[p] = "up" /\ UNCHANGED client /\ UNCHANGED puts
    BY DEF Delete
<1>2. entries \in [Names -> Entry \cup {Absent}]
    BY DEF Mirrored
<1>3. \A n \in Names : entries'[n] # Absent => entries'[n] = entries[n]
    BY <1>1, <1>2
<1>4. TypeOK'
    BY <1>1, <1>3 DEF Mirrored, TypeOK
<1> QED
    BY <1>1, <1>4, WriteStep DEF Mirrored

\* Time passes for Redis and for the mirror alike.
LEMMA TickStep ==
    ASSUME Mirrored, Tick
    PROVE  Mirrored'
<1>1. /\ entries \in [Names -> Entry \cup {Absent}]
      /\ own \in [Prefixes \X Keys -> Entry \cup {Absent}]
      /\ entries' = [n \in Names |-> Aged(entries[n])]
      /\ own' = [call \in Prefixes \X Keys |-> Aged(own[call])]
      /\ UNCHANGED <<client, puts>>
    BY DEF Mirrored, Tick
<1>2. /\ entries' \in [Names -> Entry \cup {Absent}]
      /\ own' \in [Prefixes \X Keys -> Entry \cup {Absent}]
    BY <1>1, AgedEntry
<1>3. ASSUME NEW n \in Names, entries'[n] # Absent
      PROVE  entries'[n].value \in Values /\ \E y \in Expiries : entries'[n].ttl \in 1..y
    <2>1. entries[n] # Absent /\ entries'[n].value = entries[n].value
          /\ entries'[n].ttl <= entries[n].ttl
        BY <1>1, <1>3, AgedEntry
    <2>2. entries'[n] \in Entry /\ entries'[n].ttl \in Nat \ {0}
        BY <1>2, <1>3 DEF Entry
    <2>3. PICK y \in Expiries : entries[n].ttl \in 1..y
        BY <2>1 DEF Mirrored, TypeOK
    <2>4. entries'[n].ttl \in 1..y
        BY <2>1, <2>2, <2>3
    <2> QED
        BY <2>1, <2>3, <2>4 DEF Mirrored, TypeOK
<1>4. TypeOK'
    BY <1>1, <1>3 DEF Mirrored, TypeOK
<1>5. ASSUME NEW p \in Prefixes, client'[p] # "rejected", NEW k \in Keys
      PROVE  ValidPrefix(p) /\ entries'[QualifiedKey(p, k)] = own'[<<p, k>>]
    <2>1. ValidPrefix(p) /\ entries[QualifiedKey(p, k)] = own[<<p, k>>]
        BY <1>1, <1>5 DEF Mirrored
    <2> QED
        BY <1>1, <2>1, QualifiedKeyName
<1>6. ASSUME NEW p \in Prefixes, client'[p] # "rejected" PROVE ValidPrefix(p)
    BY <1>1, <1>6 DEF Mirrored
<1> QED
    BY <1>2, <1>4, <1>5, <1>6 DEF Mirrored

\* Redis is empty and so are the mirrors.
LEMMA MirroredInit == Init => Mirrored
<1> SUFFICES ASSUME Init PROVE Mirrored
    OBVIOUS
<1>1. TypeOK
    BY DEF Init, TypeOK
<1>2. /\ entries \in [Names -> Entry \cup {Absent}]
      /\ own \in [Prefixes \X Keys -> Entry \cup {Absent}]
    BY DEF Init
<1>3. ASSUME NEW p \in Prefixes, client[p] # "rejected"
      PROVE  ValidPrefix(p) /\ \A k \in Keys : entries[QualifiedKey(p, k)] = own[<<p, k>>]
    BY <1>3, QualifiedKeyName DEF Init
<1> QED
    BY <1>1, <1>2, <1>3 DEF Mirrored

\* What Redis holds under a client's keys is always what that client put
\* there, with what is left of its expiry.
THEOREM MirroredInvariant == SafetySpec => []Mirrored
<1>1. Mirrored /\ [Next]_vars => Mirrored'
    <2>1. Mirrored /\ UNCHANGED vars => Mirrored'
        BY DEF Mirrored, TypeOK, vars
    <2> QED
        BY <2>1, ClientStep, PutStep, DeleteStep, TickStep DEF Next
<1> QED
    BY <1>1, MirroredInit, PTL DEF SafetySpec

\* Every variable keeps its type: no entry is without expiry, and none lives
\* longer than the expiry its Put was given.
THEOREM TypeCorrect == SafetySpec => []TypeOK
<1>1. Mirrored => TypeOK
    BY DEF Mirrored
<1> QED
    BY <1>1, MirroredInvariant, PTL

\* Clients with different prefixes never see each other's values: Get returns
\* what the client itself put under that key, or nothing.
THEOREM PrivateViewAlways == SafetySpec => []PrivateView
<1>1. Mirrored => PrivateView
    BY DEF Mirrored, PrivateView, Get
<1> QED
    BY <1>1, MirroredInvariant, PTL
=============================================================================
