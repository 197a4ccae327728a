-------------------------- MODULE LimitEcosystemProofs --------------------------
(***************************************************************************)
(* What the composer's cache promises, for any number of threads, dates,   *)
(* reads and commits, and any limit on its entries.                        *)
(*                                                                         *)
(* The argument is about versions. What a call or an entry has counted of  *)
(* them is at most what they are; a commit on a covered date counts one    *)
(* up, and from then on no call and no entry that read before it agrees    *)
(* with the store. So as long as the versions agree no covered date has    *)
(* changed, and everything read since is from that time.                   *)
(***************************************************************************)
EXTENDS LimitEcosystem, FiniteSetTheorems, SequenceTheorems, TLAPS

Building == {"lookup", "build", "put"}
Evicting == {"check", "iterate", "choose", "pop"}

Past(versions) == \A d \in Covered : versions[d] <= version[d]
UpToDate(versions) == versions = CoveredPart(version)

(* What holds of a call at any time. *)
CallOK(k) ==
    /\ k.pc \in {"rows", "versions", "lookup"} => k.made = <<>>
    /\ k.pc = "build" => Len(k.made) < Len(Reads)
    /\ k.pc \in Building \union {"versions"} => k.rows \in [Covered -> Contents]
    /\ k.pc \in Building =>
        /\ k.versions \in [Covered -> Nat] /\ Past(k.versions)
        /\ UpToDate(k.versions) => IsRecent(k.made)
    /\ k.quiet /\ k.pc # "idle" =>
        /\ k.payload = content[1]
        /\ k.pc \in Building => UpToDate(k.versions)
        /\ k.pc \in Evicting \union {"answer"} => IsRecent(k.made)

(* What holds of an entry of the cache. *)
EntryOK(e) ==
    /\ e.key.payload = e.payload
    /\ Past(e.key.revision.versions)
    /\ UpToDate(e.key.revision.versions) => IsRecent(e.made)

EcosystemInv ==
    /\ TypeOK
    /\ \A t \in Thread : CallOK(call[t])
    /\ \A n \in DOMAIN cache : EntryOK(cache[n])
    /\ CacheIsBounded

-----------------------------------------------------------------------------
(* Types *)

LEMMA EmptyBuild == <<>> \in Builds
    BY EcosystemAssumption DEF Builds

LEMMA IdleIsTyped == Idle \in Calls /\ \A k \in Calls : k.made \in Builds
    BY EmptyBuild DEF Idle, Calls, PCs, Contents

LEMMA EmptyIsRecent == IsRecent(<<>>)
    BY DEF IsRecent

-----------------------------------------------------------------------------
(* The steps of a call that touch nothing else *)

(* If the one call that changes is as it should be, everything is. *)
LEMMA CallSteps ==
    ASSUME EcosystemInv, NEW t \in Thread, NEW k \in Calls,
           Continue(t, k), OnlyCall, CallOK(k),
           k.pc \in Evicting => t \in Inserting,
           t \in Inserting /\ k.pc \notin Evicting => ~ Full
    PROVE  EcosystemInv'
<1> USE DEF EcosystemInv
<1>1. TypeOK'
    BY DEF TypeOK, Continue, OnlyCall
<1>2. (\A u \in Thread : CallOK(call[u]))'
    <2>1. ASSUME NEW u \in Thread PROVE CallOK(call'[u])
        BY <2>1 DEF TypeOK, Continue
    <2> QED BY <2>1 DEF OnlyCall, CallOK, Past, UpToDate, CoveredPart, IsRecent
<1>3. (\A n \in DOMAIN cache : EntryOK(cache[n]))'
    BY DEF OnlyCall, EntryOK, Past, UpToDate, CoveredPart, IsRecent
<1>4. CacheIsBounded'
    <2>1. CASE k.pc \notin Evicting /\ t \in Inserting
        <3>1. Len(cache) <= MaxEntries
            BY <2>1, EcosystemAssumption DEF Full, TypeOK
        <3>2. IsFiniteSet(Inserting') /\ Cardinality(Inserting') \in Nat
            BY EcosystemAssumption, FS_Subset, FS_CardinalityType DEF Inserting
        <3> QED BY <3>1, <3>2, EcosystemAssumption DEF CacheIsBounded, OnlyCall, TypeOK
    <2>2. CASE ~ (k.pc \notin Evicting /\ t \in Inserting)
        <3>1. Inserting' = Inserting
            BY <2>2 DEF Inserting, Evicting, TypeOK, Continue
        <3> QED BY <3>1 DEF CacheIsBounded, OnlyCall
    <2> QED BY <2>1, <2>2
<1> QED BY <1>1, <1>2, <1>3, <1>4

LEMMA ReadsPreserve ==
    ASSUME EcosystemInv, NEW t \in Thread,
           Compose(t) \/ ReadRows(t) \/ ReadVersions(t) \/ Miss(t)
    PROVE  EcosystemInv'
<1> USE DEF EcosystemInv
<1>t. call[t] \in Calls /\ CallOK(call[t])
    BY DEF TypeOK
<1>1. CASE Compose(t)
    <2> DEFINE k == [Idle EXCEPT !.pc = "rows", !.payload = content[1]]
    <2>1. k \in Calls
        BY IdleIsTyped, EcosystemAssumption DEF TypeOK, Calls, PCs
    <2>2. CallOK(k) /\ k.pc \notin Evicting /\ t \notin Inserting
        BY <1>1 DEF CallOK, Idle, Building, Evicting, Inserting, Compose, At
    <2> QED BY <1>1, <2>1, <2>2, CallSteps DEF Compose
<1>2. CASE ReadRows(t)
    <2> DEFINE k == [call[t] EXCEPT !.pc = "versions", !.rows = CoveredPart(content)]
    <2>1. CoveredPart(content) \in [Covered -> Contents]
        BY EcosystemAssumption DEF TypeOK, CoveredPart
    <2>2. k \in Calls
        BY <1>t, <2>1 DEF Calls, PCs
    <2>3. CallOK(k) /\ k.pc \notin Evicting /\ t \notin Inserting
        BY <1>2, <1>t, <2>1 DEF CallOK, Building, Evicting, Inserting, ReadRows, At, Calls
    <2> QED BY <1>2, <2>2, <2>3, CallSteps DEF ReadRows
<1>3. CASE ReadVersions(t)
    <2> DEFINE k == [call[t] EXCEPT !.pc = "lookup", !.versions = CoveredPart(version)]
    <2>1. CoveredPart(version) \in [Covered -> Nat] /\ Past(CoveredPart(version))
        BY EcosystemAssumption DEF TypeOK, CoveredPart, Past
    <2>2. k \in Calls
        BY <1>t, <2>1 DEF Calls, PCs
    <2>3. CallOK(k) /\ k.pc \notin Evicting /\ t \notin Inserting
        BY <1>3, <1>t, <2>1, EmptyIsRecent
        DEF CallOK, Building, Evicting, Inserting, ReadVersions, At, Calls, UpToDate
    <2> QED BY <1>3, <2>2, <2>3, CallSteps DEF ReadVersions
<1>4. CASE Miss(t)
    <2> DEFINE k == [call[t] EXCEPT !.pc = "build"]
    <2>1. k \in Calls
        BY <1>t DEF Calls, PCs
    <2>2. CallOK(k) /\ k.pc \notin Evicting /\ t \notin Inserting
        BY <1>4, <1>t, EcosystemAssumption DEF CallOK, Building, Evicting, Inserting, Miss, At, Calls
    <2> QED BY <1>4, <2>1, <2>2, CallSteps DEF Miss, Goto
<1> QED BY <1>1, <1>2, <1>3, <1>4

(* A hit is recent for the call if it is for the current revision, as the  *)
(* one the call has counted then is.                                       *)
LEMMA HitPreserves ==
    ASSUME EcosystemInv, NEW t \in Thread, Hit(t)
    PROVE  EcosystemInv'
<1> USE DEF EcosystemInv
<1>t. call[t] \in Calls /\ CallOK(call[t])
    BY DEF TypeOK
<1>1. PICK n \in Entries(Key(t)) :
          Continue(t, [Made(t, cache[n]) EXCEPT !.pc = "answer"])
    BY DEF Hit
<1> DEFINE k == [Made(t, cache[n]) EXCEPT !.pc = "answer"]
<1>2. cache[n] \in Stores /\ EntryOK(cache[n]) /\ cache[n].key = Key(t)
    BY DEF Entries, TypeOK
<1>3. k \in Calls
    <2>1. Made(t, cache[n]) \in Calls
        BY <1>t, <1>2, IdleIsTyped DEF Made, Stores, Calls
    <2> QED BY <2>1 DEF Calls, PCs
<1>4. /\ k.pc = "answer" /\ k.quiet = call[t].quiet
      /\ k.payload = call[t].payload /\ k.made = cache[n].made
    BY <1>2 DEF Made, Idle, EntryOK, Key, Stores
<1>5. UpToDate(call[t].versions) => IsRecent(k.made)
    BY <1>2, <1>4 DEF EntryOK, Key, Revision
<1>6. CallOK(k) /\ k.pc \notin Evicting /\ t \notin Inserting
    BY <1>t, <1>4, <1>5 DEF CallOK, Building, Evicting, Inserting, Hit, At
<1> QED BY <1>1, <1>3, <1>6, CallSteps DEF Hit

(* What a call reads is recent as it reads it. *)
LEMMA BuildPreserves ==
    ASSUME EcosystemInv, NEW t \in Thread, BuildStep(t)
    PROVE  EcosystemInv'
<1> USE DEF EcosystemInv
<1>t. call[t] \in Calls /\ CallOK(call[t]) /\ call[t].pc = "build"
    BY DEF TypeOK, BuildStep, At
<1> DEFINE made == Append(call[t].made, Read(t))
           k == [call[t] EXCEPT !.made = made,
                                !.pc = IF Position(t) = Len(Reads) THEN "put" ELSE "build"]
<1>1. /\ Position(t) \in DOMAIN Reads /\ Position(t) <= Len(Reads)
      /\ Reads[Position(t)] \in Date
    BY <1>t, EcosystemAssumption DEF CallOK, Position, Calls, Builds
<1>2. Read(t) \in Contents \union {Cut}
    BY <1>1 DEF Read, TypeOK
<1>3. made \in Builds /\ Len(made) = Position(t)
    BY <1>t, <1>1, <1>2, EcosystemAssumption DEF Builds, Calls, Position
<1>4. IsRecent(call[t].made) => IsRecent(made)
    <2>1. Read(t) \in recent[Reads[Position(t)]] \union {Cut}
        BY <1>1 DEF Read, TypeOK
    <2>2. /\ DOMAIN made = DOMAIN call[t].made \union {Position(t)}
          /\ made[Position(t)] = Read(t)
          /\ \A i \in DOMAIN call[t].made : made[i] = call[t].made[i]
        BY <1>t, <1>2 DEF Builds, Calls, Position
    <2> QED BY <2>1, <2>2 DEF IsRecent
<1>5. k \in Calls
    BY <1>t, <1>3 DEF Calls, PCs
<1>6. CallOK(k) /\ k.pc \notin Evicting /\ t \notin Inserting
    <2>1. /\ k.pc \in {"put", "build"} /\ k.made = made /\ k.rows = call[t].rows
          /\ k.versions = call[t].versions /\ k.quiet = call[t].quiet
          /\ k.payload = call[t].payload
          /\ k.pc = "build" => Position(t) # Len(Reads)
        BY <1>t DEF Calls
    <2>2. k.pc = "build" => Len(k.made) < Len(Reads)
        BY <1>1, <1>3, <2>1, EcosystemAssumption
    <2> QED BY <1>t, <1>4, <2>1, <2>2 DEF CallOK, Building, Evicting, Inserting
<1> QED BY <1>5, <1>6, CallSteps DEF BuildStep

LEMMA EndsPreserve ==
    ASSUME EcosystemInv, NEW t \in Thread, Invalid(t) \/ Answer(t)
    PROVE  EcosystemInv'
<1>1. CallOK(Idle) /\ Idle.pc \notin Evicting /\ t \notin Inserting
    BY DEF CallOK, Idle, Building, Evicting, Inserting, Invalid, Answer, At
<1> QED BY <1>1, IdleIsTyped, CallSteps DEF Invalid, Answer

LEMMA EvictionsPreserve ==
    ASSUME EcosystemInv, NEW t \in Thread, CheckSize(t) \/ Iterate(t) \/ ChooseVictim(t)
    PROVE  EcosystemInv'
<1> USE DEF EcosystemInv
<1>t. call[t] \in Calls /\ CallOK(call[t])
    BY DEF TypeOK
<1>1. CASE CheckSize(t)
    <2> DEFINE k == [call[t] EXCEPT !.pc = IF Full THEN "iterate" ELSE "answer"]
    <2>1. k \in Calls
        BY <1>t DEF Calls, PCs
    <2>2. CallOK(k) /\ t \in Inserting /\ (k.pc \notin Evicting => ~ Full)
        BY <1>1, <1>t DEF CallOK, Building, Evicting, Inserting, CheckSize, At, Calls
    <2> QED BY <1>1, <2>1, <2>2, CallSteps DEF CheckSize, Goto
<1>2. CASE Iterate(t)
    <2> DEFINE k == [call[t] EXCEPT !.pc = "choose", !.size = Len(cache)]
    <2>1. k \in Calls
        <3>1. Len(cache) \in Nat
            BY LenProperties DEF TypeOK
        <3> QED BY <1>t, <3>1 DEF Calls, PCs
    <2>2. CallOK(k) /\ t \in Inserting /\ k.pc \in Evicting
        BY <1>2, <1>t DEF CallOK, Building, Evicting, Inserting, Iterate, At, Calls
    <2> QED BY <1>2, <2>1, <2>2, CallSteps DEF Iterate
<1>3. CASE ChooseVictim(t)
    <2> DEFINE k == [call[t] EXCEPT !.pc = "pop", !.victim = cache[1].key]
    <2>1. cache[1].key \in Keys
        <3>1. cache \in Seq(Stores) /\ cache # <<>>
            BY <1>3 DEF ChooseVictim, Undisturbed, TypeOK
        <3>2. cache[1] \in Stores
            BY <3>1, EmptySeq, LenProperties, ElementOfSeq
        <3> QED BY <3>2 DEF Stores
    <2>2. k \in Calls
        BY <1>t, <2>1 DEF Calls, PCs
    <2>3. CallOK(k) /\ t \in Inserting /\ k.pc \in Evicting
        BY <1>3, <1>t DEF CallOK, Building, Evicting, Inserting, ChooseVictim, At, Calls
    <2> QED BY <1>3, <2>2, <2>3, CallSteps DEF ChooseVictim
<1> QED BY <1>1, <1>2, <1>3

-----------------------------------------------------------------------------
(* The steps that change the cache, or fail *)

LEMMA CacheSteps ==
    ASSUME EcosystemInv, NEW t \in Thread, NEW k \in Calls,
           Continue(t, k), UNCHANGED <<content, version, recent, writes>>, CallOK(k),
           cache' \in Seq(Stores), \A n \in DOMAIN cache' : EntryOK(cache'[n]),
           failed' \in Nat, CacheIsBounded'
    PROVE  EcosystemInv'
<1> USE DEF EcosystemInv
<1>1. TypeOK'
    BY DEF TypeOK, Continue
<1>2. (\A u \in Thread : CallOK(call[u]))'
    <2>1. ASSUME NEW u \in Thread PROVE CallOK(call'[u])
        BY <2>1 DEF TypeOK, Continue
    <2> QED BY <2>1 DEF CallOK, Past, UpToDate, CoveredPart, IsRecent
<1>3. (\A n \in DOMAIN cache : EntryOK(cache[n]))'
    BY DEF EntryOK, Past, UpToDate, CoveredPart, IsRecent
<1> QED BY <1>1, <1>2, <1>3

LEMMA InsertingIsFinite == IsFiniteSet(Inserting) /\ Cardinality(Inserting) \in Nat
    BY EcosystemAssumption, FS_Subset, FS_CardinalityType DEF Inserting

(* A thread that comes counts one up, one that goes one down. *)
LEMMA ComingAndGoing ==
    ASSUME EcosystemInv, NEW t \in Thread, NEW k \in Calls, Continue(t, k)
    PROVE  /\ t \notin Inserting /\ k.pc \in Evicting
                => Cardinality(Inserting') = Cardinality(Inserting) + 1
           /\ t \in Inserting /\ k.pc \notin Evicting
                => Cardinality(Inserting') = Cardinality(Inserting) - 1
<1>1. CASE t \notin Inserting /\ k.pc \in Evicting
    <2>1. Inserting' = Inserting \union {t}
        BY <1>1 DEF EcosystemInv, TypeOK, Inserting, Evicting, Continue
    <2> QED BY <1>1, <2>1, InsertingIsFinite, FS_AddElement
<1>2. CASE t \in Inserting /\ k.pc \notin Evicting
    <2>1. Inserting' = Inserting \ {t}
        BY <1>2 DEF EcosystemInv, TypeOK, Inserting, Evicting, Continue
    <2> QED BY <1>2, <2>1, InsertingIsFinite, FS_RemoveElement
<1> QED BY <1>1, <1>2

LEMMA PutPreserves ==
    ASSUME EcosystemInv, NEW t \in Thread, Put(t)
    PROVE  EcosystemInv'
<1> USE DEF EcosystemInv
<1>t. call[t] \in Calls /\ CallOK(call[t]) /\ call[t].pc = "put"
    BY DEF TypeOK, Put, At
<1> DEFINE k == [Made(t, call[t]) EXCEPT !.pc = "check"]
<1>1. k \in Calls /\ k.pc = "check"
    <2>1. Made(t, call[t]) \in Calls
        BY <1>t, IdleIsTyped DEF Made, Calls
    <2> QED BY <2>1 DEF Calls, PCs
<1>2. CallOK(k)
    <2>1. k.payload = call[t].payload /\ k.made = call[t].made /\ k.quiet = call[t].quiet
        BY <1>t DEF Made, Idle, Calls
    <2> QED BY <1>t, <1>1, <2>1 DEF CallOK, Building, Evicting
<1>3. Entry(t) \in Stores /\ EntryOK(Entry(t))
    <2>1. Entry(t) \in Stores
        <3>1. /\ call[t].rows \in [Covered -> Contents] /\ call[t].versions \in [Covered -> Nat]
              /\ call[t].payload \in Contents /\ call[t].made \in Builds
            BY <1>t DEF CallOK, Building, Calls
        <3>2. Key(t) \in Keys
            BY <3>1 DEF Key, Keys, Revision
        <3> QED BY <3>1, <3>2 DEF Entry, Stores
    <2>2. EntryOK(Entry(t))
        BY <1>t DEF Entry, EntryOK, Key, Revision, CallOK, Building
    <2> QED BY <2>1, <2>2
<1>4. t \notin Inserting
    BY <1>t DEF Inserting
<1>5. Cardinality(Inserting') = Cardinality(Inserting) + 1
    BY <1>1, <1>4, ComingAndGoing DEF Put, Evicting
<1>6. CASE Entries(Key(t)) = {}
    <2>1. cache' = Append(cache, Entry(t)) /\ cache \in Seq(Stores)
        BY <1>6 DEF Put, TypeOK
    <2>2. /\ cache' \in Seq(Stores) /\ Len(cache') = Len(cache) + 1
          /\ \A n \in DOMAIN cache' : n \in DOMAIN cache \/ n = Len(cache) + 1
          /\ \A n \in DOMAIN cache : cache'[n] = cache[n]
          /\ cache'[Len(cache) + 1] = Entry(t)
        BY <1>3, <2>1, AppendProperties, LenProperties
    <2>3. \A n \in DOMAIN cache' : EntryOK(cache'[n])
        BY <1>3, <2>2
    <2>4. CacheIsBounded'
        BY <1>5, <2>1, <2>2, LenProperties, InsertingIsFinite, EcosystemAssumption
        DEF CacheIsBounded, Put, TypeOK
    <2> QED BY <1>1, <1>2, <2>2, <2>3, <2>4, CacheSteps DEF Put, TypeOK
<1>7. CASE Entries(Key(t)) # {}
    <2>1. /\ cache \in Seq(Stores) /\ Len(cache) \in Nat /\ DOMAIN cache = 1 .. Len(cache)
          /\ cache' = [n \in DOMAIN cache |-> IF n \in Entries(Key(t)) THEN Entry(t) ELSE cache[n]]
        BY <1>7, LenProperties DEF Put, TypeOK
    <2>2. \A n \in DOMAIN cache : cache[n] \in Stores
        BY <2>1, ElementOfSeq
    <2>3. cache' \in Seq(Stores) /\ Len(cache') = Len(cache) /\ DOMAIN cache' = DOMAIN cache
        <3>1. cache' \in [1 .. Len(cache) -> Stores]
            BY <1>3, <2>1, <2>2
        <3> QED BY <2>1, <3>1, SeqDef, LenProperties
    <2>4. \A n \in DOMAIN cache' : EntryOK(cache'[n])
        BY <1>3, <2>1
    <2>5. CacheIsBounded'
        <3>1. Len(cache) \in Nat /\ Len(cache') = Len(cache) /\ failed \in Nat /\ failed' = failed
            BY <2>1, <2>3 DEF Put, TypeOK
        <3>2. Len(cache) <= MaxEntries + Cardinality(Inserting) + failed
            BY DEF CacheIsBounded
        <3>3. Len(cache) <= MaxEntries + Cardinality(Inserting') + failed
            BY <1>5, <3>1, <3>2, InsertingIsFinite, EcosystemAssumption
        <3> QED BY <3>1, <3>3 DEF CacheIsBounded
    <2> QED BY <1>1, <1>2, <2>3, <2>4, <2>5, CacheSteps DEF Put, TypeOK
<1> QED BY <1>6, <1>7

LEMMA RemovalsAreShorter ==
    ASSUME NEW S, NEW s \in Seq(S), NEW n \in DOMAIN s
    PROVE  /\ RemoveAt(s, n) \in Seq(S) /\ Len(RemoveAt(s, n)) = Len(s) - 1
           /\ \A i \in DOMAIN RemoveAt(s, n) : \E j \in DOMAIN s : RemoveAt(s, n)[i] = s[j]
<1>1. Len(s) \in Nat /\ DOMAIN s = 1 .. Len(s) /\ \A i \in 1 .. Len(s) : s[i] \in S
    BY LenProperties, ElementOfSeq
<1> DEFINE head == SubSeq(s, 1, n - 1)
           tail == SubSeq(s, n + 1, Len(s))
<1>2. /\ head \in Seq(S) /\ Len(head) = n - 1
      /\ \A i \in 1 .. n - 1 : head[i] = s[i]
    <2>1. \A i \in 1 .. n - 1 : s[i] \in S
        BY <1>1
    <2> QED BY <1>1, <2>1, SubSeqProperties
<1>3. /\ tail \in Seq(S) /\ Len(tail) = Len(s) - n
      /\ \A i \in 1 .. Len(s) - n : tail[i] = s[n + i]
    <2>1. \A i \in n + 1 .. Len(s) : s[i] \in S
        BY <1>1
    <2>2. /\ tail \in Seq(S) /\ Len(tail) = IF n + 1 <= Len(s) THEN Len(s) - (n + 1) + 1 ELSE 0
          /\ \A i \in 1 .. Len(s) - (n + 1) + 1 : tail[i] = s[n + 1 + i - 1]
        BY <1>1, <2>1, SubSeqProperties
    <2>3. \A i \in 1 .. Len(s) - n : i \in 1 .. Len(s) - (n + 1) + 1 /\ n + 1 + i - 1 = n + i
        BY <1>1
    <2>4. \A i \in 1 .. Len(s) - n : tail[i] = s[n + i]
        BY <2>2, <2>3
    <2>5. Len(tail) = Len(s) - n
        BY <1>1, <2>2
    <2> QED BY <2>2, <2>4, <2>5
<1> HIDE DEF head, tail
<1>4. /\ head \o tail \in Seq(S) /\ Len(head \o tail) = Len(s) - 1
      /\ \A i \in 1 .. Len(s) - 1 :
            (head \o tail)[i] = IF i <= n - 1 THEN head[i] ELSE tail[i - (n - 1)]
    <2>1. /\ head \o tail \in Seq(S) /\ Len(head \o tail) = Len(head) + Len(tail)
          /\ \A i \in 1 .. Len(head) + Len(tail) :
                (head \o tail)[i] = IF i <= Len(head) THEN head[i] ELSE tail[i - Len(head)]
        BY <1>2, <1>3, ConcatProperties
    <2>2. Len(head) = n - 1 /\ Len(head) + Len(tail) = Len(s) - 1
        BY <1>1, <1>2, <1>3
    <2> QED BY <2>1, <2>2
<1>5. RemoveAt(s, n) = head \o tail
    BY DEF RemoveAt, head, tail
<1>6. DOMAIN (head \o tail) = 1 .. Len(s) - 1
    BY <1>4, LenProperties
<1>7. ASSUME NEW i \in 1 .. Len(s) - 1
      PROVE  \E j \in 1 .. Len(s) : (head \o tail)[i] = s[j]
    <2>1. CASE i <= n - 1
        BY <1>1, <1>2, <1>4, <2>1
    <2>2. CASE ~ (i <= n - 1)
        <3>1. i - (n - 1) \in 1 .. Len(s) - n /\ n + (i - (n - 1)) = i + 1 /\ i + 1 \in 1 .. Len(s)
            BY <1>1, <2>2
        <3> QED BY <1>3, <1>4, <2>2, <3>1
    <2> QED BY <2>1, <2>2
<1> QED BY <1>1, <1>4, <1>5, <1>6, <1>7

LEMMA PopPreserves ==
    ASSUME EcosystemInv, NEW t \in Thread, Pop(t)
    PROVE  EcosystemInv'
<1> USE DEF EcosystemInv
<1>t. call[t] \in Calls /\ CallOK(call[t]) /\ call[t].pc = "pop"
    BY DEF TypeOK, Pop, At
<1> DEFINE k == [call[t] EXCEPT !.pc = "answer", !.size = 0, !.victim = <<>>]
<1>1. k \in Calls /\ CallOK(k) /\ k.pc = "answer"
    BY <1>t DEF Calls, PCs, CallOK, Building, Evicting
<1>2. PICK n \in DOMAIN cache : cache' = RemoveAt(cache, n)
    BY DEF Pop, Entries
<1>3. /\ cache' \in Seq(Stores) /\ Len(cache') = Len(cache) - 1
      /\ \A i \in DOMAIN cache' : EntryOK(cache'[i])
    BY <1>2, RemovalsAreShorter DEF TypeOK
<1>4. Cardinality(Inserting') = Cardinality(Inserting) - 1
    BY <1>t, <1>1, ComingAndGoing DEF Pop, Inserting, Evicting
<1>5. CacheIsBounded'
    BY <1>3, <1>4, LenProperties, InsertingIsFinite, EcosystemAssumption
    DEF CacheIsBounded, Pop, TypeOK
<1> QED BY <1>1, <1>3, <1>5, CacheSteps DEF Pop, TypeOK

LEMMA RaisePreserves ==
    ASSUME EcosystemInv, NEW t \in Thread, ChooseRaises(t) \/ PopRaises(t)
    PROVE  EcosystemInv'
<1> USE DEF EcosystemInv
<1>1. Raise(t) /\ t \in Inserting
    BY DEF ChooseRaises, PopRaises, Inserting, At
<1>2. Idle \in Calls /\ CallOK(Idle) /\ Idle.pc \notin Evicting
    BY IdleIsTyped DEF CallOK, Idle, Building, Evicting
<1>3. Cardinality(Inserting') = Cardinality(Inserting) - 1
    BY <1>1, <1>2, ComingAndGoing DEF Raise
<1>4. CacheIsBounded'
    BY <1>1, <1>3, LenProperties, InsertingIsFinite, EcosystemAssumption
    DEF CacheIsBounded, Raise, TypeOK
<1> QED BY <1>1, <1>2, <1>4, CacheSteps DEF Raise, TypeOK

-----------------------------------------------------------------------------
(* Commits, and the theorems *)

(* A covered date: whatever counted the versions before is behind them. *)
LEMMA CoveredCommitPreserves ==
    ASSUME EcosystemInv, NEW d \in Covered, NEW v \in Value, Commit(d, v)
    PROVE  EcosystemInv'
<1> USE DEF EcosystemInv
<1>1. d \in Date /\ v \in Contents
    BY EcosystemAssumption DEF Contents
<1>2. /\ content' \in [Date -> Contents] /\ version' \in [Date -> Nat]
      /\ version' = [version EXCEPT ![d] = version[d] + 1]
      /\ UNCHANGED <<cache, failed>>
      /\ call' = [t \in Thread |-> [call[t] EXCEPT !.quiet = FALSE]]
    BY <1>1 DEF Commit, TypeOK
<1>3. TypeOK'
    <2>1. call' \in [Thread -> Calls]
        BY <1>2 DEF TypeOK, Calls
    <2>2. recent' \in [Date -> SUBSET Contents] /\ \A e \in Date : content'[e] \in recent'[e]
        BY <1>2 DEF Commit
    <2>3. failed' \in Nat /\ writes' \in 0 .. MaxWrites
        BY EcosystemAssumption DEF Commit, TypeOK
    <2> QED BY <1>2, <2>1, <2>2, <2>3 DEF TypeOK
<1>4. ASSUME NEW vs, Past(vs), \A e \in Covered : vs[e] \in Nat
      PROVE  Past(vs)' /\ ~ UpToDate(vs)'
    <2>1. /\ version[d] \in Nat /\ version'[d] = version[d] + 1
          /\ \A e \in Covered : version[e] \in Nat /\ version'[e] \in {version[e], version[e] + 1}
        BY <1>1, <1>2, EcosystemAssumption DEF TypeOK
    <2>2. vs[d] < version'[d]
        BY <1>4, <2>1 DEF Past
    <2> QED BY <1>4, <2>1, <2>2 DEF Past, UpToDate, CoveredPart
<1>5. (\A t \in Thread : CallOK(call[t]))'
    <2>1. ASSUME NEW t \in Thread PROVE CallOK(call[t])'
        <3>1. call[t] \in Calls /\ CallOK(call[t]) /\ call'[t] = [call[t] EXCEPT !.quiet = FALSE]
            BY <1>2 DEF TypeOK
        <3>2. /\ call'[t].pc = call[t].pc /\ call'[t].made = call[t].made /\ ~ call'[t].quiet
              /\ call'[t].rows = call[t].rows /\ call'[t].versions = call[t].versions
            BY <3>1 DEF Calls
        <3>3. call[t].pc \in Building => Past(call[t].versions)' /\ ~ UpToDate(call[t].versions)'
            <4> HAVE call[t].pc \in Building
            <4>1. Past(call[t].versions) /\ \A e \in Covered : call[t].versions[e] \in Nat
                BY <3>1 DEF CallOK
            <4>2. PICK vs : vs = call[t].versions /\ vs = call'[t].versions
                BY <3>2
            <4>3. Past(vs)' /\ ~ UpToDate(vs)'
                BY <1>4, <4>1, <4>2
            <4> QED BY <4>2, <4>3 DEF Past, UpToDate
        <3> QED BY <3>1, <3>2, <3>3 DEF CallOK, UpToDate, Past
    <2> QED BY <2>1
<1>6. (\A n \in DOMAIN cache : EntryOK(cache[n]))'
    <2>1. ASSUME NEW n \in DOMAIN cache PROVE EntryOK(cache[n])'
        <3>1. cache[n] \in Stores /\ EntryOK(cache[n])
            BY LenProperties, ElementOfSeq DEF TypeOK
        <3>2. /\ Past(cache[n].key.revision.versions)
              /\ \A e \in Covered : cache[n].key.revision.versions[e] \in Nat
            BY <3>1 DEF EntryOK, Stores, Keys
        <3> QED BY <1>2, <1>4, <3>1, <3>2 DEF EntryOK, UpToDate, Past
    <2> QED BY <1>2, <2>1
<1>7. CacheIsBounded'
    <2>1. Inserting' = Inserting
        BY <1>2 DEF TypeOK, Calls, Inserting
    <2> QED BY <1>2, <2>1 DEF CacheIsBounded
<1> QED BY <1>3, <1>5, <1>6, <1>7

(* Any other date: what it held before is as recent as what it holds now. *)
LEMMA OtherCommitPreserves ==
    ASSUME EcosystemInv, NEW d \in Date \ Covered, NEW v \in Value, Commit(d, v)
    PROVE  EcosystemInv'
<1> USE DEF EcosystemInv
<1>1. v \in Contents
    BY DEF Contents
<1>2. /\ UNCHANGED <<cache, failed, call>>
      /\ content' = [content EXCEPT ![d] = v] /\ version' = [version EXCEPT ![d] = version[d] + 1]
      /\ recent' = [recent EXCEPT ![d] = recent[d] \union {v}]
    BY DEF Commit
<1>3. TypeOK'
    <2>1. recent' \in [Date -> SUBSET Contents] /\ \A e \in Date : content'[e] \in recent'[e]
        BY <1>1, <1>2 DEF TypeOK
    <2>2. writes' \in 0 .. MaxWrites
        BY EcosystemAssumption DEF Commit, TypeOK
    <2> QED BY <1>1, <1>2, <2>1, <2>2 DEF TypeOK
<1>4. CoveredPart(version)' = CoveredPart(version) /\ content'[1] = content[1]
    BY <1>2, EcosystemAssumption DEF TypeOK, CoveredPart
<1>5. \A e \in Covered : version'[e] = version[e]
    BY <1>2, EcosystemAssumption DEF TypeOK
<1>6. ASSUME NEW made \in Builds, IsRecent(made)
      PROVE  IsRecent(made)'
    <2>1. \A e \in Date : recent[e] \subseteq recent'[e]
        BY <1>2 DEF TypeOK
    <2>2. \A i \in DOMAIN made : Reads[i] \in Date
        BY EcosystemAssumption, LenProperties, ElementOfSeq DEF Builds
    <2> QED BY <1>6, <2>1, <2>2 DEF IsRecent
<1>7. (\A t \in Thread : CallOK(call[t]))'
    <2>1. ASSUME NEW t \in Thread PROVE CallOK(call[t])'
        <3>1. call[t].made \in Builds /\ CallOK(call[t]) /\ call'[t] = call[t]
            BY <1>2 DEF TypeOK, Calls
        <3>2. IsRecent(call[t].made) => IsRecent(call[t].made)'
            BY <1>2, <1>6, <3>1
        <3> QED BY <1>2, <1>4, <1>5, <3>1, <3>2 DEF CallOK, UpToDate, Past
    <2> QED BY <2>1
<1>8. (\A n \in DOMAIN cache : EntryOK(cache[n]))'
    <2>1. ASSUME NEW n \in DOMAIN cache PROVE EntryOK(cache[n])'
        <3>1. cache[n].made \in Builds /\ EntryOK(cache[n]) /\ cache'[n] = cache[n]
            <4>1. cache[n] \in Stores /\ EntryOK(cache[n])
                BY LenProperties, ElementOfSeq DEF TypeOK
            <4> QED BY <1>2, <4>1 DEF Stores
        <3>2. IsRecent(cache[n].made) => IsRecent(cache[n].made)'
            BY <1>2, <1>6, <3>1
        <3> QED BY <1>4, <1>5, <3>1, <3>2 DEF EntryOK, UpToDate, Past
    <2> QED BY <1>2, <2>1
<1>9. CacheIsBounded'
    BY <1>2 DEF CacheIsBounded, Inserting
<1> QED BY <1>3, <1>7, <1>8, <1>9

LEMMA EcosystemInit == Init => EcosystemInv
<1> HAVE Init
<1>1. TypeOK
    BY IdleIsTyped, EmptySeq, EcosystemAssumption DEF Init, TypeOK, Contents
<1>2. \A t \in Thread : CallOK(call[t])
    BY DEF Init, CallOK, Idle, Building, Evicting
<1>3. Inserting = {}
    BY DEF Init, Inserting, Idle
<1>4. CacheIsBounded
    BY <1>3, EmptySeq, FS_EmptySet, EcosystemAssumption DEF CacheIsBounded, Init
<1>5. DOMAIN cache = {}
    BY EmptySeq, LenProperties DEF Init
<1> QED BY <1>1, <1>2, <1>4, <1>5 DEF EcosystemInv

LEMMA EcosystemStep == EcosystemInv /\ [Next]_vars => EcosystemInv'
<1> SUFFICES ASSUME EcosystemInv, [Next]_vars PROVE EcosystemInv'
    OBVIOUS
<1>1. ASSUME NEW d \in Date, NEW v \in Value, Commit(d, v) PROVE EcosystemInv'
    BY <1>1, CoveredCommitPreserves, OtherCommitPreserves
<1>2. ASSUME NEW t \in Thread, Compose(t) \/ ReadRows(t) \/ ReadVersions(t) \/ Miss(t)
      PROVE  EcosystemInv'
    BY <1>2, ReadsPreserve
<1>3. ASSUME NEW t \in Thread, Hit(t) PROVE EcosystemInv'
    BY <1>3, HitPreserves
<1>4. ASSUME NEW t \in Thread, BuildStep(t) PROVE EcosystemInv'
    BY <1>4, BuildPreserves
<1>5. ASSUME NEW t \in Thread, Invalid(t) \/ Answer(t) PROVE EcosystemInv'
    BY <1>5, EndsPreserve
<1>6. ASSUME NEW t \in Thread, Put(t) PROVE EcosystemInv'
    BY <1>6, PutPreserves
<1>7. ASSUME NEW t \in Thread, CheckSize(t) \/ Iterate(t) \/ ChooseVictim(t)
      PROVE  EcosystemInv'
    BY <1>7, EvictionsPreserve
<1>8. ASSUME NEW t \in Thread, Pop(t) PROVE EcosystemInv'
    BY <1>8, PopPreserves
<1>9. ASSUME NEW t \in Thread, ChooseRaises(t) \/ PopRaises(t) PROVE EcosystemInv'
    BY <1>9, RaisePreserves
<1>10. CASE UNCHANGED vars
    BY <1>10 DEF vars, EcosystemInv, TypeOK, CallOK, EntryOK, Past, UpToDate, CoveredPart,
                 IsRecent, CacheIsBounded, Inserting
<1> QED BY <1>1, <1>2, <1>3, <1>4, <1>5, <1>6, <1>7, <1>8, <1>9, <1>10 DEF Next

LEMMA EcosystemInvHolds == Spec => []EcosystemInv
    BY EcosystemInit, EcosystemStep, PTL DEF Spec

(* The composer's variables keep their types. *)
THEOREM EcosystemIsTyped == Spec => []TypeOK
<1>1. EcosystemInv => TypeOK
    BY DEF EcosystemInv
<1> QED BY <1>1, EcosystemInvHolds, PTL

(* However many threads build and commit in between, an entry under the    *)
(* current revision holds the covered evidence as it is.                   *)
THEOREM CacheIsTrue == Spec => []CurrentEntriesAreRecent
<1>1. EcosystemInv => CurrentEntriesAreRecent
    BY DEF EcosystemInv, CurrentEntriesAreRecent, EntryOK, UpToDate, Current, Revision
<1> QED BY <1>1, EcosystemInvHolds, PTL

(* A call that no covered commit has disturbed answers with the evidence   *)
(* of its time, whoever built it.                                          *)
THEOREM QuietAnswersAreTrue == Spec => []QuietAnswersAreRecent
<1>1. EcosystemInv => QuietAnswersAreRecent
    BY DEF EcosystemInv, QuietAnswersAreRecent, CallOK, At
<1> QED BY <1>1, EcosystemInvHolds, PTL

(* The cache grows past its limit by no more than the insertions under way *)
(* and the evictions that raised.                                          *)
THEOREM CacheStaysBounded == Spec => []CacheIsBounded
<1>1. EcosystemInv => CacheIsBounded
    BY DEF EcosystemInv
<1> QED BY <1>1, EcosystemInvHolds, PTL
================================================================================
