------------------------- MODULE RateLimiterProofs -------------------------
(***************************************************************************)
(* The window of the rate limiter, for every limit, window and number of   *)
(* clients.                                                                *)
(***************************************************************************)
EXTENDS RateLimiter, TLAPS, SequenceTheorems, FiniteSetTheorems

(* A set of indices closed downwards is an initial segment. *)
LEMMA InitialSegment ==
  ASSUME NEW n \in Nat, NEW D \in SUBSET (1..n),
         \A i \in D : \A j \in 1..i : j \in D
  PROVE  \E c \in 0..n : D = 1..c
<1>1. IsFiniteSet(1..n) /\ Cardinality(1..n) = n
  BY FS_Interval
<1>2. IsFiniteSet(D) /\ Cardinality(D) \in Nat /\ Cardinality(D) <= n
  BY <1>1, FS_Subset, FS_CardinalityType
<1> DEFINE c == Cardinality(D)
<1>3. c \in 0..n
  BY <1>2
<1> HIDE DEF c
<1>4. c + 1 \notin D
  <2> SUFFICES ASSUME c + 1 \in D PROVE FALSE
    OBVIOUS
  <2>1. 1..(c + 1) \subseteq D
    OBVIOUS
  <2>2. Cardinality(1..(c + 1)) = c + 1
    BY <1>3, FS_Interval
  <2>3. Cardinality(1..(c + 1)) <= c
    BY <1>2, <2>1, FS_Subset DEF c
  <2> QED BY <1>3, <2>2, <2>3
<1>5. c > 0 => c \in D
  <2> SUFFICES ASSUME c > 0, c \notin D PROVE FALSE
    OBVIOUS
  <2>1. D \subseteq 1..(c - 1)
    BY <1>3
  <2>2. IsFiniteSet(1..(c - 1)) /\ Cardinality(1..(c - 1)) = c - 1
    BY <1>3, FS_Interval
  <2>3. c <= Cardinality(1..(c - 1))
    BY <2>1, <2>2, FS_Subset DEF c
  <2> QED BY <1>3, <2>2, <2>3
<1>6. ASSUME NEW i \in D PROVE i \in 1..c
  <2>1. i \in 1..n /\ (c + 1 \in 1..i => c + 1 \in D)
    OBVIOUS
  <2> QED BY <1>3, <1>4, <2>1
<1>7. ASSUME NEW i \in 1..c PROVE i \in D
  BY <1>3, <1>5
<1>8. D = 1..c
  BY <1>6, <1>7
<1> QED BY <1>3, <1>8

(* The loop of dispatch stops, at the first time stamp in the window or at *)
(* the end of the bucket.                                                  *)
LEMMA ExpiredIsPrefix ==
  ASSUME NEW bucket \in Seq(Nat), NEW t \in Nat
  PROVE  /\ Expired(bucket, t) \in 0..Len(bucket)
         /\ \A i \in 1..Expired(bucket, t) : t - bucket[i] > Window
         /\ Expired(bucket, t) < Len(bucket) => t - bucket[Expired(bucket, t) + 1] <= Window
<1> DEFINE D == {i \in 1..Len(bucket) : \A j \in 1..i : t - bucket[j] > Window}
<1>1. PICK n \in 0..Len(bucket) : D = 1..n
  <2>1. D \in SUBSET (1..Len(bucket)) /\ Len(bucket) \in Nat
    OBVIOUS
  <2>2. \A i \in D : \A j \in 1..i : j \in D
    OBVIOUS
  <2> HIDE DEF D
  <2> QED BY <2>1, <2>2, InitialSegment
<1>2. \A i \in 1..n : t - bucket[i] > Window
  BY <1>1
<1>3. ASSUME n < Len(bucket) PROVE t - bucket[n + 1] <= Window
  <2>1. n + 1 \notin D
    BY <1>1
  <2>2. bucket[n + 1] \in Nat
    BY <1>1, <1>3, ElementOfSeq
  <2> QED BY <1>1, <1>2, <1>3, <2>1, <2>2, WindowAssumption
<1>4. /\ n \in 0..Len(bucket)
      /\ \A i \in 1..n : t - bucket[i] > Window
      /\ n < Len(bucket) => t - bucket[n + 1] <= Window
  BY <1>1, <1>2, <1>3
<1> QED BY <1>4 DEF Expired

(* What is left of a bucket: its last elements, the first of them young. *)
LEMMA EvictIsSuffix ==
  ASSUME NEW bucket \in Seq(Nat), NEW t \in Nat
  PROVE  /\ Evict(bucket, t) \in Seq(Nat)
         /\ Len(Evict(bucket, t)) = Len(bucket) - Expired(bucket, t)
         /\ \A i \in 1..Len(Evict(bucket, t)) :
              Evict(bucket, t)[i] = bucket[i + Expired(bucket, t)]
         /\ Len(Evict(bucket, t)) > 0 => t - Evict(bucket, t)[1] <= Window
<1> DEFINE n == Expired(bucket, t)
<1>1. /\ n \in 0..Len(bucket)
      /\ n < Len(bucket) => t - bucket[n + 1] <= Window
  BY ExpiredIsPrefix
<1>2. \A i \in (n + 1)..Len(bucket) : bucket[i] \in Nat
  BY <1>1, ElementOfSeq
<1> HIDE DEF n
<1> DEFINE s == SubSeq(bucket, n + 1, Len(bucket))
<1>3. /\ s \in Seq(Nat)
      /\ Len(s) = IF n + 1 <= Len(bucket) THEN Len(bucket) - (n + 1) + 1 ELSE 0
      /\ \A i \in 1..(Len(bucket) - (n + 1) + 1) : s[i] = bucket[(n + 1) + i - 1]
  <2>1. n + 1 \in Int /\ Len(bucket) \in Int
    BY <1>1
  <2> QED BY <1>2, <2>1, SubSeqProperties
<1>4. Evict(bucket, t) = s
  BY DEF Evict, n
<1> HIDE DEF s
<1>5. Len(s) = Len(bucket) - n
  BY <1>1, <1>3
<1>6. \A i \in 1..Len(s) : s[i] = bucket[i + n]
  BY <1>1, <1>3, <1>5
<1>7. Len(s) > 0 => t - s[1] <= Window
  BY <1>1, <1>5, <1>6
<1> QED BY <1>3, <1>4, <1>5, <1>6, <1>7 DEF n

-----------------------------------------------------------------------------
(* What a bucket remembers of its key's history: it is the end of the      *)
(* history, and what is missing of the history is older than the window.   *)
Remembers(b, a, limit, t) ==
  /\ Len(b) <= limit
  /\ Len(b) <= Len(a)
  /\ \A i \in 1..Len(b) : b[i] = a[i + (Len(a) - Len(b))]
  /\ \A i \in 1..(Len(a) - Len(b)) : t - a[i] > Window

Spread(a, limit) == \A i \in 1..(Len(a) - limit) : a[i + limit] - a[i] > Window

LimiterInv ==
  /\ LimiterTypeOK
  /\ \A k \in Keys : Remembers(hits[k], admitted[k], Limit[k[2]], now)
  /\ \A k \in Keys : Spread(admitted[k], Limit[k[2]])
  /\ RefusedOnlyWhenFull

(* Evicting what is older than the window forgets nothing that matters.    *)
LEMMA EvictRemembers ==
  ASSUME NEW b \in Seq(Nat), NEW a \in Seq(Nat), NEW limit \in Nat, NEW t \in Nat,
         Remembers(b, a, limit, t)
  PROVE  Remembers(Evict(b, t), a, limit, t)
<1> DEFINE e == Evict(b, t)
           n == Expired(b, t)
<1>1. n \in 0..Len(b) /\ \A i \in 1..n : t - b[i] > Window
  BY ExpiredIsPrefix
<1>2. e \in Seq(Nat) /\ Len(e) = Len(b) - n /\ \A i \in 1..Len(e) : e[i] = b[i + n]
  BY EvictIsSuffix
<1> HIDE DEF e, n
<1>3. Len(e) \in Nat /\ Len(e) <= Len(b) /\ Len(b) <= Len(a) /\ Len(b) <= limit
  BY <1>1, <1>2 DEF Remembers
<1>4. ASSUME NEW i \in 1..Len(e) PROVE e[i] = a[i + (Len(a) - Len(e))]
  <2>1. i + n \in 1..Len(b)
    BY <1>1, <1>2
  <2>2. b[i + n] = a[(i + n) + (Len(a) - Len(b))]
    BY <2>1 DEF Remembers
  <2>3. (i + n) + (Len(a) - Len(b)) = i + (Len(a) - Len(e))
    BY <1>1, <1>2
  <2> QED BY <1>2, <2>2, <2>3
<1>5. ASSUME NEW i \in 1..(Len(a) - Len(e)) PROVE t - a[i] > Window
  <2>1. CASE i \in 1..(Len(a) - Len(b))
    BY <2>1 DEF Remembers
  <2>2. CASE i \notin 1..(Len(a) - Len(b))
    <3> DEFINE j == i - (Len(a) - Len(b))
    <3>1. j \in 1..n /\ j \in 1..Len(b) /\ j + (Len(a) - Len(b)) = i
      BY <1>1, <1>2, <1>3, <2>2
    <3>2. b[j] = a[j + (Len(a) - Len(b))]
      BY <3>1 DEF Remembers
    <3> QED BY <1>1, <3>1, <3>2
  <2> QED BY <2>1, <2>2
<1> QED BY <1>3, <1>4, <1>5 DEF Remembers, e

(* Nor does the passing of time.                                           *)
LEMMA AgeRemembers ==
  ASSUME NEW b \in Seq(Nat), NEW a \in Seq(Nat), NEW limit, NEW t \in Nat,
         Remembers(b, a, limit, t)
  PROVE  Remembers(b, a, limit, t + 1)
<1>1. ASSUME NEW i \in 1..(Len(a) - Len(b)) PROVE (t + 1) - a[i] > Window
  <2>1. a[i] \in Nat
    BY ElementOfSeq
  <2>2. t - a[i] > Window
    BY DEF Remembers
  <2> QED BY <2>1, <2>2, WindowAssumption
<1> QED BY <1>1 DEF Remembers

(* An admission below the limit keeps the window within it.                *)
LEMMA AppendRemembers ==
  ASSUME NEW b \in Seq(Nat), NEW a \in Seq(Nat), NEW limit \in Nat, NEW t \in Nat,
         Remembers(b, a, limit, t), Spread(a, limit), Len(b) < limit
  PROVE  /\ Remembers(Append(b, t), Append(a, t), limit, t)
         /\ Spread(Append(a, t), limit)
<1> DEFINE bb == Append(b, t)
           aa == Append(a, t)
<1>1. /\ Len(bb) = Len(b) + 1 /\ bb[Len(b) + 1] = t
      /\ \A i \in 1..Len(b) : bb[i] = b[i]
  BY AppendProperties
<1>2. /\ Len(aa) = Len(a) + 1 /\ aa[Len(a) + 1] = t
      /\ \A i \in 1..Len(a) : aa[i] = a[i]
  BY AppendProperties
<1> HIDE DEF aa, bb
<1>3. Len(b) <= Len(a) /\ Len(a) \in Nat /\ Len(b) \in Nat
  BY DEF Remembers
<1>4. ASSUME NEW i \in 1..Len(bb) PROVE bb[i] = aa[i + (Len(aa) - Len(bb))]
  <2>1. CASE i = Len(b) + 1
    BY <1>1, <1>2, <1>3, <2>1
  <2>2. CASE i \in 1..Len(b)
    <3>1. i + (Len(a) - Len(b)) \in 1..Len(a)
      BY <1>3, <2>2
    <3>2. b[i] = a[i + (Len(a) - Len(b))]
      BY <2>2 DEF Remembers
    <3>3. Len(aa) - Len(bb) = Len(a) - Len(b)
      BY <1>1, <1>2, <1>3
    <3>4. bb[i] = b[i] /\ aa[i + (Len(a) - Len(b))] = a[i + (Len(a) - Len(b))]
      BY <1>1, <1>2, <2>2, <3>1
    <3> QED BY <3>2, <3>3, <3>4
  <2> QED BY <1>1, <1>3, <2>1, <2>2
<1>5. ASSUME NEW i \in 1..(Len(aa) - Len(bb)) PROVE t - aa[i] > Window
  <2>1. i \in 1..(Len(a) - Len(b)) /\ i \in 1..Len(a)
    BY <1>1, <1>2, <1>3
  <2> QED BY <1>2, <2>1 DEF Remembers
<1>6. ASSUME NEW i \in 1..(Len(aa) - limit) PROVE aa[i + limit] - aa[i] > Window
  <2>1. CASE i + limit = Len(a) + 1
    <3>1. i \in 1..(Len(a) - Len(b)) /\ i \in 1..Len(a)
      BY <1>2, <1>3, <2>1
    <3> QED BY <1>2, <2>1, <3>1 DEF Remembers
  <2>2. CASE i + limit # Len(a) + 1
    <3>1. i \in 1..(Len(a) - limit) /\ i \in 1..Len(a) /\ i + limit \in 1..Len(a)
      BY <1>2, <1>3, <2>2
    <3> QED BY <1>2, <3>1 DEF Spread
  <2> QED BY <2>1, <2>2
<1>7. Remembers(bb, aa, limit, t)
  BY <1>1, <1>2, <1>3, <1>4, <1>5 DEF Remembers
<1>8. Spread(aa, limit)
  BY <1>6 DEF Spread
<1> QED BY <1>7, <1>8 DEF aa, bb

-----------------------------------------------------------------------------
(* The key of a request has a limit.                                       *)
LEMMA KeyTypes ==
  ASSUME NEW c \in Clients, NEW path \in Paths
  PROVE  KeyOf(c, path) \in Keys /\ Limit[KeyOf(c, path)[2]] \in Nat
<1>1. GroupForPath(path) \in Groups
  BY DEF GroupForPath, Groups
<1> QED BY <1>1, LimitAssumption DEF KeyOf, Keys

(* Empty buckets remember an empty history.                                *)
LEMMA InitLimiter == LimiterInit => LimiterInv
<1> SUFFICES ASSUME LimiterInit PROVE LimiterInv
  OBVIOUS
<1>1. LimiterTypeOK
  BY DEF LimiterInit, LimiterTypeOK
<1>2. ASSUME NEW k \in Keys
      PROVE  Remembers(hits[k], admitted[k], Limit[k[2]], now) /\ Spread(admitted[k], Limit[k[2]])
  <2>1. Limit[k[2]] \in Nat
    BY LimitAssumption DEF Keys
  <2> QED BY <2>1 DEF LimiterInit, Remembers, Spread
<1>3. RefusedOnlyWhenFull
  BY DEF LimiterInit, RefusedOnlyWhenFull
<1> QED BY <1>1, <1>2, <1>3 DEF LimiterInv

(* An admitted request keeps LimiterInv.                                   *)
LEMMA AdmitKeeps ==
  ASSUME LimiterInv, NEW c \in Clients, NEW path \in Paths, LetThrough(c, path)
  PROVE  LimiterInv'
<1> DEFINE k == KeyOf(c, path)
           e == Evict(hits[k], now)
<1>1. k \in Keys /\ Limit[k[2]] \in Nat
  BY KeyTypes
<1> HIDE DEF k
<1>2. hits[k] \in Seq(Nat) /\ admitted[k] \in Seq(Nat) /\ now \in Nat
  BY <1>1 DEF LimiterInv, LimiterTypeOK
<1>3. e \in Seq(Nat) /\ Remembers(e, admitted[k], Limit[k[2]], now)
  BY <1>1, <1>2, EvictIsSuffix, EvictRemembers DEF LimiterInv
<1>4. /\ Len(e) < Limit[k[2]]
      /\ hits' = [hits EXCEPT ![k] = Append(e, now)]
      /\ admitted' = [admitted EXCEPT ![k] = Append(@, now)]
      /\ last' = [key |-> k, at |-> now, passed |-> TRUE]
      /\ now' = now
  BY DEF LetThrough, HasRoom, k
<1> HIDE DEF e
<1>5. Spread(admitted[k], Limit[k[2]])
  BY <1>1 DEF LimiterInv
<1>6. /\ Remembers(Append(e, now), Append(admitted[k], now), Limit[k[2]], now)
      /\ Spread(Append(admitted[k], now), Limit[k[2]])
  BY <1>1, <1>2, <1>3, <1>4, <1>5, AppendRemembers
<1>7. Append(e, now) \in Seq(Nat) /\ Append(admitted[k], now) \in Seq(Nat)
  BY <1>2, <1>3
<1>8. LimiterTypeOK'
  BY <1>1, <1>2, <1>4, <1>7 DEF LimiterInv, LimiterTypeOK
<1>9. ASSUME NEW j \in Keys
      PROVE  Remembers(hits'[j], admitted'[j], Limit[j[2]], now') /\ Spread(admitted'[j], Limit[j[2]])
  <2>1. CASE j = k
    <3>1. hits'[j] = Append(e, now) /\ admitted'[j] = Append(admitted[k], now)
      BY <1>1, <1>4, <2>1 DEF LimiterInv, LimiterTypeOK
    <3> QED BY <1>4, <1>6, <2>1, <3>1
  <2>2. CASE j # k
    <3>1. hits'[j] = hits[j] /\ admitted'[j] = admitted[j]
      BY <1>1, <1>4, <2>2 DEF LimiterInv, LimiterTypeOK
    <3> QED BY <1>4, <3>1 DEF LimiterInv
  <2> QED BY <2>1, <2>2
<1>10. RefusedOnlyWhenFull'
  BY <1>4 DEF RefusedOnlyWhenFull
<1> QED BY <1>8, <1>9, <1>10 DEF LimiterInv

(* A refused request keeps LimiterInv.                                     *)
LEMMA RefuseKeeps ==
  ASSUME LimiterInv, NEW c \in Clients, NEW path \in Paths, TurnAway(c, path)
  PROVE  LimiterInv'
<1> DEFINE k == KeyOf(c, path)
           e == Evict(hits[k], now)
           a == admitted[k]
           limit == Limit[k[2]]
<1>1. k \in Keys /\ limit \in Nat
  BY KeyTypes
<1> HIDE DEF k
<1>2. hits[k] \in Seq(Nat) /\ a \in Seq(Nat) /\ now \in Nat
  BY <1>1 DEF LimiterInv, LimiterTypeOK
<1>3. e \in Seq(Nat) /\ Remembers(e, a, limit, now) /\ (Len(e) > 0 => now - e[1] <= Window)
  BY <1>1, <1>2, EvictIsSuffix, EvictRemembers DEF LimiterInv
<1>4. /\ ~(Len(e) < limit)
      /\ hits' = [hits EXCEPT ![k] = e]
      /\ admitted' = admitted
      /\ last' = [key |-> k, at |-> now, passed |-> FALSE]
      /\ now' = now
  BY DEF TurnAway, HasRoom, k
<1> HIDE DEF e
<1>5. LimiterTypeOK'
  BY <1>1, <1>2, <1>3, <1>4 DEF LimiterInv, LimiterTypeOK
<1>6. ASSUME NEW j \in Keys
      PROVE  Remembers(hits'[j], admitted'[j], Limit[j[2]], now') /\ Spread(admitted'[j], Limit[j[2]])
  <2>1. CASE j = k
    <3>1. hits'[j] = e
      BY <1>1, <1>4, <2>1 DEF LimiterInv, LimiterTypeOK
    <3> QED BY <1>3, <1>4, <2>1, <3>1 DEF LimiterInv
  <2>2. CASE j # k
    <3>1. hits'[j] = hits[j]
      BY <1>1, <1>4, <2>2 DEF LimiterInv, LimiterTypeOK
    <3> QED BY <1>4, <3>1 DEF LimiterInv
  <2> QED BY <2>1, <2>2
<1>7. Len(a) >= limit /\ (limit > 0 => now - a[Len(a) - limit + 1] <= Window)
  <2>1. Len(e) = limit /\ Len(e) <= Len(a) /\ Len(a) \in Nat
    BY <1>1, <1>2, <1>3, <1>4 DEF Remembers
  <2>2. ASSUME limit > 0 PROVE now - a[Len(a) - limit + 1] <= Window
    <3>1. e[1] = a[1 + (Len(a) - Len(e))]
      BY <1>1, <1>3, <2>1, <2>2 DEF Remembers
    <3>2. 1 + (Len(a) - Len(e)) = Len(a) - limit + 1
      BY <1>1, <2>1
    <3> QED BY <1>3, <2>1, <2>2, <3>1, <3>2
  <2> QED BY <2>1, <2>2
<1>8. RefusedOnlyWhenFull'
  <2>1. /\ last'.key = k /\ last'.at = now
        /\ admitted'[last'.key] = a
    BY <1>4
  <2> QED BY <1>7, <2>1 DEF RefusedOnlyWhenFull
<1> QED BY <1>5, <1>6, <1>8 DEF LimiterInv

(* The clock keeps LimiterInv.                                             *)
LEMMA TickKeeps == LimiterInv /\ Tick /\ UNCHANGED limiterVars => LimiterInv'
<1> SUFFICES ASSUME LimiterInv, Tick, UNCHANGED limiterVars PROVE LimiterInv'
  OBVIOUS
<1>1. now \in Nat /\ now' = now + 1 /\ hits' = hits /\ admitted' = admitted /\ last' = last
  BY DEF Tick, limiterVars, LimiterInv, LimiterTypeOK
<1>2. LimiterTypeOK'
  BY <1>1 DEF LimiterInv, LimiterTypeOK
<1>3. ASSUME NEW k \in Keys PROVE Remembers(hits'[k], admitted'[k], Limit[k[2]], now')
  <2>1. /\ Remembers(hits[k], admitted[k], Limit[k[2]], now)
        /\ hits[k] \in Seq(Nat) /\ admitted[k] \in Seq(Nat)
    BY DEF LimiterInv, LimiterTypeOK
  <2>2. Remembers(hits[k], admitted[k], Limit[k[2]], now + 1)
    BY <1>1, <2>1, AgeRemembers
  <2> QED BY <1>1, <2>2
<1>4. RefusedOnlyWhenFull'
  BY <1>1 DEF LimiterInv, RefusedOnlyWhenFull
<1> QED BY <1>1, <1>2, <1>3, <1>4 DEF LimiterInv

(* A restart keeps LimiterInv: buckets and history begin anew.             *)
LEMMA RestartKeeps == LimiterInv /\ ForgetHits => LimiterInv'
<1> SUFFICES ASSUME LimiterInv, ForgetHits PROVE LimiterInv'
  OBVIOUS
<1>1. LimiterTypeOK'
  BY DEF ForgetHits, LimiterInv, LimiterTypeOK
<1>2. ASSUME NEW k \in Keys
      PROVE  Remembers(hits'[k], admitted'[k], Limit[k[2]], now') /\ Spread(admitted'[k], Limit[k[2]])
  <2>1. Limit[k[2]] \in Nat
    BY LimitAssumption DEF Keys
  <2> QED BY <2>1 DEF ForgetHits, Remembers, Spread
<1>3. RefusedOnlyWhenFull'
  BY DEF ForgetHits, RefusedOnlyWhenFull
<1> QED BY <1>1, <1>2, <1>3 DEF LimiterInv

(* One step per action. *)
LEMMA LimiterStep == LimiterInv /\ [LimiterNext]_<<now, limiterVars>> => LimiterInv'
<1> SUFFICES ASSUME LimiterInv, [LimiterNext]_<<now, limiterVars>> PROVE LimiterInv'
  OBVIOUS
<1>1. ASSUME NEW c \in Clients, NEW path \in Paths, LetThrough(c, path) PROVE LimiterInv'
  BY <1>1, AdmitKeeps
<1>2. ASSUME NEW c \in Clients, NEW path \in Paths, TurnAway(c, path) PROVE LimiterInv'
  BY <1>2, RefuseKeeps
<1>3. CASE Tick /\ UNCHANGED limiterVars
  BY <1>3, TickKeeps
<1>4. CASE ForgetHits
  BY <1>4, RestartKeeps
<1>5. CASE UNCHANGED <<now, limiterVars>>
  BY <1>5 DEF limiterVars, LimiterInv, LimiterTypeOK, Remembers, Spread, RefusedOnlyWhenFull
<1> QED BY <1>1, <1>2, <1>3, <1>4, <1>5 DEF LimiterNext

(* LimiterInv always holds.                                                *)
LEMMA LimiterInvHolds == LimiterSpec => []LimiterInv
  BY InitLimiter, LimiterStep, PTL DEF LimiterSpec

(* For every window, limit and traffic: no interval of the length of the   *)
(* window holds more requests of a client and group than the limit.        *)
THEOREM WindowIsKept == LimiterSpec => []AtMostLimitPerWindow
<1>1. LimiterInv => AtMostLimitPerWindow
  BY DEF LimiterInv, Spread, AtMostLimitPerWindow
<1> QED BY <1>1, LimiterInvHolds, PTL

(* Nobody is refused for requests that are older than the window, that     *)
(* were refused themselves, or that belong to another client or group.     *)
THEOREM RefusalsAreJustified == LimiterSpec => []RefusedOnlyWhenFull
<1>1. LimiterInv => RefusedOnlyWhenFull
  BY DEF LimiterInv
<1> QED BY <1>1, LimiterInvHolds, PTL

(* The memory of a bucket is bounded by its limit. *)
THEOREM BucketsStayBounded == LimiterSpec => []BucketBounded
<1>1. LimiterInv => BucketBounded
  BY DEF LimiterInv, Remembers, BucketBounded
<1> QED BY <1>1, LimiterInvHolds, PTL

(* The variables keep their types. *)
THEOREM LimiterTypes == LimiterSpec => []LimiterTypeOK
<1>1. LimiterInv => LimiterTypeOK
  BY DEF LimiterInv
<1> QED BY <1>1, LimiterInvHolds, PTL

-----------------------------------------------------------------------------
(* No time stamp is ahead of the clock, and none of the key asked for last *)
(* is later than that request.                                             *)
UpTo(b, t) == \A i \in 1..Len(b) : b[i] <= t

StampInv ==
  /\ \A k \in Keys : UpTo(hits[k], now)
  /\ last # Nothing => UpTo(hits[last.key], last.at)

(* Eviction adds no stamp.                                                 *)
LEMMA EvictUpTo ==
  ASSUME NEW b \in Seq(Nat), NEW t \in Nat, UpTo(b, t)
  PROVE  UpTo(Evict(b, t), t)
<1> DEFINE e == Evict(b, t)
           n == Expired(b, t)
<1>1. n \in 0..Len(b)
  BY ExpiredIsPrefix
<1>2. Len(e) = Len(b) - n /\ \A i \in 1..Len(e) : e[i] = b[i + n]
  BY EvictIsSuffix
<1> HIDE DEF e, n
<1>3. ASSUME NEW i \in 1..Len(e) PROVE e[i] <= t
  <2>1. i + n \in 1..Len(b)
    BY <1>1, <1>2
  <2>2. b[i + n] <= t
    BY <2>1 DEF UpTo
  <2> QED BY <1>2, <2>2
<1> QED BY <1>3 DEF UpTo, e

(* No stamp gets ahead of the clock or of the request last refused.        *)
LEMMA StampInvStep ==
  LimiterInv /\ StampInv /\ [LimiterNext]_<<now, limiterVars>> => StampInv'
<1> SUFFICES ASSUME LimiterInv, StampInv, [LimiterNext]_<<now, limiterVars>> PROVE StampInv'
  OBVIOUS
<1>1. ASSUME NEW c \in Clients, NEW path \in Paths, LetThrough(c, path) \/ TurnAway(c, path)
      PROVE  StampInv'
  <2> DEFINE k == KeyOf(c, path)
             e == Evict(hits[k], now)
  <2>1. k \in Keys
    BY KeyTypes
  <2>2. hits \in [Keys -> Seq(Nat)] /\ hits[k] \in Seq(Nat) /\ now \in Nat
    BY <2>1 DEF LimiterInv, LimiterTypeOK
  <2>3. e \in Seq(Nat) /\ UpTo(e, now)
    BY <2>1, <2>2, EvictIsSuffix, EvictUpTo DEF StampInv
  <2>4. PICK b \in {e, Append(e, now)} : hits' = [hits EXCEPT ![k] = b]
    BY <1>1 DEF LetThrough, TurnAway
  <2>5. last'.key = k /\ last'.at = now /\ now' = now
    BY <1>1 DEF LetThrough, TurnAway
  <2> HIDE DEF e, k
  <2>6. UpTo(Append(e, now), now)
    <3>1. /\ Len(Append(e, now)) = Len(e) + 1 /\ Append(e, now)[Len(e) + 1] = now
          /\ \A i \in 1..Len(e) : Append(e, now)[i] = e[i]
      BY <2>2, <2>3, AppendProperties
    <3> QED BY <2>2, <2>3, <3>1 DEF UpTo
  <2>7. UpTo(b, now)
    BY <2>3, <2>4, <2>6
  <2>8. ASSUME NEW j \in Keys PROVE UpTo(hits'[j], now)
    BY <2>1, <2>2, <2>4, <2>7 DEF StampInv
  <2> QED BY <2>1, <2>5, <2>8 DEF StampInv
<1>2. CASE Tick /\ UNCHANGED limiterVars
  <2>1. now \in Nat /\ now' = now + 1 /\ hits' = hits /\ last' = last
    BY <1>2 DEF Tick, limiterVars, LimiterInv, LimiterTypeOK
  <2>2. ASSUME NEW k \in Keys PROVE UpTo(hits[k], now + 1)
    <3>1. hits[k] \in Seq(Nat) /\ UpTo(hits[k], now)
      BY DEF LimiterInv, LimiterTypeOK, StampInv
    <3>2. \A i \in 1..Len(hits[k]) : hits[k][i] \in Nat
      BY <3>1, ElementOfSeq
    <3> QED BY <2>1, <3>1, <3>2 DEF UpTo
  <2> QED BY <2>1, <2>2 DEF StampInv
<1>3. CASE ForgetHits
  BY <1>3 DEF ForgetHits, StampInv, UpTo
<1>4. CASE UNCHANGED <<now, limiterVars>>
  BY <1>4 DEF limiterVars, StampInv, UpTo
<1> QED BY <1>1, <1>2, <1>3, <1>4 DEF LimiterNext

(* StampInv always holds.                                                  *)
LEMMA StampInvHolds == LimiterSpec => []StampInv
<1>1. LimiterInit => StampInv
  BY DEF LimiterInit, StampInv, UpTo
<1> QED BY <1>1, StampInvStep, LimiterInvHolds, PTL DEF LimiterSpec

(* Whoever waits for longer than the Retry-After of a refusal is served.   *)
THEOREM WaitingIsRewarded == LimiterSpec => []RetryAfterSuffices
<1>1. ASSUME LimiterInv, StampInv, last # Nothing, now - last.at > Window, Limit[last.key[2]] > 0
      PROVE  HasRoom(Evict(hits[last.key], now), last.key)
  <2> DEFINE k == last.key
             e == Evict(hits[k], now)
             n == Expired(hits[k], now)
  <2>1. k \in Keys /\ last.at \in Nat /\ now \in Nat
    BY <1>1 DEF LimiterInv, LimiterTypeOK
  <2>2. hits[k] \in Seq(Nat) /\ Limit[k[2]] \in Nat
    BY <1>1, <2>1, LimitAssumption DEF LimiterInv, LimiterTypeOK, Keys
  <2>3. n \in 0..Len(hits[k])
    BY <2>1, <2>2, ExpiredIsPrefix
  <2>4. /\ e \in Seq(Nat) /\ Len(e) = Len(hits[k]) - n
        /\ \A i \in 1..Len(e) : e[i] = hits[k][i + n]
        /\ Len(e) > 0 => now - e[1] <= Window
    BY <2>1, <2>2, EvictIsSuffix
  <2>5. UpTo(hits[k], last.at)
    BY <1>1 DEF StampInv
  <2> HIDE DEF e, n, k
  <2>6. ASSUME Len(e) > 0 PROVE FALSE
    <3>1. 1 + n \in 1..Len(hits[k]) /\ e[1] = hits[k][1 + n] /\ e[1] \in Nat
      BY <2>2, <2>3, <2>4, <2>6, ElementOfSeq
    <3>2. e[1] <= last.at
      BY <2>5, <3>1 DEF UpTo
    <3> QED BY <1>1, <2>1, <2>4, <2>6, <3>1, <3>2, WindowAssumption
  <2>7. Len(e) = 0
    BY <2>4, <2>6
  <2> QED BY <1>1, <2>7 DEF HasRoom, e, k
<1>2. LimiterInv /\ StampInv => RetryAfterSuffices
  BY <1>1 DEF RetryAfterSuffices
<1> QED BY <1>2, LimiterInvHolds, StampInvHolds, PTL
=============================================================================
