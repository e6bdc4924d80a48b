----------------------- MODULE BandwidthGovernorProofs -----------------------
(***************************************************************************)
(* Theorems about BandwidthGovernor, for any number of threads, calls,     *)
(* samples and speeds, and any window.                                     *)
(***************************************************************************)
EXTENDS BandwidthGovernor, SequenceTheorems, WellFoundedInduction, TLAPS

LOCAL INSTANCE FiniteSetsExt

-----------------------------------------------------------------------------
(* Natural numbers and sums.                                               *)

\* The least-number principle, for sets: what induction there is here.
LEMMA LeastNat ==
    ASSUME NEW T, T \subseteq Nat, T # {}
    PROVE  \E x \in T : \A y \in T : x <= y
<1>1. OpToRel(<, Nat) = {ss \in Nat \X Nat : ss[1] < ss[2]}
  BY DEF OpToRel
<1>2. \E x \in T : \A y \in T : <<y, x>> \notin OpToRel(<, Nat)
  BY NatLessThanWellFounded, WFMin
<1>3. \A x, y \in T : <<y, x>> \notin {ss \in Nat \X Nat : ss[1] < ss[2]} => x <= y
  OBVIOUS
<1>. QED  BY <1>1, <1>2, <1>3

LEMMA Inductive ==
    ASSUME NEW T, 0 \in T, \A n \in Nat : n \in T => n + 1 \in T
    PROVE  Nat \subseteq T
<1> SUFFICES ASSUME Nat \ T # {} PROVE FALSE
  OBVIOUS
<1>1. PICK x \in Nat \ T : \A y \in Nat \ T : x <= y
  BY LeastNat
<1>2. x # 0 /\ x - 1 \in Nat /\ x - 1 \notin Nat \ T
  BY <1>1
<1>. QED  BY <1>1, <1>2

\* f holds the sums of the first counts, up to m of them.
IsSum(f, counts, m) ==
    f = [n \in 0 .. m |-> IF n = 0 THEN 0 ELSE f[n - 1] + counts[n]]

LEMMA SumsExist ==
    ASSUME NEW counts
    PROVE  \A m \in Nat : \E f : IsSum(f, counts, m)
<1> DEFINE T == {m \in Nat : \E f : IsSum(f, counts, m)}
<1>1. 0 \in T
  <2>1. IsSum([n \in 0 .. 0 |-> 0], counts, 0)
    BY DEF IsSum
  <2>. QED  BY <2>1
<1>2. ASSUME NEW m \in Nat, m \in T
      PROVE  m + 1 \in T
  <2>1. PICK f : IsSum(f, counts, m)
    BY <1>2
  <2> DEFINE g == [n \in 0 .. m + 1 |-> IF n = m + 1 THEN f[m] + counts[m + 1] ELSE f[n]]
  <2>2. \A n \in 0 .. m : f[n] = IF n = 0 THEN 0 ELSE f[n - 1] + counts[n]
    BY <2>1 DEF IsSum
  <2>3. \A n \in 0 .. m + 1 : g[n] = IF n = 0 THEN 0 ELSE g[n - 1] + counts[n]
    BY <2>2
  <2>4. IsSum(g, counts, m + 1)
    BY <2>3 DEF IsSum
  <2>. QED  BY <2>4
<1> HIDE DEF T
<1>3. Nat \subseteq T
  BY <1>1, <1>2, Inductive
<1>. QED  BY <1>3 DEF T

\* Total(counts) is the last of the sums.
LEMMA TotalIs ==
    ASSUME NEW counts, Len(counts) \in Nat
    PROVE  \E f : /\ Total(counts) = f[Len(counts)]
                  /\ \A n \in 0 .. Len(counts) :
                        f[n] = IF n = 0 THEN 0 ELSE f[n - 1] + counts[n]
<1> DEFINE g == CHOOSE f : f = [n \in 0 .. Len(counts) |-> IF n = 0 THEN 0 ELSE f[n - 1] + counts[n]]
<1>1. \E f : f = [n \in 0 .. Len(counts) |-> IF n = 0 THEN 0 ELSE f[n - 1] + counts[n]]
  BY SumsExist DEF IsSum
<1>2. g = [n \in 0 .. Len(counts) |-> IF n = 0 THEN 0 ELSE g[n - 1] + counts[n]]
  BY <1>1
<1>3. Total(counts) = g[Len(counts)]
  BY DEF Total
<1> HIDE DEF g
<1>4. \A n \in 0 .. Len(counts) : g[n] = IF n = 0 THEN 0 ELSE g[n - 1] + counts[n]
  BY <1>2
<1>. QED  BY <1>3, <1>4

\* Counts before which there are only zeros have the same total.
LEMMA TotalOfSuffix ==
    ASSUME NEW c, NEW d, Len(c) \in Nat, NEW k \in Nat, Len(d) = k + Len(c),
           \A i \in 1 .. k : d[i] = 0,
           \A i \in 1 .. Len(c) : d[k + i] = c[i]
    PROVE  Total(d) = Total(c)
<1>1. PICK f : /\ Total(c) = f[Len(c)]
               /\ \A n \in 0 .. Len(c) : f[n] = IF n = 0 THEN 0 ELSE f[n - 1] + c[n]
  BY TotalIs
<1>2. PICK g : /\ Total(d) = g[Len(d)]
               /\ \A n \in 0 .. Len(d) : g[n] = IF n = 0 THEN 0 ELSE g[n - 1] + d[n]
  <2>1. Len(d) \in Nat
    OBVIOUS
  <2>. QED  BY <2>1, TotalIs
<1>3. g[k] = 0
  <2> DEFINE T == {n \in Nat : n <= k => g[n] = 0}
  <2>1. 0 \in T
    BY <1>2
  <2>2. \A n \in Nat : n \in T => n + 1 \in T
    <3> SUFFICES ASSUME NEW n \in Nat, n \in T, n + 1 <= k PROVE g[n + 1] = 0
      OBVIOUS
    <3>1. n + 1 \in 0 .. Len(d) /\ n + 1 # 0 /\ (n + 1) - 1 = n /\ d[n + 1] = 0 /\ g[n] = 0
      OBVIOUS
    <3>. QED  BY <1>2, <3>1
  <2> HIDE DEF T
  <2>3. k \in T
    BY <2>1, <2>2, Inductive
  <2>. QED  BY <2>3 DEF T
<1>4. g[k + Len(c)] = f[Len(c)]
  <2> DEFINE T == {n \in Nat : n <= Len(c) => g[k + n] = f[n]}
  <2>1. 0 \in T
    BY <1>1, <1>3
  <2>2. \A n \in Nat : n \in T => n + 1 \in T
    <3> SUFFICES ASSUME NEW n \in Nat, n \in T, n + 1 <= Len(c) PROVE g[k + (n + 1)] = f[n + 1]
      OBVIOUS
    <3>1. /\ n + 1 \in 0 .. Len(c) /\ n + 1 # 0 /\ (n + 1) - 1 = n
          /\ k + (n + 1) \in 0 .. Len(d) /\ k + (n + 1) # 0 /\ (k + (n + 1)) - 1 = k + n
          /\ d[k + (n + 1)] = c[n + 1] /\ g[k + n] = f[n]
      OBVIOUS
    <3>2. g[k + (n + 1)] = g[k + n] + d[k + (n + 1)]
      BY <1>2, <3>1
    <3>3. f[n + 1] = f[n] + c[n + 1]
      BY <1>1, <3>1
    <3>. QED  BY <3>1, <3>2, <3>3
  <2> HIDE DEF T
  <2>3. Len(c) \in T
    BY <2>1, <2>2, Inductive
  <2>. QED  BY <2>3 DEF T
<1>. QED  BY <1>1, <1>2, <1>4

\* A function on the first n numbers is a sequence.
LEMMA LenOf ==
    ASSUME NEW S, NEW n \in Nat, NEW f \in [1 .. n -> S]
    PROVE  f \in Seq(S) /\ Len(f) = n
<1>1. f \in Seq(S)
  BY SeqDef
<1>. QED  BY <1>1, LenProperties

-----------------------------------------------------------------------------
(* Buckets.                                                                *)

\* s is r without its first k samples.
Without(s, r, k) == Len(s) = Len(r) - k /\ \A i \in 1 .. Len(s) : s[i] = r[k + i]

\* At m only samples that have left the window are missing from s.
Kept(m, s, r) ==
    \E k \in 0 .. Len(r) : Without(s, r, k) /\ \A i \in 1 .. k : r[i].at < m - Window

\* Stamped one after the other, under the bucket's lock.
InOrder(m, r) ==
    /\ \A i, j \in 1 .. Len(r) : i <= j => r[i].at <= r[j].at
    /\ \A i \in 1 .. Len(r) : r[i].at <= m

LEMMA Evicted ==
    ASSUME NEW samples \in Seq(Sample), now \in Nat
    PROVE  /\ Evict(samples) \in Seq(Sample)
           /\ \E k \in 0 .. Len(samples) :
                 /\ Without(Evict(samples), samples, k)
                 /\ \A i \in 1 .. k : samples[i].at < now - Window
                 /\ k < Len(samples) => samples[k + 1].at >= now - Window
<1> DEFINE fresh == {i \in DOMAIN samples : samples[i].at >= now - Window}
<1>1. /\ Len(samples) \in Nat /\ DOMAIN samples = 1 .. Len(samples)
      /\ \A i \in 1 .. Len(samples) : samples[i] \in Sample /\ samples[i].at \in Nat
  <2>1. Len(samples) \in Nat /\ DOMAIN samples = 1 .. Len(samples)
    BY LenProperties
  <2>2. \A i \in 1 .. Len(samples) : samples[i] \in Sample
    BY ElementOfSeq
  <2>. QED  BY <2>1, <2>2 DEF Sample
<1>2. CASE fresh = {}
  <2>1. Evict(samples) = <<>>
    BY <1>2 DEF Evict
  <2>2. \A i \in 1 .. Len(samples) : samples[i].at < now - Window
    BY <1>1, <1>2, GovernorAssumption
  <2>3. Without(<<>>, samples, Len(samples))
    BY <1>1, EmptySeq DEF Without
  <2>. QED  BY <1>1, <2>1, <2>2, <2>3, EmptySeq
<1>3. CASE fresh # {}
  <2> DEFINE m == Min(fresh)
  <2>1. m \in fresh /\ \A y \in fresh : m <= y
    <3>1. fresh \subseteq Nat
      BY <1>1
    <3> HIDE DEF fresh
    <3>2. \E x \in fresh : \A y \in fresh : x <= y
      BY <1>3, <3>1, LeastNat
    <3>. QED  BY <3>2 DEF Min
  <2>2. Evict(samples) = SubSeq(samples, m, Len(samples))
    BY <1>3 DEF Evict
  <2> HIDE DEF m
  <2>3. m \in 1 .. Len(samples) /\ samples[m].at >= now - Window
    BY <1>1, <2>1
  <2>4. /\ SubSeq(samples, m, Len(samples)) \in Seq(Sample)
        /\ Len(SubSeq(samples, m, Len(samples))) = Len(samples) - m + 1
        /\ \A i \in 1 .. Len(samples) - m + 1 :
              SubSeq(samples, m, Len(samples))[i] = samples[m + i - 1]
    BY <1>1, <2>3, SubSeqProperties
  <2>5. \A i \in 1 .. m - 1 : samples[i].at < now - Window
    BY <1>1, <2>1, <2>3, GovernorAssumption
  <2>6. Without(SubSeq(samples, m, Len(samples)), samples, m - 1)
    BY <1>1, <2>3, <2>4 DEF Without
  <2>7. m - 1 \in 0 .. Len(samples) /\ (m - 1) + 1 = m
    BY <1>1, <2>3
  <2>. QED  BY <2>2, <2>3, <2>4, <2>5, <2>6, <2>7
<1>. QED  BY <1>2, <1>3

\* Nothing comes back into the window.
LEMMA KeptLater ==
    ASSUME NEW m \in Nat, NEW s, NEW r \in Seq(Sample), Kept(m, s, r), InOrder(m, r)
    PROVE  Kept(m + 1, s, r) /\ InOrder(m + 1, r)
<1>1. Len(r) \in Nat /\ \A i \in 1 .. Len(r) : r[i].at \in Nat
  <2>1. Len(r) \in Nat
    BY LenProperties
  <2>2. \A i \in 1 .. Len(r) : r[i] \in Sample
    BY ElementOfSeq
  <2>. QED  BY <2>1, <2>2 DEF Sample
<1>2. PICK k \in 0 .. Len(r) : Without(s, r, k) /\ \A i \in 1 .. k : r[i].at < m - Window
  BY DEF Kept
<1>3. \A i \in 1 .. k : r[i].at < (m + 1) - Window
  BY <1>1, <1>2, GovernorAssumption
<1>4. InOrder(m + 1, r)
  BY <1>1 DEF InOrder
<1>. QED  BY <1>2, <1>3, <1>4 DEF Kept

LEMMA KeptEvicted ==
    ASSUME now \in Nat, NEW s \in Seq(Sample), NEW r \in Seq(Sample), Kept(now, s, r)
    PROVE  Kept(now, Evict(s), r)
<1>1. PICK k \in 0 .. Len(r) : Without(s, r, k) /\ \A i \in 1 .. k : r[i].at < now - Window
  BY DEF Kept
<1>2. PICK j \in 0 .. Len(s) : /\ Without(Evict(s), s, j)
                               /\ \A i \in 1 .. j : s[i].at < now - Window
  BY Evicted
<1>3. Len(r) \in Nat /\ Len(s) \in Nat /\ Len(Evict(s)) \in Nat
  BY Evicted, LenProperties
<1>4. k + j \in 0 .. Len(r)
  BY <1>1, <1>3 DEF Without
<1>5. Without(Evict(s), r, k + j)
  BY <1>1, <1>2, <1>3 DEF Without
<1>6. ASSUME NEW i \in 1 .. k + j
      PROVE  r[i].at < now - Window
  <2>1. CASE i <= k
    BY <1>1, <2>1
  <2>2. CASE i > k
    <3>1. i - k \in 1 .. j /\ i - k \in 1 .. Len(s) /\ k + (i - k) = i
      BY <1>3, <2>2
    <3>2. r[i] = s[i - k]
      BY <1>1, <3>1 DEF Without
    <3>. QED  BY <1>2, <3>1, <3>2
  <2>. QED  BY <2>1, <2>2
<1>. QED  BY <1>4, <1>5, <1>6 DEF Kept

LEMMA KeptAppended ==
    ASSUME now \in Nat, NEW s \in Seq(Sample), NEW r \in Seq(Sample), Kept(now, s, r), InOrder(now, r),
           NEW x \in Sample, x.at = now
    PROVE  Kept(now, Append(s, x), Append(r, x)) /\ InOrder(now, Append(r, x))
<1>1. PICK k \in 0 .. Len(r) : Without(s, r, k) /\ \A i \in 1 .. k : r[i].at < now - Window
  BY DEF Kept
<1>2. /\ Len(r) \in Nat /\ Len(s) \in Nat
      /\ Len(Append(r, x)) = Len(r) + 1 /\ Len(Append(s, x)) = Len(s) + 1
      /\ \A i \in 1 .. Len(r) : Append(r, x)[i] = r[i]
      /\ \A i \in 1 .. Len(s) : Append(s, x)[i] = s[i]
      /\ Append(r, x)[Len(r) + 1] = x /\ Append(s, x)[Len(s) + 1] = x
  BY LenProperties, AppendProperties
<1>3. Without(Append(s, x), Append(r, x), k)
  <2>1. Len(s) = Len(r) - k /\ \A i \in 1 .. Len(s) : s[i] = r[k + i]
    BY <1>1 DEF Without
  <2>2. ASSUME NEW i \in 1 .. Len(s) + 1
        PROVE  Append(s, x)[i] = Append(r, x)[k + i]
    <3>1. CASE i = Len(s) + 1
      <4>1. k + i = Len(r) + 1
        BY <1>2, <2>1, <3>1
      <4>. QED  BY <1>2, <3>1, <4>1
    <3>2. CASE i \in 1 .. Len(s)
      <4>1. k + i \in 1 .. Len(r)
        BY <1>2, <2>1, <3>2
      <4>2. Append(s, x)[i] = s[i]
        BY <1>2, <3>2
      <4>3. Append(r, x)[k + i] = r[k + i]
        BY <1>2, <4>1
      <4>4. s[i] = r[k + i]
        BY <2>1, <3>2
      <4>. QED  BY <4>2, <4>3, <4>4
    <3>3. i = Len(s) + 1 \/ i \in 1 .. Len(s)
      BY <1>2
    <3>. QED  BY <3>1, <3>2, <3>3, Zenon
  <2>3. Len(Append(s, x)) = Len(Append(r, x)) - k
    BY <1>2, <2>1
  <2>. QED  BY <1>2, <2>2, <2>3 DEF Without
<1>4. \A i \in 1 .. k : Append(r, x)[i].at < now - Window
  BY <1>1, <1>2
<1>5. Kept(now, Append(s, x), Append(r, x))
  BY <1>2, <1>3, <1>4 DEF Kept
<1>6. InOrder(now, Append(r, x))
  BY <1>2 DEF InOrder
<1>. QED  BY <1>5, <1>6

\* What counts as recent of all that was recorded, by the sample.
Since(r) == [i \in DOMAIN r |-> IF r[i].at >= now - Window /\ r[i].category = "bulk"
                                  THEN r[i].bytes ELSE 0]

\* What is left of a bucket when it was cleaned up is what was recorded since.
LEMMA RecentIs ==
    ASSUME now \in Nat, NEW s \in Seq(Sample), NEW r \in Seq(Sample), Kept(now, s, r), InOrder(now, r)
    PROVE  Bytes(Evict(s), "bulk") = Total(Since(r))
<1> DEFINE e == Evict(s)
           c == [i \in DOMAIN e |-> IF e[i].category = "bulk" THEN e[i].bytes ELSE 0]
<1>1. e \in Seq(Sample)
  BY Evicted
<1>2. PICK k \in 0 .. Len(r) : Without(e, r, k) /\ \A i \in 1 .. k : r[i].at < now - Window
  BY KeptEvicted DEF Kept
<1>3. e # <<>> => e[1].at >= now - Window
  <2>1. PICK j \in 0 .. Len(s) : /\ Without(e, s, j)
                                 /\ j < Len(s) => s[j + 1].at >= now - Window
    BY Evicted
  <2>2. Len(s) \in Nat /\ Len(e) \in Nat /\ (e # <<>> => Len(e) > 0)
    BY <1>1, LenProperties, EmptySeq
  <2>. QED  BY <2>1, <2>2 DEF Without
<1> HIDE DEF e
<1>4. /\ Len(e) \in Nat /\ DOMAIN e = 1 .. Len(e) /\ Len(r) \in Nat /\ DOMAIN r = 1 .. Len(r)
      /\ (Len(e) = 0 \/ e # <<>>) /\ Len(r) = k + Len(e)
  <2>1. /\ Len(e) \in Nat /\ DOMAIN e = 1 .. Len(e) /\ Len(r) \in Nat /\ DOMAIN r = 1 .. Len(r)
    BY <1>1, LenProperties
  <2>2. Len(e) = 0 \/ e # <<>>
    BY EmptySeq
  <2>. QED  BY <1>2, <2>1, <2>2 DEF Without
<1>5. \A i \in 1 .. Len(r) : r[i].at \in Nat /\ r[i].bytes \in Nat
  <2>1. \A i \in 1 .. Len(r) : r[i] \in Sample
    BY ElementOfSeq
  <2>. QED  BY <2>1 DEF Sample
<1>6. ASSUME NEW i \in 1 .. Len(e)
      PROVE  r[k + i] = e[i] /\ r[k + i].at >= now - Window
  <2>1. r[k + i] = e[i] /\ r[k + 1] = e[1]
    BY <1>2, <1>4 DEF Without
  <2>2. r[k + 1].at >= now - Window
    BY <1>3, <1>4, <2>1
  <2>3. r[k + 1].at <= r[k + i].at
    BY <1>4 DEF InOrder
  <2>4. r[k + 1].at \in Nat /\ r[k + i].at \in Nat
    BY <1>4, <1>5
  <2>5. \A x, y \in Nat : x >= now - Window /\ x <= y => y >= now - Window
    BY GovernorAssumption
  <2>6. r[k + i].at >= now - Window
    BY <2>2, <2>3, <2>4, <2>5
  <2>. QED  BY <2>1, <2>6
<1>7. /\ c \in [1 .. Len(e) -> Nat] /\ Since(r) \in [1 .. Len(r) -> Nat]
  <2>1. \A i \in 1 .. Len(e) : e[i].bytes \in Nat
    BY <1>4, <1>5, <1>6
  <2>. QED  BY <1>4, <1>5, <2>1 DEF Since
<1>8. Len(c) = Len(e) /\ Len(Since(r)) = Len(r)
  BY <1>4, <1>7, LenOf
<1>9. \A i \in 1 .. k : Since(r)[i] = 0
  BY <1>2, <1>4, <1>5, GovernorAssumption DEF Since
<1>10. \A i \in 1 .. Len(c) : Since(r)[k + i] = c[i]
  BY <1>4, <1>6, <1>8 DEF Since
<1>11. Total(Since(r)) = Total(c)
  <2>1. Len(c) \in Nat /\ k \in Nat /\ Len(Since(r)) = k + Len(c)
    BY <1>4, <1>8
  <2> HIDE DEF c
  <2>. QED  BY <1>9, <1>10, <2>1, TotalOfSuffix
<1>12. Bytes(e, "bulk") = Total(c)
  BY DEF Bytes
<1>. QED  BY <1>11, <1>12 DEF e

-----------------------------------------------------------------------------
(* The governor.                                                           *)

\* A bucket that is no longer in the table was removed; every bucket holds what
\* was recorded in it lately.
GovernorInv ==
    /\ GovernorTypeOK
    /\ Len(buckets) <= removals + (IF bucket = 0 THEN 0 ELSE 1)
    /\ \A b \in 1 .. Len(buckets) : Kept(now, buckets[b], recorded[b]) /\ InOrder(now, recorded[b])

LEMMA GovernorInvInit == GovernorInit => GovernorInv
<1> SUFFICES ASSUME GovernorInit PROVE GovernorInv
  OBVIOUS
<1>1. NoCall \in Call
  BY DEF NoCall, Call, Sample, Categories
<1>2. /\ buckets \in Seq(Seq(Sample)) /\ Len(buckets) = 0
      /\ recorded \in Seq(Seq(Sample)) /\ Len(recorded) = 0
  BY EmptySeq DEF GovernorInit
<1>3. \A t \in Callers : calls[t].at # "use"
  BY DEF GovernorInit, NoCall
<1>. QED  BY <1>1, <1>2, <1>3, GovernorAssumption DEF GovernorInit, GovernorInv, GovernorTypeOK

\* A call that goes on, or returns, touches no bucket.
LEMMA OnlyCalls ==
    ASSUME GovernorInv, NEW t \in Callers, NEW r \in Call, r.at # "use", Becomes(t, r),
           UNCHANGED <<now, buckets, bucket, recorded, removals>>,
           warned' \subseteq {"slow", "saturated"}
    PROVE  GovernorInv'
<1>1. calls' \in [Callers -> Call]
  BY DEF Becomes, GovernorInv, GovernorTypeOK
<1>2. \A u \in Callers : calls'[u].at = "use" => calls'[u] = calls[u]
  BY DEF Becomes, GovernorInv, GovernorTypeOK
<1>3. GovernorTypeOK'
  BY <1>1, <1>2 DEF GovernorInv, GovernorTypeOK
<1>4. \A b \in 1 .. Len(buckets) : (Kept(now, buckets[b], recorded[b]) /\ InOrder(now, recorded[b]))'
  BY DEF GovernorInv
<1>. QED  BY <1>3, <1>4 DEF GovernorInv

\* A call uses a bucket, and goes on or returns.
LEMMA BucketUsed ==
    ASSUME GovernorInv, NEW t \in Callers, NEW r \in Call, r.at # "use", Becomes(t, r),
           UNCHANGED <<now, bucket, warned, removals>>, NEW b \in 1 .. Len(buckets),
           NEW s \in Seq(Sample), NEW x \in Seq(Sample), Kept(now, s, x), InOrder(now, x),
           buckets' = [buckets EXCEPT ![b] = s], recorded' = [recorded EXCEPT ![b] = x]
    PROVE  GovernorInv'
<1>1. /\ calls \in [Callers -> Call] /\ bucket \in 0 .. Len(buckets)
      /\ buckets \in Seq(Seq(Sample)) /\ recorded \in Seq(Seq(Sample))
      /\ Len(recorded) = Len(buckets)
  BY DEF GovernorInv, GovernorTypeOK
<1>2. /\ buckets' \in Seq(Seq(Sample)) /\ Len(buckets') = Len(buckets)
      /\ recorded' \in Seq(Seq(Sample)) /\ Len(recorded') = Len(buckets)
      /\ \A c \in 1 .. Len(buckets) : /\ buckets'[c] = IF c = b THEN s ELSE buckets[c]
                                      /\ recorded'[c] = IF c = b THEN x ELSE recorded[c]
  BY <1>1, ExceptSeq
<1>3. calls' \in [Callers -> Call]
  BY <1>1 DEF Becomes
<1>4. \A u \in Callers : calls'[u].at = "use" => calls'[u] = calls[u]
  BY <1>1 DEF Becomes
<1>5. ASSUME NEW c \in 1 .. Len(buckets)
      PROVE  Kept(now, buckets[c], recorded[c])' /\ InOrder(now, recorded[c])'
  BY <1>2 DEF GovernorInv
<1>. QED  BY <1>1, <1>2, <1>3, <1>4, <1>5 DEF GovernorInv, GovernorTypeOK

LEMMA GovernorInvStep ==
    ASSUME GovernorInv, [GovernorNext]_governorVars
    PROVE  GovernorInv'
<1>1. /\ now \in Nat /\ calls \in [Callers -> Call] /\ NoCall \in Call /\ NoCall.at = "idle"
      /\ buckets \in Seq(Seq(Sample)) /\ recorded \in Seq(Seq(Sample))
      /\ Len(buckets) \in Nat /\ Len(recorded) = Len(buckets)
      /\ warned \subseteq {"slow", "saturated"}
  BY GovernorAssumption, LenProperties
  DEF GovernorInv, GovernorTypeOK, NoCall, Call, Sample, Categories
<1>2. CASE UNCHANGED governorVars
  BY <1>2 DEF governorVars, GovernorInv, GovernorTypeOK
<1>3. CASE Tick
  <2>1. /\ now' = now + 1 /\ now' \in 0 .. MaxNow
        /\ UNCHANGED <<buckets, bucket, warned, calls, recorded, removals>>
    BY <1>1, <1>3, GovernorAssumption DEF Tick
  <2>2. ASSUME NEW b \in 1 .. Len(buckets)
        PROVE  Kept(now, buckets[b], recorded[b])' /\ InOrder(now, recorded[b])'
    <3>1. recorded[b] \in Seq(Sample)
      BY <1>1, ElementOfSeq
    <3>2. Kept(now, buckets[b], recorded[b]) /\ InOrder(now, recorded[b])
      BY DEF GovernorInv
    <3>3. Kept(now + 1, buckets[b], recorded[b]) /\ InOrder(now + 1, recorded[b])
      BY <1>1, <3>1, <3>2, KeptLater
    <3>. QED  BY <2>1, <3>3
  <2>. QED  BY <2>1, <2>2 DEF GovernorInv, GovernorTypeOK
<1>4. ASSUME NEW t \in Callers, RecordTransfer(t) \/ CheckTransfer(t) \/ GetStats(t)
      PROVE  GovernorInv'
  <2>1. \E r \in Call : r.at # "use" /\ Enters(t, r)
    <3>1. CASE RecordTransfer(t)
      <4>1. PICK n \in Sizes, category \in Categories :
               Enters(t, [NoCall EXCEPT !.op = "record", !.at = "bucket",
                                 !.sample = [at |-> now, bytes |-> n, category |-> category]])
        BY <3>1 DEF RecordTransfer
      <4>. QED  BY <1>1, <4>1, GovernorAssumption DEF NoCall, Call, Sample, Categories
    <3>2. CASE CheckTransfer(t)
      <4>1. PICK expected \in Speeds, interface \in Speeds, file \in Sizes :
               LET bps == EffectiveRate(expected, interface) IN
               Enters(t, IF Tier(bps) = "offline" THEN NoCall
                         ELSE [NoCall EXCEPT !.op = "check", !.at = "bucket",
                                      !.interface = interface, !.slow = WarnSlow(bps, file)])
        BY <3>2 DEF CheckTransfer
      <4>2. WarnSlow(EffectiveRate(expected, interface), file) \in BOOLEAN
        BY DEF WarnSlow
      <4>. QED  BY <1>1, <4>1, <4>2, GovernorAssumption DEF NoCall, Call, Sample, Categories
    <3>3. CASE GetStats(t)
      BY <1>1, <3>3 DEF GetStats, NoCall, Call, Sample, Categories
    <3>. QED  BY <1>4, <3>1, <3>2, <3>3
  <2>. QED  BY <1>1, <2>1, OnlyCalls DEF Enters
<1>5. ASSUME NEW t \in Callers, RemovePeer(t)
      PROVE  GovernorInv'
  <2>1. /\ UNCHANGED <<now, buckets, calls, recorded>>
        /\ bucket' = 0 /\ warned' = {} /\ removals' = removals + 1
    BY <1>5 DEF RemovePeer
  <2>2. removals \in Nat /\ Len(buckets) <= removals + 1
    BY <1>1 DEF GovernorInv, GovernorTypeOK
  <2>3. \A b \in 1 .. Len(buckets) : (Kept(now, buckets[b], recorded[b]) /\ InOrder(now, recorded[b]))'
    BY <2>1 DEF GovernorInv
  <2>5. GovernorTypeOK'
    BY <1>1, <2>1, <2>2 DEF GovernorInv, GovernorTypeOK
  <2>. QED  BY <2>1, <2>2, <2>3, <2>5 DEF GovernorInv
<1>6. ASSUME NEW t \in Callers, GetBucket(t)
      PROVE  GovernorInv'
  <2>0. UNCHANGED <<now, warned, removals>> /\ removals \in Nat /\ bucket \in 0 .. Len(buckets)
    BY <1>6 DEF GetBucket, GovernorInv, GovernorTypeOK
  <2>1. CASE bucket # 0
    <3>1. /\ UNCHANGED <<buckets, bucket, recorded>>
          /\ calls' = [calls EXCEPT ![t] = [calls[t] EXCEPT !.at = "use", !.bucket = bucket]]
      BY <1>6, <2>1 DEF GetBucket, Becomes
    <3>2. calls' \in [Callers -> Call] /\ bucket \in 1 .. Len(buckets)
      <4>1. bucket \in 1 .. Len(buckets) /\ bucket \in Nat
        BY <1>1, <2>0, <2>1
      <4>2. [calls[t] EXCEPT !.at = "use", !.bucket = bucket] \in Call
        BY <1>1, <4>1 DEF Call
      <4>. QED  BY <1>1, <3>1, <4>1, <4>2
    <3>3. \A u \in Callers : calls'[u].at = "use" => calls'[u].bucket \in 1 .. Len(buckets)
      BY <1>1, <3>1, <3>2, SMTT(60) DEF GovernorInv, GovernorTypeOK, Call
    <3>. QED  BY <1>1, <2>0, <3>1, <3>2, <3>3 DEF GovernorInv, GovernorTypeOK
  <2>2. CASE bucket = 0
    <3> DEFINE n == Len(buckets) + 1
    <3>1. /\ buckets' = Append(buckets, <<>>) /\ recorded' = Append(recorded, <<>>)
          /\ bucket' = Len(buckets')
          /\ calls' = [calls EXCEPT ![t] = [calls[t] EXCEPT !.at = "use", !.bucket = bucket']]
      BY <1>6, <2>2 DEF GetBucket, Becomes
    <3>2. /\ buckets' \in Seq(Seq(Sample)) /\ Len(buckets') = n
          /\ recorded' \in Seq(Seq(Sample)) /\ Len(recorded') = n
          /\ \A b \in 1 .. Len(buckets) : buckets'[b] = buckets[b] /\ recorded'[b] = recorded[b]
          /\ buckets'[n] = <<>> /\ recorded'[n] = <<>>
      <4>1. <<>> \in Seq(Sample)
        BY EmptySeq
      <4>. QED  BY <1>1, <3>1, <4>1, AppendProperties
    <3>3. calls' \in [Callers -> Call] /\ bucket' = n
      <4>1. bucket' = n /\ bucket' \in Nat
        BY <1>1, <3>1, <3>2
      <4>2. [calls[t] EXCEPT !.at = "use", !.bucket = bucket'] \in Call
        BY <1>1, <4>1 DEF Call
      <4>. QED  BY <1>1, <3>1, <4>1, <4>2
    <3>4. \A u \in Callers : calls'[u].at = "use" => calls'[u].bucket \in 1 .. n
      BY <1>1, <3>1, <3>3 DEF GovernorInv, GovernorTypeOK, Call
    <3>5. Kept(now, <<>>, <<>>) /\ InOrder(now, <<>>)
      <4>1. Len(<<>>) = 0
        BY EmptySeq
      <4>. QED  BY <4>1 DEF Kept, Without, InOrder
    <3>6. \A b \in 1 .. Len(buckets) : Kept(now, buckets[b], recorded[b])' /\ InOrder(now, recorded[b])'
      BY <2>0, <3>2 DEF GovernorInv
    <3>7. Len(buckets) <= removals
      BY <1>1, <2>0, <2>2 DEF GovernorInv
    <3>8. ASSUME NEW b \in 1 .. n
          PROVE  Kept(now, buckets[b], recorded[b])' /\ InOrder(now, recorded[b])'
      <4>1. CASE b = n
        BY <2>0, <3>2, <3>5, <4>1
      <4>2. CASE b \in 1 .. Len(buckets)
        BY <3>6, <4>2
      <4>. QED  BY <1>1, <4>1, <4>2
    <3>. QED  BY <1>1, <2>0, <3>2, <3>3, <3>4, <3>7, <3>8 DEF GovernorInv, GovernorTypeOK
  <2>. QED  BY <2>1, <2>2
<1>7. ASSUME NEW t \in Callers, calls[t].at = "use"
      PROVE  /\ calls[t].bucket \in 1 .. Len(buckets)
             /\ buckets[calls[t].bucket] \in Seq(Sample)
             /\ recorded[calls[t].bucket] \in Seq(Sample)
             /\ Kept(now, buckets[calls[t].bucket], recorded[calls[t].bucket])
             /\ InOrder(now, recorded[calls[t].bucket])
             /\ recorded = [recorded EXCEPT ![calls[t].bucket] = recorded[calls[t].bucket]]
  <2>1. calls[t].bucket \in 1 .. Len(buckets)
    BY <1>7 DEF GovernorInv, GovernorTypeOK
  <2>2. recorded \in [1 .. Len(recorded) -> Seq(Sample)]
    BY <1>1, LenProperties
  <2>. QED  BY <1>1, <2>1, <2>2, ElementOfSeq DEF GovernorInv
<1>8. ASSUME NEW t \in Callers, Record(t)
      PROVE  GovernorInv'
  <2> DEFINE b == calls[t].bucket
             x == Append(recorded[b], Stamp(t))
             s == Evict(Append(buckets[b], Stamp(t)))
  <2>1. /\ calls[t].at = "use" /\ Becomes(t, NoCall)
        /\ buckets' = [buckets EXCEPT ![b] = s] /\ recorded' = [recorded EXCEPT ![b] = x]
        /\ UNCHANGED <<now, bucket, warned, removals>>
    BY <1>8 DEF Record, Using, Returns
  <2>2. Stamp(t) \in Sample /\ Stamp(t).at = now
    BY <1>1 DEF Stamp, Call, Sample
  <2>3. Kept(now, Append(buckets[b], Stamp(t)), x) /\ InOrder(now, x)
    BY <1>1, <1>7, <2>1, <2>2, KeptAppended
  <2>4. Append(buckets[b], Stamp(t)) \in Seq(Sample) /\ x \in Seq(Sample)
    BY <1>7, <2>1, <2>2, AppendProperties
  <2>5. Kept(now, s, x) /\ s \in Seq(Sample)
    BY <1>1, <2>3, <2>4, KeptEvicted, Evicted
  <2>6. b \in 1 .. Len(buckets)
    BY <1>7, <2>1
  <2> HIDE DEF b, s, x
  <2>. QED  BY <1>1, <2>1, <2>3, <2>4, <2>5, <2>6, BucketUsed
<1>9. ASSUME NEW t \in Callers, ReadRate(t) \/ ReadStats(t)
      PROVE  GovernorInv'
  <2> DEFINE b == calls[t].bucket
             s == Evict(buckets[b])
  <2>1. /\ calls[t].at = "use" /\ UNCHANGED <<now, bucket, warned, recorded, removals>>
        /\ buckets' = [buckets EXCEPT ![b] = s]
    BY <1>9 DEF ReadRate, ReadStats, Using
  <2>2. \E r \in Call : r.at # "use" /\ Becomes(t, r)
    <3>1. \A n, i : AboveCeiling(n, i) \in BOOLEAN
      BY DEF AboveCeiling
    <3>2. CASE ReadRate(t)
      <4> DEFINE full == AboveCeiling(Bytes(buckets'[b], "bulk"), calls[t].interface)
                 r == [calls[t] EXCEPT !.at = "store", !.saturated = full]
      <4>1. Becomes(t, r) /\ full \in BOOLEAN
        BY <3>1, <3>2 DEF ReadRate
      <4> HIDE DEF full
      <4>2. r \in Call /\ r.at = "store"
        BY <1>1, <4>1 DEF Call
      <4>. QED  BY <4>1, <4>2
    <3>3. CASE ReadStats(t)
      BY <1>1, <3>3 DEF ReadStats, Returns
    <3>. QED  BY <1>9, <3>2, <3>3
  <2>3. Kept(now, s, recorded[b]) /\ s \in Seq(Sample)
    BY <1>1, <1>7, <2>1, KeptEvicted, Evicted
  <2>4. /\ b \in 1 .. Len(buckets) /\ recorded[b] \in Seq(Sample) /\ InOrder(now, recorded[b])
        /\ recorded' = [recorded EXCEPT ![b] = recorded[b]]
    BY <1>7, <2>1
  <2> HIDE DEF b, s
  <2>. QED  BY <2>1, <2>2, <2>3, <2>4, BucketUsed
<1>10. ASSUME NEW t \in Callers, StoreWarning(t)
       PROVE  GovernorInv'
  BY <1>1, <1>10, OnlyCalls DEF StoreWarning, Returns
<1>. QED  BY <1>2, <1>3, <1>4, <1>5, <1>6, <1>8, <1>9, <1>10 DEF GovernorNext

LEMMA GovernorInvHolds == GovernorSpec => []GovernorInv
BY GovernorInvInit, GovernorInvStep, PTL DEF GovernorSpec

-----------------------------------------------------------------------------
(* What holds of it.                                                       *)

\* The governor's tables and its callers keep their types; in particular a thread
\* that is about to use a bucket has one that was made.
THEOREM GovernorTypesHold == GovernorSpec => []GovernorTypeOK
<1>1. GovernorInv => GovernorTypeOK
  BY DEF GovernorInv
<1>. QED  BY <1>1, GovernorInvHolds, PTL

\* However many threads look the bucket up at the same time, a second one is made
\* only after remove_peer has taken the first out of the table (_bucket).
THEOREM BucketIsShared == GovernorSpec => []OneBucketPerPeer
<1>1. GovernorInv => OneBucketPerPeer
  <2> SUFFICES ASSUME GovernorInv PROVE OneBucketPerPeer
    OBVIOUS
  <2>1. Len(buckets) \in Nat /\ removals \in Nat
    BY LenProperties DEF GovernorInv, GovernorTypeOK
  <2>. QED  BY <2>1 DEF GovernorInv, OneBucketPerPeer
<1>. QED  BY <1>1, GovernorInvHolds, PTL

\* The answer of check_transfer is the exact one, for any interleaving of threads
\* that record, read and remove, and any number of samples: the bytes it counts in
\* a bucket cleaned up lazily are those recorded there during the window.
THEOREM SaturationExact == GovernorSpec => SaturationIsExact
<1> DEFINE A == \A t \in Callers :
                  calls[t].at = "use" /\ calls'[t].at = "store" =>
                      calls'[t].saturated
                          = AboveCeiling(RecentBulk(calls[t].bucket), calls[t].interface)
<1>1. ASSUME GovernorInv, GovernorNext, NEW t \in Callers,
             calls[t].at = "use", calls'[t].at = "store"
      PROVE  calls'[t].saturated
                 = AboveCeiling(RecentBulk(calls[t].bucket), calls[t].interface)
  <2> DEFINE b == calls[t].bucket
  <2>1. /\ now \in Nat /\ b \in 1 .. Len(buckets) /\ calls \in [Callers -> Call]
        /\ buckets \in Seq(Seq(Sample)) /\ recorded \in Seq(Seq(Sample))
        /\ Len(recorded) = Len(buckets)
        /\ Kept(now, buckets[b], recorded[b]) /\ InOrder(now, recorded[b])
    BY <1>1, GovernorAssumption DEF GovernorInv, GovernorTypeOK
  <2>2. buckets[b] \in Seq(Sample) /\ recorded[b] \in Seq(Sample)
    BY <2>1, ElementOfSeq
  <2>3. ReadRate(t)
    <3>1. PICK u \in Callers :
             \/ RecordTransfer(u) \/ CheckTransfer(u) \/ GetStats(u) \/ RemovePeer(u)
             \/ GetBucket(u) \/ Record(u) \/ ReadRate(u) \/ ReadStats(u) \/ StoreWarning(u)
      BY <1>1 DEF GovernorNext, Tick
    <3>2. calls'[t] # calls[t]
      BY <1>1
    <3>3. ~RemovePeer(u)
      BY <3>2 DEF RemovePeer
    <3>4. ASSUME NEW r, Becomes(u, r)
          PROVE  u = t /\ calls'[t] = r
      BY <2>1, <3>2, <3>4 DEF Becomes
    <3>5. ~RecordTransfer(u) /\ ~CheckTransfer(u) /\ ~GetStats(u)
      BY <1>1, <3>4 DEF RecordTransfer, CheckTransfer, GetStats, Enters
    <3>6. ~GetBucket(u)
      BY <1>1, <3>4 DEF GetBucket
    <3>7. ~Record(u) /\ ~ReadStats(u) /\ ~StoreWarning(u)
      BY <1>1, <3>4 DEF Record, ReadStats, StoreWarning, Returns, NoCall
    <3>. QED  BY <3>1, <3>3, <3>4, <3>5, <3>6, <3>7 DEF ReadRate
  <2>4. /\ buckets' = [buckets EXCEPT ![b] = Evict(buckets[b])]
        /\ calls'[t].saturated = AboveCeiling(Bytes(buckets'[b], "bulk"), calls[t].interface)
    BY <2>1, <2>3 DEF ReadRate, Becomes, Call
  <2>5. buckets'[b] = Evict(buckets[b])
    BY <2>1, <2>4, LenProperties
  <2>6. Bytes(Evict(buckets[b]), "bulk") = RecentBulk(b)
    BY <2>1, <2>2, RecentIs DEF RecentBulk, Since
  <2>. QED  BY <2>4, <2>5, <2>6
<1>2. GovernorInv /\ [GovernorNext]_governorVars => [A]_governorVars
  BY <1>1
<1>. QED  BY <1>2, GovernorInvHolds, PTL DEF GovernorSpec, SaturationIsExact
===============================================================================
