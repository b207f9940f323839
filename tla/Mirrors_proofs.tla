----------------------------- MODULE Mirrors_proofs ---------------------------
(*****************************************************************************)
(* A proof about the lists of the companion app, for any phones, workspaces, *)
(* domains, capacities and bounds: at rest a phone shows what the daemon     *)
(* has, unless it is known to be behind.                                     *)
(*****************************************************************************)
EXTENDS Mirrors, FiniteSetTheorems, SequenceTheorems, TLAPS

-----------------------------------------------------------------------------
(*****************************************************************************)
(* Sequences: what is in one, what counts last, what clears what.            *)
(*****************************************************************************)

\* A sequence holds a member of S; the last that counts of it is good, or none is there and
\* what is held is; what is stale in it is cleared by what comes after.
Has(s, S) == \E i \in 1..Len(s) : s[i] \in S
LastIsGood(s, S, Good, held) ==
    \/ \E i \in 1..Len(s) : s[i] \in Good /\ \A j \in 1..Len(s) : j > i => s[j] \notin S
    \/ ~Has(s, S) /\ held
IsCleared(s, Old, Clearing) ==
    \A i \in 1..Len(s) : s[i] \in Old => \E j \in 1..Len(s) : j > i /\ s[j] \in Clearing

LEMMA HasEmpty == ASSUME NEW S PROVE ~Has(<<>>, S)
BY DEF Has

LEMMA AppendFacts ==
  ASSUME NEW M, NEW s \in Seq(M), NEW m \in M
  PROVE  /\ Append(s, m) \in Seq(M) /\ Len(s) \in Nat /\ Len(Append(s, m)) = Len(s) + 1
         /\ Append(s, m)[Len(s) + 1] = m /\ \A i \in 1..Len(s) : Append(s, m)[i] = s[i]
OBVIOUS

LEMMA RestFacts ==
  ASSUME NEW M, NEW s \in Seq(M), s # <<>>
  PROVE  /\ Tail(s) \in Seq(M) /\ Head(s) \in M /\ Len(s) \in Nat \ {0} /\ Len(Tail(s)) = Len(s) - 1
         /\ Head(s) = s[1] /\ \A i \in 1..(Len(s) - 1) : Tail(s)[i] = s[i + 1]
OBVIOUS

LEMMA HasAppend ==
  ASSUME NEW M, NEW s \in Seq(M), NEW m \in M, NEW S
  PROVE  Has(Append(s, m), S) <=> Has(s, S) \/ m \in S
<1>1. ASSUME Has(s, S) PROVE Has(Append(s, m), S)
  BY <1>1, AppendFacts DEF Has
<1>2. ASSUME m \in S PROVE Has(Append(s, m), S)
  <2>1. Len(s) + 1 \in 1..Len(Append(s, m)) /\ Append(s, m)[Len(s) + 1] \in S
    BY <1>2, AppendFacts
  <2> QED
    BY <2>1 DEF Has
<1>3. ASSUME Has(Append(s, m), S) PROVE Has(s, S) \/ m \in S
  <2>1. PICK i \in 1..(Len(s) + 1) : Append(s, m)[i] \in S
    BY <1>3, AppendFacts DEF Has
  <2>2. CASE i = Len(s) + 1
    BY <2>1, <2>2, AppendFacts
  <2>3. CASE i \in 1..Len(s)
    BY <2>1, <2>3, AppendFacts DEF Has
  <2> QED
    BY <2>1, <2>2, <2>3, AppendFacts
<1> QED
  BY <1>1, <1>2, <1>3

LEMMA HasRest ==
  ASSUME NEW M, NEW s \in Seq(M), s # <<>>, NEW S
  PROVE  Has(s, S) <=> Head(s) \in S \/ Has(Tail(s), S)
<1> PICK r \in Seq(M) : r = Tail(s)
  BY RestFacts
<1>1. Len(r) = Len(s) - 1 /\ Len(s) \in Nat \ {0} /\ \A i \in 1..Len(r) : r[i] = s[i + 1]
  BY RestFacts
<1>2. ASSUME Has(r, S) PROVE Has(s, S)
  <2>1. PICK i \in 1..Len(r) : r[i] \in S
    BY <1>2 DEF Has
  <2>2. i + 1 \in 1..Len(s) /\ s[i + 1] \in S
    BY <1>1, <2>1
  <2> QED
    BY <2>2 DEF Has
<1>3. ASSUME Head(s) \in S PROVE Has(s, S)
  <2>1. 1 \in 1..Len(s) /\ s[1] \in S
    BY <1>1, <1>3, RestFacts
  <2> QED
    BY <2>1 DEF Has
<1>4. ASSUME Has(s, S), Head(s) \notin S PROVE Has(r, S)
  <2>1. PICK i \in 1..Len(s) : s[i] \in S
    BY <1>4 DEF Has
  <2>2. i # 1
    BY <1>4, <2>1, RestFacts
  <2>3. i - 1 \in 1..Len(r) /\ (i - 1) + 1 = i
    BY <1>1, <2>2
  <2>4. r[i - 1] = s[i]
    BY <1>1, <2>3
  <2> QED
    BY <2>1, <2>3, <2>4 DEF Has
<1> QED
  BY <1>2, <1>3, <1>4

LEMMA HasConcat ==
  ASSUME NEW M, NEW s \in Seq(M), NEW t \in Seq(M), NEW S
  PROVE  s \o t \in Seq(M) /\ (Has(s \o t, S) <=> Has(s, S) \/ Has(t, S))
<1> PICK c : c = s \o t
  OBVIOUS
<1>1. /\ c \in Seq(M) /\ Len(c) = Len(s) + Len(t) /\ Len(s) \in Nat /\ Len(t) \in Nat
      /\ \A i \in 1..Len(s) : c[i] = s[i]
      /\ \A i \in 1..Len(t) : c[Len(s) + i] = t[i]
  BY ConcatProperties
<1>2. ASSUME Has(s, S) PROVE Has(c, S)
  BY <1>1, <1>2 DEF Has
<1>3. ASSUME Has(t, S) PROVE Has(c, S)
  <2>1. PICK i \in 1..Len(t) : t[i] \in S
    BY <1>3 DEF Has
  <2>2. Len(s) + i \in 1..Len(c) /\ c[Len(s) + i] \in S
    BY <1>1, <2>1
  <2> QED
    BY <2>2 DEF Has
<1>4. ASSUME Has(c, S) PROVE Has(s, S) \/ Has(t, S)
  <2>1. PICK i \in 1..Len(c) : c[i] \in S
    BY <1>4 DEF Has
  <2>2. CASE i \in 1..Len(s)
    BY <1>1, <2>1, <2>2 DEF Has
  <2>3. CASE i \notin 1..Len(s)
    <3>1. i - Len(s) \in 1..Len(t) /\ Len(s) + (i - Len(s)) = i
      BY <1>1, <2>3
    <3>2. t[i - Len(s)] = c[i]
      BY <1>1, <3>1
    <3> QED
      BY <2>1, <3>1, <3>2 DEF Has
  <2> QED
    BY <2>2, <2>3
<1> QED
  BY <1>1, <1>2, <1>3, <1>4

LEMMA LastAppend ==
  ASSUME NEW M, NEW s \in Seq(M), NEW m \in M, NEW S, NEW Good, NEW held \in BOOLEAN
  PROVE  /\ m \in Good => LastIsGood(Append(s, m), S, Good, held)
         /\ m \notin S /\ LastIsGood(s, S, Good, held) => LastIsGood(Append(s, m), S, Good, held)
<1> PICK r \in Seq(M) : r = Append(s, m)
  BY AppendFacts
<1>1. Len(s) \in Nat /\ Len(r) = Len(s) + 1 /\ r[Len(s) + 1] = m /\ \A i \in 1..Len(s) : r[i] = s[i]
  BY AppendFacts
<1>2. ASSUME m \in Good PROVE LastIsGood(r, S, Good, held)
  <2>1. Len(s) + 1 \in 1..Len(r) /\ r[Len(s) + 1] \in Good
    BY <1>1, <1>2
  <2>2. \A j \in 1..Len(r) : ~(j > Len(s) + 1)
    BY <1>1
  <2> QED
    BY <2>1, <2>2 DEF LastIsGood
<1>3. ASSUME m \notin S, LastIsGood(s, S, Good, held) PROVE LastIsGood(r, S, Good, held)
  <2>1. CASE ~Has(s, S) /\ held
    BY <1>3, <2>1, HasAppend DEF LastIsGood
  <2>2. ASSUME NEW i \in 1..Len(s), s[i] \in Good, \A j \in 1..Len(s) : j > i => s[j] \notin S
        PROVE  LastIsGood(r, S, Good, held)
    <3>1. i \in 1..Len(r) /\ r[i] \in Good
      BY <1>1, <2>2
    <3>2. ASSUME NEW j \in 1..Len(r), j > i PROVE r[j] \notin S
      <4>1. CASE j = Len(s) + 1
        BY <1>1, <1>3, <4>1
      <4>2. CASE j \in 1..Len(s)
        BY <1>1, <2>2, <3>2, <4>2
      <4> QED
        BY <1>1, <4>1, <4>2
    <3> QED
      BY <3>1, <3>2 DEF LastIsGood
  <2> QED
    BY <1>3, <2>1, <2>2 DEF LastIsGood
<1> QED
  BY <1>2, <1>3

LEMMA LastRest ==
  ASSUME NEW M, NEW s \in Seq(M), s # <<>>, NEW S, NEW Good, NEW held \in BOOLEAN, NEW now \in BOOLEAN,
         LastIsGood(s, S, Good, held),
         Head(s) \notin S => now = held, Head(s) \in Good => now
  PROVE  LastIsGood(Tail(s), S, Good, now)
<1> PICK r \in Seq(M) : r = Tail(s)
  BY RestFacts
<1>1. Len(r) = Len(s) - 1 /\ Len(s) \in Nat \ {0} /\ Head(s) = s[1] /\ \A i \in 1..Len(r) : r[i] = s[i + 1]
  BY RestFacts
<1>2. CASE ~Has(s, S) /\ held
  <2>1. Head(s) \notin S /\ ~Has(r, S)
    BY <1>2, HasRest
  <2> QED
    BY <1>2, <2>1 DEF LastIsGood
<1>3. ASSUME NEW i \in 1..Len(s), s[i] \in Good, \A j \in 1..Len(s) : j > i => s[j] \notin S
      PROVE  LastIsGood(r, S, Good, now)
  <2>1. \A j \in 1..Len(r) : j + 1 \in 1..Len(s) /\ r[j] = s[j + 1]
    BY <1>1
  <2>2. CASE i = 1
    <3>1. now
      BY <1>1, <1>3, <2>2
    <3>2. ~Has(r, S)
      <4>1. \A j \in 1..Len(r) : j + 1 > 1
        BY <1>1
      <4> QED
        BY <1>3, <2>1, <2>2, <4>1 DEF Has
    <3> QED
      BY <3>1, <3>2 DEF LastIsGood
  <2>3. CASE i # 1
    <3>1. i - 1 \in 1..Len(r) /\ (i - 1) + 1 = i
      BY <1>1, <2>3
    <3>2. r[i - 1] \in Good
      BY <1>3, <2>1, <3>1
    <3>3. ASSUME NEW j \in 1..Len(r), j > i - 1 PROVE r[j] \notin S
      <4>1. j + 1 > i
        BY <1>1, <3>1, <3>3
      <4> QED
        BY <1>3, <2>1, <4>1
    <3> QED
      BY <3>1, <3>2, <3>3 DEF LastIsGood
  <2> QED
    BY <2>2, <2>3
<1> QED
  BY <1>2, <1>3 DEF LastIsGood

LEMMA ClearedAppend ==
  ASSUME NEW M, NEW s \in Seq(M), NEW m \in M, NEW Old, NEW Clearing, m \notin Old
  PROVE  /\ IsCleared(s, Old, Clearing) => IsCleared(Append(s, m), Old, Clearing)
         /\ m \in Clearing => IsCleared(Append(s, m), Old, Clearing)
<1> PICK r \in Seq(M) : r = Append(s, m)
  BY AppendFacts
<1>1. Len(s) \in Nat /\ Len(r) = Len(s) + 1 /\ r[Len(s) + 1] = m /\ \A i \in 1..Len(s) : r[i] = s[i]
  BY AppendFacts
<1>2. ASSUME NEW i \in 1..Len(r), r[i] \in Old PROVE i \in 1..Len(s) /\ s[i] \in Old
  BY <1>1, <1>2
<1>3. ASSUME IsCleared(s, Old, Clearing) PROVE IsCleared(r, Old, Clearing)
  <2> SUFFICES ASSUME NEW i \in 1..Len(r), r[i] \in Old PROVE \E j \in 1..Len(r) : j > i /\ r[j] \in Clearing
    BY DEF IsCleared
  <2>1. PICK j \in 1..Len(s) : j > i /\ s[j] \in Clearing
    BY <1>2, <1>3 DEF IsCleared
  <2> QED
    BY <1>1, <2>1
<1>4. ASSUME m \in Clearing PROVE IsCleared(r, Old, Clearing)
  <2> SUFFICES ASSUME NEW i \in 1..Len(r), r[i] \in Old PROVE \E j \in 1..Len(r) : j > i /\ r[j] \in Clearing
    BY DEF IsCleared
  <2>1. Len(s) + 1 \in 1..Len(r) /\ Len(s) + 1 > i /\ r[Len(s) + 1] \in Clearing
    BY <1>1, <1>2, <1>4
  <2> QED
    BY <2>1
<1> QED
  BY <1>3, <1>4

LEMMA ClearedRest ==
  ASSUME NEW M, NEW s \in Seq(M), s # <<>>, NEW Old, NEW Clearing, IsCleared(s, Old, Clearing)
  PROVE  /\ IsCleared(Tail(s), Old, Clearing)
         /\ Head(s) \in Old => Has(Tail(s), Clearing)
<1> PICK r \in Seq(M) : r = Tail(s)
  BY RestFacts
<1>1. Len(r) = Len(s) - 1 /\ Len(s) \in Nat \ {0} /\ Head(s) = s[1] /\ \A i \in 1..Len(r) : r[i] = s[i + 1]
  BY RestFacts
<1>2. ASSUME NEW i \in 1..Len(s), s[i] \in Old PROVE \E j \in 1..Len(r) : j + 1 > i /\ r[j] \in Clearing
  <2>1. PICK j \in 1..Len(s) : j > i /\ s[j] \in Clearing
    BY <1>2 DEF IsCleared
  <2>2. j - 1 \in 1..Len(r) /\ (j - 1) + 1 = j
    BY <1>1, <2>1
  <2>3. r[j - 1] = s[j]
    BY <1>1, <2>2
  <2> QED
    BY <2>1, <2>2, <2>3
<1>3. ASSUME NEW i \in 1..Len(r), r[i] \in Old PROVE \E j \in 1..Len(r) : j > i /\ r[j] \in Clearing
  <2>1. i + 1 \in 1..Len(s) /\ s[i + 1] \in Old
    BY <1>1, <1>3
  <2>2. PICK j \in 1..Len(r) : j + 1 > i + 1 /\ r[j] \in Clearing
    BY <1>2, <2>1
  <2> QED
    BY <1>1, <2>2
<1>4. ASSUME Head(s) \in Old PROVE Has(r, Clearing)
  <2>1. 1 \in 1..Len(s) /\ s[1] \in Old
    BY <1>1, <1>4
  <2> QED
    BY <1>2, <2>1 DEF Has
<1> QED
  BY <1>3, <1>4 DEF IsCleared

LEMMA JoinedFacts ==
  ASSUME NEW M, NEW a \in Seq(M), NEW b \in Seq(M), NEW r, r = a \o b
  PROVE  /\ r \in Seq(M) /\ Len(a) \in Nat /\ Len(b) \in Nat /\ Len(r) = Len(a) + Len(b)
         /\ \A k \in 1..Len(a) : r[k] = a[k]
         /\ \A k \in 1..Len(b) : r[Len(a) + k] = b[k]
BY ConcatProperties

LEMMA CutFacts ==
  ASSUME NEW M, NEW s \in Seq(M), NEW lo \in Nat, NEW hi \in Nat, 1 <= lo, lo <= hi + 1, hi <= Len(s)
  PROVE  /\ SubSeq(s, lo, hi) \in Seq(M) /\ Len(SubSeq(s, lo, hi)) = hi + 1 - lo
         /\ \A k \in 1..(hi + 1 - lo) : SubSeq(s, lo, hi)[k] = s[lo + k - 1]
<1>1. lo \in Int /\ hi \in Int /\ \A k \in lo..hi : s[k] \in M
  OBVIOUS
<1>2. /\ SubSeq(s, lo, hi) \in Seq(M) /\ Len(SubSeq(s, lo, hi)) = IF lo <= hi THEN hi - lo + 1 ELSE 0
      /\ \A k \in 1..(hi - lo + 1) : SubSeq(s, lo, hi)[k] = s[lo + k - 1]
  BY ONLY <1>1, SubSeqProperties
<1>3. hi - lo + 1 = hi + 1 - lo
  OBVIOUS
<1>4. (IF lo <= hi THEN hi - lo + 1 ELSE 0) = hi + 1 - lo
  OBVIOUS
<1> QED
  BY ONLY <1>2, <1>3, <1>4

LEMMA RemovedFacts ==
  ASSUME NEW M, NEW s \in Seq(M), NEW i \in 1..Len(s)
  PROVE  LET r == Lists!RemoveAt(s, i)
         IN /\ r \in Seq(M)
            /\ \A k \in 1..Len(r) : \E n \in 1..Len(s) : r[k] = s[n]
            /\ \A n \in 1..Len(s) : n # i => \E k \in 1..Len(r) : r[k] = s[n]
<1>51. PICK n \in Nat : n = Len(s)
  OBVIOUS
<1>52. PICK a : a = SubSeq(s, 1, i - 1)
  OBVIOUS
<1>53. PICK b : b = SubSeq(s, i + 1, n)
  OBVIOUS
<1>54. PICK r : r = a \o b
  OBVIOUS
<1>0. i \in Int /\ i \in 1..n
  BY <1>51
<1>1. a \in Seq(M) /\ Len(a) = i - 1 /\ \A k \in 1..(i - 1) : a[k] = s[k]
  <2>1. 1 \in Nat /\ i - 1 \in Nat /\ 1 <= (i - 1) + 1 /\ i - 1 <= Len(s) /\ (i - 1) + 1 - 1 = i - 1 /\ 1 <= 1
    BY <1>0, <1>51
  <2>2. /\ a \in Seq(M) /\ Len(a) = (i - 1) + 1 - 1
        /\ \A k \in 1..((i - 1) + 1 - 1) : a[k] = s[1 + k - 1]
    BY <1>52, <2>1, CutFacts
  <2>3. \A k \in 1..(i - 1) : 1 + k - 1 = k
    OBVIOUS
  <2> QED
    BY ONLY <2>1, <2>2, <2>3
<1>2. b \in Seq(M) /\ Len(b) = n - i /\ \A k \in 1..(n - i) : b[k] = s[i + k]
  <2>1. i + 1 \in Nat /\ 1 <= i + 1 /\ i + 1 <= n + 1 /\ n <= Len(s) /\ n + 1 - (i + 1) = n - i
    BY <1>0, <1>51
  <2>2. /\ b \in Seq(M) /\ Len(b) = n + 1 - (i + 1)
        /\ \A k \in 1..(n + 1 - (i + 1)) : b[k] = s[(i + 1) + k - 1]
    BY <1>53, <2>1, CutFacts
  <2>3. \A k \in 1..(n - i) : (i + 1) + k - 1 = i + k
    BY <1>0
  <2> QED
    BY ONLY <2>1, <2>2, <2>3
<1>3. /\ r \in Seq(M) /\ Len(r) = n - 1
      /\ \A k \in 1..(i - 1) : r[k] = s[k]
      /\ \A k \in 1..(n - i) : r[(i - 1) + k] = s[i + k]
  <2>1. /\ r \in Seq(M) /\ Len(r) = Len(a) + Len(b)
        /\ \A k \in 1..Len(a) : r[k] = a[k]
        /\ \A k \in 1..Len(b) : r[Len(a) + k] = b[k]
    <3>1. a \in Seq(M) /\ b \in Seq(M)
      BY <1>1, <1>2, Zenon
    <3> QED
      BY ONLY <3>1, <1>54, JoinedFacts
  <2>2. (i - 1) + (n - i) = n - 1
    BY <1>0
  <2>3. r \in Seq(M) /\ Len(r) = n - 1
    BY ONLY <1>1, <1>2, <2>1, <2>2
  <2>4. \A k \in 1..(i - 1) : r[k] = s[k]
    BY <1>1, <2>1, Zenon
  <2>5. \A k \in 1..(n - i) : r[(i - 1) + k] = s[i + k]
    BY <1>1, <1>2, <2>1, Zenon
  <2> QED
    BY <2>3, <2>4, <2>5, Zenon
<1>5. ASSUME NEW k \in 1..(n - 1) PROVE \E m \in 1..n : r[k] = s[m]
  <2>1. CASE k <= i - 1
    <3>1. k \in 1..(i - 1) /\ k \in 1..n
      BY <1>0, <2>1
    <3> QED
      BY <1>3, <3>1, Zenon
  <2>2. CASE ~(k <= i - 1)
    <3>1. k - (i - 1) \in 1..(n - i) /\ (i - 1) + (k - (i - 1)) = k /\ i + (k - (i - 1)) \in 1..n
      BY <1>0, <2>2
    <3>2. r[(i - 1) + (k - (i - 1))] = s[i + (k - (i - 1))]
      BY <1>3, <3>1, Zenon
    <3> QED
      BY <3>1, <3>2, Zenon
  <2> QED
    BY <2>1, <2>2
<1>6. ASSUME NEW m \in 1..n, m # i PROVE \E k \in 1..(n - 1) : r[k] = s[m]
  <2>1. CASE m <= i - 1
    <3>1. m \in 1..(i - 1) /\ m \in 1..(n - 1)
      BY <1>0, <2>1
    <3> QED
      BY <1>3, <3>1, Zenon
  <2>2. CASE ~(m <= i - 1)
    <3>1. m - i \in 1..(n - i) /\ i + (m - i) = m /\ (i - 1) + (m - i) \in 1..(n - 1)
      BY <1>0, <1>6, <2>2
    <3>2. r[(i - 1) + (m - i)] = s[i + (m - i)]
      BY <1>3, <3>1, Zenon
    <3> QED
      BY <3>1, <3>2, Zenon
  <2> QED
    BY <2>1, <2>2
<1>7. Lists!RemoveAt(s, i) = r
  BY <1>52, <1>53, <1>54, <1>51 DEF Lists!RemoveAt
<1> QED
  <2>1. \A k \in 1..Len(r) : \E m \in 1..Len(s) : r[k] = s[m]
    BY <1>3, <1>5, <1>51, Zenon
  <2>2. \A m \in 1..Len(s) : m # i => \E k \in 1..Len(r) : r[k] = s[m]
    BY <1>3, <1>6, <1>51, Zenon
  <2> QED
    BY <1>3, <1>7, <2>1, <2>2, Zenon

-----------------------------------------------------------------------------
(*****************************************************************************)
(* The inductive invariant.  Solid is what holds of every variable by        *)
(* itself: shapes, soundness (a message tells no more than there is), and    *)
(* where a command or a reload can be.  PhoneHolds says of a phone that is   *)
(* connected where its next news are: it will ask, it has asked, somebody    *)
(* will tell, or the last message of its line, or what it shows if there is  *)
(* none, is what the daemon has.                                             *)
(*****************************************************************************)

\* What messages, commands and reloads look like.
Messages == [kind : {"list", "changed", "body", "spaces"}, ws : SpaceNames, version : Nat,
             interim : BOOLEAN, places : SUBSET SpaceNames]
Topics == [topic : Orders \cup {"body"}, ws : SpaceNames]
Commands == [cmd : Orders, ws : SpaceNames]
Reads == [cmd : {"read"}, ws : SpaceNames]
SpacesOrders == [cmd : {"spaces"}, ws : SpaceNames]
NoneOrOne(S) == {{}} \cup {{x} : x \in S}
InHand == [at : {"calm", "look", "reply", "tell", "spawn"}, cmd : Orders \cup {"none"},
           ws : SpaceNames, news : NoneOrOne(Messages)]
Jobs == [ws : SpaceNames, tells : BOOLEAN, at : {"wait", "look", "tell"}, news : NoneOrOne(Messages)]

MirrorShapes ==
    /\ domain \in DOMAIN DeskOf
    /\ spaces \in [SpaceNames -> {"open", "absent", "retired"}] /\ spaces[Home] = "open"
    /\ real \in [SpaceNames -> Nat] /\ found \in [SpaceNames -> Nat]
    /\ \A w \in SpaceNames : found[w] <= real[w]
    /\ jobs \in Seq(Jobs)
    /\ order \in [Devices -> InHand] /\ sent \in [Devices -> Seq(Commands)]
    /\ line \in [Apps -> Seq(Messages)] /\ \A p \in Apps : Len(line[p]) <= InboxRoom
    /\ online \subseteq Apps
    /\ activeName \in [Apps -> NoneOrOne(SpaceNames)] /\ stored \in [Apps -> NoneOrOne(SpaceNames)]
    /\ roster \in [Apps -> SUBSET SpaceNames]
    /\ shown \in [Apps -> NoneOrOne(Messages)] /\ body \in [Apps -> NoneOrOne(Messages)]
    /\ effects \in [Apps -> SUBSET {"spaces", "list"}]
    /\ behind \in [Apps -> SUBSET Topics]

\* A message tells no more than there is; the workspaces always have the default one.
Sound(m) ==
    /\ m.kind = "list" => m.version <= The(m.ws) /\ m.places = {}
    /\ m.kind = "body" => domain = "skills" /\ m.version <= real[m.ws]
    /\ m.kind = "spaces" => m.ws = Home /\ Home \in m.places
    /\ m.interim => m.kind = "list"
LinesSound == \A p \in Apps : \A i \in 1..Len(line[p]) : Sound(line[p][i])
ShownSound == \A p \in Apps : \A m \in shown[p] : Sound(m) /\ m.kind = "list"
BodiesSound == \A p \in Apps : \A m \in body[p] : Sound(m) /\ m.kind = "body"
OrdersSound == \A d \in Devices : \A m \in order[d].news : Sound(m)
JobsSound == \A i \in 1..Len(jobs) : \A m \in jobs[i].news : Sound(m)
SoundNews == LinesSound /\ ShownSound /\ BodiesSound /\ OrdersSound /\ JobsSound

\* What a command and a reload have in hand, step by step.
First == DeskOf[domain].first
IsTelling(o) ==
    \E m \in o.news :
        /\ o.cmd \in {"create", "delete"} => m.kind = "spaces"
        /\ o.cmd = "change" => /\ m.ws = o.ws /\ m.kind = IF First = "changed" THEN "changed" ELSE "list"
                               /\ m.interim <=> First = "announcement"
IsReplying(o) ==
    \E m \in o.news :
        /\ ~m.interim
        /\ \/ o.cmd = "list" /\ m.kind = "list" /\ m.ws = o.ws
           \/ o.cmd = "read" /\ m.kind = "body"
           \/ o.cmd = "spaces" /\ m.kind = "spaces"
OrderIs(o) ==
    /\ o.at = "calm" => o = Calm
    /\ o.at \in {"look", "tell"} => o.cmd \in {"change", "create", "delete"}
    /\ o.at = "tell" => IsTelling(o)
    /\ o.at = "reply" => IsReplying(o)
    /\ o.cmd = "change" => First # "changed" \/ o.at = "tell"
    /\ o.cmd = "change" => First # "nothing" \/ o.at = "spawn"
JobIs(j) ==
    /\ j.at \in {"look", "tell"} => j.tells
    /\ j.at = "tell" => \E m \in j.news : m.kind = "list" /\ m.ws = j.ws /\ ~m.interim
OrdersHold == \A d \in Devices : OrderIs(order[d])
JobsHold == \A i \in 1..Len(jobs) : JobIs(jobs[i])
OnlySkillsAreRead == \A d \in Devices : domain = "skills" \/ ~Has(sent[d], Reads)
NoLineIsLeft == \A p \in Apps : p \in online \/ line[p] = <<>>
InHandHolds == OrdersHold /\ JobsHold /\ OnlySkillsAreRead /\ NoLineIsLeft

\* The workspaces: whoever will tell of them, and what the phone heard last.
Rosters == {m \in Messages : m.kind = "spaces"}
FullRosters == {m \in Rosters : m.places = Served}
RosterComes(p) ==
    \/ "spaces" \in effects[p]
    \/ Has(sent[p], SpacesOrders)
    \/ order[p].at = "reply" /\ order[p].cmd = "spaces"
RosterIsTold == \E d \in Devices : order[d].at \in {"look", "tell"} /\ order[d].cmd \in {"create", "delete"}
RosterIsFull(p) == LastIsGood(line[p], Rosters, FullRosters, roster[p] = Served)
RosterHolds(p) == SpacesTopic \in behind[p] \/ RosterComes(p) \/ RosterIsTold \/ RosterIsFull(p)
ActiveHolds(p) ==
    \/ SpacesTopic \in behind[p] \/ roster[p] = {} \/ activeName[p] \cap roster[p] # {}
    \/ RosterComes(p) \/ Has(line[p], Rosters)

\* The list of a workspace.
ListsOf(w) == {m \in Messages : m.kind = "list" /\ m.ws = w}
ChangesOf(w) == {m \in Messages : m.kind = "changed" /\ m.ws = w}
OrderTells(o, w) ==
    /\ o.cmd = "change" /\ o.ws = w
    /\ \/ o.at = "look"
       \/ o.at = "tell" /\ \E m \in o.news : m.kind = "changed" \/ m.interim \/ m.version = The(w)
       \/ o.at = "spawn" /\ First = "announcement"
JobTells(j, w) ==
    /\ j.ws = w /\ j.tells
    /\ \/ j.at = "wait" /\ First = "announcement"
       \/ j.at = "look"
       \/ j.at = "tell" /\ \E m \in j.news : m.version = The(w)
ListIsTold(w) ==
    \/ \E d \in Devices : OrderTells(order[d], w)
    \/ \E i \in 1..Len(jobs) : JobTells(jobs[i], w)
ListIsAwaited(p, w) ==
    \/ "list" \in effects[p]
    \/ MirrorOf[domain].waits /\ w \notin roster[p]
    \/ Has(sent[p], {Cmd("list", w)})
    \/ order[p].at = "reply" /\ order[p].news = {ListOf(w)}
ListComes(p, w) == ListIsAwaited(p, w) \/ Has(line[p], ChangesOf(w))
ListIsCurrent(p, w) == LastIsGood(line[p], ListsOf(w), {ListOf(w)}, shown[p] = {ListOf(w)})
ListHolds(p, w) ==
    \/ activeName[p] # {w} \/ On("list", w) \in behind[p]
    \/ ListComes(p, w) \/ ListIsTold(w) \/ ListIsCurrent(p, w)

\* A body that changed since it was read is cleared by a list that is on its way.
StaleBodies(w) == {m \in Messages : m.kind = "body" /\ m.ws = w /\ m.version # real[w]}
BodyIsTold(w) == \E d \in Devices : order[d].cmd = "change" /\ order[d].ws = w /\ order[d].at \in {"look", "tell"}
BodyHolds(p, w) ==
    \/ domain # "skills" \/ On("body", w) \in behind[p] \/ BodyIsTold(w)
    \/ /\ IsCleared(line[p], StaleBodies(w), ListsOf(w))
       /\ \/ activeName[p] # {w} \/ "list" \in effects[p] \/ Has(line[p], ListsOf(w))
          \/ body[p] \cap StaleBodies(w) = {}

PhoneHolds(p) ==
    /\ RosterHolds(p) /\ ActiveHolds(p)
    /\ \A w \in SpaceNames : ListHolds(p, w) /\ BodyHolds(p, w)
Solid == MirrorShapes /\ SoundNews /\ InHandHolds /\ NothingForeignIsShown
MirrorInv == Solid /\ \A p \in online : PhoneHolds(p)

LEMMA DeskFacts ==
  ASSUME MirrorShapes
  PROVE  /\ First \in {"list", "announcement", "nothing", "changed"}
         /\ First = "announcement" => DeskOf[domain].rebuilds /\ DeskOf[domain].later
         /\ First = "changed" => DeskOf[domain].reads = "disk" /\ ~DeskOf[domain].rebuilds
         /\ First = "announcement" => DeskOf[domain].reads # "disk"
         /\ First = "nothing" => DeskOf[domain].reads # "disk"
         /\ domain = "skills" => First = "list" /\ DeskOf[domain].reads = "disk" /\ MirrorOf[domain].clears
         /\ MirrorOf[domain].waits \in BOOLEAN /\ MirrorOf[domain].clears \in BOOLEAN
         /\ DeskOf[domain].later \in BOOLEAN /\ DeskOf[domain].onReload \in BOOLEAN
<1>1. domain \in {"skills", "servers", "plugins", "grants", "reminders", "agents"}
  BY DEF MirrorShapes, DeskOf
<1>2. CASE domain = "skills"
  BY <1>2 DEF First, DeskOf, MirrorOf, SkillDesk, SkillMirror, Desk
<1>3. CASE domain = "servers"
  BY <1>3 DEF First, DeskOf, MirrorOf, ServerDesk, ServerMirror, Desk
<1>4. CASE domain = "plugins"
  BY <1>4 DEF First, DeskOf, MirrorOf, PluginDesk, PluginMirror, Desk
<1>5. CASE domain = "grants"
  BY <1>5 DEF First, DeskOf, MirrorOf, GrantDesk, GrantMirror, Desk
<1>6. CASE domain = "reminders"
  BY <1>6 DEF First, DeskOf, MirrorOf, ReminderDesk, ReminderMirror, Desk
<1>7. CASE domain = "agents"
  BY <1>7 DEF First, DeskOf, MirrorOf, AgentDesk, AgentMirror, Desk
<1> QED
  BY <1>1, <1>2, <1>3, <1>4, <1>5, <1>6, <1>7

LEMMA TheFacts ==
  ASSUME MirrorShapes, NEW w \in SpaceNames
  PROVE  /\ The(w) \in Nat /\ real[w] \in Nat /\ found[w] \in Nat /\ The(w) <= real[w]
         /\ DeskOf[domain].reads = "disk" => The(w) = real[w]
         /\ DeskOf[domain].reads # "disk" => The(w) = found[w]
BY DEF MirrorShapes, The

LEMMA NewsFacts ==
  ASSUME NEW kind \in {"list", "changed", "body"}, NEW w \in SpaceNames, NEW v \in Nat
  PROVE  LET m == News(kind, w, v)
         IN /\ m \in Messages /\ m.kind = kind /\ m.ws = w /\ m.version = v /\ ~m.interim /\ m.places = {}
            /\ {m} \in NoneOrOne(Messages)
BY DEF News, Messages, NoneOrOne

LEMMA ListFacts ==
  ASSUME MirrorShapes, NEW w \in SpaceNames
  PROVE  /\ ListOf(w) \in Messages /\ ListOf(w) \in ListsOf(w) /\ Sound(ListOf(w)) /\ ~ListOf(w).interim
         /\ ListOf(w).kind = "list" /\ ListOf(w).ws = w /\ ListOf(w).version = The(w) /\ ListOf(w).places = {}
         /\ \A m \in Messages : m.kind = "list" /\ m.ws = w /\ m.version = The(w) /\ ~m.interim /\ m.places = {}
               => m = ListOf(w)
<1>1. The(w) \in Nat
  BY TheFacts
<1>2. LET m == News("list", w, The(w))
      IN m \in Messages /\ m.kind = "list" /\ m.ws = w /\ m.version = The(w) /\ ~m.interim /\ m.places = {}
  BY <1>1 DEF News, Messages
<1>3. \A m \in Messages : m.kind = "list" /\ m.ws = w /\ m.version = The(w) /\ ~m.interim /\ m.places = {}
               => m = ListOf(w)
  BY DEF ListOf, News, Messages
<1> QED
  BY <1>1, <1>2, <1>3 DEF ListOf, ListsOf, Sound

LEMMA AnnouncementFacts ==
  ASSUME MirrorShapes, NEW w \in SpaceNames
  PROVE  LET m == Announcement(w)
         IN m \in Messages /\ m.kind = "list" /\ m.ws = w /\ m.interim /\ Sound(m)
<1>1. The(w) \in Nat
  BY TheFacts
<1> PICK b \in BOOLEAN : b = TRUE
  OBVIOUS
<1>2. Announcement(w) = [ListOf(w) EXCEPT !.interim = b]
  BY DEF Announcement
<1>3. LET m == [ListOf(w) EXCEPT !.interim = b]
      IN /\ m \in Messages /\ m.kind = "list" /\ m.ws = w /\ m.version = The(w) /\ m.interim = b /\ m.places = {}
  BY <1>1 DEF ListOf, News, Messages
<1> QED
  BY <1>1, <1>2, <1>3 DEF Sound

LEMMA RosterFacts ==
  ASSUME MirrorShapes
  PROVE  /\ Roster \in Messages /\ Roster.kind = "spaces" /\ ~Roster.interim /\ Sound(Roster)
         /\ Roster.places = Served /\ Home \in Served /\ Served \subseteq SpaceNames
<1>1. Home \in Served /\ Served \subseteq SpaceNames
  BY MirrorAssumption DEF MirrorShapes, Served
<1> PICK v : v = Served
  OBVIOUS
<1>2. Roster = [News("spaces", Home, 0) EXCEPT !.places = v]
  BY DEF Roster
<1>3. LET m == [News("spaces", Home, 0) EXCEPT !.places = v]
      IN m \in Messages /\ m.kind = "spaces" /\ m.ws = Home /\ ~m.interim /\ m.places = v
  BY <1>1, MirrorAssumption DEF News, Messages
<1> QED
  BY <1>1, <1>2, <1>3 DEF Sound

LEMMA OneMessage == ASSUME NEW m \in Messages PROVE {m} \in NoneOrOne(Messages)
BY DEF NoneOrOne

\* What is sound stays sound as long as contents only grow.
LEMMA SoundStays ==
  ASSUME MirrorShapes, domain' = domain, NEW m \in Messages, Sound(m),
         \A w \in SpaceNames : real'[w] \in Nat /\ real[w] <= real'[w] /\ found'[w] \in Nat /\ found[w] <= found'[w]
  PROVE  Sound(m)'
<1>1. m.ws \in SpaceNames /\ m.version \in Nat
  BY DEF Messages
<1>2. The(m.ws) \in Nat /\ The(m.ws)' \in Nat /\ The(m.ws) <= The(m.ws)'
  BY <1>1, TheFacts DEF The
<1>3. real[m.ws] \in Nat
  BY <1>1, TheFacts
<1>4. m.kind = "list" => m.version <= The(m.ws)'
  BY <1>1, <1>2 DEF Sound
<1>5. m.kind = "body" => m.version <= real'[m.ws]
  BY <1>1, <1>3 DEF Sound
<1> QED
  BY <1>4, <1>5 DEF Sound

LEMMA OrderChanges ==
  ASSUME MirrorShapes, NEW d \in Devices, NEW o \in InHand, order' = [order EXCEPT ![d] = o]
  PROVE  /\ order' \in [Devices -> InHand] /\ order'[d] = o
         /\ \A e \in Devices \ {d} : order'[e] = order[e]
BY DEF MirrorShapes

LEMMA InHandFacts ==
  ASSUME MirrorShapes, NEW d \in Devices
  PROVE  /\ order[d] \in InHand /\ order[d].ws \in SpaceNames /\ order[d].news \in NoneOrOne(Messages)
         /\ \A m \in order[d].news : m \in Messages
         /\ sent[d] \in Seq(Commands)
         /\ Calm \in InHand /\ Calm.news = {} /\ Calm.at = "calm" /\ Calm.cmd = "none"
<1>1. order[d] \in InHand /\ sent[d] \in Seq(Commands)
  BY DEF MirrorShapes
<1>2. order[d].ws \in SpaceNames /\ order[d].news \in NoneOrOne(Messages)
  BY <1>1 DEF InHand
<1>3. \A m \in order[d].news : m \in Messages
  BY <1>2 DEF NoneOrOne
<1>4. {} \in NoneOrOne(Messages)
  BY DEF NoneOrOne
<1>5. Calm \in InHand /\ Calm.news = {} /\ Calm.at = "calm" /\ Calm.cmd = "none"
  BY <1>4, MirrorAssumption DEF InHand, Calm, None
<1> QED
  BY <1>1, <1>2, <1>3, <1>5

LEMMA StageFacts ==
  ASSUME MirrorShapes, NEW d \in Devices, NEW c \in Commands, NEW at \in {"look", "reply", "tell", "spawn"},
         NEW news \in NoneOrOne(Messages), Stage(d, at, c, news)
  PROVE  /\ order' \in [Devices -> InHand] /\ \A e \in Devices \ {d} : order'[e] = order[e]
         /\ order'[d].at = at /\ order'[d].cmd = c.cmd /\ order'[d].ws = c.ws /\ order'[d].news = news
<1> PICK o : o = [at |-> at, cmd |-> c.cmd, ws |-> c.ws, news |-> news]
  OBVIOUS
<1>1. o \in InHand /\ o.at = at /\ o.cmd = c.cmd /\ o.ws = c.ws /\ o.news = news
  BY DEF InHand, Commands
<1>2. order' = [order EXCEPT ![d] = o]
  BY DEF Stage
<1> QED
  BY <1>1, <1>2, OrderChanges

LEMMA JobChanges ==
  ASSUME MirrorShapes, NEW i \in 1..Len(jobs), NEW j \in Jobs, jobs' = [jobs EXCEPT ![i] = j]
  PROVE  /\ jobs' \in Seq(Jobs) /\ Len(jobs') = Len(jobs) /\ jobs'[i] = j
         /\ \A k \in 1..Len(jobs) : k # i => jobs'[k] = jobs[k]
BY DEF MirrorShapes

LEMMA JobLeaves ==
  ASSUME MirrorShapes, NEW i \in 1..Len(jobs), jobs' = Lists!RemoveAt(jobs, i)
  PROVE  /\ jobs' \in Seq(Jobs)
         /\ \A k \in 1..Len(jobs') : \E n \in 1..Len(jobs) : jobs'[k] = jobs[n]
         /\ \A n \in 1..Len(jobs) : n # i => \E k \in 1..Len(jobs') : jobs'[k] = jobs[n]
<1>1. jobs \in Seq(Jobs)
  BY DEF MirrorShapes
<1> PICK r : r = Lists!RemoveAt(jobs, i)
  OBVIOUS
<1>2. /\ r \in Seq(Jobs)
      /\ \A k \in 1..Len(r) : \E n \in 1..Len(jobs) : r[k] = jobs[n]
      /\ \A n \in 1..Len(jobs) : n # i => \E k \in 1..Len(r) : r[k] = jobs[n]
  BY <1>1, RemovedFacts, Zenon
<1> QED
  BY <1>2, Zenon

-----------------------------------------------------------------------------
(*****************************************************************************)
(* What is held stays sound: contents only grow.                             *)
(*****************************************************************************)

\* Contents only grow, in a behaviour about one domain.
Grow ==
    /\ domain' = domain
    /\ \A w \in SpaceNames : real'[w] \in Nat /\ real[w] <= real'[w] /\ found'[w] \in Nat /\ found[w] <= found'[w]

LEMMA NothingGrows ==
  ASSUME MirrorShapes, domain' = domain, real' = real, found' = found
  PROVE  Grow
BY TheFacts DEF Grow

LEMMA AllStaySound ==
  ASSUME MirrorShapes, Grow, NEW m \in Messages, Sound(m)
  PROVE  Sound(m)'
BY SoundStays DEF Grow

LEMMA HeldMessages ==
  ASSUME MirrorShapes
  PROVE  /\ \A p \in Apps : line[p] \in Seq(Messages) /\ \A i \in 1..Len(line[p]) : line[p][i] \in Messages
         /\ \A p \in Apps : \A m \in shown[p] \cup body[p] : m \in Messages
         /\ \A d \in Devices : \A m \in order[d].news : m \in Messages
         /\ \A i \in 1..Len(jobs) : jobs[i] \in Jobs /\ \A m \in jobs[i].news : m \in Messages
<1>1. \A p \in Apps : line[p] \in Seq(Messages) /\ \A i \in 1..Len(line[p]) : line[p][i] \in Messages
  BY DEF MirrorShapes
<1>2. \A p \in Apps : shown[p] \in NoneOrOne(Messages) /\ body[p] \in NoneOrOne(Messages)
  BY DEF MirrorShapes
<1>3. \A p \in Apps : \A m \in shown[p] \cup body[p] : m \in Messages
  BY <1>2 DEF NoneOrOne
<1>4. \A d \in Devices : \A m \in order[d].news : m \in Messages
  BY InHandFacts
<1>5. \A i \in 1..Len(jobs) : jobs[i] \in Jobs
  BY DEF MirrorShapes
<1>6. \A i \in 1..Len(jobs) : jobs[i].news \in NoneOrOne(Messages)
  BY <1>5 DEF Jobs
<1>7. \A i \in 1..Len(jobs) : \A m \in jobs[i].news : m \in Messages
  BY <1>6 DEF NoneOrOne
<1> QED
  BY <1>1, <1>3, <1>4, <1>5, <1>7

LEMMA HeldStaysSound ==
  ASSUME MirrorShapes, SoundNews, Grow
  PROVE  /\ line' = line => LinesSound'
         /\ shown' = shown => ShownSound'
         /\ body' = body => BodiesSound'
         /\ order' = order => OrdersSound'
         /\ jobs' = jobs => JobsSound'
<1>1. \A m \in Messages : Sound(m) => Sound(m)'
  BY AllStaySound
<1>2. ASSUME NEW p \in Apps, NEW i \in 1..Len(line[p]) PROVE \E m \in Messages : m = line[p][i] /\ Sound(m) /\ Sound(m)'
  BY <1>1, HeldMessages DEF SoundNews, LinesSound
<1>3. line' = line => LinesSound'
  <2> SUFFICES ASSUME line' = line, NEW p \in Apps, NEW i \in 1..Len(line'[p]) PROVE Sound(line[p][i])'
    BY DEF LinesSound
  <2>1. PICK m \in Messages : m = line[p][i] /\ Sound(m)'
    BY <1>2
  <2>2. m = line'[p][i]
    BY <2>1
  <2> QED
    BY <2>1, <2>2
<1>4. shown' = shown => ShownSound'
  <2> SUFFICES ASSUME shown' = shown, NEW p \in Apps, NEW m \in shown'[p] PROVE Sound(m)' /\ m.kind = "list"
    BY DEF ShownSound
  <2>1. m \in Messages /\ Sound(m) /\ m.kind = "list"
    BY HeldMessages DEF SoundNews, ShownSound
  <2> QED
    BY <1>1, <2>1
<1>5. body' = body => BodiesSound'
  <2> SUFFICES ASSUME body' = body, NEW p \in Apps, NEW m \in body'[p] PROVE Sound(m)' /\ m.kind = "body"
    BY DEF BodiesSound
  <2>1. m \in Messages /\ Sound(m) /\ m.kind = "body"
    BY HeldMessages DEF SoundNews, BodiesSound
  <2> QED
    BY <1>1, <2>1
<1>6. order' = order => OrdersSound'
  <2> SUFFICES ASSUME order' = order, NEW d \in Devices, NEW m \in order'[d].news PROVE Sound(m)'
    BY DEF OrdersSound
  <2>1. m \in Messages /\ Sound(m)
    BY HeldMessages DEF SoundNews, OrdersSound
  <2> QED
    BY <1>1, <2>1
<1>7. jobs' = jobs => JobsSound'
  <2> SUFFICES ASSUME jobs' = jobs, NEW i \in 1..Len(jobs'), NEW m \in jobs'[i].news PROVE Sound(m)'
    BY DEF JobsSound
  <2>1. m \in Messages /\ Sound(m)
    BY HeldMessages DEF SoundNews, JobsSound
  <2> QED
    BY <1>1, <2>1
<1> QED
  BY <1>3, <1>4, <1>5, <1>6, <1>7

LEMMA TopicFacts ==
  ASSUME NEW m \in Messages
  PROVE  /\ Topic(m) \in Topics /\ SettledBy(m) \subseteq Topics /\ Topic(m) \in SettledBy(m)
         /\ \A t \in SettledBy(m) : t.ws = m.ws
         /\ m.kind = "spaces" => SettledBy(m) = {On("spaces", m.ws)}
         /\ m.kind = "list" => SettledBy(m) = {On("list", m.ws), On("body", m.ws)}
         /\ m.kind = "changed" => SettledBy(m) = {On("list", m.ws)}
         /\ m.kind = "body" => SettledBy(m) = {On("body", m.ws)}
<1>1. m.kind \in {"list", "changed", "body", "spaces"} /\ m.ws \in SpaceNames
  BY DEF Messages
<1>2. \A t \in {"list", "body", "spaces"} : On(t, m.ws) \in Topics /\ On(t, m.ws).ws = m.ws
  BY <1>1 DEF Topics, On, Orders
<1>3. m.kind = "spaces" => Topic(m) = On("spaces", m.ws) /\ SettledBy(m) = {On("spaces", m.ws)}
  BY DEF Topic, SettledBy
<1>4. m.kind = "list" => Topic(m) = On("list", m.ws) /\ SettledBy(m) = {On("list", m.ws), On("body", m.ws)}
  BY DEF Topic, SettledBy
<1>5. m.kind = "changed" => Topic(m) = On("list", m.ws) /\ SettledBy(m) = {On("list", m.ws)}
  BY DEF Topic, SettledBy
<1>6. m.kind = "body" => Topic(m) = On("body", m.ws) /\ SettledBy(m) = {On("body", m.ws)}
  BY DEF Topic, SettledBy
<1> QED
  BY <1>1, <1>2, <1>3, <1>4, <1>5, <1>6

LEMMA JudgedFacts ==
  ASSUME MirrorShapes, NEW p \in Apps, NEW m \in Messages
  PROVE  /\ Judged(p, m) \subseteq Topics
         /\ \A t \in behind[p] : t \in Judged(p, m) \/ (IsLatest(m) /\ t \in SettledBy(m))
         /\ (Older(p, m) \/ m.kind = "spaces") => IsLatest(m) \/ Topic(m) \in Judged(p, m)
<1>1. behind[p] \subseteq Topics
  BY DEF MirrorShapes
<1> QED
  BY <1>1, TopicFacts DEF Judged

\* What a message does to the line of a phone, and to what is known of it.
Hears(p, m) == HasRoom(p) /\ line'[p] = Append(line[p], m) /\ behind'[p] = Judged(p, m)
Misses(p, m) == line'[p] = line[p] /\ behind'[p] = behind[p] \cup SettledBy(m)
Untouched(p) == line'[p] = line[p] /\ behind'[p] = behind[p]

LEMMA BroadcastReaches ==
  ASSUME MirrorShapes, NEW m \in Messages, Broadcast(m)
  PROVE  /\ \A p \in Apps : Hears(p, m) \/ Misses(p, m) \/ (p \notin online /\ Untouched(p))
         /\ line' \in [Apps -> Seq(Messages)] /\ behind' \in [Apps -> SUBSET Topics]
<1>1. \A p \in Apps : Hears(p, m) \/ Misses(p, m) \/ (p \notin online /\ Untouched(p))
  BY DEF Broadcast, Hears, Misses, Untouched
<1>2. ASSUME NEW p \in Apps PROVE Append(line[p], m) \in Seq(Messages) /\ line[p] \in Seq(Messages)
  BY DEF MirrorShapes
<1>3. ASSUME NEW p \in Apps
      PROVE  /\ behind[p] \subseteq Topics /\ Judged(p, m) \subseteq Topics
             /\ behind[p] \cup SettledBy(m) \subseteq Topics
  BY JudgedFacts, TopicFacts DEF MirrorShapes
<1>4. line' \in [Apps -> Seq(Messages)]
  BY <1>2 DEF Broadcast
<1>5. behind' \in [Apps -> SUBSET Topics]
  BY <1>3 DEF Broadcast
<1> QED
  BY <1>1, <1>4, <1>5

\* A message more in a line, or none.
LEMMA LinesGrow ==
  ASSUME MirrorShapes, SoundNews, NoLineIsLeft, Grow, NEW m \in Messages, Sound(m), online' = online,
         \A p \in Apps : Hears(p, m) \/ line'[p] = line[p]
  PROVE  LinesSound' /\ NoLineIsLeft' /\ \A p \in Apps : Len(line'[p]) <= InboxRoom
<1>1. ASSUME NEW p \in Apps, Hears(p, m)
      PROVE  /\ Len(line'[p]) <= InboxRoom /\ p \in online'
             /\ \A i \in 1..Len(line'[p]) : line'[p][i] = m \/ (i \in 1..Len(line[p]) /\ line'[p][i] = line[p][i])
  <2>1. line[p] \in Seq(Messages) /\ Len(line[p]) < InboxRoom /\ p \in online /\ line'[p] = Append(line[p], m)
    BY <1>1, HeldMessages DEF Hears, HasRoom
  <2>2. Len(line'[p]) = Len(line[p]) + 1 /\ Len(line[p]) \in Nat
    BY <2>1
  <2>3. InboxRoom \in Nat
    BY MirrorAssumption
  <2>4. \A i \in 1..Len(line'[p]) : line'[p][i] = m \/ (i \in 1..Len(line[p]) /\ line'[p][i] = line[p][i])
    BY <2>1, <2>2
  <2> QED
    BY <2>1, <2>2, <2>3, <2>4
<1>2. \A n \in Messages : Sound(n) => Sound(n)'
  BY AllStaySound
<1>3. ASSUME NEW p \in Apps, NEW i \in 1..Len(line[p]) PROVE \E n \in Messages : n = line[p][i] /\ Sound(n)'
  BY <1>2, HeldMessages DEF SoundNews, LinesSound
<1>4. LinesSound'
  <2> SUFFICES ASSUME NEW p \in Apps, NEW i \in 1..Len(line'[p]) PROVE Sound(line[p][i])'
    BY DEF LinesSound
  <2>1. \E n \in Messages : n = line'[p][i] /\ Sound(n)'
    <3>1. CASE line'[p] = line[p]
      BY <1>3, <3>1
    <3>2. CASE Hears(p, m)
      BY <1>1, <1>2, <1>3, <3>2
    <3> QED
      BY <3>1, <3>2
  <2> QED
    BY <2>1
<1>5. \A p \in Apps : Len(line'[p]) <= InboxRoom
  BY <1>1 DEF MirrorShapes
<1>6. NoLineIsLeft'
  BY <1>1 DEF NoLineIsLeft
<1> QED
  BY <1>4, <1>5, <1>6

\* One order changes.
LEMMA OneOrder ==
  ASSUME MirrorShapes, SoundNews, OrdersHold, Grow, NEW d \in Devices, OrderIs(order[d])',
         \A e \in Devices \ {d} : order'[e] = order[e],
         \A m \in order'[d].news : m \in order[d].news \/ (m \in Messages /\ Sound(m)')
  PROVE  OrdersSound' /\ OrdersHold'
<1>1. \A m \in Messages : Sound(m) => Sound(m)'
  BY AllStaySound
<1>2. ASSUME NEW e \in Devices, NEW m \in order[e].news PROVE Sound(m)'
  BY <1>1, HeldMessages DEF SoundNews, OrdersSound
<1>3. OrdersSound'
  BY <1>2 DEF OrdersSound
<1>4. ASSUME NEW o, OrderIs(o) PROVE OrderIs(o)'
  BY <1>4 DEF Grow, OrderIs, IsTelling, IsReplying, First
<1>5. ASSUME NEW e \in Devices, e # d PROVE OrderIs(order[e])'
  <2>1. PICK o : o = order[e] /\ OrderIs(o)
    BY DEF OrdersHold
  <2>2. o = order'[e] /\ OrderIs(o)'
    BY <1>4, <1>5, <2>1
  <2> QED
    BY <2>2
<1>6. OrdersHold'
  BY <1>5 DEF OrdersHold
<1> QED
  BY <1>3, <1>6

LEMMA OrdersStay ==
  ASSUME OrdersHold, domain' = domain, order' = order
  PROVE  OrdersHold'
BY DEF OrdersHold, OrderIs, IsTelling, IsReplying, First

LEMMA JobsStay ==
  ASSUME JobsHold, jobs' = jobs
  PROVE  JobsHold'
BY DEF JobsHold

\* Jobs that were there, or one more.
LEMMA OneJob ==
  ASSUME MirrorShapes, SoundNews, JobsHold, Grow, NEW j \in Jobs, JobIs(j), \A m \in j.news : Sound(m)',
         \A k \in 1..Len(jobs') : jobs'[k] = j \/ \E n \in 1..Len(jobs) : jobs'[k] = jobs[n]
  PROVE  JobsSound' /\ JobsHold'
<1>1. \A m \in Messages : Sound(m) => Sound(m)'
  BY AllStaySound
<1>2. ASSUME NEW n \in 1..Len(jobs), NEW m \in jobs[n].news PROVE Sound(m)'
  BY <1>1, HeldMessages DEF SoundNews, JobsSound
<1>3. JobsSound'
  BY <1>2 DEF JobsSound
<1>4. JobsHold'
  <2> SUFFICES ASSUME NEW k \in 1..Len(jobs') PROVE JobIs(jobs'[k])
    BY DEF JobsHold
  <2> QED
    BY DEF JobsHold
<1> QED
  BY <1>3, <1>4

-----------------------------------------------------------------------------
(*****************************************************************************)
(* The daemon takes a command.                                               *)
(*****************************************************************************)

LEMMA ForeignStays ==
  ASSUME NothingForeignIsShown, domain' = domain, effects' = effects, shown' = shown, body' = body,
         activeName' = activeName
  PROVE  NothingForeignIsShown'
BY DEF NothingForeignIsShown

LEMMA OneSends ==
  ASSUME OnlySkillsAreRead, domain' = domain, NEW d \in Devices, \A e \in Devices \ {d} : sent'[e] = sent[e],
         domain = "skills" \/ (Has(sent'[d], Reads) => Has(sent[d], Reads))
  PROVE  OnlySkillsAreRead'
BY DEF OnlySkillsAreRead

LEMMA NobodySends ==
  ASSUME OnlySkillsAreRead, domain' = domain, sent' = sent
  PROVE  OnlySkillsAreRead'
BY DEF OnlySkillsAreRead

LEMMA LinesStay ==
  ASSUME NoLineIsLeft, online' = online, line' = line
  PROVE  NoLineIsLeft'
BY DEF NoLineIsLeft

\* What a staged command leaves: the command it was, and sound news.
LEMMA StagedFacts ==
  ASSUME MirrorShapes, SoundNews, OrdersHold, Grow, NEW d \in Devices, NEW c \in Commands,
         NEW at \in {"look", "reply", "tell", "spawn"}, NEW news \in NoneOrOne(Messages), Stage(d, at, c, news),
         \A m \in news : Sound(m)',
         at \in {"look", "tell"} => c.cmd \in {"change", "create", "delete"},
         at = "tell" => c.cmd = "change" /\ First = "changed" /\ \E m \in news : m.ws = c.ws /\ m.kind = "changed" /\ ~m.interim,
         at = "reply" => \E m \in news : /\ ~m.interim
                                         /\ \/ c.cmd = "list" /\ m.kind = "list" /\ m.ws = c.ws
                                            \/ c.cmd = "read" /\ m.kind = "body"
                                            \/ c.cmd = "spaces" /\ m.kind = "spaces",
         c.cmd = "change" => First # "changed" \/ at = "tell",
         c.cmd = "change" => First # "nothing" \/ at = "spawn"
  PROVE  order' \in [Devices -> InHand] /\ OrdersSound' /\ OrdersHold'
<1>1. /\ order' \in [Devices -> InHand] /\ \A e \in Devices \ {d} : order'[e] = order[e]
      /\ order'[d].at = at /\ order'[d].cmd = c.cmd /\ order'[d].ws = c.ws /\ order'[d].news = news
  BY StageFacts
<1>2. First' = First
  BY DEF Grow, First
<1>3. IsTelling(order[d])' \/ at # "tell"
  BY <1>1, <1>2 DEF IsTelling
<1>4. IsReplying(order[d])' \/ at # "reply"
  BY <1>1 DEF IsReplying
<1>5. OrderIs(order[d])'
  BY <1>1, <1>2, <1>3, <1>4 DEF OrderIs
<1>6. \A m \in order'[d].news : m \in Messages /\ Sound(m)'
  <2>1. \A m \in news : m \in Messages
    BY DEF NoneOrOne
  <2> QED
    BY <1>1, <2>1
<1> QED
  BY <1>1, <1>5, <1>6, OneOrder

LEMMA TakeOrderSolid ==
  ASSUME Solid, NEW d \in Devices, TakeOrder(d)
  PROVE  Solid'
<1> USE DEF Solid
<1>0. MirrorShapes /\ SoundNews /\ OrdersHold /\ JobsHold /\ OnlySkillsAreRead /\ NoLineIsLeft /\ NothingForeignIsShown
  BY DEF InHandHolds
<1>1. sent[d] \in Seq(Commands) /\ sent[d] # <<>>
  BY InHandFacts DEF TakeOrder
<1> PICK c \in Commands : c = Head(sent[d])
  BY <1>1, RestFacts
<1>2. c.cmd \in Orders /\ c.ws \in SpaceNames
  BY DEF Commands
<1>3. sent' \in [Devices -> Seq(Commands)] /\ OnlySkillsAreRead'
  <2>1. Tail(sent[d]) \in Seq(Commands)
    BY <1>1, RestFacts
  <2>2. sent' = [sent EXCEPT ![d] = Tail(sent[d])]
    BY DEF TakeOrder
  <2>3. sent' \in [Devices -> Seq(Commands)] /\ sent'[d] = Tail(sent[d]) /\ \A e \in Devices \ {d} : sent'[e] = sent[e]
    BY <2>1, <2>2 DEF MirrorShapes
  <2>4. Has(sent'[d], Reads) => Has(sent[d], Reads)
    BY <1>1, <2>3, HasRest
  <2> QED
    BY <1>0, <2>3, <2>4, OneSends DEF TakeOrder
<1>4. ASSUME order' \in [Devices -> InHand], OrdersSound', OrdersHold', Grow,
             spaces' \in [SpaceNames -> {"open", "absent", "retired"}], spaces'[Home] = "open",
             real' \in [SpaceNames -> Nat], \A w \in SpaceNames : found[w] <= real'[w], found' = found, jobs' = jobs,
             behind' \in [Apps -> SUBSET Topics]
      PROVE  Solid'
  <2>1. UNCHANGED <<domain, line, online, activeName, stored, roster, shown, body, effects>>
    BY DEF TakeOrder, phoneState
  <2>2. MirrorShapes'
    BY <1>3, <1>4, <2>1 DEF MirrorShapes
  <2>3. SoundNews'
    BY <1>4, <2>1, HeldStaysSound DEF SoundNews
  <2>4. InHandHolds'
    BY <1>0, <1>3, <1>4, <2>1, JobsStay, LinesStay DEF InHandHolds
  <2> QED
    BY <1>0, <2>1, <2>2, <2>3, <2>4, ForeignStays
<1>5. CASE UNCHANGED daemonState /\ UNCHANGED behind /\ \E at \in {"reply", "spawn"}, news \in NoneOrOne(Messages) :
                /\ Stage(d, at, c, news) /\ \A m \in news : Sound(m)
                /\ at = "reply" => \E m \in news : /\ ~m.interim
                                         /\ \/ c.cmd = "list" /\ m.kind = "list" /\ m.ws = c.ws
                                            \/ c.cmd = "read" /\ m.kind = "body"
                                            \/ c.cmd = "spaces" /\ m.kind = "spaces"
                /\ c.cmd # "change"
  <2>1. PICK at \in {"reply", "spawn"}, news \in NoneOrOne(Messages) :
                /\ Stage(d, at, c, news) /\ \A m \in news : Sound(m)
                /\ at = "reply" => \E m \in news : /\ ~m.interim
                                         /\ \/ c.cmd = "list" /\ m.kind = "list" /\ m.ws = c.ws
                                            \/ c.cmd = "read" /\ m.kind = "body"
                                            \/ c.cmd = "spaces" /\ m.kind = "spaces"
                /\ c.cmd # "change"
    BY <1>5
  <2>2. Grow /\ UNCHANGED <<domain, spaces, real, found, jobs, behind>>
    BY <1>5, NothingGrows DEF daemonState, TakeOrder
  <2>3. \A m \in news : Sound(m)'
    <3>1. \A m \in news : m \in Messages
      BY DEF NoneOrOne
    <3> QED
      BY <2>1, <2>2, <3>1, AllStaySound
  <2>4. order' \in [Devices -> InHand] /\ OrdersSound' /\ OrdersHold'
    BY <1>0, <2>1, <2>2, <2>3, StagedFacts
  <2> QED
    BY <1>4, <2>2, <2>4 DEF MirrorShapes
<1>6. CASE c.cmd = "spaces" /\ AnswerSpaces(d, c) /\ UNCHANGED behind
  <2>1. {Roster} \in NoneOrOne(Messages)
    BY RosterFacts, OneMessage
  <2> QED
    BY <1>5, <1>6, <2>1, RosterFacts DEF AnswerSpaces
<1>7. CASE c.cmd = "list" /\ AnswerList(d, c) /\ UNCHANGED behind
  <2>1. {ListOf(c.ws)} \in NoneOrOne(Messages)
    BY <1>2, ListFacts, OneMessage
  <2> QED
    BY <1>2, <1>5, <1>7, <2>1, ListFacts DEF AnswerList
<1>8. CASE c.cmd = "read" /\ AnswerBody(d, c) /\ UNCHANGED behind
  <2>0. real[c.ws] \in Nat
    BY <1>2, TheFacts
  <2> PICK m \in Messages : m = News("body", c.ws, real[c.ws]) /\ m.kind = "body" /\ m.ws = c.ws
                            /\ m.version = real[c.ws] /\ ~m.interim
    <3>1. LET m == News("body", c.ws, real[c.ws])
          IN m \in Messages /\ m.kind = "body" /\ m.ws = c.ws /\ m.version = real[c.ws] /\ ~m.interim
      BY <1>2, <2>0 DEF News, Messages
    <3> QED
      BY <3>1, Zenon
  <2>1. {m} \in NoneOrOne(Messages)
    BY OneMessage
  <2>2. domain = "skills"
    <3>1. c \in Reads
      BY <1>8 DEF Reads, Commands
    <3>2. Has(sent[d], Reads)
      BY <1>1, <3>1, HasRest
    <3> QED
      BY <1>0, <3>2 DEF OnlySkillsAreRead
  <2>3. Sound(m)
    BY <1>2, <2>0, <2>2 DEF Sound
  <2>4. Stage(d, "reply", c, {m}) /\ UNCHANGED daemonState
    BY <1>8 DEF AnswerBody
  <2> QED
    BY <1>5, <1>8, <2>1, <2>3, <2>4
<1>9. CASE c.cmd = "reload" /\ Reload(d, c) /\ UNCHANGED behind
  <2>1. None \in NoneOrOne(Messages) /\ \A m \in None : FALSE
    BY DEF None, NoneOrOne
  <2> QED
    BY <1>5, <1>9, <2>1 DEF Reload
<1>10. CASE c.cmd = "change" /\ CarryOut(d, c) /\ UNCHANGED behind
  <2>1. /\ real' \in [SpaceNames -> Nat] /\ \A w \in SpaceNames : real[w] <= real'[w]
        /\ UNCHANGED <<domain, spaces, found, jobs, behind>>
    BY <1>2, <1>10 DEF CarryOut, Alter, MirrorShapes, TakeOrder
  <2>2. \A w \in SpaceNames : real[w] \in Nat /\ found[w] \in Nat /\ found[w] <= real[w] /\ real'[w] \in Nat
    BY <2>1 DEF MirrorShapes
  <2>3. Grow /\ \A w \in SpaceNames : found[w] <= real'[w]
    BY <2>1, <2>2 DEF Grow
  <2>4. CASE First = "changed"
    <3> PICK m \in Messages : m = News("changed", c.ws, 0) /\ m.kind = "changed" /\ m.ws = c.ws /\ ~m.interim
      <4>1. LET m == News("changed", c.ws, 0)
            IN m \in Messages /\ m.kind = "changed" /\ m.ws = c.ws /\ ~m.interim
        BY <1>2 DEF News, Messages
      <4> QED
        BY <4>1, Zenon
    <3>1. {m} \in NoneOrOne(Messages)
      BY OneMessage
    <3>2. Sound(m)' /\ Stage(d, "tell", c, {m})
      BY <1>10, <2>4, <3>1 DEF Sound, CarryOut, First
    <3>3. order' \in [Devices -> InHand] /\ OrdersSound' /\ OrdersHold'
      BY <1>0, <1>10, <2>3, <2>4, <3>1, <3>2, StagedFacts
    <3> QED
      BY <1>4, <2>1, <2>3, <3>3 DEF MirrorShapes
  <2>5. CASE First # "changed"
    <3>1. None \in NoneOrOne(Messages) /\ \A m \in None : FALSE
      BY DEF None, NoneOrOne
    <3>2. PICK at \in {"look", "spawn"} : Stage(d, at, c, None) /\ (First = "nothing" => at = "spawn")
      BY <1>10, <2>5 DEF CarryOut, First
    <3>3. order' \in [Devices -> InHand] /\ OrdersSound' /\ OrdersHold'
      BY <1>0, <1>10, <2>3, <2>5, <3>1, <3>2, StagedFacts
    <3> QED
      BY <1>4, <2>1, <2>3, <3>3 DEF MirrorShapes
  <2> QED
    BY <2>4, <2>5
<1>11. CASE c.cmd \in {"create", "delete"} /\ (CreateSpace(d, c) \/ DeleteSpace(d, c)) /\ UNCHANGED behind
  <2>1. /\ Stage(d, "look", c, None) /\ UNCHANGED <<domain, real, found, jobs, behind>>
        /\ spaces' \in [SpaceNames -> {"open", "absent", "retired"}] /\ spaces'[Home] = "open"
    BY <1>2, <1>11, MirrorAssumption DEF CreateSpace, DeleteSpace, MirrorShapes, TakeOrder
  <2>2. None \in NoneOrOne(Messages) /\ \A m \in None : FALSE
    BY DEF None, NoneOrOne
  <2>3. Grow
    BY <2>1, NothingGrows
  <2>4. order' \in [Devices -> InHand] /\ OrdersSound' /\ OrdersHold'
    BY <1>0, <1>11, <2>1, <2>2, <2>3, StagedFacts
  <2> QED
    BY <1>4, <2>1, <2>3, <2>4 DEF MirrorShapes
<1>12. CASE RefuseOrder(d, c)
  <2>1. UNCHANGED <<domain, order, spaces, real, found, jobs>> /\ Grow
    BY <1>12, NothingGrows DEF RefuseOrder, TakeOrder, daemonState
  <2>2. behind' \in [Apps -> SUBSET Topics]
    <3>1. On(c.cmd, c.ws) \in Topics
      BY <1>2 DEF On, Topics
    <3> QED
      BY <1>12, <3>1 DEF RefuseOrder, MirrorShapes
  <2>3. order' \in [Devices -> InHand] /\ OrdersSound' /\ OrdersHold'
    BY <1>0, <2>1, HeldStaysSound, OrdersStay DEF MirrorShapes
  <2> QED
    BY <1>4, <2>1, <2>2, <2>3 DEF MirrorShapes
<1> QED
  BY <1>6, <1>7, <1>8, <1>9, <1>10, <1>11, <1>12 DEF TakeOrder

-----------------------------------------------------------------------------
(*****************************************************************************)
(* The daemon carries one out, tells and replies.                            *)
(*****************************************************************************)

\* The solid parts, by the variables they are about.
OrdersSolid == order \in [Devices -> InHand] /\ OrdersSound /\ OrdersHold
JobsSolid == jobs \in Seq(Jobs) /\ JobsSound /\ JobsHold
LinesSolid == line \in [Apps -> Seq(Messages)] /\ (\A p \in Apps : Len(line[p]) <= InboxRoom) /\ LinesSound /\ NoLineIsLeft
SentSolid == sent \in [Devices -> Seq(Commands)] /\ OnlySkillsAreRead
ContentSolid ==
    /\ domain \in DOMAIN DeskOf
    /\ spaces \in [SpaceNames -> {"open", "absent", "retired"}] /\ spaces[Home] = "open"
    /\ real \in [SpaceNames -> Nat] /\ found \in [SpaceNames -> Nat]
    /\ \A w \in SpaceNames : found[w] <= real[w]
PhonesSolid ==
    /\ online \subseteq Apps
    /\ activeName \in [Apps -> NoneOrOne(SpaceNames)] /\ stored \in [Apps -> NoneOrOne(SpaceNames)]
    /\ roster \in [Apps -> SUBSET SpaceNames]
    /\ shown \in [Apps -> NoneOrOne(Messages)] /\ body \in [Apps -> NoneOrOne(Messages)]
    /\ effects \in [Apps -> SUBSET {"spaces", "list"}]
    /\ ShownSound /\ BodiesSound /\ NothingForeignIsShown
BehindSolid == behind \in [Apps -> SUBSET Topics]

SolidPartsHold ==
    ContentSolid /\ OrdersSolid /\ JobsSolid /\ LinesSolid /\ SentSolid /\ PhonesSolid /\ BehindSolid

LEMMA SolidParts == (Solid => SolidPartsHold) /\ (SolidPartsHold => Solid)'
<1>1. Solid => SolidPartsHold
  BY Zenon DEF Solid, SolidPartsHold, MirrorShapes, SoundNews, InHandHolds, ContentSolid, OrdersSolid, JobsSolid,
               LinesSolid, SentSolid, PhonesSolid, BehindSolid
<1>2. (SolidPartsHold => Solid)'
  BY Zenon DEF Solid, SolidPartsHold, MirrorShapes, SoundNews, InHandHolds, ContentSolid, OrdersSolid, JobsSolid,
               LinesSolid, SentSolid, PhonesSolid, BehindSolid
<1> QED
  BY <1>1, <1>2

LEMMA PartsStay ==
  ASSUME Solid, Grow
  PROVE  /\ spaces' = spaces /\ real' = real /\ found' = found => ContentSolid'
         /\ order' = order => OrdersSolid'
         /\ jobs' = jobs => JobsSolid'
         /\ line' = line /\ online' = online => LinesSolid'
         /\ sent' = sent => SentSolid'
         /\ UNCHANGED phoneState => PhonesSolid'
         /\ behind' = behind => BehindSolid'
<1>1. MirrorShapes /\ SoundNews /\ OrdersHold /\ JobsHold /\ OnlySkillsAreRead /\ NoLineIsLeft
      /\ NothingForeignIsShown /\ domain' = domain
  BY DEF Solid, InHandHolds, Grow
<1>2. spaces' = spaces /\ real' = real /\ found' = found => ContentSolid'
  BY <1>1 DEF MirrorShapes, ContentSolid
<1>3. order' = order => OrdersSolid'
  BY <1>1, HeldStaysSound, OrdersStay DEF MirrorShapes, OrdersSolid
<1>4. jobs' = jobs => JobsSolid'
  BY <1>1, HeldStaysSound, JobsStay DEF MirrorShapes, JobsSolid
<1>5. line' = line /\ online' = online => LinesSolid'
  BY <1>1, HeldStaysSound, LinesStay DEF MirrorShapes, LinesSolid
<1>6. sent' = sent => SentSolid'
  BY <1>1, NobodySends DEF MirrorShapes, SentSolid
<1>7. UNCHANGED phoneState => PhonesSolid'
  <2> SUFFICES ASSUME UNCHANGED phoneState PROVE PhonesSolid'
    OBVIOUS
  <2>1. ShownSound' /\ BodiesSound' /\ NothingForeignIsShown'
    BY <1>1, HeldStaysSound, ForeignStays DEF phoneState
  <2> QED
    BY <1>1, <2>1 DEF MirrorShapes, PhonesSolid, phoneState
<1>8. behind' = behind => BehindSolid'
  BY <1>1 DEF MirrorShapes, BehindSolid
<1> QED
  BY <1>2, <1>3, <1>4, <1>5, <1>6, <1>7, <1>8

LEMMA SolidHas ==
  ASSUME Solid
  PROVE  MirrorShapes /\ SoundNews /\ OrdersHold /\ JobsHold /\ OnlySkillsAreRead /\ NoLineIsLeft
         /\ NothingForeignIsShown
BY DEF Solid, InHandHolds

\* A command in hand goes on.
LEMMA OrderGoesOn ==
  ASSUME Solid, Grow, NEW d \in Devices, NEW o \in InHand, order' = [order EXCEPT ![d] = o], OrderIs(o)',
         \A m \in o.news : m \in order[d].news \/ (m \in Messages /\ Sound(m)')
  PROVE  OrdersSolid'
<1>1. order' \in [Devices -> InHand] /\ order'[d] = o /\ \A e \in Devices \ {d} : order'[e] = order[e]
  BY SolidHas, OrderChanges
<1>2. OrderIs(order[d])'
  BY <1>1
<1> QED
  BY <1>1, <1>2, SolidHas, OneOrder DEF OrdersSolid

LEMMA CalmIs == OrderIs(Calm)' /\ OrderIs(Calm)
BY DEF OrderIs, Calm, None

\* A message is broadcast.
LEMMA BroadcastSolid ==
  ASSUME Solid, Grow, NEW m \in Messages, Sound(m), Broadcast(m), online' = online
  PROVE  LinesSolid' /\ BehindSolid'
<1>1. /\ \A p \in Apps : Hears(p, m) \/ line'[p] = line[p]
      /\ line' \in [Apps -> Seq(Messages)] /\ behind' \in [Apps -> SUBSET Topics]
  BY SolidHas, BroadcastReaches DEF Misses, Untouched
<1> QED
  BY <1>1, SolidHas, LinesGrow DEF LinesSolid, BehindSolid

LEMMA UntoldSolid ==
  ASSUME Solid, NEW w \in SpaceNames, Untold(w)
  PROVE  BehindSolid'
<1>1. On("list", w) \in Topics /\ On("body", w) \in Topics
  BY DEF On, Topics, Orders
<1>2. \A p \in Apps : behind[p] \subseteq Topics
  BY SolidHas DEF MirrorShapes
<1> QED
  BY <1>1, <1>2 DEF Untold, BehindSolid

LEMMA LookSolid ==
  ASSUME Solid, NEW d \in Devices, Look(d)
  PROVE  Solid'
<1>1. /\ order[d] \in InHand /\ order[d].ws \in SpaceNames /\ order[d].at = "look" /\ OrderIs(order[d])
      /\ order[d].cmd \in {"change", "create", "delete"}
  BY SolidHas, InHandFacts DEF Look, OrdersHold, OrderIs
<1>2. Grow /\ UNCHANGED <<domain, spaces, real, found, jobs, sent, line, online, behind>> /\ UNCHANGED phoneState
  BY SolidHas, NothingGrows DEF Look, daemonState, phoneState
<1> PICK m : m = IF order[d].cmd # "change" THEN Roster
                 ELSE IF DeskOf[domain].first = "announcement" THEN Announcement(order[d].ws) ELSE ListOf(order[d].ws)
  OBVIOUS
<1>3. /\ m \in Messages /\ Sound(m)
      /\ order[d].cmd \in {"create", "delete"} => m.kind = "spaces"
      /\ order[d].cmd = "change" => m.kind = "list" /\ m.ws = order[d].ws /\ (m.interim <=> First = "announcement")
  <2>1. CASE order[d].cmd # "change"
    BY <2>1, SolidHas, RosterFacts
  <2>2. CASE order[d].cmd = "change" /\ First = "announcement"
    BY <1>1, <2>2, SolidHas, AnnouncementFacts DEF First
  <2>3. CASE order[d].cmd = "change" /\ First # "announcement"
    BY <1>1, <2>3, SolidHas, ListFacts DEF First
  <2> QED
    BY <2>1, <2>2, <2>3
<1> PICK o : o = [order[d] EXCEPT !.at = "tell", !.news = {m}]
  OBVIOUS
<1>4. o \in InHand /\ o.at = "tell" /\ o.cmd = order[d].cmd /\ o.ws = order[d].ws /\ o.news = {m}
  BY <1>1, <1>3, OneMessage DEF InHand
<1>5. order' = [order EXCEPT ![d] = o]
  <2>1. order' = [order EXCEPT ![d] = [@ EXCEPT !.at = "tell", !.news = {m}]]
    BY SolidHas DEF Look, MirrorShapes
  <2> QED
    BY <2>1, SolidHas DEF MirrorShapes
<1>6. OrderIs(o)'
  <2>1. First' = First
    BY <1>2 DEF First
  <2>2. IsTelling(o)'
    BY <1>1, <1>3, <1>4, <2>1 DEF IsTelling, OrderIs
  <2> QED
    BY <1>1, <1>4, <2>1, <2>2 DEF OrderIs
<1>7. OrdersSolid'
  BY <1>2, <1>3, <1>4, <1>5, <1>6, SolidHas, AllStaySound, OrderGoesOn
<1> QED
  BY <1>2, <1>7, PartsStay, SolidParts DEF SolidPartsHold

LEMMA TellSolid ==
  ASSUME Solid, NEW d \in Devices, Tell(d)
  PROVE  Solid'
<1>1. order[d] \in InHand /\ order[d].at = "tell" /\ OrderIs(order[d])
  BY SolidHas, InHandFacts DEF Tell, OrdersHold
<1>2. Grow /\ UNCHANGED <<domain, spaces, real, found, jobs, sent, online>> /\ UNCHANGED phoneState
  BY SolidHas, NothingGrows DEF Tell, daemonState, phoneState
<1>3. PICK m \in order[d].news : Broadcast(m)
  BY DEF Tell
<1>4. m \in Messages /\ Sound(m)
  BY SolidHas, HeldMessages DEF SoundNews, OrdersSound
<1>5. LinesSolid' /\ BehindSolid'
  BY <1>2, <1>3, <1>4, BroadcastSolid
<1> PICK o : o = IF order[d].cmd = "change" /\ DeskOf[domain].rebuilds
                 THEN [order[d] EXCEPT !.at = "spawn", !.news = None] ELSE Calm
  OBVIOUS
<1>6. o \in InHand /\ o.news = {} /\ OrderIs(o)'
  <2>1. CASE o = Calm
    BY <2>1, SolidHas, InHandFacts, CalmIs
  <2>2. CASE order[d].cmd = "change" /\ DeskOf[domain].rebuilds /\ o = [order[d] EXCEPT !.at = "spawn", !.news = None]
    <3>1. o.at = "spawn" /\ o.cmd = "change" /\ o.news = {} /\ o \in InHand
      BY <1>1, <2>2 DEF InHand, None, NoneOrOne
    <3>2. First # "changed" /\ First' = First
      BY <1>2, <2>2, SolidHas, DeskFacts DEF First
    <3> QED
      BY <3>1, <3>2 DEF OrderIs
  <2> QED
    BY <2>1, <2>2
<1>7. order' = [order EXCEPT ![d] = o]
  BY DEF Tell
<1>8. OrdersSolid'
  BY <1>2, <1>6, <1>7, OrderGoesOn
<1> QED
  BY <1>2, <1>5, <1>8, PartsStay, SolidParts DEF SolidPartsHold

LEMMA ReplySolid ==
  ASSUME Solid, NEW p \in Apps, Reply(p)
  PROVE  Solid'
<1>1. p \in Devices
  BY DEF Devices
<1>2. Grow /\ UNCHANGED <<domain, spaces, real, found, jobs, sent, online>> /\ UNCHANGED phoneState
  BY SolidHas, NothingGrows DEF Reply, daemonState, phoneState
<1>3. PICK m \in order[p].news : line' = [line EXCEPT ![p] = Append(@, m)] /\ behind' = [behind EXCEPT ![p] = Judged(p, m)]
  BY DEF Reply
<1>4. m \in Messages /\ Sound(m)
  BY <1>1, SolidHas, HeldMessages DEF SoundNews, OrdersSound
<1>5. line' \in [Apps -> Seq(Messages)] /\ \A q \in Apps : Hears(q, m) \/ line'[q] = line[q]
  <2>1. Append(line[p], m) \in Seq(Messages) /\ line \in [Apps -> Seq(Messages)] /\ behind \in [Apps -> SUBSET Topics]
    BY <1>4, SolidHas DEF MirrorShapes
  <2> QED
    BY <1>3, <2>1 DEF Hears, Reply
<1>6. BehindSolid'
  BY <1>3, <1>4, SolidHas, JudgedFacts DEF BehindSolid, MirrorShapes
<1>7. LinesSolid'
  BY <1>2, <1>4, <1>5, SolidHas, LinesGrow DEF LinesSolid
<1>8. OrdersSolid'
  BY <1>1, <1>2, SolidHas, InHandFacts, CalmIs, OrderGoesOn DEF Reply
<1> QED
  BY <1>2, <1>6, <1>7, <1>8, PartsStay, SolidParts DEF SolidPartsHold

-----------------------------------------------------------------------------
(*****************************************************************************)
(* Commands are sent, and reloads go on.                                     *)
(*****************************************************************************)

LEMMA HasOne ==
  ASSUME NEW M, NEW c \in M, NEW S
  PROVE  <<c>> \in Seq(M) /\ (Has(<<c>>, S) <=> c \in S)
<1>1. <<c>> \in Seq(M) /\ Len(<<c>>) = 1 /\ <<c>>[1] = c
  OBVIOUS
<1> QED
  BY <1>1 DEF Has

LEMMA SendFacts ==
  ASSUME Solid, domain' = domain, NEW d \in Devices, NEW cmds \in Seq(Commands), Send(d, cmds),
         domain = "skills" \/ ~Has(cmds, Reads)
  PROVE  /\ SentSolid' /\ \A e \in Devices \ {d} : sent'[e] = sent[e]
         /\ d \in online \cup Askers => sent'[d] = sent[d] \o cmds
         /\ \A e \in Devices : \A S : Has(sent[e], S) => Has(sent'[e], S)
         /\ \A S : d \in online \cup Askers /\ Has(cmds, S) => Has(sent'[d], S)
<1>1. sent[d] \in Seq(Commands)
  BY SolidHas, InHandFacts
<1>2. sent[d] \o cmds \in Seq(Commands) /\ \A S : Has(sent[d] \o cmds, S) <=> Has(sent[d], S) \/ Has(cmds, S)
  BY <1>1, HasConcat
<1>3. sent'[d] = (IF d \in online \cup Askers THEN sent[d] \o cmds ELSE sent[d])
      /\ \A e \in Devices \ {d} : sent'[e] = sent[e]
  BY SolidHas DEF Send, MirrorShapes
<1>4. sent' \in [Devices -> Seq(Commands)]
  BY <1>1, <1>2, SolidHas DEF Send, MirrorShapes
<1>5. domain = "skills" \/ (Has(sent'[d], Reads) => Has(sent[d], Reads))
  BY <1>2, <1>3
<1>6. OnlySkillsAreRead'
  BY <1>3, <1>5, SolidHas, OneSends
<1>7. \A e \in Devices : \A S : Has(sent[e], S) => Has(sent'[e], S)
  BY <1>2, <1>3
<1>8. \A S : d \in online \cup Askers /\ Has(cmds, S) => Has(sent'[d], S)
  BY <1>2, <1>3
<1> QED
  BY <1>3, <1>4, <1>6, <1>7, <1>8 DEF SentSolid

LEMMA SpawnReloadSolid ==
  ASSUME Solid, NEW d \in Devices, SpawnReload(d)
  PROVE  Solid'
<1>1. Grow /\ UNCHANGED <<domain, spaces, real, found, sent, line, online, behind>> /\ UNCHANGED phoneState
  BY SolidHas, NothingGrows DEF SpawnReload, phoneState
<1>2. OrdersSolid'
  BY <1>1, SolidHas, InHandFacts, CalmIs, OrderGoesOn DEF SpawnReload
<1> PICK tells \in BOOLEAN : tells = IF order[d].cmd = "reload" THEN DeskOf[domain].onReload ELSE DeskOf[domain].later
  BY SolidHas, DeskFacts
<1> PICK j : j = [ws |-> order[d].ws, tells |-> tells, at |-> "wait", news |-> None]
  OBVIOUS
<1>3. j \in Jobs /\ JobIs(j) /\ j.news = {}
  BY SolidHas, InHandFacts DEF Jobs, JobIs, None, NoneOrOne
<1>4. jobs' = Append(jobs, j) /\ jobs \in Seq(Jobs)
  BY SolidHas DEF SpawnReload, MirrorShapes
<1>5. jobs' \in Seq(Jobs) /\ \A k \in 1..Len(jobs') : jobs'[k] = j \/ \E n \in 1..Len(jobs) : jobs'[k] = jobs[n]
  BY <1>3, <1>4, AppendFacts
<1>6. JobsSolid'
  BY <1>1, <1>3, <1>5, SolidHas, OneJob DEF JobsSolid
<1> QED
  BY <1>1, <1>2, <1>6, PartsStay, SolidParts DEF SolidPartsHold

LEMMA WishFacts ==
  ASSUME Solid, NEW d \in Devices, NEW c \in Wishes(d)
  PROVE  c \in Commands /\ (domain = "skills" \/ c \notin Reads)
<1>1. Mine(d) \subseteq SpaceNames
  <2>1. d \in Apps => activeName[d] \in NoneOrOne(SpaceNames)
    BY SolidHas DEF MirrorShapes
  <2> QED
    BY <2>1 DEF Mine, NoneOrOne
<1>2. PICK what \in Orders, w \in SpaceNames : c = Cmd(what, w) /\ (domain = "skills" \/ what # "read")
  <2>1. CASE c \in {Cmd("reload", w) : w \in Mine(d)}
    BY <1>1, <2>1 DEF Orders
  <2>2. CASE c \in {Cmd("change", w) : w \in Mine(d)}
    BY <1>1, <2>2 DEF Orders
  <2>3. CASE domain = "skills" /\ c \in {Cmd("read", w) : w \in Mine(d)}
    BY <1>1, <2>3 DEF Orders
  <2>4. CASE c \in {Cmd("create", w) : w \in SpaceNames}
    BY <2>4 DEF Orders
  <2>5. CASE c \in {Cmd("delete", w) : w \in SpaceNames}
    BY <2>5 DEF Orders
  <2> QED
    BY <2>1, <2>2, <2>3, <2>4, <2>5 DEF Wishes
<1> QED
  BY <1>2 DEF Cmd, Commands, Reads

LEMMA AskSolid ==
  ASSUME Solid, NEW d \in Devices, Ask(d)
  PROVE  Solid'
<1>1. Grow /\ UNCHANGED <<domain, spaces, real, found, order, jobs, line, online, behind>> /\ UNCHANGED phoneState
  BY SolidHas, NothingGrows DEF Ask, phoneState, daemonState
<1>2. PICK c \in Wishes(d) : Send(d, <<c>>)
  BY DEF Ask
<1>3. <<c>> \in Seq(Commands) /\ (domain = "skills" \/ ~Has(<<c>>, Reads))
  BY WishFacts, HasOne
<1>4. SentSolid'
  BY <1>1, <1>2, <1>3, SendFacts
<1> QED
  BY <1>1, <1>4, PartsStay, SolidParts DEF SolidPartsHold

LEMMA JobFacts ==
  ASSUME Solid, NEW i \in DOMAIN jobs
  PROVE  /\ i \in 1..Len(jobs) /\ jobs \in Seq(Jobs) /\ jobs[i] \in Jobs /\ jobs[i].ws \in SpaceNames /\ JobIs(jobs[i])
         /\ jobs[i].tells \in BOOLEAN /\ jobs[i].news \in NoneOrOne(Messages)
<1>1. jobs \in Seq(Jobs) /\ i \in 1..Len(jobs) /\ jobs[i] \in Jobs
  BY SolidHas DEF MirrorShapes
<1> QED
  BY <1>1, SolidHas DEF JobsHold, Jobs

LEMMA RemovalSolid ==
  ASSUME Solid, Grow, NEW i \in DOMAIN jobs, jobs' = Lists!RemoveAt(jobs, i)
  PROVE  JobsSolid'
<1>1. /\ jobs' \in Seq(Jobs)
      /\ \A k \in 1..Len(jobs') : \E n \in 1..Len(jobs) : jobs'[k] = jobs[n]
  BY JobFacts, SolidHas, JobLeaves
<1>2. \A m \in Messages : Sound(m) => Sound(m)'
  BY SolidHas, AllStaySound
<1>3. \A m \in jobs[i].news : Sound(m)'
  BY <1>2, JobFacts, SolidHas, HeldMessages DEF SoundNews, JobsSound
<1> QED
  BY <1>1, <1>3, JobFacts, SolidHas, OneJob DEF JobsSolid

LEMMA JobGoesOn ==
  ASSUME Solid, Grow, NEW i \in DOMAIN jobs, NEW j \in Jobs, JobIs(j), \A m \in j.news : Sound(m)',
         jobs' = [jobs EXCEPT ![i] = j]
  PROVE  JobsSolid'
<1>1. i \in 1..Len(jobs)
  BY JobFacts
<1>2. /\ jobs' \in Seq(Jobs) /\ Len(jobs') = Len(jobs) /\ jobs'[i] = j
      /\ \A k \in 1..Len(jobs) : k # i => jobs'[k] = jobs[k]
  BY <1>1, SolidHas, JobChanges
<1>3. \A k \in 1..Len(jobs') : jobs'[k] = j \/ \E n \in 1..Len(jobs) : jobs'[k] = jobs[n]
  BY <1>2
<1> QED
  BY <1>2, <1>3, SolidHas, OneJob DEF JobsSolid

LEMMA PublishReloadSolid ==
  ASSUME Solid, NEW i \in DOMAIN jobs, PublishReload(i)
  PROVE  Solid'
<1> PICK w \in SpaceNames : w = jobs[i].ws
  BY JobFacts
<1>1. UNCHANGED <<domain, spaces, real, order, sent, line, online>> /\ UNCHANGED phoneState
      /\ found' = [found EXCEPT ![w] = real[w]]
  BY DEF PublishReload, phoneState
<1>2. found' \in [SpaceNames -> Nat] /\ \A v \in SpaceNames : found[v] <= found'[v] /\ found'[v] <= real[v]
  <2>1. \A v \in SpaceNames : real[v] \in Nat /\ found[v] \in Nat /\ found[v] <= real[v]
    BY SolidHas DEF MirrorShapes
  <2> QED
    BY <1>1, <2>1, SolidHas DEF MirrorShapes
<1>3. Grow
  BY <1>1, <1>2, SolidHas DEF Grow, MirrorShapes
<1>4. ContentSolid'
  BY <1>1, <1>2, SolidHas DEF ContentSolid, MirrorShapes
<1>5. BehindSolid'
  BY <1>1, <1>3, UntoldSolid, PartsStay DEF PublishReload
<1>6. CASE jobs[i].tells
  <2> PICK j : j = [jobs[i] EXCEPT !.at = "look"]
    OBVIOUS
  <2>1. j \in Jobs /\ j.at = "look" /\ j.news = jobs[i].news /\ j.tells
    BY <1>6, JobFacts DEF Jobs
  <2>2. jobs' = [jobs EXCEPT ![i] = j]
    BY <1>6, JobFacts DEF PublishReload
  <2>3. JobIs(j)
    BY <2>1 DEF JobIs
  <2>4. \A m \in j.news : Sound(m)'
    BY <1>3, <2>1, JobFacts, SolidHas, HeldMessages, AllStaySound DEF SoundNews, JobsSound
  <2>5. JobsSolid'
    BY <1>3, <2>1, <2>2, <2>3, <2>4, JobGoesOn
  <2> QED
    BY <1>1, <1>3, <1>4, <1>5, <2>5, PartsStay, SolidParts DEF SolidPartsHold
<1>7. CASE ~jobs[i].tells
  <2>1. JobsSolid'
    BY <1>3, <1>7, RemovalSolid DEF PublishReload
  <2> QED
    BY <1>1, <1>3, <1>4, <1>5, <2>1, PartsStay, SolidParts DEF SolidPartsHold
<1> QED
  BY <1>6, <1>7

LEMMA ReloadUnheardSolid ==
  ASSUME Solid, NEW w \in SpaceNames, ReloadUnheard(w)
  PROVE  Solid'
<1>1. UNCHANGED <<domain, spaces, real, jobs, order, sent, line, online>> /\ UNCHANGED phoneState
      /\ found' = [found EXCEPT ![w] = real[w]]
  BY DEF ReloadUnheard, phoneState
<1>2. found' \in [SpaceNames -> Nat] /\ \A v \in SpaceNames : found[v] <= found'[v] /\ found'[v] <= real[v]
  <2>1. \A v \in SpaceNames : real[v] \in Nat /\ found[v] \in Nat /\ found[v] <= real[v]
    BY SolidHas DEF MirrorShapes
  <2> QED
    BY <1>1, <2>1, SolidHas DEF MirrorShapes
<1>3. Grow
  BY <1>1, <1>2, SolidHas DEF Grow, MirrorShapes
<1>4. ContentSolid'
  BY <1>1, <1>2, SolidHas DEF ContentSolid, MirrorShapes
<1>5. BehindSolid'
  BY <1>1, <1>3, UntoldSolid, PartsStay DEF ReloadUnheard
<1> QED
  BY <1>1, <1>3, <1>4, <1>5, PartsStay, SolidParts DEF SolidPartsHold

LEMMA ReloadFailsSolid ==
  ASSUME Solid, NEW i \in DOMAIN jobs, ReloadFails(i)
  PROVE  Solid'
<1>1. Grow /\ UNCHANGED <<domain, spaces, real, found, order, sent, line, online>> /\ UNCHANGED phoneState
  BY SolidHas, NothingGrows DEF ReloadFails, phoneState
<1>2. BehindSolid'
  BY <1>1, JobFacts, UntoldSolid, PartsStay DEF ReloadFails
<1>3. JobsSolid'
  BY <1>1, RemovalSolid DEF ReloadFails
<1> QED
  BY <1>1, <1>2, <1>3, PartsStay, SolidParts DEF SolidPartsHold

LEMMA LookAgainSolid ==
  ASSUME Solid, NEW i \in DOMAIN jobs, LookAgain(i)
  PROVE  Solid'
<1>1. Grow /\ UNCHANGED <<domain, spaces, real, found, order, sent, line, online, behind>> /\ UNCHANGED phoneState
  BY SolidHas, NothingGrows DEF LookAgain, phoneState
<1> PICK w \in SpaceNames : w = jobs[i].ws
  BY JobFacts
<1> PICK m : m = ListOf(w)
  OBVIOUS
<1>2. m \in Messages /\ Sound(m) /\ m.kind = "list" /\ m.ws = w /\ ~m.interim
  BY SolidHas, ListFacts
<1> PICK j : j = [jobs[i] EXCEPT !.at = "tell", !.news = {m}]
  OBVIOUS
<1>3. j \in Jobs /\ j.at = "tell" /\ j.news = {m} /\ j.ws = w /\ j.tells = jobs[i].tells
  BY <1>2, JobFacts, OneMessage DEF Jobs
<1>4. jobs' = [jobs EXCEPT ![i] = j]
  <2>1. jobs' = [jobs EXCEPT ![i] = [@ EXCEPT !.at = "tell", !.news = {m}]]
    BY JobFacts DEF LookAgain
  <2> QED
    BY <2>1, JobFacts
<1>5. JobIs(j)
  BY <1>2, <1>3, JobFacts DEF JobIs, LookAgain
<1>6. \A n \in j.news : Sound(n)'
  BY <1>1, <1>2, <1>3, SolidHas, AllStaySound
<1>7. JobsSolid'
  BY <1>1, <1>3, <1>4, <1>5, <1>6, JobGoesOn
<1> QED
  BY <1>1, <1>7, PartsStay, SolidParts DEF SolidPartsHold

LEMMA TellFoundSolid ==
  ASSUME Solid, NEW i \in DOMAIN jobs, TellFound(i)
  PROVE  Solid'
<1>1. Grow /\ UNCHANGED <<domain, spaces, real, found, order, sent, online>> /\ UNCHANGED phoneState
  BY SolidHas, NothingGrows DEF TellFound, phoneState
<1>2. PICK m \in jobs[i].news : Broadcast(m)
  BY DEF TellFound
<1>3. m \in Messages /\ Sound(m)
  BY JobFacts, SolidHas, HeldMessages DEF SoundNews, JobsSound
<1>4. LinesSolid' /\ BehindSolid'
  BY <1>1, <1>2, <1>3, BroadcastSolid
<1>5. JobsSolid'
  BY <1>1, RemovalSolid DEF TellFound
<1> QED
  BY <1>1, <1>4, <1>5, PartsStay, SolidParts DEF SolidPartsHold

LEMMA SomebodyElseSolid ==
  ASSUME Solid, NEW w \in SpaceNames, SomebodyElse(w)
  PROVE  Solid'
<1>1. UNCHANGED <<domain, spaces, found, jobs, order, sent, online>> /\ UNCHANGED phoneState
      /\ real' = [real EXCEPT ![w] = @ + 1]
  BY DEF SomebodyElse, Alter, phoneState
<1>2. \A v \in SpaceNames : real[v] \in Nat /\ found[v] \in Nat /\ found[v] <= real[v]
  BY SolidHas DEF MirrorShapes
<1>3. real' \in [SpaceNames -> Nat] /\ \A v \in SpaceNames : real[v] <= real'[v] /\ found[v] <= real'[v]
  BY <1>1, <1>2, SolidHas DEF MirrorShapes
<1>4. Grow
  BY <1>1, <1>2, <1>3 DEF Grow
<1>5. ContentSolid'
  BY <1>1, <1>3, SolidHas DEF ContentSolid, MirrorShapes
<1>6. LinesSolid' /\ BehindSolid'
  <2>1. CASE DeskOf[domain].first = "changed"
    <3> PICK m \in Messages : m = News("changed", w, 0) /\ m.kind = "changed" /\ ~m.interim
      <4>1. LET m == News("changed", w, 0) IN m \in Messages /\ m.kind = "changed" /\ ~m.interim
        BY DEF News, Messages
      <4> QED
        BY <4>1, Zenon
    <3>1. Sound(m) /\ Broadcast(m)
      BY <2>1 DEF Sound, SomebodyElse
    <3> QED
      BY <1>1, <1>4, <3>1, BroadcastSolid
  <2>2. CASE DeskOf[domain].first # "changed"
    <3>1. line' = line /\ (Untold(w) \/ behind' = behind)
      BY <2>2 DEF SomebodyElse
    <3> QED
      BY <1>1, <1>4, <3>1, UntoldSolid, PartsStay
  <2> QED
    BY <2>1, <2>2
<1> QED
  BY <1>1, <1>4, <1>5, <1>6, PartsStay, SolidParts DEF SolidPartsHold

-----------------------------------------------------------------------------
(*****************************************************************************)
(* Sockets, and the workspace on screen.                                     *)
(*****************************************************************************)

LEMMA PhoneFacts ==
  ASSUME Solid, NEW p \in Apps
  PROVE  /\ p \in Devices /\ line[p] \in Seq(Messages) /\ sent[p] \in Seq(Commands) /\ behind[p] \subseteq Topics
         /\ activeName[p] \in NoneOrOne(SpaceNames) /\ stored[p] \in NoneOrOne(SpaceNames)
         /\ activeName[p] \subseteq SpaceNames /\ stored[p] \subseteq SpaceNames /\ roster[p] \subseteq SpaceNames
         /\ shown[p] \in NoneOrOne(Messages) /\ body[p] \in NoneOrOne(Messages)
         /\ effects[p] \subseteq {"spaces", "list"} /\ Len(line[p]) <= InboxRoom
<1>1. /\ p \in Devices /\ line[p] \in Seq(Messages) /\ sent[p] \in Seq(Commands) /\ behind[p] \subseteq Topics
      /\ activeName[p] \in NoneOrOne(SpaceNames) /\ stored[p] \in NoneOrOne(SpaceNames)
      /\ roster[p] \subseteq SpaceNames
      /\ shown[p] \in NoneOrOne(Messages) /\ body[p] \in NoneOrOne(Messages)
      /\ effects[p] \subseteq {"spaces", "list"} /\ Len(line[p]) <= InboxRoom
  BY SolidHas DEF MirrorShapes, Devices
<1>2. activeName[p] \subseteq SpaceNames /\ stored[p] \subseteq SpaceNames
  BY <1>1 DEF NoneOrOne
<1> QED
  BY <1>1, <1>2

LEMMA LineShrinks ==
  ASSUME Solid, Grow, NEW p \in Apps, NEW r \in Seq(Messages), line' = [line EXCEPT ![p] = r],
         Len(r) <= InboxRoom, \A i \in 1..Len(r) : \E k \in 1..Len(line[p]) : r[i] = line[p][k]
  PROVE  /\ line' \in [Apps -> Seq(Messages)] /\ (\A q \in Apps : Len(line'[q]) <= InboxRoom) /\ LinesSound'
         /\ line'[p] = r /\ \A q \in Apps \ {p} : line'[q] = line[q]
<1>1. line' \in [Apps -> Seq(Messages)] /\ line'[p] = r /\ \A q \in Apps \ {p} : line'[q] = line[q]
  BY SolidHas DEF MirrorShapes
<1>2. \A q \in Apps : Len(line'[q]) <= InboxRoom
  BY <1>1, PhoneFacts
<1>3. \A m \in Messages : Sound(m) => Sound(m)'
  BY SolidHas, AllStaySound
<1>4. ASSUME NEW q \in Apps, NEW k \in 1..Len(line[q]) PROVE \E m \in Messages : m = line[q][k] /\ Sound(m)'
  BY <1>3, SolidHas, HeldMessages DEF SoundNews, LinesSound
<1>5. LinesSound'
  <2> SUFFICES ASSUME NEW q \in Apps, NEW i \in 1..Len(line'[q]) PROVE Sound(line[q][i])'
    BY DEF LinesSound
  <2>1. \E k \in 1..Len(line[q]) : line'[q][i] = line[q][k]
    BY <1>1
  <2>2. PICK m \in Messages : m = line'[q][i] /\ Sound(m)'
    BY <1>4, <2>1
  <2> QED
    BY <2>2
<1> QED
  BY <1>1, <1>2, <1>5

LEMMA SocketOpensSolid ==
  ASSUME Solid, NEW p \in Apps, SocketOpens(p)
  PROVE  Solid'
<1>1. Grow /\ UNCHANGED <<domain, spaces, real, found, jobs, order, sent, line, activeName, stored, roster, shown, body>>
  BY SolidHas, NothingGrows DEF SocketOpens, daemonState
<1>2. LinesSolid'
  BY <1>1, SolidHas, HeldStaysSound DEF LinesSolid, MirrorShapes, NoLineIsLeft, SocketOpens
<1>3. effects' \in [Apps -> SUBSET {"spaces", "list"}] /\ online' \subseteq Apps
  BY SolidHas DEF SocketOpens, MirrorShapes
<1>4. ShownSound' /\ BodiesSound'
  BY <1>1, SolidHas, HeldStaysSound
<1>5. NothingForeignIsShown'
  <2>1. \A q \in Apps : "list" \in effects'[q] \/ effects'[q] = effects[q]
    BY SolidHas DEF SocketOpens, MirrorShapes
  <2> QED
    BY <1>1, <2>1, SolidHas DEF NothingForeignIsShown
<1>6. PhonesSolid'
  BY <1>1, <1>3, <1>4, <1>5, SolidHas DEF PhonesSolid, MirrorShapes
<1>7. BehindSolid'
  BY SolidHas DEF SocketOpens, MirrorShapes, BehindSolid
<1> QED
  BY <1>1, <1>2, <1>6, <1>7, PartsStay, SolidParts DEF SolidPartsHold

LEMMA SocketClosesSolid ==
  ASSUME Solid, NEW p \in Apps, SocketCloses(p)
  PROVE  Solid'
<1>1. Grow /\ UNCHANGED <<domain, spaces, real, found, jobs, activeName, stored, roster, shown, body, behind>>
  BY SolidHas, NothingGrows DEF SocketCloses, daemonState
<1>2. <<>> \in Seq(Messages) /\ Len(<<>>) = 0 /\ 0 <= InboxRoom
  BY MirrorAssumption
<1>3. LinesSolid'
  <2>1. line' \in [Apps -> Seq(Messages)] /\ (\A q \in Apps : Len(line'[q]) <= InboxRoom) /\ LinesSound'
        /\ line'[p] = <<>> /\ \A q \in Apps \ {p} : line'[q] = line[q]
    <3> PICK r \in Seq(Messages) : r = <<>> /\ Len(r) = 0
      BY <1>2
    <3>1. \A i \in 1..Len(r) : \E k \in 1..Len(line[p]) : r[i] = line[p][k]
      OBVIOUS
    <3>2. line' = [line EXCEPT ![p] = r] /\ Len(r) <= InboxRoom
      BY <1>2 DEF SocketCloses
    <3> QED
      BY <1>1, <3>1, <3>2, LineShrinks
  <2> QED
    BY <2>1, SolidHas DEF LinesSolid, NoLineIsLeft, SocketCloses
<1>4. SentSolid'
  <2>1. <<>> \in Seq(Commands)
    OBVIOUS
  <2>2. sent' \in [Devices -> Seq(Commands)] /\ sent'[p] = <<>> /\ \A e \in Devices \ {p} : sent'[e] = sent[e]
    BY <2>1, SolidHas, PhoneFacts DEF SocketCloses, MirrorShapes
  <2>3. Has(sent'[p], Reads) => Has(sent[p], Reads)
    BY <2>2, HasEmpty
  <2> QED
    BY <1>1, <2>2, <2>3, SolidHas, OneSends, PhoneFacts DEF SentSolid
<1>5. OrdersSolid'
  <2> PICK o : o = IF order[p].at = "reply" THEN Calm ELSE order[p]
    OBVIOUS
  <2>1. o \in InHand /\ \A m \in o.news : m \in order[p].news
    BY PhoneFacts, SolidHas, InHandFacts
  <2>2. OrderIs(o)'
    <3>1. CASE o = Calm
      BY <3>1, CalmIs
    <3>2. CASE o = order[p]
      <4>1. OrderIs(o)
        BY <3>2, SolidHas, PhoneFacts DEF OrdersHold
      <4> QED
        BY <1>1, <4>1 DEF OrderIs, IsTelling, IsReplying, First
    <3> QED
      BY <3>1, <3>2
  <2>3. order' = [order EXCEPT ![p] = o]
    BY SolidHas, PhoneFacts DEF SocketCloses, MirrorShapes
  <2> QED
    BY <1>1, <2>1, <2>2, <2>3, PhoneFacts, OrderGoesOn
<1>6. PhonesSolid'
  <2>1. effects' \in [Apps -> SUBSET {"spaces", "list"}] /\ online' \subseteq Apps
    BY SolidHas DEF SocketCloses, MirrorShapes
  <2>2. ShownSound' /\ BodiesSound'
    BY <1>1, SolidHas, HeldStaysSound
  <2>3. NothingForeignIsShown'
    <3>1. \A q \in Apps : "list" \in effects'[q] \/ effects'[q] = effects[q]
      BY SolidHas DEF SocketCloses, MirrorShapes
    <3> QED
      BY <1>1, <3>1, SolidHas DEF NothingForeignIsShown
  <2> QED
    BY <1>1, <2>1, <2>2, <2>3, SolidHas DEF PhonesSolid, MirrorShapes
<1> QED
  BY <1>1, <1>3, <1>4, <1>5, <1>6, PartsStay, SolidParts DEF SolidPartsHold

LEMMA SetActiveSolid ==
  ASSUME Solid, Grow, NEW p \in Apps, NEW w \in SpaceNames, SetActive(p, w),
         stored' \in [Apps -> NoneOrOne(SpaceNames)], UNCHANGED <<online, roster, shown, body>>
  PROVE  PhonesSolid'
<1>1. {w} \in NoneOrOne(SpaceNames)
  BY DEF NoneOrOne
<1>2. activeName' \in [Apps -> NoneOrOne(SpaceNames)] /\ effects' \in [Apps -> SUBSET {"spaces", "list"}]
  BY <1>1, SolidHas DEF SetActive, MirrorShapes
<1>3. \A q \in Apps : "list" \in effects'[q] \/ (effects'[q] = effects[q] /\ activeName'[q] = activeName[q])
  BY SolidHas DEF SetActive, MirrorShapes
<1>4. NothingForeignIsShown'
  BY <1>3, SolidHas DEF NothingForeignIsShown, Grow
<1>5. ShownSound' /\ BodiesSound'
  BY SolidHas, HeldStaysSound
<1> QED
  BY <1>2, <1>4, <1>5, SolidHas DEF PhonesSolid, MirrorShapes

LEMMA SwitchToSolid ==
  ASSUME Solid, NEW p \in Apps, NEW w \in SpaceNames, SwitchTo(p, w)
  PROVE  Solid'
<1>1. Grow /\ UNCHANGED <<domain, spaces, real, found, jobs, order, sent, line, online, stored, roster, shown, body, behind>>
  BY SolidHas, NothingGrows DEF SwitchTo, daemonState
<1>2. PhonesSolid'
  BY <1>1, SolidHas, SetActiveSolid DEF SwitchTo, MirrorShapes
<1> QED
  BY <1>1, <1>2, PartsStay, SolidParts DEF SolidPartsHold

LEMMA LoadActiveSolid ==
  ASSUME Solid, NEW p \in Apps, LoadActive(p)
  PROVE  Solid'
<1>1. Grow /\ UNCHANGED <<domain, spaces, real, found, jobs, order, sent, line, online, roster, shown, body>>
  BY SolidHas, NothingGrows DEF LoadActive, daemonState
<1>2. PICK w \in stored[p] : /\ SetActive(p, w)
                             /\ behind' = IF roster[p] # {} /\ w \notin roster[p]
                                          THEN [behind EXCEPT ![p] = @ \cup {SpacesTopic}] ELSE behind
  BY DEF LoadActive
<1>3. stored' \in [Apps -> NoneOrOne(SpaceNames)]
  BY SolidHas DEF LoadActive, MirrorShapes, NoneOrOne, None
<1>4. PhonesSolid'
  BY <1>1, <1>2, <1>3, PhoneFacts, SetActiveSolid
<1>5. BehindSolid'
  <2>1. SpacesTopic \in Topics
    BY MirrorAssumption DEF SpacesTopic, On, Topics, Orders
  <2> QED
    BY <1>2, <2>1, SolidHas DEF BehindSolid, MirrorShapes
<1> QED
  BY <1>1, <1>4, <1>5, PartsStay, SolidParts DEF SolidPartsHold

-----------------------------------------------------------------------------
(*****************************************************************************)
(* The effects and the listeners of the app: Solid is kept by every step.    *)
(*****************************************************************************)

LEMMA CmdFacts ==
  ASSUME NEW what \in Orders, NEW w \in SpaceNames
  PROVE  Cmd(what, w) \in Commands /\ (what # "read" => Cmd(what, w) \notin Reads)
         /\ (what = "spaces" => Cmd(what, w) \in SpacesOrders)
BY DEF Cmd, Commands, Reads, SpacesOrders

LEMMA OnlyOneActive ==
  ASSUME Solid, NEW p \in Apps, activeName[p] # {}
  PROVE  \E w \in SpaceNames : activeName[p] = {w} /\ (CHOOSE v \in activeName[p] : TRUE) = w
<1>1. PICK w \in SpaceNames : activeName[p] = {w}
  BY PhoneFacts DEF NoneOrOne
<1> QED
  BY <1>1

LEMMA SettleSends ==
  ASSUME Solid, NEW p \in Apps, Settle(p)
  PROVE  /\ SentSolid' /\ \A e \in Devices \ {p} : sent'[e] = sent[e]
         /\ \A e \in Devices : \A S : Has(sent[e], S) => Has(sent'[e], S)
         /\ p \in online /\ "spaces" \in effects[p] => Has(sent'[p], SpacesOrders)
         /\ \A w \in SpaceNames : p \in online /\ "list" \in effects[p] /\ Sees(p) /\ activeName[p] = {w}
                => Has(sent'[p], {Cmd("list", w)})
<1> PICK a : a = IF "spaces" \in effects[p] THEN <<Cmd("spaces", Home)>> ELSE <<>>
  OBVIOUS
<1> PICK one : one = CHOOSE w \in activeName[p] : TRUE
  OBVIOUS
<1> PICK again : again = <<Cmd("list", one)>>
  OBVIOUS
<1> PICK b : /\ "list" \in effects[p] /\ Sees(p) => b = again
             /\ ~("list" \in effects[p] /\ Sees(p)) => b = <<>>
  <2>1. CASE "list" \in effects[p] /\ Sees(p)
    BY <2>1, Zenon
  <2>2. CASE ~("list" \in effects[p] /\ Sees(p))
    BY <2>2, Zenon
  <2> QED
    BY <2>1, <2>2, Zenon
<1>1. Send(p, a \o b) /\ domain' = domain
  BY DEF Settle
<1>2. a \in Seq(Commands) /\ ~Has(a, Reads) /\ ("spaces" \in effects[p] => Has(a, SpacesOrders))
  <2>1. Cmd("spaces", Home) \in Commands /\ Cmd("spaces", Home) \notin Reads /\ Cmd("spaces", Home) \in SpacesOrders
    BY MirrorAssumption, CmdFacts DEF Orders
  <2>2. CASE "spaces" \in effects[p]
    BY <2>1, <2>2, HasOne
  <2>3. CASE "spaces" \notin effects[p]
    BY <2>3, HasEmpty
  <2> QED
    BY <2>2, <2>3
<1>3. /\ b \in Seq(Commands) /\ ~Has(b, Reads)
      /\ \A w \in SpaceNames : "list" \in effects[p] /\ Sees(p) /\ activeName[p] = {w} => Has(b, {Cmd("list", w)})
  <2>1. CASE "list" \in effects[p] /\ Sees(p)
    <3>1. PICK w \in SpaceNames : activeName[p] = {w} /\ (CHOOSE v \in activeName[p] : TRUE) = w
      BY <2>1, OnlyOneActive DEF Sees, None
    <3>2. Cmd("list", w) \in Commands /\ Cmd("list", w) \notin Reads /\ b = <<Cmd("list", w)>>
      BY <2>1, <3>1, CmdFacts DEF Orders
    <3>3. \A v \in SpaceNames : activeName[p] = {v} => v = w
      BY <3>1
    <3> QED
      BY <3>2, <3>3, HasOne
  <2>2. CASE ~("list" \in effects[p] /\ Sees(p))
    BY <2>2, HasEmpty
  <2> QED
    BY <2>1, <2>2
<1>4. a \o b \in Seq(Commands) /\ \A S : Has(a \o b, S) <=> Has(a, S) \/ Has(b, S)
  <2>1. a \in Seq(Commands) /\ b \in Seq(Commands)
    BY <1>2, <1>3
  <2> QED
    BY ONLY <2>1, HasConcat
<1>5. p \in Devices
  BY PhoneFacts
<1> QED
  BY <1>1, <1>2, <1>3, <1>4, <1>5, SendFacts

LEMMA SettleSolid ==
  ASSUME Solid, NEW p \in Apps, Settle(p)
  PROVE  Solid'
<1>1. Grow /\ UNCHANGED <<domain, spaces, real, found, jobs, order, line, online, activeName, stored, roster, behind>>
  BY SolidHas, NothingGrows DEF Settle, daemonState
<1>2. /\ effects' = [effects EXCEPT ![p] = {}] /\ shown' = [shown EXCEPT ![p] = Cleared(p, shown[p])]
      /\ body' = [body EXCEPT ![p] = Cleared(p, body[p])]
  BY DEF Settle
<1>3. /\ \A S : Cleared(p, S) \subseteq S /\ (Cleared(p, S) = S \/ Cleared(p, S) = {})
      /\ "list" \in effects[p] /\ MirrorOf[domain].clears => \A S : Cleared(p, S) = {}
  BY DEF Cleared, None
<1>4. /\ shown' \in [Apps -> NoneOrOne(Messages)] /\ body' \in [Apps -> NoneOrOne(Messages)]
      /\ effects' \in [Apps -> SUBSET {"spaces", "list"}]
  <2>1. {} \in NoneOrOne(Messages)
    BY DEF NoneOrOne
  <2> QED
    BY <1>2, <1>3, <2>1, SolidHas DEF MirrorShapes
<1>5. \A q \in Apps : shown'[q] \subseteq shown[q] /\ body'[q] \subseteq body[q]
  BY <1>2, <1>3, SolidHas DEF MirrorShapes
<1>6. ShownSound' /\ BodiesSound'
  <2>1. ASSUME NEW q \in Apps, NEW m \in shown'[q] PROVE Sound(m)' /\ m.kind = "list"
    BY <1>1, <1>5, SolidHas, HeldMessages, AllStaySound DEF SoundNews, ShownSound
  <2>2. ASSUME NEW q \in Apps, NEW m \in body'[q] PROVE Sound(m)' /\ m.kind = "body"
    BY <1>1, <1>5, SolidHas, HeldMessages, AllStaySound DEF SoundNews, BodiesSound
  <2> QED
    BY <2>1, <2>2 DEF ShownSound, BodiesSound
<1>7. NothingForeignIsShown'
  <2> SUFFICES ASSUME NEW q \in Apps, "list" \notin effects'[q], MirrorOf[domain].clears,
                      NEW m \in shown'[q] \cup body'[q]
               PROVE  {m.ws} = activeName[q]
    BY <1>1 DEF NothingForeignIsShown
  <2>1. CASE q = p
    <3>1. shown'[p] = Cleared(p, shown[p]) /\ body'[p] = Cleared(p, body[p])
      BY <1>2, SolidHas DEF MirrorShapes
    <3>2. "list" \notin effects[p]
      BY <1>3, <2>1, <3>1
    <3> QED
      BY <1>5, <2>1, <3>2, SolidHas DEF NothingForeignIsShown
  <2>2. CASE q # p
    <3>1. "list" \notin effects[q]
      BY <1>2, <2>2, SolidHas DEF MirrorShapes
    <3> QED
      BY <1>5, <3>1, SolidHas DEF NothingForeignIsShown
  <2> QED
    BY <2>1, <2>2
<1>8. PhonesSolid'
  BY <1>1, <1>4, <1>6, <1>7, SolidHas DEF PhonesSolid, MirrorShapes
<1>9. SentSolid'
  BY SettleSends
<1> QED
  BY <1>1, <1>8, <1>9, PartsStay, SolidParts DEF SolidPartsHold

\* What a phone takes from its line.
LEMMA ListenFacts ==
  ASSUME Solid, NEW p \in Apps, Listen(p)
  PROVE  /\ line[p] \in Seq(Messages) /\ line[p] # <<>> /\ Head(line[p]) \in Messages /\ Sound(Head(line[p]))
         /\ line'[p] = Tail(line[p]) /\ \A q \in Apps \ {p} : line'[q] = line[q]
         /\ Grow /\ UNCHANGED <<domain, spaces, real, found, jobs, order, online, stored, behind>>
         /\ LinesSolid'
<1>1. line[p] \in Seq(Messages) /\ line[p] # <<>> /\ p \in online
  BY PhoneFacts, SolidHas DEF Listen, NoLineIsLeft
<1>2. Grow /\ UNCHANGED <<domain, spaces, real, found, jobs, order, online, stored, behind>>
  BY SolidHas, NothingGrows DEF Listen, daemonState
<1> PICK r : r = Tail(line[p])
  OBVIOUS
<1>3. /\ r \in Seq(Messages) /\ Head(line[p]) \in Messages /\ Len(line[p]) \in Nat \ {0} /\ Len(r) = Len(line[p]) - 1
      /\ Head(line[p]) = line[p][1] /\ \A i \in 1..(Len(line[p]) - 1) : r[i] = line[p][i + 1]
  BY <1>1, RestFacts
<1>4. Sound(Head(line[p]))
  <2>1. 1 \in 1..Len(line[p])
    BY <1>3
  <2> QED
    BY <1>3, <2>1, SolidHas DEF SoundNews, LinesSound
<1>5. Len(r) <= InboxRoom
  BY <1>3, PhoneFacts, MirrorAssumption
<1>6. \A i \in 1..Len(r) : \E k \in 1..Len(line[p]) : r[i] = line[p][k]
  <2>1. \A i \in 1..Len(r) : i + 1 \in 1..Len(line[p]) /\ r[i] = line[p][i + 1]
    BY <1>3
  <2> QED
    BY <2>1
<1>7. line' = [line EXCEPT ![p] = r]
  BY DEF Listen
<1>8. /\ line' \in [Apps -> Seq(Messages)] /\ (\A q \in Apps : Len(line'[q]) <= InboxRoom) /\ LinesSound'
      /\ line'[p] = r /\ \A q \in Apps \ {p} : line'[q] = line[q]
  BY <1>2, <1>3, <1>5, <1>6, <1>7, LineShrinks
<1>9. NoLineIsLeft'
  BY <1>1, <1>2, <1>8, SolidHas DEF NoLineIsLeft
<1> QED
  BY <1>1, <1>2, <1>3, <1>4, <1>8, <1>9 DEF LinesSolid

LEMMA ListenSolid ==
  ASSUME Solid, NEW p \in Apps, Listen(p)
  PROVE  Solid'
<1>1. Grow /\ UNCHANGED <<domain, spaces, real, found, jobs, order, online, stored, behind>> /\ LinesSolid'
  BY ListenFacts
<1> PICK m \in Messages : m = Head(line[p]) /\ Sound(m)
  BY ListenFacts
<1>2. Sound(m)' /\ {m} \in NoneOrOne(Messages) /\ m.ws \in SpaceNames
  BY <1>1, SolidHas, AllStaySound, OneMessage DEF Messages
<1>3. \A n \in Messages : Sound(n) => Sound(n)'
  BY <1>1, SolidHas, AllStaySound
<1>4. ASSUME sent' = sent, activeName' \in [Apps -> NoneOrOne(SpaceNames)], roster' \in [Apps -> SUBSET SpaceNames],
             effects' \in [Apps -> SUBSET {"spaces", "list"}], shown' = shown, body' = body,
             \A q \in Apps : "list" \in effects'[q] \/ (effects'[q] = effects[q] /\ activeName'[q] = activeName[q])
      PROVE  Solid'
  <2>1. ShownSound' /\ BodiesSound'
    BY <1>1, <1>4, SolidHas, HeldStaysSound
  <2>2. NothingForeignIsShown'
    BY <1>1, <1>4, SolidHas DEF NothingForeignIsShown
  <2>3. PhonesSolid'
    BY <1>1, <1>4, <2>1, <2>2, SolidHas DEF PhonesSolid, MirrorShapes
  <2> QED
    BY <1>1, <1>4, <2>3, PartsStay, SolidParts DEF SolidPartsHold
<1>5. CASE m.kind = "spaces" /\ ReduceSpaces(p, m)
  <2>1. m.places \subseteq SpaceNames /\ {Home} \in NoneOrOne(SpaceNames)
    BY MirrorAssumption DEF Messages, NoneOrOne
  <2> PICK now \in NoneOrOne(SpaceNames) : now = IF activeName[p] \cap m.places # {} THEN activeName[p] ELSE {Home}
    BY <2>1, PhoneFacts
  <2>2. /\ roster' = [roster EXCEPT ![p] = m.places] /\ activeName' = [activeName EXCEPT ![p] = now]
        /\ effects' = [effects EXCEPT ![p] =
                IF now # activeName[p] \/ MirrorOf[domain].waits THEN @ \cup {"list"} ELSE @]
        /\ UNCHANGED <<shown, body, sent>>
    BY <1>5 DEF ReduceSpaces
  <2>3. activeName' \in [Apps -> NoneOrOne(SpaceNames)] /\ roster' \in [Apps -> SUBSET SpaceNames]
    BY <2>1, <2>2, SolidHas DEF MirrorShapes
  <2>4. effects' \in [Apps -> SUBSET {"spaces", "list"}]
    BY <2>2, SolidHas DEF MirrorShapes
  <2>5. \A q \in Apps : "list" \in effects'[q] \/ (effects'[q] = effects[q] /\ activeName'[q] = activeName[q])
    BY <2>2, SolidHas DEF MirrorShapes
  <2> QED
    BY <1>4, <2>2, <2>3, <2>4, <2>5
<1>6. CASE m.kind = "list" /\ ReplaceList(p, m)
  <2>1. UNCHANGED <<sent, roster, activeName, effects>>
    BY <1>6 DEF ReplaceList
  <2>2. CASE {m.ws} # activeName[p]
    BY <1>4, <1>6, <2>1, <2>2, SolidHas DEF ReplaceList, MirrorShapes
  <2>3. CASE {m.ws} = activeName[p]
    <3>1. shown' = [shown EXCEPT ![p] = {m}] /\ body' = [body EXCEPT ![p] = {}]
      BY <1>6, <2>3 DEF ReplaceList, None
    <3>2. {} \in NoneOrOne(Messages)
      BY DEF NoneOrOne
    <3>3. shown' \in [Apps -> NoneOrOne(Messages)] /\ body' \in [Apps -> NoneOrOne(Messages)]
          /\ \A q \in Apps : shown'[q] = (IF q = p THEN {m} ELSE shown[q]) /\ body'[q] = (IF q = p THEN {} ELSE body[q])
      BY <1>2, <3>1, <3>2, SolidHas DEF MirrorShapes
    <3>4. \A q \in Apps : \A n \in shown'[q] : Sound(n)' /\ n.kind = "list"
      BY <1>2, <1>3, <1>6, <3>3, SolidHas, HeldMessages DEF SoundNews, ShownSound
    <3>5. \A q \in Apps : \A n \in body'[q] : Sound(n)' /\ n.kind = "body"
      BY <1>3, <3>3, SolidHas, HeldMessages DEF SoundNews, BodiesSound
    <3>6. NothingForeignIsShown'
      BY <1>1, <2>1, <2>3, <3>3, SolidHas DEF NothingForeignIsShown
    <3>7. ShownSound' /\ BodiesSound'
      BY <3>4, <3>5 DEF ShownSound, BodiesSound
    <3>8. PhonesSolid'
      BY <1>1, <2>1, <3>3, <3>6, <3>7, SolidHas DEF PhonesSolid, MirrorShapes
    <3> QED
      BY <1>1, <2>1, <3>8, PartsStay, SolidParts DEF SolidPartsHold
  <2> QED
    BY <2>2, <2>3
<1>7. CASE m.kind = "changed" /\ ListAgain(p, m)
  <2> PICK cmds : cmds = IF {m.ws} = activeName[p] THEN <<Cmd("list", m.ws)>> ELSE <<>>
    OBVIOUS
  <2>1. Cmd("list", m.ws) \in Commands /\ Cmd("list", m.ws) \notin Reads
    BY <1>2, CmdFacts DEF Orders
  <2>2. cmds \in Seq(Commands) /\ ~Has(cmds, Reads)
    BY <2>1, HasOne, HasEmpty
  <2>3. Send(p, cmds) /\ UNCHANGED <<shown, body, roster, activeName, effects>>
    BY <1>7 DEF ListAgain
  <2>4. SentSolid'
    BY <1>1, <2>2, <2>3, PhoneFacts, SendFacts
  <2> QED
    BY <1>1, <2>3, <2>4, PartsStay, SolidParts DEF SolidPartsHold, phoneState
<1>8. CASE m.kind = "body" /\ KeepBody(p, m)
  <2>1. UNCHANGED <<shown, sent, roster, activeName, effects>>
    BY <1>8 DEF KeepBody
  <2>2. /\ body' \in [Apps -> NoneOrOne(Messages)]
        /\ \A q \in Apps : body'[q] = body[q] \/ (q = p /\ body'[q] = {m} /\ {m.ws} = activeName[p])
    BY <1>2, <1>8, SolidHas DEF KeepBody, MirrorShapes
  <2>3. \A q \in Apps : \A n \in body'[q] : Sound(n)' /\ n.kind = "body"
    BY <1>2, <1>3, <1>8, <2>2, SolidHas, HeldMessages DEF SoundNews, BodiesSound
  <2>4. NothingForeignIsShown'
    BY <1>1, <2>1, <2>2, SolidHas DEF NothingForeignIsShown
  <2>5. ShownSound' /\ BodiesSound'
    BY <1>1, <2>1, <2>3, SolidHas, HeldStaysSound DEF BodiesSound
  <2>6. PhonesSolid'
    BY <1>1, <2>1, <2>2, <2>4, <2>5, SolidHas DEF PhonesSolid, MirrorShapes
  <2> QED
    BY <1>1, <2>1, <2>6, PartsStay, SolidParts DEF SolidPartsHold
<1> QED
  BY <1>5, <1>6, <1>7, <1>8 DEF Listen

-----------------------------------------------------------------------------
(*****************************************************************************)
(* A phone that nothing is said to, and one that hears or misses a message:  *)
(* the two arguments by which PhoneHolds is kept.                            *)
(*****************************************************************************)

SamePhone(p) ==
    /\ domain' = domain /\ activeName'[p] = activeName[p] /\ roster'[p] = roster[p]
    /\ shown'[p] = shown[p] /\ body'[p] = body[p] /\ effects'[p] = effects[p]

LEMMA SameList ==
  ASSUME NEW w, The(w)' = The(w)
  PROVE  ListOf(w)' = ListOf(w)
BY DEF ListOf, News

\* Nothing is said to the phone, and what it waits for is still to come.
LEMMA PhoneKept ==
  ASSUME Solid, NEW p \in Apps, PhoneHolds(p), SamePhone(p), line'[p] = line[p], behind[p] \subseteq behind'[p],
         RosterComes(p) => RosterComes(p)',
         RosterIsTold' \/ (~RosterIsTold /\ spaces' = spaces),
         \A w \in SpaceNames :
            \/ On("list", w) \in behind'[p] \/ ListIsTold(w)'
            \/ The(w)' = The(w) /\ ~ListIsTold(w) /\ (ListIsAwaited(p, w) => ListIsAwaited(p, w)'),
         \A w \in SpaceNames :
            \/ domain # "skills" \/ On("body", w) \in behind'[p] \/ BodyIsTold(w)'
            \/ real'[w] = real[w] /\ ~BodyIsTold(w)
  PROVE  PhoneHolds(p)'
<1>1. RosterHolds(p)'
  <2>1. CASE RosterIsTold'
    BY <2>1 DEF RosterHolds
  <2>2. CASE ~RosterIsTold /\ spaces' = spaces
    <3>1. Served' = Served /\ FullRosters' = FullRosters
      BY <2>2 DEF Served, FullRosters
    <3>2. RosterIsFull(p) => RosterIsFull(p)'
      BY <3>1 DEF RosterIsFull, SamePhone
    <3>3. SpacesTopic \in behind[p] => (SpacesTopic \in behind[p])'
      BY DEF SpacesTopic
    <3> QED
      BY <2>2, <3>2, <3>3 DEF RosterHolds, PhoneHolds
  <2> QED
    BY <2>1, <2>2
<1>2. ActiveHolds(p)'
  <2>1. SpacesTopic \in behind[p] => (SpacesTopic \in behind[p])'
    BY DEF SpacesTopic
  <2> QED
    BY <2>1 DEF ActiveHolds, PhoneHolds, SamePhone
<1>3. ASSUME NEW w \in SpaceNames PROVE ListHolds(p, w)'
  <2>1. CASE On("list", w) \in behind'[p] \/ ListIsTold(w)'
    BY <2>1 DEF ListHolds
  <2>2. CASE The(w)' = The(w) /\ ~ListIsTold(w) /\ (ListIsAwaited(p, w) => ListIsAwaited(p, w)')
    <3>1. ListOf(w)' = ListOf(w)
      BY <2>2, SameList
    <3>2. ListIsCurrent(p, w) => ListIsCurrent(p, w)'
      BY <3>1 DEF ListIsCurrent, SamePhone
    <3>3. ListComes(p, w) => ListComes(p, w)'
      BY <2>2 DEF ListComes
    <3>4. ListHolds(p, w) /\ activeName'[p] = activeName[p]
      BY DEF PhoneHolds, SamePhone
    <3> QED
      BY <2>2, <3>2, <3>3, <3>4 DEF ListHolds
  <2> QED
    BY <2>1, <2>2
<1>4. ASSUME NEW w \in SpaceNames PROVE BodyHolds(p, w)'
  <2>1. CASE domain # "skills" \/ On("body", w) \in behind'[p] \/ BodyIsTold(w)'
    BY <2>1 DEF BodyHolds, SamePhone
  <2>2. CASE real'[w] = real[w] /\ ~BodyIsTold(w)
    <3>1. StaleBodies(w)' = StaleBodies(w) /\ ListsOf(w)' = ListsOf(w)
      BY <2>2 DEF StaleBodies, ListsOf
    <3>2. BodyHolds(p, w)
      BY DEF PhoneHolds
    <3> QED
      BY <2>2, <3>1, <3>2 DEF BodyHolds, SamePhone
  <2> QED
    BY <2>1, <2>2
<1> QED
  BY <1>1, <1>2, <1>3, <1>4 DEF PhoneHolds

\* What was known to be behind stays so, but for what a latest message settles.
LEMMA StaysBehind ==
  ASSUME Solid, NEW p \in Apps, NEW m \in Messages, Hears(p, m) \/ Misses(p, m),
         NEW t \in behind[p], ~IsLatest(m) \/ t \notin SettledBy(m)
  PROVE  t \in behind'[p]
BY SolidHas, JudgedFacts DEF Hears, Misses

\* The line of a phone that a message is said to, or that misses it.
LEMMA HasThen ==
  ASSUME Solid, NEW p \in Apps, NEW m \in Messages, Hears(p, m) \/ Misses(p, m), NEW S
  PROVE  /\ Has(line[p], S) => Has(line'[p], S)
         /\ Hears(p, m) /\ m \in S => Has(line'[p], S)
<1> PICK s \in Seq(Messages) : s = line[p]
  BY PhoneFacts
<1>1. CASE line'[p] = Append(s, m)
  BY <1>1, HasAppend
<1>2. CASE line'[p] = line[p] /\ ~Hears(p, m)
  BY <1>2
<1> QED
  BY <1>1, <1>2 DEF Hears, Misses

LEMMA LastThen ==
  ASSUME Solid, NEW p \in Apps, NEW m \in Messages, Hears(p, m) \/ Misses(p, m),
         NEW S, NEW Good, NEW held \in BOOLEAN
  PROVE  /\ m \notin S /\ LastIsGood(line[p], S, Good, held) => LastIsGood(line'[p], S, Good, held)
         /\ Hears(p, m) /\ m \in Good => LastIsGood(line'[p], S, Good, held)
<1> PICK s \in Seq(Messages) : s = line[p]
  BY PhoneFacts
<1>1. CASE line'[p] = Append(s, m)
  BY <1>1, LastAppend
<1>2. CASE line'[p] = line[p] /\ ~Hears(p, m)
  BY <1>2
<1> QED
  BY <1>1, <1>2 DEF Hears, Misses

LEMMA ClearedThen ==
  ASSUME Solid, NEW p \in Apps, NEW m \in Messages, Hears(p, m) \/ Misses(p, m),
         NEW Old, NEW Clearing, m \notin Old \/ ~Hears(p, m)
  PROVE  /\ IsCleared(line[p], Old, Clearing) => IsCleared(line'[p], Old, Clearing)
         /\ Hears(p, m) /\ m \in Clearing => IsCleared(line'[p], Old, Clearing)
<1> PICK s \in Seq(Messages) : s = line[p]
  BY PhoneFacts
<1>1. CASE line'[p] = Append(s, m) /\ m \notin Old
  BY <1>1, ClearedAppend
<1>2. CASE line'[p] = line[p] /\ ~Hears(p, m)
  BY <1>2
<1> QED
  BY <1>1, <1>2 DEF Hears, Misses

LEMMA ToldOfRosters ==
  ASSUME Solid, NEW p \in Apps, NEW m \in Messages, Sound(m), Hears(p, m) \/ Misses(p, m),
         PhoneHolds(p), SamePhone(p), spaces' = spaces,
         RosterComes(p) => RosterComes(p)' \/ m.kind = "spaces",
         RosterIsTold => RosterIsTold' \/ m.kind = "spaces"
  PROVE  RosterHolds(p)' /\ ActiveHolds(p)'
<1>1. Served' = Served /\ FullRosters' = FullRosters /\ Rosters' = Rosters /\ SpacesTopic' = SpacesTopic
      /\ line[p] \in Seq(Messages)
  BY PhoneFacts DEF Served, FullRosters, Rosters, SpacesTopic
<1>2. CASE m.kind = "spaces"
  <2>1. m \in Rosters /\ SettledBy(m) = {SpacesTopic} /\ Topic(m) = SpacesTopic
    BY <1>2, TopicFacts DEF Rosters, Sound, SpacesTopic, Topic
  <2>2. CASE Misses(p, m)
    BY <1>1, <2>1, <2>2 DEF Misses, RosterHolds, ActiveHolds
  <2>3. CASE Hears(p, m)
    <3>1. ActiveHolds(p)'
      <4>1. Has(line'[p], Rosters)
        BY <2>1, <2>3, HasThen
      <4> QED
        BY <1>1, <4>1 DEF ActiveHolds
    <3>2. CASE IsLatest(m)
      <4>1. m \in FullRosters
        BY <1>2, <2>1, <3>2 DEF IsLatest, FullRosters
      <4> PICK held \in BOOLEAN : held = (roster'[p] = Served')
        OBVIOUS
      <4>2. LastIsGood(line'[p], Rosters, FullRosters, held)
        BY <2>3, <4>1, LastThen
      <4>3. RosterIsFull(p)'
        BY <1>1, <4>2 DEF RosterIsFull
      <4> QED
        BY <3>1, <4>3 DEF RosterHolds
    <3>3. CASE ~IsLatest(m)
      <4>1. SpacesTopic \in behind'[p]
        BY <1>2, <2>1, <2>3, <3>3, SolidHas, JudgedFacts DEF Hears
      <4> QED
        BY <1>1, <3>1, <4>1 DEF RosterHolds
    <3> QED
      BY <3>2, <3>3
  <2> QED
    BY <2>2, <2>3
<1>3. CASE m.kind # "spaces"
  <2>1. m \notin Rosters
    BY <1>3 DEF Rosters
  <2>2. SpacesTopic \notin SettledBy(m)
    <3>1. m.kind \in {"list", "changed", "body"}
      BY <1>3 DEF Messages
    <3> QED
      BY <3>1, TopicFacts DEF SpacesTopic, On
  <2>3. SpacesTopic \in behind[p] => SpacesTopic \in behind'[p]
    BY <2>2, StaysBehind
  <2>4. Has(line[p], Rosters) => Has(line'[p], Rosters)
    BY HasThen
  <2>5. RosterIsFull(p) => RosterIsFull(p)'
    <3> PICK held \in BOOLEAN : held = (roster[p] = Served)
      OBVIOUS
    <3>1. LastIsGood(line[p], Rosters, FullRosters, held) => LastIsGood(line'[p], Rosters, FullRosters, held)
      BY <2>1, LastThen
    <3>2. held = (roster'[p] = Served')
      BY <1>1 DEF SamePhone
    <3> QED
      BY <1>1, <3>1, <3>2 DEF RosterIsFull
  <2>6. RosterHolds(p) /\ ActiveHolds(p)
    BY DEF PhoneHolds
  <2>7. RosterHolds(p)'
    BY <1>1, <1>3, <2>3, <2>5, <2>6 DEF RosterHolds
  <2>8. ActiveHolds(p)'
    BY <1>1, <1>3, <2>3, <2>4, <2>6 DEF ActiveHolds, SamePhone
  <2> QED
    BY <2>7, <2>8
<1> QED
  BY <1>2, <1>3

\* What the newer of two lists makes of the older.
LEMMA OldListIsOlder ==
  ASSUME Solid, NEW p \in Apps, NEW w \in SpaceNames, ListIsCurrent(p, w),
         NEW m \in ListsOf(w), Sound(m), ~m.interim, m # ListOf(w)
  PROVE  Older(p, m) /\ ~IsLatest(m)
<1>1. /\ m \in Messages /\ m.kind = "list" /\ m.ws = w /\ m.places = {} /\ m.version \in Nat
      /\ m.version <= The(w) /\ The(w) \in Nat
  BY SolidHas, TheFacts DEF ListsOf, Sound, Messages
<1>2. /\ ListOf(w).kind = "list" /\ ListOf(w).ws = w /\ ListOf(w).version = The(w)
      /\ m.version # The(w)
  BY <1>1, SolidHas, ListFacts
<1>3. m.version < The(w)
  BY <1>1, <1>2
<1>4. Later(ListOf(w), m)
  BY <1>1, <1>2, <1>3 DEF Later
<1>5. Older(p, m)
  <2>1. CASE \E i \in 1..Len(line[p]) : line[p][i] = ListOf(w)
    <3>1. DOMAIN line[p] = 1..Len(line[p])
      BY PhoneFacts
    <3> QED
      BY <1>4, <2>1, <3>1 DEF Older
  <2>2. CASE shown[p] = {ListOf(w)}
    BY <1>4, <2>2 DEF Older
  <2> QED
    BY <2>1, <2>2 DEF ListIsCurrent, LastIsGood
<1> QED
  BY <1>1, <1>2, <1>5 DEF IsLatest

LEMMA ToldOfLists ==
  ASSUME Solid, NEW p \in Apps, NEW m \in Messages, Sound(m), Hears(p, m) \/ Misses(p, m),
         PhoneHolds(p), SamePhone(p), NEW w \in SpaceNames,
         The(w)' = The(w) \/ m \in ChangesOf(w),
         ListIsTold(w) => ListIsTold(w)' \/ m \in ChangesOf(w) \/ m = ListOf(w),
         m \in ListsOf(w) /\ m.interim => ListIsTold(w)',
         ListIsAwaited(p, w) => ListIsAwaited(p, w)' \/ m = ListOf(w) \/ m \in ChangesOf(w)
  PROVE  ListHolds(p, w)'
<1>1. ListHolds(p, w) /\ activeName'[p] = activeName[p] /\ ListsOf(w)' = ListsOf(w) /\ ChangesOf(w)' = ChangesOf(w)
  BY DEF PhoneHolds, SamePhone, ListsOf, ChangesOf
<1>2. On("list", w)' = On("list", w)
  BY DEF On
<1>3. CASE m \in ChangesOf(w)
  <2>1. CASE Hears(p, m)
    BY <1>1, <1>3, <2>1, HasThen DEF ListHolds, ListComes
  <2>2. CASE Misses(p, m)
    <3>1. On("list", w) \in SettledBy(m)
      BY <1>3, TopicFacts DEF ChangesOf
    <3> QED
      BY <2>2, <3>1 DEF ListHolds, Misses
  <2> QED
    BY <2>1, <2>2
<1>4. CASE m \notin ChangesOf(w)
  <2>1. ListOf(w)' = ListOf(w)
    BY <1>4, SameList
  <2>2. Has(line[p], ChangesOf(w)) => Has(line'[p], ChangesOf(w))
    BY HasThen
  <2>3. ListComes(p, w) => ListComes(p, w)' \/ m = ListOf(w)
    BY <1>1, <1>4, <2>2 DEF ListComes
  <2>4. ASSUME NEW held \in BOOLEAN, held = (shown[p] = {ListOf(w)}), LastIsGood(line'[p], ListsOf(w), {ListOf(w)}, held)
        PROVE  ListIsCurrent(p, w)'
    <3>1. held = (shown'[p] = {ListOf(w)'})
      BY <2>1, <2>4 DEF SamePhone
    <3> QED
      BY <1>1, <2>1, <2>4, <3>1 DEF ListIsCurrent
  <2> PICK held \in BOOLEAN : held = (shown[p] = {ListOf(w)})
    OBVIOUS
  <2>5. CASE m = ListOf(w)
    <3>1. CASE Hears(p, m)
      <4>1. LastIsGood(line'[p], ListsOf(w), {ListOf(w)}, held)
        BY <2>5, <3>1, LastThen
      <4> QED
        BY <2>4, <4>1 DEF ListHolds
    <3>2. CASE Misses(p, m)
      <4>1. On("list", w) \in SettledBy(m)
        BY <2>5, SolidHas, ListFacts, TopicFacts
      <4> QED
        BY <3>2, <4>1 DEF ListHolds, Misses
    <3> QED
      BY <3>1, <3>2
  <2>6. CASE m \in ListsOf(w) /\ m # ListOf(w)
    <3>1. m.kind = "list" /\ m.ws = w
      BY <2>6 DEF ListsOf
    <3>2. CASE Misses(p, m)
      <4>1. On("list", w) \in SettledBy(m)
        BY <3>1, TopicFacts
      <4> QED
        BY <3>2, <4>1 DEF ListHolds, Misses
    <3>3. CASE Hears(p, m) /\ m.interim
      BY <2>6, <3>3 DEF ListHolds
    <3>4. CASE Hears(p, m) /\ ~m.interim
      <4>1. ~IsLatest(m)
        <5>1. m.places = {}
          BY <3>1 DEF Sound
        <5>2. m.version # The(w)
          BY <2>6, <3>1, <3>4, <5>1, SolidHas, ListFacts
        <5> QED
          BY <3>1, <5>2 DEF IsLatest
      <4>2. On("list", w) \in behind[p] => On("list", w) \in behind'[p]
        BY <4>1, StaysBehind
      <4>3. ListIsCurrent(p, w) => On("list", w) \in behind'[p]
        <5> SUFFICES ASSUME ListIsCurrent(p, w) PROVE On("list", w) \in behind'[p]
          OBVIOUS
        <5>1. Older(p, m)
          BY <2>6, <3>4, OldListIsOlder
        <5>2. Topic(m) = On("list", w)
          BY <3>1 DEF Topic
        <5> QED
          BY <3>4, <4>1, <5>1, <5>2, SolidHas, JudgedFacts DEF Hears
      <4> QED
        BY <1>1, <1>4, <2>3, <2>6, <4>2, <4>3 DEF ListHolds
    <3> QED
      BY <3>2, <3>3, <3>4
  <2>7. CASE m \notin ListsOf(w)
    <3>1. m # ListOf(w)
      BY <2>7, SolidHas, ListFacts
    <3>2. On("list", w) \in behind[p] => On("list", w) \in behind'[p]
      <4>1. IsLatest(m) => On("list", w) \notin SettledBy(m)
        <5>1. CASE m.kind = "spaces"
          BY <5>1, TopicFacts DEF On
        <5>2. CASE m.kind = "list"
          <6>1. m.ws # w
            BY <2>7, <5>2 DEF ListsOf
          <6> QED
            BY <6>1, TopicFacts DEF On
        <5> QED
          BY <5>1, <5>2 DEF IsLatest
      <4> QED
        BY <4>1, StaysBehind
    <3>3. ListIsCurrent(p, w) => ListIsCurrent(p, w)'
      <4>1. LastIsGood(line[p], ListsOf(w), {ListOf(w)}, held) => LastIsGood(line'[p], ListsOf(w), {ListOf(w)}, held)
        BY <2>7, LastThen
      <4> QED
        BY <2>4, <4>1 DEF ListIsCurrent
    <3> QED
      BY <1>1, <1>4, <2>3, <3>1, <3>2, <3>3 DEF ListHolds
  <2> QED
    BY <2>5, <2>6, <2>7
<1> QED
  BY <1>3, <1>4

LEMMA ToldOfBodies ==
  ASSUME Solid, NEW p \in Apps, NEW m \in Messages, Sound(m), Hears(p, m) \/ Misses(p, m),
         PhoneHolds(p), SamePhone(p), NEW w \in SpaceNames,
         domain = "skills" => real'[w] = real[w],
         domain = "skills" /\ BodyIsTold(w) => BodyIsTold(w)' \/ m \in ListsOf(w)
  PROVE  BodyHolds(p, w)'
<1>1. BodyHolds(p, w) /\ activeName'[p] = activeName[p] /\ ListsOf(w)' = ListsOf(w) /\ domain' = domain
      /\ body'[p] = body[p] /\ effects'[p] = effects[p]
  BY DEF PhoneHolds, SamePhone, ListsOf
<1>2. CASE domain # "skills"
  BY <1>1, <1>2 DEF BodyHolds
<1>3. CASE domain = "skills"
  <2>1. StaleBodies(w)' = StaleBodies(w)
    BY <1>3 DEF StaleBodies
  <2>2. CASE m \in ListsOf(w)
    <3>1. m.kind = "list" /\ m.ws = w /\ m \notin StaleBodies(w)
      BY <2>2 DEF ListsOf, StaleBodies
    <3>2. CASE Misses(p, m)
      BY <3>1, <3>2, TopicFacts DEF Misses, BodyHolds
    <3>3. CASE Hears(p, m)
      <4>1. IsCleared(line'[p], StaleBodies(w), ListsOf(w)) /\ Has(line'[p], ListsOf(w))
        BY <2>2, <3>1, <3>3, ClearedThen, HasThen
      <4> QED
        BY <1>1, <2>1, <4>1 DEF BodyHolds
    <3> QED
      BY <3>2, <3>3
  <2>3. CASE m \notin ListsOf(w)
    <3>1. On("body", w) \in behind[p] => On("body", w) \in behind'[p]
      <4>1. IsLatest(m) => On("body", w) \notin SettledBy(m)
        <5>1. CASE m.kind = "spaces"
          BY <5>1, TopicFacts DEF On
        <5>2. CASE m.kind = "list"
          <6>1. m.ws # w
            BY <2>3, <5>2 DEF ListsOf
          <6> QED
            BY <6>1, TopicFacts DEF On
        <5> QED
          BY <5>1, <5>2 DEF IsLatest
      <4> QED
        BY <4>1, StaysBehind
    <3>2. CASE m \in StaleBodies(w)
      <4>1. m.kind = "body" /\ m.ws = w /\ m.version # real[w] /\ m.version \in Nat /\ m.version <= real[w]
            /\ real[w] \in Nat
        BY <3>2, SolidHas, TheFacts DEF StaleBodies, Sound, Messages
      <4>2. m.version < real[w]
        BY <4>1
      <4>3. Older(p, m) /\ ~IsLatest(m) /\ Topic(m) = On("body", w) /\ On("body", w) \in SettledBy(m)
        BY <4>1, <4>2, TopicFacts DEF Older, IsLatest, Topic
      <4>4. On("body", w) \in behind'[p]
        BY <4>3, SolidHas, JudgedFacts DEF Hears, Misses
      <4> QED
        BY <4>4 DEF BodyHolds
    <3>3. CASE m \notin StaleBodies(w)
      <4>1. IsCleared(line[p], StaleBodies(w), ListsOf(w)) => IsCleared(line'[p], StaleBodies(w), ListsOf(w))
        BY <3>3, ClearedThen
      <4>2. Has(line[p], ListsOf(w)) => Has(line'[p], ListsOf(w))
        BY HasThen
      <4> QED
        BY <1>1, <1>3, <2>1, <2>3, <3>1, <4>1, <4>2 DEF BodyHolds
    <3> QED
      BY <3>2, <3>3
  <2> QED
    BY <2>2, <2>3
<1> QED
  BY <1>2, <1>3

\* A phone that is told, or should have been.
LEMMA PhoneTold ==
  ASSUME Solid, NEW p \in Apps, NEW m \in Messages, Sound(m), Hears(p, m) \/ Misses(p, m),
         PhoneHolds(p), SamePhone(p), spaces' = spaces,
         RosterComes(p) => RosterComes(p)' \/ m.kind = "spaces",
         RosterIsTold => RosterIsTold' \/ m.kind = "spaces",
         \A w \in SpaceNames :
            /\ The(w)' = The(w) \/ m \in ChangesOf(w)
            /\ ListIsTold(w) => ListIsTold(w)' \/ m \in ChangesOf(w) \/ m = ListOf(w)
            /\ m \in ListsOf(w) /\ m.interim => ListIsTold(w)'
            /\ ListIsAwaited(p, w) => ListIsAwaited(p, w)' \/ m = ListOf(w) \/ m \in ChangesOf(w)
            /\ domain = "skills" => real'[w] = real[w]
            /\ domain = "skills" /\ BodyIsTold(w) => BodyIsTold(w)' \/ m \in ListsOf(w)
  PROVE  PhoneHolds(p)'
<1>1. RosterHolds(p)' /\ ActiveHolds(p)'
  BY ToldOfRosters
<1>2. \A w \in SpaceNames : ListHolds(p, w)'
  BY ToldOfLists
<1>3. \A w \in SpaceNames : BodyHolds(p, w)'
  BY ToldOfBodies
<1> QED
  BY <1>1, <1>2, <1>3 DEF PhoneHolds

-----------------------------------------------------------------------------
(*****************************************************************************)
(* The steps of a command, and what they do to what a phone waits for.       *)
(*****************************************************************************)

\* One order changes: what others tell of is still told.
LEMMA ToldByOthers ==
  ASSUME NEW d \in Devices, \A e \in Devices \ {d} : order'[e] = order[e], jobs' = jobs, domain' = domain
  PROVE  /\ RosterIsTold => RosterIsTold' \/ (order[d].at \in {"look", "tell"} /\ order[d].cmd \in {"create", "delete"})
         /\ \A w \in SpaceNames : /\ The(w)' = The(w) /\ ListIsTold(w) => ListIsTold(w)' \/ OrderTells(order[d], w)
                                  /\ BodyIsTold(w) => BodyIsTold(w)' \/ (order[d].cmd = "change" /\ order[d].ws = w /\ order[d].at \in {"look", "tell"})
<1>1. RosterIsTold => RosterIsTold' \/ (order[d].at \in {"look", "tell"} /\ order[d].cmd \in {"create", "delete"})
  BY DEF RosterIsTold
<1>2. ASSUME NEW w \in SpaceNames, The(w)' = The(w), ListIsTold(w), ~OrderTells(order[d], w) PROVE ListIsTold(w)'
  <2>1. ASSUME NEW i \in 1..Len(jobs), JobTells(jobs[i], w) PROVE ListIsTold(w)'
    BY <1>2, <2>1 DEF ListIsTold, JobTells, First
  <2>2. ASSUME NEW e \in Devices \ {d}, OrderTells(order[e], w) PROVE ListIsTold(w)'
    <3>1. OrderTells(order[e], w)'
      BY <1>2, <2>2 DEF OrderTells, First
    <3> QED
      BY <3>1 DEF ListIsTold
  <2> QED
    BY <1>2, <2>1, <2>2 DEF ListIsTold
<1>3. \A w \in SpaceNames : BodyIsTold(w) => BodyIsTold(w)' \/ (order[d].cmd = "change" /\ order[d].ws = w /\ order[d].at \in {"look", "tell"})
  BY DEF BodyIsTold
<1> QED
  BY <1>1, <1>2, <1>3

LEMMA TakeOrderDoes ==
  ASSUME Solid, NEW d \in Devices, TakeOrder(d), NEW c \in Commands, c = Head(sent[d])
  PROVE  /\ order[d] = Calm /\ \A e \in Devices \ {d} : order'[e] = order[e]
         /\ jobs' = jobs /\ domain' = domain
         /\ \A p \in Apps : behind[p] \subseteq behind'[p]
         /\ spaces' = spaces \/ RosterIsTold'
         /\ c.cmd = "spaces" => order'[d].at = "reply" /\ order'[d].cmd = "spaces"
         /\ \A w \in SpaceNames : The(w)' = The(w) \/ ListIsTold(w)'
         /\ \A w \in SpaceNames : domain = "skills" => real'[w] = real[w] \/ BodyIsTold(w)'
         /\ c.cmd = "list" => \/ order'[d].at = "reply" /\ order'[d].news = {ListOf(c.ws)}
                              \/ d \in Apps => On("list", c.ws) \in behind'[d]
<1>0. order[d] = Calm /\ domain' = domain /\ c.ws \in SpaceNames
  BY DEF TakeOrder, Commands
<1>1. ASSUME real' = real, found' = found PROVE \A w \in SpaceNames : The(w)' = The(w)
  BY <1>0, <1>1 DEF The
<1>2. ASSUME NEW at \in {"look", "reply", "tell", "spawn"}, NEW news \in NoneOrOne(Messages), Stage(d, at, c, news)
      PROVE  /\ \A e \in Devices \ {d} : order'[e] = order[e]
             /\ order'[d].at = at /\ order'[d].cmd = c.cmd /\ order'[d].ws = c.ws /\ order'[d].news = news
  BY <1>2, SolidHas, StageFacts
<1>3. CASE c.cmd = "spaces" /\ AnswerSpaces(d, c) /\ UNCHANGED behind
  <2>1. {Roster} \in NoneOrOne(Messages)
    BY SolidHas, RosterFacts, OneMessage
  <2>2. Stage(d, "reply", c, {Roster}) /\ UNCHANGED <<spaces, real, found, jobs>>
    BY <1>3 DEF AnswerSpaces, daemonState
  <2> QED
    BY <1>0, <1>1, <1>2, <1>3, <2>1, <2>2
<1>4. CASE c.cmd = "list" /\ AnswerList(d, c) /\ UNCHANGED behind
  <2>1. {ListOf(c.ws)} \in NoneOrOne(Messages)
    BY <1>0, SolidHas, ListFacts, OneMessage
  <2>2. Stage(d, "reply", c, {ListOf(c.ws)}) /\ UNCHANGED <<spaces, real, found, jobs>>
    BY <1>4 DEF AnswerList, daemonState
  <2> QED
    BY <1>0, <1>1, <1>2, <1>4, <2>1, <2>2
<1>5. CASE c.cmd \in {"read", "reload"} /\ (AnswerBody(d, c) \/ Reload(d, c)) /\ UNCHANGED behind
  <2>1. UNCHANGED <<spaces, real, found, jobs>> /\ \A e \in Devices \ {d} : order'[e] = order[e]
    BY <1>5, SolidHas DEF AnswerBody, Reload, daemonState, Stage, MirrorShapes
  <2> QED
    BY <1>0, <1>1, <1>5, <2>1
<1>6. CASE c.cmd = "change" /\ CarryOut(d, c) /\ UNCHANGED behind
  <2>1. real' = [real EXCEPT ![c.ws] = @ + 1] /\ UNCHANGED <<spaces, found, jobs>>
    BY <1>6 DEF CarryOut, Alter
  <2>2. \A w \in SpaceNames \ {c.ws} : real'[w] = real[w] /\ The(w)' = The(w)
    BY <1>0, <2>1, SolidHas DEF The, MirrorShapes
  <2>3. None \in NoneOrOne(Messages)
    BY DEF None, NoneOrOne
  <2>4. CASE First = "changed"
    <3>0. LET n == News("changed", c.ws, 0) IN n \in Messages /\ n.kind = "changed"
      BY <1>0 DEF News, Messages
    <3> PICK m \in Messages : m = News("changed", c.ws, 0) /\ m.kind = "changed"
      BY <3>0, Zenon
    <3>1. {m} \in NoneOrOne(Messages) /\ Stage(d, "tell", c, {m})
      BY <1>6, <2>4, OneMessage DEF CarryOut, First
    <3>2. /\ \A e \in Devices \ {d} : order'[e] = order[e]
          /\ order'[d].at = "tell" /\ order'[d].cmd = "change" /\ order'[d].ws = c.ws /\ order'[d].news = {m}
      BY <1>2, <1>6, <3>1
    <3>3. ListIsTold(c.ws)'
      <4>1. OrderTells(order[d], c.ws)'
        BY <3>2 DEF OrderTells
      <4> QED
        BY <4>1 DEF ListIsTold
    <3>4. domain # "skills"
      BY <2>4, SolidHas, DeskFacts
    <3> QED
      BY <1>0, <1>6, <2>1, <2>2, <3>2, <3>3, <3>4
  <2>5. CASE First = "nothing"
    <3>1. Stage(d, "spawn", c, None)
      BY <1>6, <2>5 DEF CarryOut, First
    <3>2. \A e \in Devices \ {d} : order'[e] = order[e]
      BY <1>2, <2>3, <3>1
    <3>3. \A w \in SpaceNames : The(w)' = The(w)
      BY <1>0, <2>1, <2>5, SolidHas, DeskFacts DEF The
    <3>4. domain # "skills"
      BY <2>5, SolidHas, DeskFacts
    <3> QED
      BY <1>0, <1>6, <2>1, <3>2, <3>3, <3>4
  <2>6. CASE First \notin {"changed", "nothing"}
    <3>1. Stage(d, "look", c, None)
      BY <1>6, <2>6 DEF CarryOut, First
    <3>2. /\ \A e \in Devices \ {d} : order'[e] = order[e]
          /\ order'[d].at = "look" /\ order'[d].cmd = "change" /\ order'[d].ws = c.ws
      BY <1>2, <1>6, <2>3, <3>1
    <3>3. ListIsTold(c.ws)' /\ BodyIsTold(c.ws)'
      <4>1. OrderTells(order[d], c.ws)'
        BY <3>2 DEF OrderTells
      <4> QED
        BY <3>2, <4>1 DEF ListIsTold, BodyIsTold
    <3> QED
      BY <1>0, <1>6, <2>1, <2>2, <3>2, <3>3
  <2> QED
    BY <2>4, <2>5, <2>6
<1>7. CASE c.cmd \in {"create", "delete"} /\ (CreateSpace(d, c) \/ DeleteSpace(d, c)) /\ UNCHANGED behind
  <2>1. None \in NoneOrOne(Messages)
    BY DEF None, NoneOrOne
  <2>2. Stage(d, "look", c, None) /\ UNCHANGED <<real, found, jobs>>
    BY <1>7 DEF CreateSpace, DeleteSpace
  <2>3. /\ \A e \in Devices \ {d} : order'[e] = order[e]
        /\ order'[d].at = "look" /\ order'[d].cmd \in {"create", "delete"}
    BY <1>2, <1>7, <2>1, <2>2
  <2>4. RosterIsTold'
    BY <2>3 DEF RosterIsTold
  <2> QED
    BY <1>0, <1>1, <1>7, <2>2, <2>3, <2>4
<1>8. CASE RefuseOrder(d, c)
  <2>1. c.cmd # "spaces" /\ UNCHANGED <<order, spaces, real, found, jobs>>
    BY <1>8 DEF RefuseOrder, daemonState
  <2>2. /\ \A p \in Apps : behind[p] \subseteq behind'[p]
        /\ d \in Apps => On(c.cmd, c.ws) \in behind'[d]
    BY <1>8 DEF RefuseOrder
  <2> QED
    BY <1>0, <1>1, <2>1, <2>2
<1> QED
  BY <1>3, <1>4, <1>5, <1>6, <1>7, <1>8 DEF TakeOrder

LEMMA PhoneStays ==
  ASSUME UNCHANGED phoneState, domain' = domain, NEW p
  PROVE  SamePhone(p) /\ online' = online
BY DEF SamePhone, phoneState

\* What a phone sent, or will send, or is being answered.
LEMMA ComesStill ==
  ASSUME NEW p \in Apps, SamePhone(p), sent'[p] = sent[p], order'[p] = order[p]
  PROVE  /\ RosterComes(p) => RosterComes(p)'
         /\ \A w \in SpaceNames : The(w)' = The(w) /\ ListIsAwaited(p, w) => ListIsAwaited(p, w)'
<1>1. RosterComes(p) => RosterComes(p)'
  BY DEF RosterComes, SamePhone, SpacesOrders
<1>2. ASSUME NEW w \in SpaceNames, The(w)' = The(w), ListIsAwaited(p, w) PROVE ListIsAwaited(p, w)'
  <2>1. ListOf(w)' = ListOf(w)
    BY <1>2, SameList
  <2> QED
    BY <1>2, <2>1 DEF ListIsAwaited, SamePhone, Cmd
<1> QED
  BY <1>1, <1>2

LEMMA TakeOrderHolds ==
  ASSUME MirrorInv, NEW d \in Devices, TakeOrder(d), NEW p \in online'
  PROVE  PhoneHolds(p)'
<1>0. Solid /\ p \in online /\ p \in Apps /\ PhoneHolds(p)
  BY SolidHas DEF MirrorInv, TakeOrder, phoneState, MirrorShapes
<1>1. sent[d] \in Seq(Commands) /\ sent[d] # <<>>
  BY <1>0, SolidHas, InHandFacts DEF TakeOrder
<1> PICK c \in Commands : c = Head(sent[d])
  BY <1>1, RestFacts
<1>2. /\ order[d] = Calm /\ \A e \in Devices \ {d} : order'[e] = order[e]
      /\ jobs' = jobs /\ domain' = domain
      /\ behind[p] \subseteq behind'[p]
      /\ spaces' = spaces \/ RosterIsTold'
      /\ c.cmd = "spaces" => order'[d].at = "reply" /\ order'[d].cmd = "spaces"
      /\ \A w \in SpaceNames : The(w)' = The(w) \/ ListIsTold(w)'
      /\ \A w \in SpaceNames : domain = "skills" => real'[w] = real[w] \/ BodyIsTold(w)'
      /\ c.cmd = "list" => \/ order'[d].at = "reply" /\ order'[d].news = {ListOf(c.ws)}
                           \/ d \in Apps => On("list", c.ws) \in behind'[d]
  BY <1>0, TakeOrderDoes
<1>3. SamePhone(p) /\ line'[p] = line[p]
  BY <1>2, PhoneStays DEF TakeOrder
<1>4. order[d].at = "calm" /\ order[d].cmd = "none"
  BY <1>2 DEF Calm
<1>5. /\ RosterIsTold => RosterIsTold'
      /\ \A w \in SpaceNames : /\ The(w)' = The(w) /\ ListIsTold(w) => ListIsTold(w)'
                               /\ BodyIsTold(w) => BodyIsTold(w)'
  BY <1>2, <1>4, ToldByOthers DEF OrderTells
<1>6. /\ sent'[d] = Tail(sent[d]) /\ \A e \in Devices \ {d} : sent'[e] = sent[e]
  BY <1>0, SolidHas DEF TakeOrder, MirrorShapes
<1>7. /\ RosterComes(p) => RosterComes(p)'
      /\ \A w \in SpaceNames : The(w)' = The(w) /\ ListIsAwaited(p, w) => ListIsAwaited(p, w)' \/ On("list", w) \in behind'[p]
  <2>1. CASE p # d
    BY <1>0, <1>2, <1>3, <1>6, <2>1, PhoneFacts, ComesStill
  <2>2. CASE p = d
    <3>1. \A S : Has(sent[d], S) => c \in S \/ Has(sent'[d], S)
      BY <1>1, <1>6, HasRest
    <3>2. RosterComes(p) => RosterComes(p)'
      <4>1. CASE "spaces" \in effects[p]
        BY <1>3, <4>1 DEF RosterComes, SamePhone
      <4>2. CASE Has(sent[p], SpacesOrders)
        <5>1. c \in SpacesOrders => c.cmd = "spaces"
          BY DEF SpacesOrders
        <5>2. SpacesOrders' = SpacesOrders
          BY DEF SpacesOrders
        <5> QED
          BY <1>2, <2>2, <3>1, <4>2, <5>1, <5>2 DEF RosterComes
      <4> QED
        BY <1>4, <2>2, <4>1, <4>2 DEF RosterComes
    <3>3. ASSUME NEW w \in SpaceNames, The(w)' = The(w), ListIsAwaited(p, w)
          PROVE  ListIsAwaited(p, w)' \/ On("list", w) \in behind'[p]
      <4>1. ListOf(w)' = ListOf(w) /\ Cmd("list", w)' = Cmd("list", w)
        BY <3>3, SameList DEF Cmd
      <4>2. CASE "list" \in effects[p] \/ (MirrorOf[domain].waits /\ w \notin roster[p])
        BY <1>3, <4>2 DEF ListIsAwaited, SamePhone
      <4>3. CASE Has(sent[p], {Cmd("list", w)})
        <5>1. CASE Has(sent'[p], {Cmd("list", w)})
          BY <4>1, <5>1 DEF ListIsAwaited
        <5>2. CASE c = Cmd("list", w)
          <6>1. c.cmd = "list" /\ c.ws = w
            BY <5>2 DEF Cmd
          <6> QED
            BY <1>0, <1>2, <2>2, <4>1, <6>1 DEF ListIsAwaited
        <5> QED
          BY <2>2, <3>1, <4>3, <5>1, <5>2
      <4> QED
        BY <1>4, <2>2, <3>3, <4>2, <4>3 DEF ListIsAwaited
    <3> QED
      BY <3>2, <3>3
  <2> QED
    BY <2>1, <2>2
<1>8. ASSUME NEW w \in SpaceNames
      PROVE  \/ On("list", w) \in behind'[p] \/ ListIsTold(w)'
             \/ The(w)' = The(w) /\ ~ListIsTold(w) /\ (ListIsAwaited(p, w) => ListIsAwaited(p, w)')
  BY <1>2, <1>5, <1>7
<1>9. ASSUME NEW w \in SpaceNames
      PROVE  \/ domain # "skills" \/ On("body", w) \in behind'[p] \/ BodyIsTold(w)'
             \/ real'[w] = real[w] /\ ~BodyIsTold(w)
  BY <1>2, <1>5
<1> QED
  BY <1>0, <1>2, <1>3, <1>5, <1>7, <1>8, <1>9, PhoneKept

\* A step of the daemon after which nothing more is known, and what was told of still is.
LEMMA QuietStep ==
  ASSUME MirrorInv, NEW p \in online', UNCHANGED phoneState, domain' = domain, line' = line,
         \A q \in Apps : behind[q] \subseteq behind'[q], spaces' = spaces, real' = real,
         RosterIsTold => RosterIsTold',
         p \in Apps => /\ RosterComes(p) => RosterComes(p)'
                       /\ \A w \in SpaceNames : The(w)' = The(w) /\ ListIsAwaited(p, w) => ListIsAwaited(p, w)',
         \A w \in SpaceNames : /\ The(w)' = The(w) \/ ListIsTold(w)' \/ On("list", w) \in behind'[p]
                               /\ ListIsTold(w) => ListIsTold(w)' \/ On("list", w) \in behind'[p]
                               /\ BodyIsTold(w) => BodyIsTold(w)'
  PROVE  PhoneHolds(p)'
<1>0. Solid /\ p \in online /\ p \in Apps /\ PhoneHolds(p)
  BY SolidHas DEF MirrorInv, phoneState, MirrorShapes
<1>1. SamePhone(p) /\ line'[p] = line[p]
  BY PhoneStays
<1>2. ASSUME NEW w \in SpaceNames
      PROVE  \/ On("list", w) \in behind'[p] \/ ListIsTold(w)'
             \/ The(w)' = The(w) /\ ~ListIsTold(w) /\ (ListIsAwaited(p, w) => ListIsAwaited(p, w)')
  BY <1>0
<1>3. ASSUME NEW w \in SpaceNames
      PROVE  \/ domain # "skills" \/ On("body", w) \in behind'[p] \/ BodyIsTold(w)'
             \/ real'[w] = real[w] /\ ~BodyIsTold(w)
  OBVIOUS
<1> QED
  BY <1>0, <1>1, <1>2, <1>3, PhoneKept

LEMMA TheStays == ASSUME domain' = domain, real' = real, found' = found PROVE \A w : The(w)' = The(w)
BY DEF The

LEMMA LookHolds ==
  ASSUME MirrorInv, NEW d \in Devices, Look(d), NEW p \in online'
  PROVE  PhoneHolds(p)'
<1>0. Solid
  BY DEF MirrorInv
<1>1. /\ UNCHANGED phoneState /\ UNCHANGED <<domain, spaces, real, found, jobs, sent, line, behind>>
      /\ order[d].at = "look"
  BY DEF Look, daemonState, phoneState
<1>2. \A w \in SpaceNames : The(w)' = The(w)
  BY <1>1, TheStays
<1> PICK m : m = IF order[d].cmd # "change" THEN Roster
                 ELSE IF DeskOf[domain].first = "announcement" THEN Announcement(order[d].ws) ELSE ListOf(order[d].ws)
  OBVIOUS
<1>3. order[d] \in InHand /\ order[d].ws \in SpaceNames /\ order \in [Devices -> InHand]
  BY <1>0, SolidHas, InHandFacts DEF MirrorShapes
<1>4. /\ order'[d].at = "tell" /\ order'[d].cmd = order[d].cmd /\ order'[d].ws = order[d].ws /\ order'[d].news = {m}
      /\ \A e \in Devices \ {d} : order'[e] = order[e]
  <2>1. order' = [order EXCEPT ![d] = [@ EXCEPT !.at = "tell", !.news = {m}]]
    BY <1>3 DEF Look
  <2> QED
    BY <1>3, <2>1 DEF InHand
<1>5. /\ RosterIsTold => RosterIsTold'
      /\ \A w \in SpaceNames : BodyIsTold(w) => BodyIsTold(w)'
  BY <1>4 DEF RosterIsTold, BodyIsTold
<1>6. ASSUME NEW w \in SpaceNames, ListIsTold(w) PROVE ListIsTold(w)'
  <2>1. CASE OrderTells(order[d], w)
    <3>1. order[d].cmd = "change" /\ order[d].ws = w
      BY <2>1 DEF OrderTells
    <3>2. m.interim \/ m.version = The(w)
      BY <1>0, <3>1, SolidHas, ListFacts, AnnouncementFacts
    <3>3. OrderTells(order[d], w)'
      BY <1>2, <1>4, <3>1, <3>2 DEF OrderTells
    <3> QED
      BY <3>3 DEF ListIsTold
  <2>2. CASE ~OrderTells(order[d], w)
    BY <1>1, <1>2, <1>4, <1>6, <2>2, ToldByOthers
  <2> QED
    BY <2>1, <2>2
<1>7. ASSUME NEW q \in Apps
      PROVE  /\ RosterComes(q) => RosterComes(q)'
             /\ \A w \in SpaceNames : ListIsAwaited(q, w) => ListIsAwaited(q, w)'
  <2>1. SamePhone(q) /\ q \in Devices
    BY <1>0, <1>1, PhoneStays, PhoneFacts
  <2>2. CASE q # d
    BY <1>1, <1>2, <1>4, <2>1, <2>2, ComesStill
  <2>3. CASE q = d
    <3>1. RosterComes(q) => RosterComes(q)'
      BY <1>1, <2>1, <2>3 DEF RosterComes, SamePhone, SpacesOrders
    <3>2. \A w \in SpaceNames : ListIsAwaited(q, w) => ListIsAwaited(q, w)'
      BY <1>1, <2>1, <2>3 DEF ListIsAwaited, SamePhone, Cmd
    <3> QED
      BY <3>1, <3>2
  <2> QED
    BY <2>2, <2>3
<1> QED
  BY <1>1, <1>2, <1>5, <1>6, <1>7, QuietStep

LEMMA SpawnReloadHolds ==
  ASSUME MirrorInv, NEW d \in Devices, SpawnReload(d), NEW p \in online'
  PROVE  PhoneHolds(p)'
<1>0. Solid
  BY DEF MirrorInv
<1>1. /\ UNCHANGED phoneState /\ UNCHANGED <<domain, spaces, real, found, sent, line, behind>>
      /\ order[d].at = "spawn"
  BY DEF SpawnReload, phoneState
<1>2. \A w \in SpaceNames : The(w)' = The(w)
  BY <1>1, TheStays
<1>3. order'[d] = Calm /\ \A e \in Devices \ {d} : order'[e] = order[e]
  BY <1>0, SolidHas DEF SpawnReload, MirrorShapes
<1> PICK tells \in BOOLEAN : tells = IF order[d].cmd = "reload" THEN DeskOf[domain].onReload ELSE DeskOf[domain].later
  BY <1>0, SolidHas, DeskFacts
<1> PICK j : j = [ws |-> order[d].ws, tells |-> tells, at |-> "wait", news |-> None]
  OBVIOUS
<1>4. j \in Jobs /\ j.ws = order[d].ws /\ j.tells = tells /\ j.at = "wait"
  BY <1>0, SolidHas, InHandFacts DEF Jobs, None, NoneOrOne
<1>5. jobs' = Append(jobs, j) /\ jobs \in Seq(Jobs)
  BY <1>0, SolidHas DEF SpawnReload, MirrorShapes
<1>6. /\ \A k \in 1..Len(jobs) : k \in 1..Len(jobs') /\ jobs'[k] = jobs[k]
      /\ Len(jobs) + 1 \in 1..Len(jobs') /\ jobs'[Len(jobs) + 1] = j
  BY <1>4, <1>5, AppendFacts
<1>7. /\ RosterIsTold => RosterIsTold'
      /\ \A w \in SpaceNames : BodyIsTold(w) => BodyIsTold(w)'
  BY <1>1, <1>3 DEF RosterIsTold, BodyIsTold
<1>8. ASSUME NEW w \in SpaceNames, ListIsTold(w) PROVE ListIsTold(w)'
  <2>1. CASE OrderTells(order[d], w)
    <3>1. order[d].cmd = "change" /\ order[d].ws = w /\ First = "announcement"
      BY <1>1, <2>1 DEF OrderTells
    <3>2. j.tells
      BY <1>0, <1>4, <3>1, SolidHas, DeskFacts
    <3>3. JobTells(j, w)'
      BY <1>1, <1>4, <3>1, <3>2 DEF JobTells, First
    <3> QED
      BY <1>6, <3>3 DEF ListIsTold
  <2>2. ASSUME NEW e \in Devices \ {d}, OrderTells(order[e], w) PROVE ListIsTold(w)'
    <3>1. OrderTells(order[e], w)'
      BY <1>1, <1>2, <1>3, <2>2 DEF OrderTells, First
    <3> QED
      BY <3>1 DEF ListIsTold
  <2>3. ASSUME NEW k \in 1..Len(jobs), JobTells(jobs[k], w) PROVE ListIsTold(w)'
    <3>1. JobTells(jobs[k], w)'
      BY <1>1, <1>2, <1>6, <2>3 DEF JobTells, First
    <3> QED
      BY <1>6, <3>1 DEF ListIsTold
  <2> QED
    BY <1>8, <2>1, <2>2, <2>3 DEF ListIsTold
<1>9. ASSUME NEW q \in Apps
      PROVE  /\ RosterComes(q) => RosterComes(q)'
             /\ \A w \in SpaceNames : ListIsAwaited(q, w) => ListIsAwaited(q, w)'
  <2>1. SamePhone(q) /\ q \in Devices
    BY <1>0, <1>1, PhoneStays, PhoneFacts
  <2>2. CASE q # d
    BY <1>1, <1>2, <1>3, <2>1, <2>2, ComesStill
  <2>3. CASE q = d
    <3>1. RosterComes(q) => RosterComes(q)'
      BY <1>1, <2>1, <2>3 DEF RosterComes, SamePhone, SpacesOrders
    <3>2. \A w \in SpaceNames : ListIsAwaited(q, w) => ListIsAwaited(q, w)'
      BY <1>1, <2>1, <2>3 DEF ListIsAwaited, SamePhone, Cmd
    <3> QED
      BY <3>1, <3>2
  <2> QED
    BY <2>2, <2>3
<1> QED
  BY <1>1, <1>2, <1>7, <1>8, <1>9, QuietStep

-----------------------------------------------------------------------------
(*****************************************************************************)
(* A wish is sent; a reload publishes, fails, and looks again.               *)
(*****************************************************************************)

LEMMA ComesAsLongAs ==
  ASSUME NEW p \in Apps, SamePhone(p), \A S : Has(sent[p], S) => Has(sent'[p], S),
         order'[p] = order[p] \/ order[p].at # "reply"
  PROVE  /\ RosterComes(p) => RosterComes(p)'
         /\ \A w \in SpaceNames : The(w)' = The(w) /\ ListIsAwaited(p, w) => ListIsAwaited(p, w)'
<1>1. RosterComes(p) => RosterComes(p)'
  BY DEF RosterComes, SamePhone, SpacesOrders
<1>2. ASSUME NEW w \in SpaceNames, The(w)' = The(w), ListIsAwaited(p, w) PROVE ListIsAwaited(p, w)'
  <2>1. ListOf(w)' = ListOf(w) /\ Cmd("list", w)' = Cmd("list", w)
    BY <1>2, SameList DEF Cmd
  <2> QED
    BY <1>2, <2>1 DEF ListIsAwaited, SamePhone
<1> QED
  BY <1>1, <1>2

LEMMA NothingTold ==
  ASSUME domain' = domain, order' = order, jobs' = jobs
  PROVE  /\ RosterIsTold => RosterIsTold'
         /\ \A w \in SpaceNames : /\ The(w)' = The(w) /\ ListIsTold(w) => ListIsTold(w)'
                                  /\ BodyIsTold(w) => BodyIsTold(w)'
<1>1. ASSUME NEW w \in SpaceNames, The(w)' = The(w), ListIsTold(w) PROVE ListIsTold(w)'
  <2>1. ASSUME NEW i \in 1..Len(jobs), JobTells(jobs[i], w) PROVE ListIsTold(w)'
    BY <1>1, <2>1 DEF ListIsTold, JobTells, First
  <2>2. ASSUME NEW e \in Devices, OrderTells(order[e], w) PROVE ListIsTold(w)'
    BY <1>1, <2>2 DEF ListIsTold, OrderTells, First
  <2> QED
    BY <1>1, <2>1, <2>2 DEF ListIsTold
<1> QED
  BY <1>1 DEF RosterIsTold, BodyIsTold

LEMMA AskHolds ==
  ASSUME MirrorInv, NEW d \in Devices, Ask(d), NEW p \in online'
  PROVE  PhoneHolds(p)'
<1>0. Solid
  BY DEF MirrorInv
<1>1. UNCHANGED phoneState /\ UNCHANGED <<domain, spaces, real, found, jobs, order, line, behind>>
  BY DEF Ask, daemonState, phoneState
<1>2. \A w \in SpaceNames : The(w)' = The(w)
  BY <1>1, TheStays
<1>3. PICK c \in Wishes(d) : Send(d, <<c>>)
  BY DEF Ask
<1>4. <<c>> \in Seq(Commands) /\ (domain = "skills" \/ ~Has(<<c>>, Reads))
  BY <1>0, WishFacts, HasOne
<1>5. \A e \in Devices : \A S : Has(sent[e], S) => Has(sent'[e], S)
  BY <1>0, <1>1, <1>3, <1>4, SendFacts
<1>6. ASSUME NEW q \in Apps
      PROVE  /\ RosterComes(q) => RosterComes(q)'
             /\ \A w \in SpaceNames : ListIsAwaited(q, w) => ListIsAwaited(q, w)'
  <2>1. SamePhone(q) /\ q \in Devices
    BY <1>0, <1>1, PhoneStays, PhoneFacts
  <2> QED
    BY <1>1, <1>2, <1>5, <2>1, ComesAsLongAs
<1> QED
  BY <1>1, <1>2, <1>6, NothingTold, QuietStep

\* One reload goes on or ends: what the others tell of is still told.
LEMMA ToldBesides ==
  ASSUME Solid, NEW i \in DOMAIN jobs, domain' = domain, order' = order,
         \A n \in 1..Len(jobs) : n # i => \E k \in 1..Len(jobs') : jobs'[k] = jobs[n]
  PROVE  /\ RosterIsTold => RosterIsTold'
         /\ \A w \in SpaceNames : /\ The(w)' = The(w) /\ ListIsTold(w) => ListIsTold(w)' \/ JobTells(jobs[i], w)
                                  /\ BodyIsTold(w) => BodyIsTold(w)'
<1>1. ASSUME NEW w \in SpaceNames, The(w)' = The(w), ListIsTold(w), ~JobTells(jobs[i], w) PROVE ListIsTold(w)'
  <2>1. ASSUME NEW n \in 1..Len(jobs), JobTells(jobs[n], w) PROVE ListIsTold(w)'
    <3>1. PICK k \in 1..Len(jobs') : jobs'[k] = jobs[n]
      BY <1>1, <2>1
    <3>2. JobTells(jobs[k], w)'
      BY <1>1, <2>1, <3>1 DEF JobTells, First
    <3> QED
      BY <3>2 DEF ListIsTold
  <2>2. ASSUME NEW e \in Devices, OrderTells(order[e], w) PROVE ListIsTold(w)'
    BY <1>1, <2>2 DEF ListIsTold, OrderTells, First
  <2> QED
    BY <1>1, <2>1, <2>2 DEF ListIsTold
<1> QED
  BY <1>1 DEF RosterIsTold, BodyIsTold

LEMMA LeavingJob ==
  ASSUME Solid, NEW i \in DOMAIN jobs, jobs' = Lists!RemoveAt(jobs, i)
  PROVE  \A n \in 1..Len(jobs) : n # i => \E k \in 1..Len(jobs') : jobs'[k] = jobs[n]
BY JobFacts, SolidHas, JobLeaves

LEMMA ChangingJob ==
  ASSUME Solid, NEW i \in DOMAIN jobs, NEW j \in Jobs, jobs' = [jobs EXCEPT ![i] = j]
  PROVE  /\ i \in 1..Len(jobs') /\ jobs'[i] = j
         /\ \A n \in 1..Len(jobs) : n # i => \E k \in 1..Len(jobs') : jobs'[k] = jobs[n]
BY JobFacts, SolidHas, JobChanges

LEMMA AllStillComes ==
  ASSUME Solid, UNCHANGED phoneState, domain' = domain, sent' = sent, order' = order
  PROVE  \A q \in Apps : /\ SamePhone(q)
                         /\ RosterComes(q) => RosterComes(q)'
                         /\ \A w \in SpaceNames : The(w)' = The(w) /\ ListIsAwaited(q, w) => ListIsAwaited(q, w)'
<1> SUFFICES ASSUME NEW q \in Apps
             PROVE  /\ SamePhone(q)
                    /\ RosterComes(q) => RosterComes(q)'
                    /\ \A w \in SpaceNames : The(w)' = The(w) /\ ListIsAwaited(q, w) => ListIsAwaited(q, w)'
  OBVIOUS
<1>1. SamePhone(q)
  BY PhoneStays
<1> QED
  BY <1>1, ComesStill

LEMMA PublishReloadHolds ==
  ASSUME MirrorInv, NEW i \in DOMAIN jobs, PublishReload(i), NEW p \in online'
  PROVE  PhoneHolds(p)'
<1>0. Solid /\ p \in online /\ p \in Apps
  BY SolidHas DEF MirrorInv, MirrorShapes, PublishReload, phoneState
<1>1. UNCHANGED phoneState /\ UNCHANGED <<domain, spaces, real, order, sent, line>>
  BY DEF PublishReload, phoneState
<1> PICK v \in SpaceNames : v = jobs[i].ws
  BY <1>0, JobFacts
<1>2. found' = [found EXCEPT ![v] = real[v]] /\ found \in [SpaceNames -> Nat]
  BY <1>0, SolidHas DEF PublishReload, MirrorShapes
<1>3. \A w \in SpaceNames \ {v} : The(w)' = The(w)
  BY <1>1, <1>2 DEF The
<1>4. \A q \in Apps : behind[q] \subseteq behind'[q]
  BY DEF PublishReload, Untold
<1>5. \A q \in Apps : /\ RosterComes(q) => RosterComes(q)'
                      /\ \A w \in SpaceNames : The(w)' = The(w) /\ ListIsAwaited(q, w) => ListIsAwaited(q, w)'
  BY <1>0, <1>1, AllStillComes
<1>6. CASE jobs[i].tells
  <2> PICK j : j = [jobs[i] EXCEPT !.at = "look"]
    OBVIOUS
  <2>1. j \in Jobs /\ j.at = "look" /\ j.ws = v /\ j.tells
    BY <1>0, <1>6, JobFacts DEF Jobs
  <2>2. jobs' = [jobs EXCEPT ![i] = j]
    BY <1>0, <1>6, JobFacts DEF PublishReload
  <2>3. /\ i \in 1..Len(jobs') /\ jobs'[i] = j
        /\ \A n \in 1..Len(jobs) : n # i => \E k \in 1..Len(jobs') : jobs'[k] = jobs[n]
    BY <1>0, <2>1, <2>2, ChangingJob
  <2>4. ListIsTold(v)'
    <3>1. JobTells(jobs[i], v)'
      BY <2>1, <2>3 DEF JobTells
    <3> QED
      BY <2>3, <3>1 DEF ListIsTold
  <2>5. \A w \in SpaceNames \ {v} : ~JobTells(jobs[i], w)
    BY DEF JobTells
  <2>6. /\ RosterIsTold => RosterIsTold'
        /\ \A w \in SpaceNames : /\ The(w)' = The(w) \/ ListIsTold(w)'
                                 /\ ListIsTold(w) => ListIsTold(w)'
                                 /\ BodyIsTold(w) => BodyIsTold(w)'
    BY <1>0, <1>1, <1>3, <2>3, <2>4, <2>5, ToldBesides
  <2> QED
    BY <1>1, <1>4, <1>5, <2>6, QuietStep
<1>7. CASE ~jobs[i].tells
  <2>1. \A n \in 1..Len(jobs) : n # i => \E k \in 1..Len(jobs') : jobs'[k] = jobs[n]
    BY <1>0, <1>7, LeavingJob DEF PublishReload
  <2>2. The(v)' = The(v) \/ On("list", v) \in behind'[p]
    <3>1. CASE DeskOf[domain].reads = "disk" \/ found[v] = real[v]
      BY <1>1, <1>2, <3>1 DEF The
    <3>2. CASE ~(DeskOf[domain].reads = "disk" \/ found[v] = real[v])
      BY <1>0, <1>7, <3>2 DEF PublishReload, Untold
    <3> QED
      BY <3>1, <3>2
  <2>3. \A w \in SpaceNames : ~JobTells(jobs[i], w)
    BY <1>7 DEF JobTells
  <2>4. /\ RosterIsTold => RosterIsTold'
        /\ \A w \in SpaceNames : /\ The(w)' = The(w) \/ On("list", w) \in behind'[p]
                                 /\ ListIsTold(w) => ListIsTold(w)' \/ On("list", w) \in behind'[p]
                                 /\ BodyIsTold(w) => BodyIsTold(w)'
    BY <1>0, <1>1, <1>3, <2>1, <2>2, <2>3, ToldBesides
  <2> QED
    BY <1>1, <1>4, <1>5, <2>4, QuietStep
<1> QED
  BY <1>6, <1>7

LEMMA ReloadUnheardHolds ==
  ASSUME MirrorInv, NEW v \in SpaceNames, ReloadUnheard(v), NEW p \in online'
  PROVE  PhoneHolds(p)'
<1>0. Solid /\ p \in online /\ p \in Apps
  BY SolidHas DEF MirrorInv, MirrorShapes, ReloadUnheard, phoneState
<1>1. UNCHANGED phoneState /\ UNCHANGED <<domain, spaces, real, jobs, order, sent, line>>
  BY DEF ReloadUnheard, phoneState
<1>2. found' = [found EXCEPT ![v] = real[v]] /\ found \in [SpaceNames -> Nat]
  BY <1>0, SolidHas DEF ReloadUnheard, MirrorShapes
<1>3. \A w \in SpaceNames \ {v} : The(w)' = The(w)
  BY <1>1, <1>2 DEF The
<1>4. \A q \in Apps : behind[q] \subseteq behind'[q]
  BY DEF ReloadUnheard, Untold
<1>5. \A q \in Apps : /\ RosterComes(q) => RosterComes(q)'
                      /\ \A w \in SpaceNames : The(w)' = The(w) /\ ListIsAwaited(q, w) => ListIsAwaited(q, w)'
  BY <1>0, <1>1, AllStillComes
<1>6. The(v)' = The(v) \/ On("list", v) \in behind'[p]
  <2>1. CASE DeskOf[domain].reads = "disk" \/ found[v] = real[v]
    BY <1>1, <1>2, <2>1 DEF The
  <2>2. CASE ~(DeskOf[domain].reads = "disk" \/ found[v] = real[v])
    BY <1>0, <2>2 DEF ReloadUnheard, Untold
  <2> QED
    BY <2>1, <2>2
<1>7. /\ RosterIsTold => RosterIsTold'
      /\ \A w \in SpaceNames : /\ The(w)' = The(w) /\ ListIsTold(w) => ListIsTold(w)'
                               /\ BodyIsTold(w) => BodyIsTold(w)'
  BY <1>1, NothingTold
<1>8. /\ RosterIsTold => RosterIsTold'
      /\ \A w \in SpaceNames : /\ The(w)' = The(w) \/ On("list", w) \in behind'[p]
                               /\ ListIsTold(w) => ListIsTold(w)' \/ On("list", w) \in behind'[p]
                               /\ BodyIsTold(w) => BodyIsTold(w)'
  BY <1>3, <1>6, <1>7
<1> QED
  BY <1>1, <1>4, <1>5, <1>8, QuietStep

LEMMA ReloadFailsHolds ==
  ASSUME MirrorInv, NEW i \in DOMAIN jobs, ReloadFails(i), NEW p \in online'
  PROVE  PhoneHolds(p)'
<1>0. Solid /\ p \in online /\ p \in Apps
  BY SolidHas DEF MirrorInv, MirrorShapes, ReloadFails, phoneState
<1>1. UNCHANGED phoneState /\ UNCHANGED <<domain, spaces, real, found, order, sent, line>>
  BY DEF ReloadFails, phoneState
<1>2. \A w \in SpaceNames : The(w)' = The(w)
  BY <1>1, TheStays
<1>3. \A q \in Apps : behind[q] \subseteq behind'[q]
  BY DEF ReloadFails, Untold
<1>4. \A q \in Apps : /\ RosterComes(q) => RosterComes(q)'
                      /\ \A w \in SpaceNames : ListIsAwaited(q, w) => ListIsAwaited(q, w)'
  BY <1>0, <1>1, <1>2, AllStillComes
<1>5. \A n \in 1..Len(jobs) : n # i => \E k \in 1..Len(jobs') : jobs'[k] = jobs[n]
  BY <1>0, LeavingJob DEF ReloadFails
<1>6. ASSUME NEW w \in SpaceNames, JobTells(jobs[i], w) PROVE On("list", w) \in behind'[p]
  <2>1. jobs[i].ws = w /\ First = "announcement"
    BY <1>6 DEF JobTells, ReloadFails
  <2> QED
    BY <1>0, <2>1 DEF ReloadFails, Untold, First
<1>7. /\ RosterIsTold => RosterIsTold'
      /\ \A w \in SpaceNames : /\ ListIsTold(w) => ListIsTold(w)' \/ On("list", w) \in behind'[p]
                               /\ BodyIsTold(w) => BodyIsTold(w)'
  BY <1>0, <1>1, <1>2, <1>5, <1>6, ToldBesides
<1> QED
  BY <1>1, <1>2, <1>3, <1>4, <1>7, QuietStep

LEMMA LookAgainHolds ==
  ASSUME MirrorInv, NEW i \in DOMAIN jobs, LookAgain(i), NEW p \in online'
  PROVE  PhoneHolds(p)'
<1>0. Solid
  BY DEF MirrorInv
<1>1. UNCHANGED phoneState /\ UNCHANGED <<domain, spaces, real, found, order, sent, line, behind>>
  BY DEF LookAgain, phoneState
<1>2. \A w \in SpaceNames : The(w)' = The(w)
  BY <1>1, TheStays
<1>3. \A q \in Apps : /\ RosterComes(q) => RosterComes(q)'
                      /\ \A w \in SpaceNames : ListIsAwaited(q, w) => ListIsAwaited(q, w)'
  BY <1>0, <1>1, <1>2, AllStillComes
<1> PICK v \in SpaceNames : v = jobs[i].ws
  BY <1>0, JobFacts
<1> PICK m : m = ListOf(v)
  OBVIOUS
<1>4. m \in Messages /\ m.version = The(v)
  BY <1>0, SolidHas, ListFacts
<1> PICK j : j = [jobs[i] EXCEPT !.at = "tell", !.news = {m}]
  OBVIOUS
<1>5. j \in Jobs /\ j.at = "tell" /\ j.news = {m} /\ j.ws = v /\ j.tells = jobs[i].tells
  BY <1>0, <1>4, JobFacts, OneMessage DEF Jobs
<1>6. jobs' = [jobs EXCEPT ![i] = j]
  <2>1. jobs' = [jobs EXCEPT ![i] = [@ EXCEPT !.at = "tell", !.news = {m}]]
    BY <1>0, JobFacts DEF LookAgain
  <2> QED
    BY <1>0, <2>1, JobFacts
<1>7. /\ i \in 1..Len(jobs') /\ jobs'[i] = j
      /\ \A n \in 1..Len(jobs) : n # i => \E k \in 1..Len(jobs') : jobs'[k] = jobs[n]
  BY <1>0, <1>5, <1>6, ChangingJob
<1>8. ASSUME NEW w \in SpaceNames, JobTells(jobs[i], w) PROVE ListIsTold(w)'
  <2>1. v = w /\ jobs[i].tells
    BY <1>8 DEF JobTells
  <2>2. JobTells(jobs[i], w)'
    BY <1>2, <1>4, <1>5, <1>7, <2>1 DEF JobTells
  <2> QED
    BY <1>7, <2>2 DEF ListIsTold
<1>9. /\ RosterIsTold => RosterIsTold'
      /\ \A w \in SpaceNames : /\ ListIsTold(w) => ListIsTold(w)'
                               /\ BodyIsTold(w) => BodyIsTold(w)'
  BY <1>0, <1>1, <1>2, <1>7, <1>8, ToldBesides
<1> QED
  BY <1>1, <1>2, <1>3, <1>9, QuietStep

-----------------------------------------------------------------------------
(*****************************************************************************)
(* Messages: a change is told, a reload tells what it found, a reply is sent.*)
(*****************************************************************************)

LEMMA OnlyNews ==
  ASSUME NEW S \in NoneOrOne(Messages), NEW m \in S
  PROVE  S = {m} /\ m \in Messages
BY DEF NoneOrOne

LEMMA TellHolds ==
  ASSUME MirrorInv, NEW d \in Devices, Tell(d), NEW p \in online'
  PROVE  PhoneHolds(p)'
<1>0. Solid /\ p \in online /\ p \in Apps /\ PhoneHolds(p)
  BY SolidHas DEF MirrorInv, MirrorShapes, Tell, phoneState
<1>1. UNCHANGED phoneState /\ UNCHANGED <<domain, spaces, real, found, jobs, sent>> /\ order[d].at = "tell"
  BY DEF Tell, daemonState, phoneState
<1>2. \A w \in SpaceNames : The(w)' = The(w)
  BY <1>1, TheStays
<1>3. PICK m \in order[d].news : Broadcast(m)
  BY DEF Tell
<1>4. order[d] \in InHand /\ order[d].news = {m} /\ m \in Messages /\ Sound(m) /\ OrderIs(order[d])
  BY <1>0, SolidHas, InHandFacts, HeldMessages, OnlyNews DEF SoundNews, OrdersSound, OrdersHold
<1>5. /\ order[d].cmd \in {"change", "create", "delete"}
      /\ order[d].cmd \in {"create", "delete"} => m.kind = "spaces"
      /\ order[d].cmd = "change" => /\ m.ws = order[d].ws /\ m.kind = IF First = "changed" THEN "changed" ELSE "list"
                                    /\ m.interim <=> First = "announcement"
  BY <1>1, <1>4 DEF OrderIs, IsTelling
<1>6. Hears(p, m) \/ Misses(p, m)
  BY <1>0, <1>3, <1>4, SolidHas, BroadcastReaches
<1>7. SamePhone(p)
  BY <1>1, PhoneStays
<1>8. /\ \A e \in Devices \ {d} : order'[e] = order[e]
      /\ order[d].cmd = "change" /\ First = "announcement" =>
            order'[d].at = "spawn" /\ order'[d].cmd = "change" /\ order'[d].ws = order[d].ws
  <2> PICK o : o = IF order[d].cmd = "change" /\ DeskOf[domain].rebuilds
                   THEN [order[d] EXCEPT !.at = "spawn", !.news = None] ELSE Calm
    OBVIOUS
  <2>1. order' = [order EXCEPT ![d] = o] /\ order \in [Devices -> InHand]
    BY <1>0, SolidHas DEF Tell, MirrorShapes
  <2>2. order[d].cmd = "change" /\ First = "announcement" => o.at = "spawn" /\ o.cmd = "change" /\ o.ws = order[d].ws
    BY <1>0, <1>4, SolidHas, DeskFacts DEF InHand
  <2> QED
    BY <2>1, <2>2
<1>9. RosterComes(p) => RosterComes(p)'
  <2>1. order'[p] = order[p] \/ order[p].at # "reply"
    BY <1>0, <1>1, <1>8, PhoneFacts
  <2> QED
    BY <1>0, <1>1, <1>7, <2>1, ComesAsLongAs
<1>10. \A w \in SpaceNames : ListIsAwaited(p, w) => ListIsAwaited(p, w)'
  <2>1. order'[p] = order[p] \/ order[p].at # "reply"
    BY <1>0, <1>1, <1>8, PhoneFacts
  <2> QED
    BY <1>0, <1>1, <1>2, <1>7, <2>1, ComesAsLongAs
<1>11. /\ RosterIsTold => RosterIsTold' \/ m.kind = "spaces"
       /\ \A w \in SpaceNames : /\ ListIsTold(w) => ListIsTold(w)' \/ OrderTells(order[d], w)
                                /\ BodyIsTold(w) => BodyIsTold(w)' \/ (order[d].cmd = "change" /\ order[d].ws = w)
  BY <1>1, <1>2, <1>5, <1>8, ToldByOthers
<1>12. ASSUME NEW w \in SpaceNames, order[d].cmd = "change", order[d].ws = w, m.interim PROVE ListIsTold(w)'
  <2>1. First = "announcement" /\ First' = First
    BY <1>1, <1>5, <1>12 DEF First
  <2>2. OrderTells(order[d], w)'
    BY <1>8, <1>12, <2>1 DEF OrderTells
  <2> QED
    BY <2>2 DEF ListIsTold
<1>13. ASSUME NEW w \in SpaceNames, OrderTells(order[d], w)
       PROVE  ListIsTold(w)' \/ m \in ChangesOf(w) \/ m = ListOf(w)
  <2>1. order[d].cmd = "change" /\ order[d].ws = w /\ m.ws = w /\ (m.kind = "changed" \/ m.interim \/ m.version = The(w))
    BY <1>1, <1>4, <1>5, <1>13 DEF OrderTells
  <2>2. CASE m.kind = "changed"
    BY <1>4, <2>1, <2>2 DEF ChangesOf
  <2>3. CASE m.interim
    BY <1>12, <2>1, <2>3
  <2>4. CASE m.kind # "changed" /\ ~m.interim
    <3>1. m.kind = "list" /\ m.version = The(w) /\ m.places = {}
      BY <1>4, <1>5, <2>1, <2>4 DEF Sound
    <3> QED
      BY <1>0, <1>4, <2>1, <2>4, <3>1, SolidHas, ListFacts
  <2> QED
    BY <2>2, <2>3, <2>4
<1>14. ASSUME NEW w \in SpaceNames, m \in ListsOf(w), m.interim PROVE ListIsTold(w)'
  <2>1. order[d].cmd = "change" /\ order[d].ws = w
    BY <1>5, <1>14 DEF ListsOf
  <2> QED
    BY <1>12, <1>14, <2>1
<1>15. ASSUME NEW w \in SpaceNames, domain = "skills", order[d].cmd = "change", order[d].ws = w PROVE m \in ListsOf(w)
  BY <1>0, <1>4, <1>5, <1>15, SolidHas, DeskFacts DEF ListsOf
<1>16. ASSUME NEW w \in SpaceNames
       PROVE  /\ The(w)' = The(w) \/ m \in ChangesOf(w)
              /\ ListIsTold(w) => ListIsTold(w)' \/ m \in ChangesOf(w) \/ m = ListOf(w)
              /\ m \in ListsOf(w) /\ m.interim => ListIsTold(w)'
              /\ ListIsAwaited(p, w) => ListIsAwaited(p, w)' \/ m = ListOf(w) \/ m \in ChangesOf(w)
              /\ domain = "skills" => real'[w] = real[w]
              /\ domain = "skills" /\ BodyIsTold(w) => BodyIsTold(w)' \/ m \in ListsOf(w)
  BY <1>1, <1>2, <1>10, <1>11, <1>13, <1>14, <1>15
<1> QED
  BY <1>0, <1>1, <1>4, <1>6, <1>7, <1>9, <1>11, <1>16, PhoneTold

LEMMA TellFoundHolds ==
  ASSUME MirrorInv, NEW i \in DOMAIN jobs, TellFound(i), NEW p \in online'
  PROVE  PhoneHolds(p)'
<1>0. Solid /\ p \in online /\ p \in Apps /\ PhoneHolds(p)
  BY SolidHas DEF MirrorInv, MirrorShapes, TellFound, phoneState
<1>1. UNCHANGED phoneState /\ UNCHANGED <<domain, spaces, real, found, order, sent>> /\ jobs[i].at = "tell"
  BY DEF TellFound, phoneState
<1>2. \A w \in SpaceNames : The(w)' = The(w)
  BY <1>1, TheStays
<1>3. PICK m \in jobs[i].news : Broadcast(m)
  BY DEF TellFound
<1>4. m \in Messages /\ Sound(m)
  BY <1>0, JobFacts, SolidHas, HeldMessages DEF SoundNews, JobsSound
<1>5. jobs[i].news = {m} /\ m.kind = "list" /\ m.ws = jobs[i].ws /\ ~m.interim
  <2>1. jobs[i] \in Jobs /\ JobIs(jobs[i])
    BY <1>0, JobFacts, SolidHas DEF JobsHold
  <2>2. jobs[i].news = {m}
    BY <2>1, OnlyNews DEF Jobs
  <2> QED
    BY <1>1, <2>1, <2>2 DEF JobIs
<1>6. Hears(p, m) \/ Misses(p, m)
  BY <1>0, <1>3, <1>4, SolidHas, BroadcastReaches
<1>7. /\ SamePhone(p) /\ RosterComes(p) => RosterComes(p)'
      /\ \A w \in SpaceNames : ListIsAwaited(p, w) => ListIsAwaited(p, w)'
  BY <1>0, <1>1, <1>2, AllStillComes
<1>8. SamePhone(p)
  BY <1>1, PhoneStays
<1>9. \A n \in 1..Len(jobs) : n # i => \E k \in 1..Len(jobs') : jobs'[k] = jobs[n]
  BY <1>0, LeavingJob DEF TellFound
<1>10. /\ RosterIsTold => RosterIsTold'
       /\ \A w \in SpaceNames : /\ ListIsTold(w) => ListIsTold(w)' \/ JobTells(jobs[i], w)
                                /\ BodyIsTold(w) => BodyIsTold(w)'
  BY <1>0, <1>1, <1>2, <1>9, ToldBesides
<1>11. ASSUME NEW w \in SpaceNames, JobTells(jobs[i], w) PROVE m = ListOf(w)
  <2>1. jobs[i].ws = w /\ m.version = The(w) /\ m.places = {}
    BY <1>1, <1>4, <1>5, <1>11 DEF JobTells, Sound
  <2> QED
    BY <1>0, <1>4, <1>5, <2>1, SolidHas, ListFacts
<1>12. ASSUME NEW w \in SpaceNames
       PROVE  /\ The(w)' = The(w) \/ m \in ChangesOf(w)
              /\ ListIsTold(w) => ListIsTold(w)' \/ m \in ChangesOf(w) \/ m = ListOf(w)
              /\ m \in ListsOf(w) /\ m.interim => ListIsTold(w)'
              /\ ListIsAwaited(p, w) => ListIsAwaited(p, w)' \/ m = ListOf(w) \/ m \in ChangesOf(w)
              /\ domain = "skills" => real'[w] = real[w]
              /\ domain = "skills" /\ BodyIsTold(w) => BodyIsTold(w)' \/ m \in ListsOf(w)
  BY <1>1, <1>2, <1>5, <1>7, <1>10, <1>11
<1> QED
  BY <1>0, <1>1, <1>4, <1>6, <1>7, <1>8, <1>10, <1>12, PhoneTold

LEMMA ReplyHolds ==
  ASSUME MirrorInv, NEW q \in Apps, Reply(q), NEW p \in online'
  PROVE  PhoneHolds(p)'
<1>0. Solid /\ p \in online /\ p \in Apps /\ PhoneHolds(p) /\ q \in Devices
  BY SolidHas DEF MirrorInv, MirrorShapes, Reply, phoneState, Devices
<1>1. UNCHANGED phoneState /\ UNCHANGED <<domain, spaces, real, found, jobs, sent>> /\ order[q].at = "reply" /\ HasRoom(q)
  BY DEF Reply, daemonState, phoneState
<1>2. \A w \in SpaceNames : The(w)' = The(w)
  BY <1>1, TheStays
<1>3. PICK m \in order[q].news : line' = [line EXCEPT ![q] = Append(@, m)] /\ behind' = [behind EXCEPT ![q] = Judged(q, m)]
  BY DEF Reply
<1>4. order[q] \in InHand /\ order[q].news = {m} /\ m \in Messages /\ Sound(m) /\ OrderIs(order[q])
  BY <1>0, SolidHas, InHandFacts, HeldMessages, OnlyNews DEF SoundNews, OrdersSound, OrdersHold
<1>5. /\ ~m.interim
      /\ order[q].cmd = "spaces" => m.kind = "spaces"
  BY <1>1, <1>4 DEF OrderIs, IsReplying
<1>6. \A e \in Devices \ {q} : order'[e] = order[e]
  BY <1>0, SolidHas DEF Reply, MirrorShapes
<1>7. SamePhone(p)
  BY <1>1, PhoneStays
<1>8. /\ RosterIsTold => RosterIsTold'
      /\ \A w \in SpaceNames : /\ ListIsTold(w) => ListIsTold(w)'
                               /\ BodyIsTold(w) => BodyIsTold(w)'
  <2>1. \A w \in SpaceNames : ~OrderTells(order[q], w)
    BY <1>1 DEF OrderTells
  <2> QED
    BY <1>0, <1>1, <1>2, <1>6, <2>1, ToldByOthers
<1>9. CASE p # q
  <2>1. line'[p] = line[p] /\ behind'[p] = behind[p]
    BY <1>0, <1>3, <1>9, SolidHas DEF MirrorShapes
  <2>2. RosterComes(p) => RosterComes(p)'
    BY <1>0, <1>1, <1>6, <1>7, <1>9, PhoneFacts, ComesStill
  <2>3. \A w \in SpaceNames : ListIsAwaited(p, w) => ListIsAwaited(p, w)'
    BY <1>0, <1>1, <1>2, <1>6, <1>7, <1>9, PhoneFacts, ComesStill
  <2> QED
    BY <1>0, <1>1, <1>2, <1>7, <1>8, <2>1, <2>2, <2>3, PhoneKept
<1>10. CASE p = q
  <2>1. Hears(p, m)
    BY <1>0, <1>1, <1>3, <1>10, SolidHas DEF MirrorShapes, Hears
  <2>2. RosterComes(p) => RosterComes(p)' \/ m.kind = "spaces"
    BY <1>1, <1>5, <1>7, <1>10 DEF RosterComes, SamePhone, SpacesOrders
  <2>3. ASSUME NEW w \in SpaceNames, ListIsAwaited(p, w)
        PROVE  ListIsAwaited(p, w)' \/ m = ListOf(w)
    <3>1. Cmd("list", w)' = Cmd("list", w)
      BY DEF Cmd
    <3>2. CASE order[p].at = "reply" /\ order[p].news = {ListOf(w)}
      BY <1>4, <1>10, <3>2
    <3>3. CASE ~(order[p].at = "reply" /\ order[p].news = {ListOf(w)})
      BY <1>1, <1>7, <2>3, <3>1, <3>3 DEF ListIsAwaited, SamePhone
    <3> QED
      BY <3>2, <3>3
  <2>4. ASSUME NEW w \in SpaceNames
        PROVE  /\ The(w)' = The(w) \/ m \in ChangesOf(w)
               /\ ListIsTold(w) => ListIsTold(w)' \/ m \in ChangesOf(w) \/ m = ListOf(w)
               /\ m \in ListsOf(w) /\ m.interim => ListIsTold(w)'
               /\ ListIsAwaited(p, w) => ListIsAwaited(p, w)' \/ m = ListOf(w) \/ m \in ChangesOf(w)
               /\ domain = "skills" => real'[w] = real[w]
               /\ domain = "skills" /\ BodyIsTold(w) => BodyIsTold(w)' \/ m \in ListsOf(w)
    BY <1>1, <1>2, <1>5, <1>8, <2>3
  <2> QED
    BY <1>0, <1>1, <1>4, <1>7, <1>8, <2>1, <2>2, <2>4, PhoneTold
<1> QED
  BY <1>9, <1>10

-----------------------------------------------------------------------------
(*****************************************************************************)
(* Changes nobody commanded, and sockets.                                    *)
(*****************************************************************************)

LEMMA SomebodyElseHolds ==
  ASSUME MirrorInv, NEW v \in SpaceNames, SomebodyElse(v), NEW p \in online'
  PROVE  PhoneHolds(p)'
<1>0. Solid /\ p \in online /\ p \in Apps /\ PhoneHolds(p)
  BY SolidHas DEF MirrorInv, MirrorShapes, SomebodyElse, phoneState
<1>1. UNCHANGED phoneState /\ UNCHANGED <<domain, spaces, found, jobs, order, sent>>
  BY DEF SomebodyElse, phoneState
<1>2. \A w \in SpaceNames \ {v} : real'[w] = real[w] /\ The(w)' = The(w)
  BY <1>0, <1>1, SolidHas DEF The, SomebodyElse, Alter, MirrorShapes
<1>3. SamePhone(p)
  BY <1>1, PhoneStays
<1>4. /\ RosterComes(p) => RosterComes(p)'
      /\ \A w \in SpaceNames : The(w)' = The(w) /\ ListIsAwaited(p, w) => ListIsAwaited(p, w)'
  BY <1>0, <1>1, AllStillComes
<1>5. /\ RosterIsTold => RosterIsTold'
      /\ \A w \in SpaceNames : /\ The(w)' = The(w) /\ ListIsTold(w) => ListIsTold(w)'
                               /\ BodyIsTold(w) => BodyIsTold(w)'
  BY <1>1, NothingTold
<1>6. CASE First = "changed"
  <2> PICK m \in Messages : m = News("changed", v, 0) /\ m.kind = "changed" /\ m.ws = v /\ ~m.interim
    <3>1. LET m == News("changed", v, 0) IN m \in Messages /\ m.kind = "changed" /\ m.ws = v /\ ~m.interim
      BY DEF News, Messages
    <3> QED
      BY <3>1, Zenon
  <2>1. Broadcast(m)
    BY <1>6 DEF First, SomebodyElse
  <2>2. Hears(p, m) \/ Misses(p, m)
    BY <1>0, <2>1, SolidHas, BroadcastReaches
  <2>3. m \in ChangesOf(v) /\ Sound(m) /\ domain # "skills"
    BY <1>0, <1>6, SolidHas, DeskFacts DEF ChangesOf, Sound
  <2>4. ASSUME NEW w \in SpaceNames
        PROVE  /\ The(w)' = The(w) \/ m \in ChangesOf(w)
               /\ ListIsTold(w) => ListIsTold(w)' \/ m \in ChangesOf(w) \/ m = ListOf(w)
               /\ m \in ListsOf(w) /\ m.interim => ListIsTold(w)'
               /\ ListIsAwaited(p, w) => ListIsAwaited(p, w)' \/ m = ListOf(w) \/ m \in ChangesOf(w)
               /\ domain = "skills" => real'[w] = real[w]
               /\ domain = "skills" /\ BodyIsTold(w) => BodyIsTold(w)' \/ m \in ListsOf(w)
    BY <1>2, <1>4, <1>5, <2>3
  <2> QED
    BY <1>0, <1>1, <1>3, <1>4, <1>5, <2>2, <2>3, <2>4, PhoneTold
<1>7. CASE First # "changed"
  <2>1. line'[p] = line[p]
    BY <1>7 DEF First, SomebodyElse
  <2>2. CASE DeskOf[domain].reads = "disk"
    <3>1. Untold(v)
      BY <1>7, <2>2 DEF First, SomebodyElse
    <3>2. behind[p] \subseteq behind'[p] /\ On("list", v) \in behind'[p] /\ On("body", v) \in behind'[p]
      BY <1>0, <3>1 DEF Untold
    <3>3. ASSUME NEW w \in SpaceNames
          PROVE  /\ \/ On("list", w) \in behind'[p] \/ ListIsTold(w)'
                    \/ The(w)' = The(w) /\ ~ListIsTold(w) /\ (ListIsAwaited(p, w) => ListIsAwaited(p, w)')
                 /\ \/ domain # "skills" \/ On("body", w) \in behind'[p] \/ BodyIsTold(w)'
                    \/ real'[w] = real[w] /\ ~BodyIsTold(w)
      BY <1>2, <1>4, <1>5, <3>2
    <3> QED
      BY <1>0, <1>1, <1>3, <1>4, <1>5, <2>1, <3>2, <3>3, PhoneKept
  <2>3. CASE DeskOf[domain].reads # "disk"
    <3>1. behind' = behind
      BY <1>7, <2>3 DEF First, SomebodyElse
    <3>2. The(v)' = The(v) /\ domain # "skills"
      BY <1>0, <1>1, <2>3, SolidHas, DeskFacts DEF The
    <3>3. ASSUME NEW w \in SpaceNames
          PROVE  /\ \/ On("list", w) \in behind'[p] \/ ListIsTold(w)'
                    \/ The(w)' = The(w) /\ ~ListIsTold(w) /\ (ListIsAwaited(p, w) => ListIsAwaited(p, w)')
                 /\ \/ domain # "skills" \/ On("body", w) \in behind'[p] \/ BodyIsTold(w)'
                    \/ real'[w] = real[w] /\ ~BodyIsTold(w)
      BY <1>2, <1>4, <1>5, <3>2
    <3> QED
      BY <1>0, <1>1, <1>3, <1>4, <1>5, <2>1, <3>1, <3>3, PhoneKept
  <2> QED
    BY <2>2, <2>3
<1> QED
  BY <1>6, <1>7

\* What concerns one phone leaves the others alone.
LEMMA OthersKept ==
  ASSUME MirrorInv, NEW q \in Apps, NEW p \in online, p # q, SamePhone(p),
         UNCHANGED <<spaces, real, found, jobs>>, line'[p] = line[p], sent'[p] = sent[p],
         behind'[p] = behind[p], \A e \in Devices \ {q} : order'[e] = order[e],
         order'[q] = order[q] \/ order[q].at = "reply"
  PROVE  PhoneHolds(p)'
<1>0. Solid /\ p \in Apps /\ PhoneHolds(p) /\ p \in Devices /\ domain' = domain /\ q \in Devices
  BY SolidHas, PhoneFacts DEF MirrorInv, MirrorShapes, SamePhone
<1>1. \A w \in SpaceNames : The(w)' = The(w)
  BY <1>0, TheStays
<1>2. /\ RosterComes(p) => RosterComes(p)'
      /\ \A w \in SpaceNames : ListIsAwaited(p, w) => ListIsAwaited(p, w)'
  BY <1>0, <1>1, ComesStill
<1>3. /\ RosterIsTold => RosterIsTold'
      /\ \A w \in SpaceNames : /\ ListIsTold(w) => ListIsTold(w)'
                               /\ BodyIsTold(w) => BodyIsTold(w)'
  <2>1. CASE order'[q] = order[q]
    <3>1. order' = order \/ \A d \in Devices : order'[d] = order[d]
      BY <2>1
    <3>2. RosterIsTold => RosterIsTold'
      BY <3>1 DEF RosterIsTold
    <3>3. ASSUME NEW w \in SpaceNames PROVE BodyIsTold(w) => BodyIsTold(w)'
      BY <3>1 DEF BodyIsTold
    <3>4. ASSUME NEW w \in SpaceNames, ListIsTold(w) PROVE ListIsTold(w)'
      <4>1. ASSUME NEW i \in 1..Len(jobs), JobTells(jobs[i], w) PROVE ListIsTold(w)'
        BY <1>0, <1>1, <4>1 DEF ListIsTold, JobTells, First
      <4>2. ASSUME NEW e \in Devices, OrderTells(order[e], w) PROVE ListIsTold(w)'
        BY <1>0, <1>1, <3>1, <4>2 DEF ListIsTold, OrderTells, First
      <4> QED
        BY <3>4, <4>1, <4>2 DEF ListIsTold
    <3> QED
      BY <3>2, <3>3, <3>4
  <2>2. CASE order[q].at = "reply"
    <3>1. \A w \in SpaceNames : ~OrderTells(order[q], w)
      BY <2>2 DEF OrderTells
    <3> QED
      BY <1>0, <1>1, <2>2, <3>1, ToldByOthers
  <2> QED
    BY <2>1, <2>2
<1> QED
  BY <1>0, <1>1, <1>2, <1>3, PhoneKept

LEMMA SocketOpensHolds ==
  ASSUME MirrorInv, NEW q \in Apps, SocketOpens(q), NEW p \in online'
  PROVE  PhoneHolds(p)'
<1>0. Solid /\ domain' = domain /\ online' = online \cup {q} /\ q \notin online /\ order' = order
      /\ UNCHANGED <<spaces, real, found, jobs, sent, line, activeName, roster, shown, body>>
  BY DEF MirrorInv, SocketOpens, daemonState
<1>1. effects'[q] = {"spaces", "list"} /\ behind'[q] = {} /\ line'[q] = <<>>
      /\ \A r \in Apps \ {q} : effects'[r] = effects[r] /\ behind'[r] = behind[r]
  BY <1>0, SolidHas DEF SocketOpens, MirrorShapes, NoLineIsLeft
<1>2. CASE p = q
  <2>1. RosterHolds(p)'
    BY <1>1, <1>2 DEF RosterHolds, RosterComes
  <2>2. ActiveHolds(p)'
    BY <1>1, <1>2 DEF ActiveHolds, RosterComes
  <2>3. ASSUME NEW w \in SpaceNames PROVE ListHolds(p, w)'
    BY <1>1, <1>2 DEF ListHolds, ListComes, ListIsAwaited
  <2>4. ASSUME NEW w \in SpaceNames PROVE BodyHolds(p, w)'
    <3>1. IsCleared(line'[p], StaleBodies(w)', ListsOf(w)')
      <4>1. Len(<<>>) = 0
        OBVIOUS
      <4> QED
        BY <1>1, <1>2, <4>1 DEF IsCleared
    <3> QED
      BY <1>1, <1>2, <3>1 DEF BodyHolds
  <2> QED
    BY <2>1, <2>2, <2>3, <2>4 DEF PhoneHolds
<1>3. CASE p # q
  <2>1. p \in online /\ p \in Apps
    BY <1>0, <1>3, SolidHas DEF MirrorShapes
  <2>2. SamePhone(p)
    BY <1>0, <1>1, <1>3, <2>1 DEF SamePhone
  <2> QED
    BY <1>0, <1>1, <1>3, <2>1, <2>2, OthersKept
<1> QED
  BY <1>2, <1>3

LEMMA SocketClosesHolds ==
  ASSUME MirrorInv, NEW q \in Apps, SocketCloses(q), NEW p \in online'
  PROVE  PhoneHolds(p)'
<1>0. Solid /\ domain' = domain /\ p \in online /\ p # q /\ behind' = behind
      /\ UNCHANGED <<spaces, real, found, jobs, activeName, roster, shown, body>>
  BY DEF MirrorInv, SocketCloses, daemonState
<1>1. p \in Apps /\ p \in Devices /\ q \in Devices
  BY <1>0, SolidHas, PhoneFacts DEF MirrorShapes
<1>2. effects'[p] = effects[p] /\ line'[p] = line[p] /\ sent'[p] = sent[p]
      /\ (\A e \in Devices \ {q} : order'[e] = order[e]) /\ (order'[q] = order[q] \/ order[q].at = "reply")
  BY <1>0, <1>1, SolidHas DEF SocketCloses, MirrorShapes
<1>3. SamePhone(p)
  BY <1>0, <1>2 DEF SamePhone
<1> QED
  BY <1>0, <1>2, <1>3, OthersKept

-----------------------------------------------------------------------------
(*****************************************************************************)
(* The effects of the app, and the workspace it goes to.                     *)
(*****************************************************************************)

LEMMA SettleHolds ==
  ASSUME MirrorInv, NEW q \in Apps, Settle(q), NEW p \in online'
  PROVE  PhoneHolds(p)'
<1>0. Solid /\ domain' = domain /\ p \in online /\ PhoneHolds(p)
      /\ UNCHANGED <<spaces, real, found, jobs, order, line, online, activeName, roster, behind>>
  BY DEF MirrorInv, Settle, daemonState
<1>1. p \in Apps /\ \A e \in Devices \ {q} : sent'[e] = sent[e]
  BY <1>0, SettleSends, SolidHas DEF MirrorShapes
<1>2. /\ effects'[q] = {} /\ shown'[q] = Cleared(q, shown[q]) /\ body'[q] = Cleared(q, body[q])
      /\ \A r \in Apps \ {q} : effects'[r] = effects[r] /\ shown'[r] = shown[r] /\ body'[r] = body[r]
  BY <1>0, SolidHas DEF Settle, MirrorShapes
<1>3. CASE p # q
  <2>1. SamePhone(p) /\ p \in Devices
    BY <1>0, <1>1, <1>2, <1>3, PhoneFacts DEF SamePhone
  <2> QED
    BY <1>0, <1>1, <1>3, <2>1, OthersKept
<1>4. CASE p = q
  <2>1. /\ \A S : Has(sent[p], S) => Has(sent'[p], S)
        /\ "spaces" \in effects[p] => Has(sent'[p], SpacesOrders)
        /\ \A w \in SpaceNames : "list" \in effects[p] /\ Sees(p) /\ activeName[p] = {w}
                => Has(sent'[p], {Cmd("list", w)})
    BY <1>0, <1>4, SettleSends, PhoneFacts
  <2>2. \A w \in SpaceNames : The(w)' = The(w)
    BY <1>0, TheStays
  <2>3. /\ RosterIsTold => RosterIsTold'
        /\ \A w \in SpaceNames : /\ ListIsTold(w) => ListIsTold(w)'
                                 /\ BodyIsTold(w) => BodyIsTold(w)'
    BY <1>0, <2>2, NothingTold
  <2>4. RosterHolds(p)'
    <3>1. Served' = Served /\ FullRosters' = FullRosters
      BY <1>0 DEF Served, FullRosters
    <3>2. RosterIsFull(p) => RosterIsFull(p)'
      BY <1>0, <3>1 DEF RosterIsFull
    <3>3. RosterComes(p) => RosterComes(p)'
      BY <1>0, <2>1 DEF RosterComes, SpacesOrders
    <3> QED
      BY <1>0, <2>3, <3>2, <3>3 DEF RosterHolds, PhoneHolds, SpacesTopic
  <2>5. ActiveHolds(p)'
    <3>1. RosterComes(p) => RosterComes(p)'
      BY <1>0, <2>1 DEF RosterComes, SpacesOrders
    <3> QED
      BY <1>0, <3>1 DEF ActiveHolds, PhoneHolds, SpacesTopic
  <2>6. ASSUME NEW w \in SpaceNames PROVE ListHolds(p, w)'
    <3>1. Cmd("list", w)' = Cmd("list", w) /\ ListOf(w)' = ListOf(w) /\ On("list", w)' = On("list", w)
      BY <2>2, SameList DEF Cmd, On
    <3>2. CASE "list" \in effects[p] /\ activeName[p] = {w}
      <4>1. CASE Sees(p)
        <5>1. ListIsAwaited(p, w)'
          BY <2>1, <3>1, <3>2, <4>1 DEF ListIsAwaited
        <5> QED
          BY <5>1 DEF ListHolds, ListComes
      <4>2. CASE ~Sees(p)
        <5>1. MirrorOf[domain].waits /\ w \notin roster[p]
          BY <1>0, <3>2, <4>2 DEF Sees, None
        <5>2. ListIsAwaited(p, w)'
          BY <1>0, <5>1 DEF ListIsAwaited
        <5> QED
          BY <5>2 DEF ListHolds, ListComes
      <4> QED
        BY <4>1, <4>2
    <3>3. CASE activeName[p] # {w}
      BY <1>0, <3>3 DEF ListHolds
    <3>4. CASE "list" \notin effects[p]
      <4>1. shown'[p] = shown[p]
        BY <1>2, <1>4, <3>4 DEF Cleared
      <4>2. ListIsAwaited(p, w) => ListIsAwaited(p, w)'
        BY <1>0, <2>1, <3>1, <3>4 DEF ListIsAwaited
      <4>3. ListIsCurrent(p, w) => ListIsCurrent(p, w)'
        BY <1>0, <3>1, <4>1 DEF ListIsCurrent
      <4>4. ListHolds(p, w)
        BY <1>0 DEF PhoneHolds
      <4> QED
        BY <1>0, <2>3, <3>1, <4>2, <4>3, <4>4 DEF ListHolds, ListComes
    <3> QED
      BY <3>2, <3>3, <3>4
  <2>7. ASSUME NEW w \in SpaceNames PROVE BodyHolds(p, w)'
    <3>1. StaleBodies(w)' = StaleBodies(w) /\ ListsOf(w)' = ListsOf(w) /\ On("body", w)' = On("body", w)
      BY <1>0 DEF StaleBodies, ListsOf, On
    <3>2. BodyHolds(p, w)
      BY <1>0 DEF PhoneHolds
    <3>3. domain = "skills" /\ "list" \in effects[p] => body'[p] = {}
      BY <1>0, <1>2, <1>4, SolidHas, DeskFacts DEF Cleared, None
    <3>4. "list" \notin effects[p] => body'[p] = body[p]
      BY <1>2, <1>4 DEF Cleared
    <3> QED
      BY <1>0, <2>3, <3>1, <3>2, <3>3, <3>4 DEF BodyHolds
  <2> QED
    BY <2>4, <2>5, <2>6, <2>7 DEF PhoneHolds
<1> QED
  BY <1>3, <1>4

\* A phone goes to another workspace, by hand or as it did last time.
LEMMA ActiveMoves ==
  ASSUME MirrorInv, NEW q \in Apps, NEW v \in SpaceNames, SetActive(q, v),
         UNCHANGED <<domain, spaces, real, found, jobs, order, sent, line, online, roster, shown, body>>,
         behind[q] \subseteq behind'[q], \A r \in Apps \ {q} : behind'[r] = behind[r],
         v \in roster[q] \/ roster[q] = {} \/ SpacesTopic \in behind'[q], NEW p \in online'
  PROVE  PhoneHolds(p)'
<1>0. Solid /\ p \in online /\ PhoneHolds(p)
  BY DEF MirrorInv
<1>1. p \in Apps
  BY <1>0, SolidHas DEF MirrorShapes
<1>2. /\ activeName'[q] = {v} /\ (activeName[q] = {v} => effects'[q] = effects[q])
      /\ (activeName[q] # {v} => "list" \in effects'[q]) /\ effects[q] \subseteq effects'[q]
      /\ \A r \in Apps \ {q} : activeName'[r] = activeName[r] /\ effects'[r] = effects[r]
  BY <1>0, SolidHas DEF SetActive, MirrorShapes
<1>3. CASE p # q
  <2>1. SamePhone(p) /\ p \in Devices
    BY <1>0, <1>1, <1>2, <1>3, PhoneFacts DEF SamePhone
  <2> QED
    BY <1>0, <1>1, <1>3, <2>1, OthersKept
<1>4. \A w \in SpaceNames : The(w)' = The(w)
  BY TheStays
<1>5. /\ RosterIsTold => RosterIsTold'
      /\ \A w \in SpaceNames : /\ ListIsTold(w) => ListIsTold(w)'
                               /\ BodyIsTold(w) => BodyIsTold(w)'
  BY <1>4, NothingTold
<1>6. CASE p = q /\ activeName[q] = {v}
  <2>1. SamePhone(p)
    BY <1>2, <1>6 DEF SamePhone
  <2>2. /\ RosterComes(p) => RosterComes(p)'
        /\ \A w \in SpaceNames : ListIsAwaited(p, w) => ListIsAwaited(p, w)'
    BY <1>1, <1>4, <2>1, ComesStill
  <2> QED
    BY <1>0, <1>1, <1>4, <1>5, <1>6, <2>1, <2>2, PhoneKept
<1>7. CASE p = q /\ activeName[q] # {v}
  <2>1. "list" \in effects'[p] /\ activeName'[p] = {v}
    BY <1>2, <1>7
  <2>2. RosterHolds(p)'
    <3>1. Served' = Served /\ FullRosters' = FullRosters
      BY DEF Served, FullRosters
    <3>2. RosterIsFull(p) => RosterIsFull(p)'
      BY <3>1 DEF RosterIsFull
    <3>3. RosterComes(p) => RosterComes(p)'
      BY <1>2, <1>7 DEF RosterComes, SpacesOrders
    <3>4. SpacesTopic \in behind[p] => SpacesTopic' \in behind'[p]
      BY <1>7 DEF SpacesTopic
    <3> QED
      BY <1>0, <1>5, <3>2, <3>3, <3>4 DEF RosterHolds, PhoneHolds
  <2>3. ActiveHolds(p)'
    BY <1>7, <2>1 DEF ActiveHolds, SpacesTopic
  <2>4. \A w \in SpaceNames : ListHolds(p, w)'
    BY <2>1 DEF ListHolds, ListComes, ListIsAwaited
  <2>5. ASSUME NEW w \in SpaceNames PROVE BodyHolds(p, w)'
    <3>1. StaleBodies(w)' = StaleBodies(w) /\ ListsOf(w)' = ListsOf(w) /\ On("body", w)' = On("body", w)
      BY DEF StaleBodies, ListsOf, On
    <3>2. BodyHolds(p, w)
      BY <1>0 DEF PhoneHolds
    <3> QED
      BY <1>5, <1>7, <2>1, <3>1, <3>2 DEF BodyHolds
  <2> QED
    BY <2>2, <2>3, <2>4, <2>5 DEF PhoneHolds
<1> QED
  BY <1>3, <1>6, <1>7

LEMMA SwitchToHolds ==
  ASSUME MirrorInv, NEW q \in Apps, NEW v \in SpaceNames, SwitchTo(q, v), NEW p \in online'
  PROVE  PhoneHolds(p)'
<1>1. UNCHANGED <<domain, spaces, real, found, jobs, order, sent, line, online, roster, shown, body, behind>>
      /\ SetActive(q, v) /\ v \in roster[q]
  BY DEF SwitchTo, daemonState
<1> QED
  BY <1>1, ActiveMoves

LEMMA LoadActiveHolds ==
  ASSUME MirrorInv, NEW q \in Apps, LoadActive(q), NEW p \in online'
  PROVE  PhoneHolds(p)'
<1>1. UNCHANGED <<domain, spaces, real, found, jobs, order, sent, line, online, roster, shown, body>>
  BY DEF LoadActive, daemonState
<1>2. PICK v \in stored[q] : /\ SetActive(q, v)
                             /\ behind' = IF roster[q] # {} /\ v \notin roster[q]
                                          THEN [behind EXCEPT ![q] = @ \cup {SpacesTopic}] ELSE behind
  BY DEF LoadActive
<1>3. v \in SpaceNames /\ behind \in [Apps -> SUBSET Topics]
  BY PhoneFacts, SolidHas DEF MirrorInv, MirrorShapes
<1>4. /\ behind[q] \subseteq behind'[q] /\ (\A r \in Apps \ {q} : behind'[r] = behind[r])
      /\ v \in roster[q] \/ roster[q] = {} \/ SpacesTopic \in behind'[q]
  BY <1>2, <1>3
<1> QED
  BY <1>1, <1>2, <1>3, <1>4, ActiveMoves

-----------------------------------------------------------------------------
(*****************************************************************************)
(* The listeners of the app.                                                 *)
(*****************************************************************************)

\* What is left in the line of a phone that has listened.
LEMMA ListenedFacts ==
  ASSUME MirrorInv, NEW q \in Apps, Listen(q), q \in online, NEW m \in Messages, m = Head(line[q])
  PROVE  /\ \A S : Has(line[q], S) => m \in S \/ Has(line'[q], S)
         /\ \A S, Good : \A held, now \in BOOLEAN :
                LastIsGood(line[q], S, Good, held) /\ (m \notin S => now = held) /\ (m \in Good => now)
                => LastIsGood(line'[q], S, Good, now)
         /\ \A Old, Clearing : IsCleared(line[q], Old, Clearing) =>
                IsCleared(line'[q], Old, Clearing) /\ (m \in Old => Has(line'[q], Clearing))
         /\ \A w \in SpaceNames : The(w)' = The(w) /\ ListOf(w)' = ListOf(w)
         /\ \A w \in SpaceNames : /\ ListIsTold(w) => ListIsTold(w)'
                                  /\ BodyIsTold(w) => BodyIsTold(w)'
                                  /\ StaleBodies(w)' = StaleBodies(w) /\ ListsOf(w)' = ListsOf(w)
         /\ RosterIsTold => RosterIsTold'
         /\ Served' = Served /\ FullRosters' = FullRosters
         /\ UNCHANGED <<domain, order, behind>> /\ Sound(m) /\ m.ws \in SpaceNames /\ PhoneHolds(q)
<1>0. Solid /\ PhoneHolds(q)
  BY DEF MirrorInv
<1>1. /\ line[q] \in Seq(Messages) /\ line[q] # <<>> /\ Sound(m) /\ line'[q] = Tail(line[q])
      /\ UNCHANGED <<domain, spaces, real, found, jobs, order, behind>>
  BY <1>0, ListenFacts
<1> PICK s \in Seq(Messages) : s = line[q] /\ s # <<>>
  BY <1>1
<1>2. \A S : Has(s, S) => m \in S \/ Has(Tail(s), S)
  BY HasRest
<1>3. ASSUME NEW S, NEW Good, NEW held \in BOOLEAN, NEW now \in BOOLEAN, LastIsGood(s, S, Good, held),
             m \notin S => now = held, m \in Good => now
      PROVE  LastIsGood(Tail(s), S, Good, now)
  BY <1>3, LastRest
<1>4. ASSUME NEW Old, NEW Clearing, IsCleared(s, Old, Clearing)
      PROVE  IsCleared(Tail(s), Old, Clearing) /\ (m \in Old => Has(Tail(s), Clearing))
  BY <1>4, ClearedRest
<1>5. \A w \in SpaceNames : The(w)' = The(w)
  BY <1>1, TheStays
<1>6. \A w \in SpaceNames : ListOf(w)' = ListOf(w)
  BY <1>5, SameList
<1>7. /\ RosterIsTold => RosterIsTold'
      /\ \A w \in SpaceNames : ListIsTold(w) => ListIsTold(w)'
      /\ \A w \in SpaceNames : BodyIsTold(w) => BodyIsTold(w)'
  BY <1>1, <1>5, NothingTold
<1>8. /\ \A w \in SpaceNames : StaleBodies(w)' = StaleBodies(w) /\ ListsOf(w)' = ListsOf(w)
      /\ Served' = Served /\ FullRosters' = FullRosters
  BY <1>1 DEF StaleBodies, ListsOf, Served, FullRosters
<1>9. m.ws \in SpaceNames
  BY DEF Messages
<1>10. \A S : Has(line[q], S) => m \in S \/ Has(line'[q], S)
  BY <1>1, <1>2
<1>11. \A S, Good : \A held, now \in BOOLEAN :
                LastIsGood(line[q], S, Good, held) /\ (m \notin S => now = held) /\ (m \in Good => now)
                => LastIsGood(line'[q], S, Good, now)
  BY <1>1, <1>3
<1>12. \A Old, Clearing : IsCleared(line[q], Old, Clearing) =>
                IsCleared(line'[q], Old, Clearing) /\ (m \in Old => Has(line'[q], Clearing))
  BY <1>1, <1>4
<1> QED
  BY <1>0, <1>1, <1>5, <1>6, <1>7, <1>8, <1>9, <1>10, <1>11, <1>12

\* The message is not about the workspaces, and leaves them alone.
LEMMA ListenedRosters ==
  ASSUME MirrorInv, NEW q \in Apps, Listen(q), q \in online, NEW m \in Messages, m = Head(line[q]),
         m.kind # "spaces", activeName'[q] = activeName[q], roster'[q] = roster[q], effects'[q] = effects[q],
         \A S : Has(sent[q], S) => Has(sent'[q], S)
  PROVE  RosterHolds(q)' /\ ActiveHolds(q)'
<1>1. m \notin Rosters
  BY DEF Rosters
<1>2. Has(line[q], Rosters) => Has(line'[q], Rosters)
  BY <1>1, ListenedFacts
<1>3. /\ RosterIsTold => RosterIsTold'
      /\ Served' = Served /\ FullRosters' = FullRosters /\ order' = order /\ behind' = behind /\ PhoneHolds(q)
  BY ListenedFacts
<1>4. RosterComes(q) => RosterComes(q)'
  BY <1>3 DEF RosterComes, SpacesOrders
<1>5. RosterIsFull(q) => RosterIsFull(q)'
  <2> PICK held \in BOOLEAN : held = (roster[q] = Served)
    OBVIOUS
  <2>1. m \notin FullRosters
    BY <1>1 DEF FullRosters
  <2>2. LastIsGood(line[q], Rosters, FullRosters, held) => LastIsGood(line'[q], Rosters, FullRosters, held)
    BY <2>1, ListenedFacts
  <2>3. held = (roster'[q] = Served')
    BY <1>3
  <2> QED
    BY <1>3, <2>2, <2>3 DEF RosterIsFull, Rosters
<1>6. RosterHolds(q)'
  BY <1>3, <1>4, <1>5 DEF RosterHolds, PhoneHolds, SpacesTopic
<1>7. ActiveHolds(q)'
  BY <1>2, <1>3, <1>4 DEF ActiveHolds, PhoneHolds, SpacesTopic, Rosters
<1> QED
  BY <1>6, <1>7

\* The message says nothing of the list of a workspace.
LEMMA ListenedList ==
  ASSUME MirrorInv, NEW q \in Apps, Listen(q), q \in online, NEW m \in Messages, m = Head(line[q]),
         NEW w \in SpaceNames, m \notin ListsOf(w),
         activeName'[q] = activeName[q], effects'[q] = effects[q], shown'[q] = shown[q],
         MirrorOf[domain].waits => roster'[q] = roster[q], \A S : Has(sent[q], S) => Has(sent'[q], S),
         activeName[q] = {w} /\ m \in ChangesOf(w) => Has(sent'[q], {Cmd("list", w)})
  PROVE  ListHolds(q, w)'
<1>1. /\ The(w)' = The(w) /\ ListOf(w)' = ListOf(w) /\ ListsOf(w)' = ListsOf(w) /\ order' = order /\ behind' = behind
      /\ domain' = domain
      /\ PhoneHolds(q) /\ (ListIsTold(w) => ListIsTold(w)')
      /\ (Has(line[q], ChangesOf(w)) => m \in ChangesOf(w) \/ Has(line'[q], ChangesOf(w)))
  BY ListenedFacts
<1>2. Cmd("list", w)' = Cmd("list", w) /\ On("list", w)' = On("list", w) /\ ChangesOf(w)' = ChangesOf(w)
  BY DEF Cmd, On, ChangesOf
<1>3. ListIsAwaited(q, w) => ListIsAwaited(q, w)'
  BY <1>1, <1>2 DEF ListIsAwaited
<1>4. activeName[q] = {w} /\ ListComes(q, w) => ListComes(q, w)'
  <2>1. activeName[q] = {w} /\ m \in ChangesOf(w) => ListIsAwaited(q, w)'
    BY <1>2 DEF ListIsAwaited
  <2> QED
    BY <1>1, <1>2, <1>3, <2>1 DEF ListComes
<1>5. ListIsCurrent(q, w) => ListIsCurrent(q, w)'
  <2> PICK held \in BOOLEAN : held = (shown[q] = {ListOf(w)})
    OBVIOUS
  <2>1. m \notin {ListOf(w)}
    BY SolidHas, ListFacts DEF MirrorInv
  <2>2. LastIsGood(line[q], ListsOf(w), {ListOf(w)}, held) => LastIsGood(line'[q], ListsOf(w), {ListOf(w)}, held)
    BY <2>1, ListenedFacts
  <2>3. held = (shown'[q] = {ListOf(w)'})
    BY <1>1
  <2> QED
    BY <1>1, <2>2, <2>3 DEF ListIsCurrent
<1> QED
  BY <1>1, <1>2, <1>4, <1>5 DEF ListHolds, PhoneHolds

\* The body that was read, after a message that is no newer one.
LEMMA ListenedBody ==
  ASSUME MirrorInv, NEW q \in Apps, Listen(q), q \in online, NEW m \in Messages, m = Head(line[q]),
         NEW w \in SpaceNames,
         "list" \in effects'[q] \/ (effects'[q] = effects[q] /\ activeName'[q] = activeName[q]),
         body'[q] \subseteq body[q] \/ (activeName[q] = {w} => body'[q] = {m}),
         activeName[q] = {w} /\ m \in ListsOf(w) => body'[q] = {}
  PROVE  BodyHolds(q, w)'
<1>1. /\ StaleBodies(w)' = StaleBodies(w) /\ ListsOf(w)' = ListsOf(w) /\ behind' = behind /\ domain' = domain
      /\ PhoneHolds(q) /\ (BodyIsTold(w) => BodyIsTold(w)')
      /\ (Has(line[q], ListsOf(w)) => m \in ListsOf(w) \/ Has(line'[q], ListsOf(w)))
      /\ (IsCleared(line[q], StaleBodies(w), ListsOf(w)) =>
            IsCleared(line'[q], StaleBodies(w), ListsOf(w)) /\ (m \in StaleBodies(w) => Has(line'[q], ListsOf(w))))
  BY ListenedFacts
<1>2. On("body", w)' = On("body", w)
  BY DEF On
<1>3. BodyHolds(q, w)
  BY <1>1 DEF PhoneHolds
<1>4. CASE domain # "skills" \/ On("body", w) \in behind[q] \/ BodyIsTold(w)
  BY <1>1, <1>2, <1>4 DEF BodyHolds
<1>5. CASE IsCleared(line[q], StaleBodies(w), ListsOf(w))
           /\ (\/ activeName[q] # {w} \/ "list" \in effects[q] \/ Has(line[q], ListsOf(w))
               \/ body[q] \cap StaleBodies(w) = {})
  <2>1. IsCleared(line'[q], StaleBodies(w), ListsOf(w)) /\ (m \in StaleBodies(w) => Has(line'[q], ListsOf(w)))
    BY <1>1, <1>5
  <2>2. \/ activeName'[q] # {w} \/ "list" \in effects'[q] \/ Has(line'[q], ListsOf(w))
        \/ body'[q] \cap StaleBodies(w) = {}
    <3>1. CASE "list" \in effects'[q] \/ activeName'[q] # {w}
      BY <3>1
    <3>2. CASE "list" \notin effects'[q] /\ activeName[q] = {w} /\ effects'[q] = effects[q]
      <4>1. CASE m \in ListsOf(w)
        BY <3>2, <4>1
      <4>2. CASE m \notin ListsOf(w) /\ body'[q] = {m}
        BY <2>1, <4>2
      <4>3. CASE m \notin ListsOf(w) /\ body'[q] \subseteq body[q]
        BY <1>1, <1>5, <3>2, <4>3
      <4> QED
        BY <3>2, <4>1, <4>2, <4>3
    <3> QED
      BY <3>1, <3>2
  <2> QED
    BY <1>1, <2>1, <2>2 DEF BodyHolds
<1> QED
  BY <1>3, <1>4, <1>5 DEF BodyHolds

LEMMA ListenedToRoster ==
  ASSUME MirrorInv, NEW q \in Apps, Listen(q), q \in online, NEW m \in Messages, m = Head(line[q]),
         m.kind = "spaces", ReduceSpaces(q, m)
  PROVE  PhoneHolds(q)'
<1>0. Solid /\ PhoneHolds(q) /\ Sound(m) /\ Home \in m.places
  BY ListenedFacts DEF MirrorInv, Sound
<1> PICK now : now = IF activeName[q] \cap m.places # {} THEN activeName[q] ELSE {Home}
  OBVIOUS
<1>1. /\ roster'[q] = m.places /\ activeName'[q] = now /\ effects[q] \subseteq effects'[q]
      /\ effects'[q] = (IF now # activeName[q] \/ MirrorOf[domain].waits THEN effects[q] \cup {"list"} ELSE effects[q])
      /\ UNCHANGED <<shown, body, sent>>
  BY <1>0, SolidHas DEF ReduceSpaces, MirrorShapes
<1>2. "list" \in effects'[q] \/ (~MirrorOf[domain].waits /\ now = activeName[q] /\ effects'[q] = effects[q])
  BY <1>1
<1>3. /\ RosterIsTold => RosterIsTold'
      /\ Served' = Served /\ FullRosters' = FullRosters /\ order' = order /\ behind' = behind
  BY ListenedFacts
<1>4. RosterHolds(q)'
  <2>1. RosterComes(q) => RosterComes(q)'
    BY <1>1, <1>3 DEF RosterComes, SpacesOrders
  <2>2. RosterIsFull(q) => RosterIsFull(q)'
    <3> PICK held \in BOOLEAN : held = (roster[q] = Served)
      OBVIOUS
    <3> PICK full \in BOOLEAN : full = (m.places = Served)
      OBVIOUS
    <3>1. m \in Rosters /\ (m \in FullRosters => full)
      BY DEF Rosters, FullRosters
    <3>2. LastIsGood(line[q], Rosters, FullRosters, held) => LastIsGood(line'[q], Rosters, FullRosters, full)
      BY <3>1, ListenedFacts
    <3>3. full = (roster'[q] = Served')
      BY <1>1, <1>3
    <3> QED
      BY <1>3, <3>2, <3>3 DEF RosterIsFull, Rosters
  <2> QED
    BY <1>0, <1>3, <2>1, <2>2 DEF RosterHolds, PhoneHolds, SpacesTopic
<1>5. ActiveHolds(q)'
  <2>1. now \cap m.places # {}
    BY <1>0
  <2> QED
    BY <1>1, <2>1 DEF ActiveHolds
<1>6. ASSUME NEW w \in SpaceNames PROVE ListHolds(q, w)'
  <2>1. CASE "list" \in effects'[q]
    BY <2>1 DEF ListHolds, ListComes, ListIsAwaited
  <2>2. CASE ~MirrorOf[domain].waits /\ now = activeName[q] /\ effects'[q] = effects[q]
    <3>1. m \notin ListsOf(w) /\ m \notin ChangesOf(w)
      BY DEF ListsOf, ChangesOf
    <3> QED
      BY <1>1, <2>2, <3>1, ListenedList
  <2> QED
    BY <1>2, <2>1, <2>2
<1>7. ASSUME NEW w \in SpaceNames PROVE BodyHolds(q, w)'
  <2>1. m \notin ListsOf(w)
    BY DEF ListsOf
  <2> QED
    BY <1>1, <1>2, <2>1, ListenedBody
<1> QED
  BY <1>4, <1>5, <1>6, <1>7 DEF PhoneHolds

LEMMA ListenedToList ==
  ASSUME MirrorInv, NEW q \in Apps, Listen(q), q \in online, NEW m \in Messages, m = Head(line[q]),
         m.kind = "list", ReplaceList(q, m)
  PROVE  PhoneHolds(q)'
<1>0. Solid
  BY DEF MirrorInv
<1>1. UNCHANGED <<sent, roster, activeName, effects>>
  BY DEF ReplaceList
<1>2. /\ {m.ws} = activeName[q] => shown'[q] = {m} /\ body'[q] = {}
      /\ {m.ws} # activeName[q] => shown'[q] = shown[q] /\ body'[q] = body[q]
  BY <1>0, SolidHas DEF ReplaceList, MirrorShapes, None
<1>3. RosterHolds(q)' /\ ActiveHolds(q)'
  BY <1>1, ListenedRosters
<1>4. ASSUME NEW w \in SpaceNames PROVE ListHolds(q, w)'
  <2>1. m \notin ChangesOf(w)
    BY DEF ChangesOf
  <2>2. CASE activeName[q] # {w}
    BY <1>1, <2>2 DEF ListHolds
  <2>3. CASE activeName[q] = {w} /\ m \notin ListsOf(w)
    <3>1. shown'[q] = shown[q]
      BY <1>2, <2>3 DEF ListsOf
    <3> QED
      BY <1>1, <2>1, <2>3, <3>1, ListenedList
  <2>4. CASE activeName[q] = {w} /\ m \in ListsOf(w)
    <3>1. shown'[q] = {m}
      BY <1>2, <2>4 DEF ListsOf
    <3>2. /\ The(w)' = The(w) /\ ListOf(w)' = ListOf(w) /\ ListsOf(w)' = ListsOf(w) /\ order' = order /\ behind' = behind
          /\ domain' = domain
          /\ PhoneHolds(q) /\ (ListIsTold(w) => ListIsTold(w)')
          /\ (Has(line[q], ChangesOf(w)) => Has(line'[q], ChangesOf(w)))
      BY <2>1, ListenedFacts
    <3>3. ListComes(q, w) => ListComes(q, w)'
      BY <1>1, <3>2 DEF ListComes, ListIsAwaited, Cmd, ChangesOf
    <3>4. ListIsCurrent(q, w) => ListIsCurrent(q, w)'
      <4> PICK held \in BOOLEAN : held = (shown[q] = {ListOf(w)})
        OBVIOUS
      <4> PICK now \in BOOLEAN : now = (shown'[q] = {ListOf(w)})
        OBVIOUS
      <4>1. m \in {ListOf(w)} => now
        BY <3>1
      <4>2. LastIsGood(line[q], ListsOf(w), {ListOf(w)}, held) => LastIsGood(line'[q], ListsOf(w), {ListOf(w)}, now)
        BY <2>4, <4>1, ListenedFacts
      <4>3. now = (shown'[q] = {ListOf(w)'})
        BY <3>2
      <4> QED
        BY <3>2, <4>2, <4>3 DEF ListIsCurrent
    <3>5. On("list", w)' = On("list", w)
      BY DEF On
    <3> QED
      BY <1>1, <3>2, <3>3, <3>4, <3>5 DEF ListHolds, PhoneHolds
  <2> QED
    BY <2>2, <2>3, <2>4
<1>5. ASSUME NEW w \in SpaceNames PROVE BodyHolds(q, w)'
  <2>1. body'[q] \subseteq body[q]
    BY <1>2
  <2>2. activeName[q] = {w} /\ m \in ListsOf(w) => body'[q] = {}
    BY <1>2 DEF ListsOf
  <2> QED
    BY <1>1, <2>1, <2>2, ListenedBody
<1> QED
  BY <1>3, <1>4, <1>5 DEF PhoneHolds

LEMMA ListenedToChange ==
  ASSUME MirrorInv, NEW q \in Apps, Listen(q), q \in online, NEW m \in Messages, m = Head(line[q]),
         m.kind = "changed", ListAgain(q, m)
  PROVE  PhoneHolds(q)'
<1>0. Solid /\ m.ws \in SpaceNames /\ domain' = domain /\ q \in Devices
  BY ListenedFacts, PhoneFacts DEF MirrorInv
<1>1. UNCHANGED <<shown, body, roster, activeName, effects>>
  BY DEF ListAgain
<1> PICK cmds : cmds = IF {m.ws} = activeName[q] THEN <<Cmd("list", m.ws)>> ELSE <<>>
  OBVIOUS
<1>2. Cmd("list", m.ws) \in Commands /\ Cmd("list", m.ws) \notin Reads
  BY <1>0, CmdFacts DEF Orders
<1>3. /\ cmds \in Seq(Commands) /\ ~Has(cmds, Reads)
      /\ {m.ws} = activeName[q] => Has(cmds, {Cmd("list", m.ws)})
  BY <1>2, HasOne, HasEmpty
<1>4. Send(q, cmds)
  BY DEF ListAgain
<1>5. /\ \A e \in Devices : \A S : Has(sent[e], S) => Has(sent'[e], S)
      /\ \A S : q \in online \cup Askers /\ Has(cmds, S) => Has(sent'[q], S)
  BY <1>0, <1>3, <1>4, SendFacts
<1>6. RosterHolds(q)' /\ ActiveHolds(q)'
  BY <1>0, <1>1, <1>5, ListenedRosters
<1>7. ASSUME NEW w \in SpaceNames PROVE ListHolds(q, w)' /\ BodyHolds(q, w)'
  <2>1. m \notin ListsOf(w)
    BY DEF ListsOf
  <2>2. activeName[q] = {w} /\ m \in ChangesOf(w) => Has(sent'[q], {Cmd("list", w)})
    BY <1>3, <1>5 DEF ChangesOf
  <2>3. ListHolds(q, w)'
    BY <1>0, <1>1, <1>5, <2>1, <2>2, ListenedList
  <2>4. BodyHolds(q, w)'
    BY <1>1, <2>1, ListenedBody
  <2> QED
    BY <2>3, <2>4
<1> QED
  BY <1>6, <1>7 DEF PhoneHolds

LEMMA ListenedToBody ==
  ASSUME MirrorInv, NEW q \in Apps, Listen(q), q \in online, NEW m \in Messages, m = Head(line[q]),
         m.kind = "body", KeepBody(q, m)
  PROVE  PhoneHolds(q)'
<1>1. UNCHANGED <<shown, sent, roster, activeName, effects>>
  BY DEF KeepBody
<1>2. body'[q] = IF {m.ws} = activeName[q] THEN {m} ELSE body[q]
  BY SolidHas DEF KeepBody, MirrorShapes, MirrorInv
<1>3. RosterHolds(q)' /\ ActiveHolds(q)'
  BY <1>1, ListenedRosters
<1>4. ASSUME NEW w \in SpaceNames PROVE ListHolds(q, w)' /\ BodyHolds(q, w)'
  <2>1. m \notin ListsOf(w) /\ m \notin ChangesOf(w)
    BY DEF ListsOf, ChangesOf
  <2>2. ListHolds(q, w)'
    BY <1>1, <2>1, ListenedList
  <2>3. body'[q] \subseteq body[q] \/ (activeName[q] = {w} => body'[q] = {m})
    BY <1>2
  <2>4. BodyHolds(q, w)'
    BY <1>1, <2>1, <2>3, ListenedBody
  <2> QED
    BY <2>2, <2>4
<1> QED
  BY <1>3, <1>4 DEF PhoneHolds

LEMMA ListenHolds ==
  ASSUME MirrorInv, NEW q \in Apps, Listen(q), NEW p \in online'
  PROVE  PhoneHolds(p)'
<1>0. Solid
  BY DEF MirrorInv
<1>1. /\ line[q] # <<>> /\ (\A r \in Apps \ {q} : line'[r] = line[r])
      /\ Head(line[q]) \in Messages
      /\ UNCHANGED <<domain, spaces, real, found, jobs, order, online, stored, behind>>
  BY <1>0, ListenFacts
<1>2. p \in online /\ p \in Apps /\ q \in online
  BY <1>0, <1>1, SolidHas DEF MirrorShapes, NoLineIsLeft
<1> PICK m \in Messages : m = Head(line[q])
  BY <1>1
<1>3. \/ m.kind = "spaces" /\ ReduceSpaces(q, m)
      \/ m.kind = "list" /\ ReplaceList(q, m)
      \/ m.kind = "changed" /\ ListAgain(q, m)
      \/ m.kind = "body" /\ KeepBody(q, m)
  BY DEF Listen
<1>4. CASE p = q
  BY <1>2, <1>3, <1>4, ListenedToRoster, ListenedToList, ListenedToChange, ListenedToBody
<1>5. CASE p # q
  <2>1. sent'[p] = sent[p]
    BY <1>0, <1>2, <1>3, <1>5, SolidHas, PhoneFacts
       DEF ReduceSpaces, ReplaceList, ListAgain, KeepBody, Send, MirrorShapes
  <2>2. activeName'[p] = activeName[p] /\ roster'[p] = roster[p] /\ effects'[p] = effects[p]
    BY <1>0, <1>2, <1>3, <1>5, SolidHas DEF ReduceSpaces, ReplaceList, ListAgain, KeepBody, MirrorShapes
  <2>3. shown'[p] = shown[p] /\ body'[p] = body[p]
    BY <1>0, <1>2, <1>3, <1>5, SolidHas DEF ReduceSpaces, ReplaceList, ListAgain, KeepBody, MirrorShapes
  <2>4. SamePhone(p)
    BY <1>1, <2>2, <2>3 DEF SamePhone
  <2> QED
    BY <1>1, <1>2, <1>5, <2>1, <2>4, OthersKept
<1> QED
  BY <1>4, <1>5

-----------------------------------------------------------------------------
(*****************************************************************************)
(* The first state, every step, and what the invariant says at rest.         *)
(*****************************************************************************)

LEMMA NothingIsHeld ==
  /\ None \in NoneOrOne(Messages) /\ None \in NoneOrOne(SpaceNames)
  /\ <<>> \in Seq(Messages) /\ <<>> \in Seq(Commands) /\ <<>> \in Seq(Jobs) /\ Len(<<>>) = 0
BY DEF None, NoneOrOne

LEMMA MirrorsStart ==
  ASSUME MirrorInit
  PROVE  MirrorInv
<1>1. domain \in DOMAIN DeskOf
  BY MirrorAssumption DEF MirrorInit, DeskOf
<1>2. ContentSolid
  BY <1>1 DEF MirrorInit, ContentSolid
<1>3. Calm \in InHand /\ Calm.news = {}
  BY NothingIsHeld, MirrorAssumption DEF Calm, InHand, None
<1>4. OrdersSolid
  <2>1. order \in [Devices -> InHand] /\ \A d \in Devices : order[d] = Calm
    BY <1>3 DEF MirrorInit
  <2>2. OrdersSound /\ OrdersHold
    BY <1>3, <2>1, CalmIs DEF OrdersSound, OrdersHold
  <2> QED
    BY <2>1, <2>2 DEF OrdersSolid
<1>5. JobsSolid
  BY NothingIsHeld DEF MirrorInit, JobsSolid, JobsSound, JobsHold
<1>6. LinesSolid
  <2>1. line \in [Apps -> Seq(Messages)] /\ \A p \in Apps : line[p] = <<>> /\ Len(line[p]) = 0
    BY NothingIsHeld DEF MirrorInit
  <2>2. 0 <= InboxRoom
    BY MirrorAssumption
  <2> QED
    BY <2>1, <2>2 DEF LinesSolid, LinesSound, NoLineIsLeft
<1>7. SentSolid
  <2>1. sent \in [Devices -> Seq(Commands)] /\ \A d \in Devices : sent[d] = <<>>
    BY NothingIsHeld DEF MirrorInit
  <2> QED
    BY <2>1, HasEmpty DEF SentSolid, OnlySkillsAreRead
<1>8. PhonesSolid
  <2>1. stored \in [Apps -> NoneOrOne(SpaceNames)]
    BY DEF MirrorInit, NoneOrOne, None
  <2>2. /\ activeName \in [Apps -> NoneOrOne(SpaceNames)] /\ roster \in [Apps -> SUBSET SpaceNames]
        /\ shown \in [Apps -> NoneOrOne(Messages)] /\ body \in [Apps -> NoneOrOne(Messages)]
        /\ effects \in [Apps -> SUBSET {"spaces", "list"}] /\ online \subseteq Apps
        /\ \A p \in Apps : shown[p] = {} /\ body[p] = {}
    BY NothingIsHeld DEF MirrorInit, None
  <2>3. ShownSound /\ BodiesSound /\ NothingForeignIsShown
    BY <2>2 DEF ShownSound, BodiesSound, NothingForeignIsShown
  <2> QED
    BY <2>1, <2>2, <2>3 DEF PhonesSolid
<1>9. BehindSolid
  BY DEF MirrorInit, BehindSolid
<1>10. Solid
  BY <1>2, <1>4, <1>5, <1>6, <1>7, <1>8, <1>9 DEF Solid, MirrorShapes, SoundNews, InHandHolds, ContentSolid,
     OrdersSolid, JobsSolid, LinesSolid, SentSolid, PhonesSolid, BehindSolid
<1> QED
  BY <1>10 DEF MirrorInv, MirrorInit

LEMMA LastOfNothing ==
  ASSUME NEW S, NEW Good, NEW held, LastIsGood(<<>>, S, Good, held)
  PROVE  held
<1>1. Len(<<>>) = 0
  OBVIOUS
<1> QED
  BY <1>1 DEF LastIsGood

LEMMA MirrorsAreTyped ==
  ASSUME Solid
  PROVE  MirrorTypeOK
<1>1. spaces \in [SpaceNames -> {"open", "absent", "retired"}] /\ spaces[Home] = "open" /\ online \subseteq Apps
  BY SolidHas DEF MirrorShapes
<1>2. \A w \in SpaceNames : {real[w], found[w]} \subseteq Nat /\ found[w] <= real[w]
  BY SolidHas DEF MirrorShapes
<1>3. \A d \in Devices : order[d].at \in {"calm", "look", "reply", "tell", "spawn"}
  BY SolidHas DEF MirrorShapes, InHand
<1>4. ASSUME NEW d \in Devices, NEW i \in DOMAIN sent[d] PROVE sent[d][i].cmd \in Orders
  <2>1. sent[d] \in Seq(Commands)
    BY SolidHas, InHandFacts
  <2>2. sent[d][i] \in Commands
    BY <2>1
  <2> QED
    BY <2>2 DEF Commands
<1>5. ASSUME NEW i \in DOMAIN jobs PROVE jobs[i].ws \in SpaceNames /\ jobs[i].at \in {"wait", "look", "tell"}
  <2>1. jobs[i] \in Jobs
    BY SolidHas DEF MirrorShapes
  <2> QED
    BY <2>1 DEF Jobs
<1>6. ASSUME NEW p \in Apps
      PROVE  /\ Len(line[p]) <= InboxRoom /\ Cardinality(shown[p]) <= 1
             /\ activeName[p] \cup roster[p] \subseteq SpaceNames /\ effects[p] \subseteq {"spaces", "list"}
  <2>1. shown[p] = {} \/ \E m \in Messages : shown[p] = {m}
    BY PhoneFacts DEF NoneOrOne
  <2>2. Cardinality(shown[p]) \in {0, 1}
    BY <2>1, FS_EmptySet, FS_Singleton
  <2> QED
    BY <2>2, PhoneFacts
<1> QED
  BY <1>1, <1>2, <1>3, <1>4, <1>5, <1>6 DEF MirrorTypeOK

LEMMA RestingPhones ==
  ASSUME MirrorInv, NEW p \in Apps, DaemonRests, PhoneRests(p), SpacesTopic \notin behind[p]
  PROVE  /\ roster[p] = Served
         /\ \E w \in Served :
                /\ activeName[p] = {w}
                /\ On("list", w) \notin behind[p] => shown[p] = {ListOf(w)}
                /\ On("body", w) \notin behind[p] => \A m \in body[p] : m.version = real[w]
<1>1. /\ Solid /\ PhoneHolds(p) /\ line[p] = <<>> /\ sent[p] = <<>> /\ effects[p] = {}
      /\ jobs = <<>> /\ p \in Devices /\ \A d \in Devices : order[d].at = "calm"
  BY PhoneFacts DEF MirrorInv, PhoneRests, DaemonRests
<1>2. ~RosterComes(p) /\ ~RosterIsTold
  BY <1>1, HasEmpty DEF RosterComes, RosterIsTold
<1>3. roster[p] = Served
  <2>1. RosterIsFull(p)
    BY <1>1, <1>2 DEF PhoneHolds, RosterHolds
  <2> QED
    BY <1>1, <2>1, LastOfNothing DEF RosterIsFull
<1>4. Home \in Served /\ Served \subseteq SpaceNames
  BY <1>1, SolidHas, RosterFacts
<1>5. activeName[p] \cap roster[p] # {}
  BY <1>1, <1>2, <1>3, <1>4, HasEmpty DEF PhoneHolds, ActiveHolds
<1> PICK w \in SpaceNames : activeName[p] = {w}
  BY <1>1, <1>5, OnlyOneActive
<1>6. w \in Served
  BY <1>3, <1>5
<1>7. ASSUME On("list", w) \notin behind[p] PROVE shown[p] = {ListOf(w)}
  <2>1. ~ListComes(p, w)
    BY <1>1, <1>3, <1>6, HasEmpty DEF ListComes, ListIsAwaited
  <2>2. ~ListIsTold(w)
    <3>1. Len(jobs) = 0
      BY <1>1
    <3>2. \A d \in Devices : ~OrderTells(order[d], w)
      BY <1>1 DEF OrderTells
    <3> QED
      BY <3>1, <3>2 DEF ListIsTold
  <2>3. ListIsCurrent(p, w)
    BY <1>1, <1>7, <2>1, <2>2 DEF PhoneHolds, ListHolds
  <2> QED
    BY <1>1, <2>3, LastOfNothing DEF ListIsCurrent
<1>8. ASSUME On("body", w) \notin behind[p], NEW m \in body[p] PROVE m.version = real[w]
  <2>1. m \in Messages /\ m.kind = "body" /\ domain = "skills"
    BY <1>1, SolidHas, HeldMessages DEF SoundNews, BodiesSound, Sound
  <2>2. m.ws = w
    <3>1. {m.ws} = activeName[p]
      BY <1>1, <2>1, SolidHas, DeskFacts DEF NothingForeignIsShown
    <3> QED
      BY <3>1
  <2>3. ~BodyIsTold(w)
    BY <1>1 DEF BodyIsTold
  <2>4. body[p] \cap StaleBodies(w) = {}
    <3>1. BodyHolds(p, w)
      BY <1>1 DEF PhoneHolds
    <3> QED
      BY <1>1, <1>8, <2>1, <2>3, <3>1, HasEmpty DEF BodyHolds
  <2> QED
    BY <2>1, <2>2, <2>4 DEF StaleBodies
<1> QED
  BY <1>3, <1>6, <1>7, <1>8

LEMMA MirrorsAreKept ==
  ASSUME MirrorInv
  PROVE  MirrorsHold
<1>1. Solid
  BY DEF MirrorInv
<1>2. MirrorTypeOK /\ NothingForeignIsShown
  BY <1>1, MirrorsAreTyped, SolidHas
<1>3. MirrorsConverge
  BY RestingPhones DEF MirrorsConverge
<1> QED
  BY <1>2, <1>3 DEF MirrorsHold

LEMMA ServingKeepsMirrors ==
  ASSUME MirrorInv, Serve
  PROVE  MirrorInv'
<1>0. Solid
  BY DEF MirrorInv
<1>1. PICK d \in Devices : TakeOrder(d) \/ Look(d) \/ Tell(d) \/ SpawnReload(d) \/ Ask(d)
  BY DEF Serve
<1>2. CASE TakeOrder(d)
  BY <1>0, <1>2, TakeOrderSolid, TakeOrderHolds DEF MirrorInv
<1>3. CASE Look(d)
  BY <1>0, <1>3, LookSolid, LookHolds DEF MirrorInv
<1>4. CASE Tell(d)
  BY <1>0, <1>4, TellSolid, TellHolds DEF MirrorInv
<1>5. CASE SpawnReload(d)
  BY <1>0, <1>5, SpawnReloadSolid, SpawnReloadHolds DEF MirrorInv
<1>6. CASE Ask(d)
  BY <1>0, <1>6, AskSolid, AskHolds DEF MirrorInv
<1> QED
  BY <1>1, <1>2, <1>3, <1>4, <1>5, <1>6

LEMMA RebuildingKeepsMirrors ==
  ASSUME MirrorInv, Rebuild
  PROVE  MirrorInv'
<1>0. Solid
  BY DEF MirrorInv
<1>1. PICK i \in DOMAIN jobs : PublishReload(i) \/ ReloadFails(i) \/ LookAgain(i) \/ TellFound(i)
  BY DEF Rebuild
<1>2. CASE PublishReload(i)
  BY <1>0, <1>2, PublishReloadSolid, PublishReloadHolds DEF MirrorInv
<1>3. CASE ReloadFails(i)
  BY <1>0, <1>3, ReloadFailsSolid, ReloadFailsHolds DEF MirrorInv
<1>4. CASE LookAgain(i)
  BY <1>0, <1>4, LookAgainSolid, LookAgainHolds DEF MirrorInv
<1>5. CASE TellFound(i)
  BY <1>0, <1>5, TellFoundSolid, TellFoundHolds DEF MirrorInv
<1> QED
  BY <1>1, <1>2, <1>3, <1>4, <1>5

LEMMA AppsKeepMirrors ==
  ASSUME MirrorInv, NEW q \in Apps, App(q)
  PROVE  MirrorInv'
<1>0. Solid
  BY DEF MirrorInv
<1>1. CASE SocketOpens(q)
  BY <1>0, <1>1, SocketOpensSolid, SocketOpensHolds DEF MirrorInv
<1>2. CASE SocketCloses(q)
  BY <1>0, <1>2, SocketClosesSolid, SocketClosesHolds DEF MirrorInv
<1>3. CASE Reply(q)
  BY <1>0, <1>3, ReplySolid, ReplyHolds DEF MirrorInv
<1>4. CASE Settle(q)
  BY <1>0, <1>4, SettleSolid, SettleHolds DEF MirrorInv
<1>5. CASE LoadActive(q)
  BY <1>0, <1>5, LoadActiveSolid, LoadActiveHolds DEF MirrorInv
<1>6. CASE Listen(q)
  BY <1>0, <1>6, ListenSolid, ListenHolds DEF MirrorInv
<1>7. ASSUME NEW w \in SpaceNames, SwitchTo(q, w) PROVE MirrorInv'
  BY <1>0, <1>7, SwitchToSolid, SwitchToHolds DEF MirrorInv
<1> QED
  BY <1>1, <1>2, <1>3, <1>4, <1>5, <1>6, <1>7 DEF App

LEMMA NothingMoves ==
  ASSUME MirrorInv, UNCHANGED mirrorVars
  PROVE  MirrorInv'
<1>1. /\ UNCHANGED phoneState /\ domain' = domain
      /\ UNCHANGED <<spaces, real, found, jobs, order, sent, line, behind>>
  BY DEF mirrorVars, phoneState
<1>2. Solid /\ online' = online
  BY <1>1 DEF MirrorInv, phoneState
<1>3. Solid'
  BY <1>1, <1>2, SolidHas, NothingGrows, PartsStay, SolidParts DEF SolidPartsHold
<1>4. ASSUME NEW p \in online' PROVE PhoneHolds(p)'
  <2>1. \A w \in SpaceNames : The(w)' = The(w)
    BY <1>1, TheStays
  <2>2. \A q \in Apps : /\ RosterComes(q) => RosterComes(q)'
                        /\ \A w \in SpaceNames : ListIsAwaited(q, w) => ListIsAwaited(q, w)'
    BY <1>1, <1>2, <2>1, AllStillComes
  <2> QED
    BY <1>1, <2>1, <2>2, NothingTold, QuietStep
<1> QED
  BY <1>3, <1>4 DEF MirrorInv

(* Theorem: the lists of the app keep their types, show nothing of another    *)
(* workspace, and once nothing is on its way are those of the daemon, in a   *)
(* workspace that is served, unless the phone is known to be behind.  It is  *)
(* about the services of mobile/src and the commands and broadcasts of       *)
(* internal/serve that they fold, whatever is reordered, refused or missed.  *)
THEOREM MirrorsAlwaysHold == MirrorSpec => []MirrorsHold
<1>1. MirrorInit => MirrorInv
  BY MirrorsStart
<1>2. MirrorInv /\ [MirrorNext]_mirrorVars => MirrorInv'
  <2> SUFFICES ASSUME MirrorInv, [MirrorNext]_mirrorVars PROVE MirrorInv'
    OBVIOUS
  <2>1. CASE Serve
    BY <2>1, ServingKeepsMirrors
  <2>2. CASE Rebuild
    BY <2>2, RebuildingKeepsMirrors
  <2>3. ASSUME NEW q \in Apps, App(q) PROVE MirrorInv'
    BY <2>3, AppsKeepMirrors
  <2>4. ASSUME NEW w \in SpaceNames, SomebodyElse(w) PROVE MirrorInv'
    <3>1. Solid
      BY DEF MirrorInv
    <3> QED
      BY <2>4, <3>1, SomebodyElseSolid, SomebodyElseHolds DEF MirrorInv
  <2>5. ASSUME NEW w \in SpaceNames, ReloadUnheard(w) PROVE MirrorInv'
    <3>1. Solid
      BY DEF MirrorInv
    <3> QED
      BY <2>5, <3>1, ReloadUnheardSolid, ReloadUnheardHolds DEF MirrorInv
  <2>6. CASE UNCHANGED mirrorVars
    BY <2>6, NothingMoves
  <2> QED
    BY <2>1, <2>2, <2>3, <2>4, <2>5, <2>6 DEF MirrorNext
<1>3. MirrorInv => MirrorsHold
  BY MirrorsAreKept
<1> QED
  BY <1>1, <1>2, <1>3, PTL DEF MirrorSpec

=============================================================================
