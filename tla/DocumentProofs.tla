--------------------------- MODULE DocumentProofs ---------------------------
(***************************************************************************)
(* Proofs about document histories and the Envelope workspace: for every   *)
(* set of Envelopes, titles, files and recipients, every retention limit   *)
(* and every number of rehearsals and file operations.                     *)
(***************************************************************************)
EXTENDS DocumentWorkspace, SequenceTheorems, WellFoundedInduction, TLAPS

CONSTANT AnyDocuments
VARIABLES current, history

(* A history by itself, whoever calls it, of any documents.                *)
Alone == INSTANCE DocumentHistory WITH Documents <- AnyDocuments

-----------------------------------------------------------------------------
(* Numbers.                                                                *)

(* The least of some numbers.                                              *)
LEMMA LeastNat ==
  ASSUME NEW S \in SUBSET Nat, S # {}
  PROVE  \E n \in S : \A m \in S : n <= m
<1>1. PICK n \in S : \A m \in S : ~(<<m, n>> \in OpToRel(<, Nat))
  BY WFMin, NatLessThanWellFounded
<1>2. \A m \in S : <<m, n>> \in OpToRel(<, Nat) <=> m < n
  BY DEF OpToRel
<1>3. \A m \in S : n <= m
  <2> SUFFICES ASSUME NEW m \in S PROVE n <= m
    OBVIOUS
  <2>1. m \in Nat /\ n \in Nat /\ ~(m < n)
    BY <1>1, <1>2
  <2> QED
    BY <2>1
<1> QED
  BY <1>3

-----------------------------------------------------------------------------
(* Document histories.                                                     *)

(* What falls from each place to the next falls from any place to a later. *)
LEMMA Falling ==
  ASSUME NEW n \in Nat, NEW f \in [1..n -> Int],
         \A i \in 2..n : f[i] < f[i - 1]
  PROVE  \A i, j \in 1..n : i < j => f[j] < f[i]
<1> SUFFICES ASSUME NEW i \in 1..n PROVE \A j \in 1..n : i < j => f[j] < f[i]
  OBVIOUS
<1> DEFINE Bad == {j \in Nat : j \in 1..n /\ i < j /\ ~(f[j] < f[i])}
<1> SUFFICES ASSUME Bad # {} PROVE FALSE
  <2>1. ASSUME Bad = {}, NEW j \in 1..n, i < j PROVE f[j] < f[i]
    <3>1. j \in Nat
      BY <2>1
    <3>2. j \notin Bad
      <4> HIDE DEF Bad
      <4> QED
        BY <2>1
    <3> QED
      BY <3>1, <3>2, <2>1
  <2> HIDE DEF Bad
  <2> QED
    BY <2>1
<1>1. PICK j \in Bad : \A m \in Bad : j <= m
  <2>1. Bad \in SUBSET Nat
    OBVIOUS
  <2> HIDE DEF Bad
  <2> QED
    BY <2>1, LeastNat
<1>2. j \in 2..n /\ i < j /\ ~(f[j] < f[i]) /\ f[j] < f[j - 1]
  BY <1>1
<1>3. j - 1 \in 1..n /\ j - 1 \notin Bad
  BY <1>1, <1>2
<1>4. j - 1 = i \/ f[j - 1] < f[i]
  BY <1>2, <1>3
<1>5. f[i] \in Int /\ f[j] \in Int /\ f[j - 1] \in Int
  BY <1>2, <1>3
<1> QED
  BY <1>2, <1>4, <1>5

(* A history of some documents that the next call accepts.                 *)
IsHistory(h, D) ==
  /\ h \in [nextVersionNumber : Nat \ {0},
            versions : Seq([versionNumber : Nat \ {0}, document : D])]
  /\ H!ValidHistory(h)

LEMMA EmptyIsHistory ==
  ASSUME H!HistoryAssumption, NEW D PROVE IsHistory(H!EmptyHistory, D)
<1>1. H!EmptyHistory.versions = <<>> /\ H!EmptyHistory.nextVersionNumber = 1
  BY DEF H!EmptyHistory
<1>2. 1 \in 1..MaxNext /\ 0 <= MaxVersions
  BY DEF H!HistoryAssumption
<1>3. <<>> \in Seq([versionNumber : Nat \ {0}, document : D])
  OBVIOUS
<1>4. H!ValidHistory(H!EmptyHistory)
  BY <1>1, <1>2 DEF H!ValidHistory
<1> QED
  BY <1>3, <1>4 DEF H!EmptyHistory, IsHistory

(* What a history is, place by place; numbers fall along it.               *)
LEMMA HistoryPlaces ==
  ASSUME NEW D, NEW h, IsHistory(h, D), H!HistoryAssumption
  PROVE  /\ h.nextVersionNumber \in Nat \ {0} /\ h.nextVersionNumber <= MaxNext
         /\ h.versions \in Seq([versionNumber : Nat \ {0}, document : D])
         /\ Len(h.versions) \in Nat /\ DOMAIN h.versions = 1..Len(h.versions)
         /\ Len(h.versions) <= MaxVersions
         /\ h.versions = <<>> <=> Len(h.versions) = 0
         /\ h.versions = <<>> => h.nextVersionNumber = 1
         /\ h.versions # <<>> => h.versions[1].versionNumber = h.nextVersionNumber - 1
         /\ \A i \in 1..Len(h.versions) :
              /\ h.versions[i] = [versionNumber |-> h.versions[i].versionNumber,
                                  document |-> h.versions[i].document]
              /\ h.versions[i].versionNumber \in Nat \ {0}
              /\ h.versions[i].versionNumber < h.nextVersionNumber
              /\ h.versions[i].document \in D
         /\ \A i, j \in 1..Len(h.versions) :
              i < j => h.versions[j].versionNumber < h.versions[i].versionNumber
<1> DEFINE s == h.versions
           n == h.nextVersionNumber
           V == [versionNumber : Nat \ {0}, document : D]
<1>1. n \in Nat \ {0} /\ s \in Seq(V)
  BY DEF IsHistory
<1>2. Len(s) \in Nat /\ DOMAIN s = 1..Len(s) /\ s \in [1..Len(s) -> V]
  BY <1>1, LenProperties
<1>3. s = <<>> <=> Len(s) = 0
  BY <1>1, EmptySeq
<1>4. /\ n <= MaxNext /\ Len(s) <= MaxVersions
      /\ s = <<>> => n = 1
      /\ s # <<>> => s[1].versionNumber = n - 1
      /\ \A i \in 1..Len(s) : s[i].versionNumber < n
      /\ \A i \in 1..Len(s) : i > 1 => s[i].versionNumber < s[i - 1].versionNumber
  <2>1. H!ValidHistory(h)
    BY DEF IsHistory
  <2>2. \A i \in 1..Len(s) : s[i].versionNumber \in 1..(n - 1) /\
          (i > 1 => s[i].versionNumber < s[i - 1].versionNumber)
    BY <2>1, <1>2 DEF H!ValidHistory
  <2>3. n \in 1..MaxNext /\ Len(s) <= MaxVersions
        /\ (IF s = <<>> THEN n = 1 ELSE s[1].versionNumber = n - 1)
    BY <2>1 DEF H!ValidHistory
  <2>4. n \in Nat /\ n <= MaxNext
    BY <2>3 DEF H!HistoryAssumption
  <2>5. \A i \in 1..Len(s) : s[i].versionNumber < n
    <3> SUFFICES ASSUME NEW i \in 1..Len(s) PROVE s[i].versionNumber < n
      OBVIOUS
    <3>1. s[i].versionNumber \in 1..(n - 1)
      BY <2>2
    <3> HIDE DEF n, s
    <3> QED
      BY <3>1, <2>4
  <2> QED
    BY <2>2, <2>3, <2>4, <2>5
<1>5. \A i \in 1..Len(s) : s[i] \in V
  BY <1>2
<1>6. \A i, j \in 1..Len(s) : i < j => s[j].versionNumber < s[i].versionNumber
  <2> DEFINE f == [i \in 1..Len(s) |-> s[i].versionNumber]
  <2>1. f \in [1..Len(s) -> Int]
    BY <1>5
  <2>2. \A i \in 2..Len(s) : f[i] < f[i - 1]
    BY <1>4, <1>2
  <2>3. \A i, j \in 1..Len(s) : i < j => f[j] < f[i]
    <3> HIDE DEF f, s
    <3> QED
      BY <2>1, <2>2, <1>2, Falling
  <2> QED
    BY <2>3
<1> QED
  BY <1>1, <1>2, <1>3, <1>4, <1>5, <1>6

(* The converse: what to show of a history.                                *)
LEMMA HistoryFrom ==
  ASSUME NEW D, NEW n \in Nat \ {0}, n <= MaxNext, H!HistoryAssumption,
         NEW s \in Seq([versionNumber : Nat \ {0}, document : D]),
         Len(s) <= MaxVersions, s # <<>>, s[1].versionNumber = n - 1,
         \A i, j \in 1..Len(s) : i < j => s[j].versionNumber < s[i].versionNumber
  PROVE  IsHistory([nextVersionNumber |-> n, versions |-> s], D)
<1> DEFINE V == [versionNumber : Nat \ {0}, document : D]
           h == [nextVersionNumber |-> n, versions |-> s]
<1>1. Len(s) \in Nat \ {0} /\ DOMAIN s = 1..Len(s) /\ \A i \in 1..Len(s) : s[i] \in V
  BY LenProperties, EmptySeq
<1>2. \A i \in 1..Len(s) : s[i].versionNumber \in Nat \ {0} /\ s[i].versionNumber <= n - 1
  <2> SUFFICES ASSUME NEW i \in 1..Len(s)
               PROVE  s[i].versionNumber \in Nat \ {0} /\ s[i].versionNumber <= n - 1
    OBVIOUS
  <2>1. s[i] \in V /\ s[1] \in V /\ 1 \in 1..Len(s)
    BY <1>1
  <2>2. s[i].versionNumber \in Nat \ {0}
    BY <2>1
  <2>3. i = 1 \/ s[i].versionNumber < s[1].versionNumber
    BY <2>1, <1>1
  <2> QED
    BY <2>2, <2>3
<1>3. \A i \in DOMAIN h.versions :
         /\ h.versions[i].versionNumber \in 1..(h.nextVersionNumber - 1)
         /\ i > 1 => h.versions[i].versionNumber < h.versions[i - 1].versionNumber
  BY <1>1, <1>2
<1>4. n \in 1..MaxNext
  BY DEF H!HistoryAssumption
<1>5. H!ValidHistory(h)
  BY <1>3, <1>4 DEF H!ValidHistory
<1>6. h \in [nextVersionNumber : Nat \ {0}, versions : Seq(V)]
  OBVIOUS
<1> QED
  BY <1>5, <1>6 DEF IsHistory

(* The latest n of a sequence.                                             *)
LEMMA LatestPlaces ==
  ASSUME NEW S, NEW t \in Seq(S), NEW n \in Nat
  PROVE  /\ H!Latest(t, n) \in Seq(S)
         /\ Len(H!Latest(t, n)) = IF Len(t) < n THEN Len(t) ELSE n
         /\ \A i \in 1..Len(H!Latest(t, n)) : i \in 1..Len(t) /\ H!Latest(t, n)[i] = t[i]
<1> DEFINE k == IF Len(t) < n THEN Len(t) ELSE n
           w == SubSeq(t, 1, k)
<1>1. k \in Nat /\ k <= Len(t) /\ Len(t) \in Nat
  BY LenProperties
<1>2. w \in Seq(S) /\ Len(w) = k /\ \A i \in 1..k : w[i] = t[i]
  <2> HIDE DEF k
  <2>1. Len(SubSeq(t, 1, k)) = (IF 1 <= k THEN k - 1 + 1 ELSE 0)
        /\ SubSeq(t, 1, k) \in Seq(S)
        /\ \A i \in 1..(k - 1 + 1) : SubSeq(t, 1, k)[i] = t[1 + i - 1]
    BY <1>1
  <2> QED
    BY <2>1, <1>1
<1>3. H!Latest(t, n) = w
  BY DEF H!Latest
<1>4. \A i \in 1..Len(w) : i \in 1..Len(t) /\ w[i] = t[i]
  BY <1>1, <1>2
<1> HIDE DEF w
<1> QED
  BY <1>2, <1>3, <1>4

(* A sequence with one more in front.                                      *)
LEMMA InFront ==
  ASSUME NEW S, NEW v \in S, NEW s \in Seq(S)
  PROVE  /\ <<v>> \o s \in Seq(S)
         /\ Len(<<v>> \o s) = Len(s) + 1
         /\ (<<v>> \o s)[1] = v
         /\ \A i \in 2..(Len(s) + 1) : (<<v>> \o s)[i] = s[i - 1]
<1>1. <<v>> \in Seq(S) /\ Len(<<v>>) = 1 /\ <<v>>[1] = v /\ Len(s) \in Nat
  BY LenProperties
<1>2. /\ <<v>> \o s \in Seq(S) /\ Len(<<v>> \o s) = 1 + Len(s)
      /\ \A i \in 1..(1 + Len(s)) : (<<v>> \o s)[i] = IF i <= 1 THEN <<v>>[i] ELSE s[i - 1]
  BY <1>1, ConcatProperties
<1> QED
  BY <1>1, <1>2

(* What a save leaves: a history, which begins with the document, and in   *)
(* which a number that was there means what it meant.                      *)
Continues(r, h) ==
  \A i \in 1..Len(r.versions) :
    \/ r.versions[i].versionNumber >= h.nextVersionNumber
    \/ \E j \in 1..Len(h.versions) : h.versions[j] = r.versions[i]

LEMMA SaveKeepsHistory ==
  ASSUME NEW D, NEW h, IsHistory(h, D), H!HistoryAssumption,
         NEW d \in D, H!CanSave(h, d)
  PROVE  /\ IsHistory(H!SaveVersion(h, d), D)
         /\ Len(H!SaveVersion(h, d).versions) >= 1
         /\ H!SaveVersion(h, d).versions[1].document = d
         /\ Continues(H!SaveVersion(h, d), h)
<1> DEFINE s == h.versions
           n == h.nextVersionNumber
           V == [versionNumber : Nat \ {0}, document : D]
           v == [versionNumber |-> n, document |-> d]
<1>1. /\ n \in Nat \ {0} /\ s \in Seq(V) /\ Len(s) \in Nat
      /\ s # <<>> => s[1].versionNumber = n - 1
      /\ \A i \in 1..Len(s) : s[i].versionNumber \in Nat \ {0} /\ s[i].versionNumber < n
      /\ \A i, j \in 1..Len(s) : i < j => s[j].versionNumber < s[i].versionNumber
      /\ s = <<>> <=> Len(s) = 0
  BY HistoryPlaces
<1>2. CASE H!MatchesLatest(h, d)
  <2>1. H!SaveVersion(h, d) = h /\ s # <<>> /\ s[1].document = d
    BY <1>2 DEF H!SaveVersion, H!MatchesLatest
  <2>2. Continues(h, h)
    BY DEF Continues
  <2> QED
    BY <1>1, <2>1, <2>2
<1>3. CASE ~H!MatchesLatest(h, d)
  <2> DEFINE w == H!Latest(<<v>> \o s, MaxVersions)
  <2>1. H!SaveVersion(h, d) = [nextVersionNumber |-> n + 1, versions |-> w]
    BY <1>3 DEF H!SaveVersion
  <2>2. v \in V /\ MaxVersions \in Nat /\ MaxVersions >= 2 /\ n + 1 \in Nat \ {0}
        /\ n + 1 <= MaxNext
    BY <1>1, <1>3 DEF H!CanSave, H!HistoryAssumption
  <2>3. /\ w \in Seq(V) /\ w # <<>>
        /\ Len(w) = IF Len(s) + 1 < MaxVersions THEN Len(s) + 1 ELSE MaxVersions
        /\ w[1] = v
        /\ \A i \in 1..Len(w) : i > 1 => i - 1 \in 1..Len(s) /\ w[i] = s[i - 1]
    <3> DEFINE t == <<v>> \o s
    <3>1. t \in Seq(V) /\ Len(t) = Len(s) + 1 /\ t[1] = v
          /\ \A i \in 2..(Len(s) + 1) : t[i] = s[i - 1]
      <4>1. v \in V /\ s \in Seq(V)
        BY <1>1, <2>2
      <4> HIDE DEF v, s, V
      <4> QED
        BY <4>1, InFront
    <3>2. w = H!Latest(t, MaxVersions) /\ Len(s) \in Nat /\ MaxVersions \in Nat
          /\ MaxVersions >= 2
      BY <1>1, <2>2
    <3> HIDE DEF t, w, V, v, s
    <3>3. /\ w \in Seq(V) /\ Len(w) = IF Len(t) < MaxVersions THEN Len(t) ELSE MaxVersions
          /\ \A i \in 1..Len(w) : i \in 1..Len(t) /\ w[i] = t[i]
      BY <3>1, <3>2, LatestPlaces
    <3>4. Len(w) >= 1 /\ Len(w) \in Nat
      BY <3>1, <3>2, <3>3
    <3>5. w # <<>>
      BY <3>3, <3>4, EmptySeq
    <3> QED
      BY <3>1, <3>2, <3>3, <3>4, <3>5
  <2> HIDE DEF w
  <2>4. Len(w) <= MaxVersions /\ Len(w) >= 1 /\ Len(w) \in Nat
    BY <1>1, <2>2, <2>3
  <2>5. \A i, j \in 1..Len(w) : i < j => w[j].versionNumber < w[i].versionNumber
    <3> SUFFICES ASSUME NEW i \in 1..Len(w), NEW j \in 1..Len(w), i < j
                 PROVE  w[j].versionNumber < w[i].versionNumber
      OBVIOUS
    <3>1. j - 1 \in 1..Len(s) /\ w[j] = s[j - 1]
      BY <2>3, <2>4
    <3>2. CASE i = 1
      <4>1. w[i].versionNumber = n
        BY <3>2, <2>3
      <4> QED
        BY <3>1, <4>1, <1>1
    <3>3. CASE i > 1
      <4>1. i - 1 \in 1..Len(s) /\ w[i] = s[i - 1] /\ i - 1 < j - 1
        BY <2>3, <2>4, <3>3
      <4> QED
        BY <3>1, <4>1, <1>1
    <3> QED
      BY <3>2, <3>3, <2>4
  <2>6. w[1].versionNumber = (n + 1) - 1
    BY <2>3, <1>1
  <2>7. IsHistory([nextVersionNumber |-> n + 1, versions |-> w], D)
    <3> HIDE DEF w, n
    <3> QED
      BY <2>2, <2>3, <2>4, <2>5, <2>6, HistoryFrom
  <2>8. \A i \in 1..Len(w) : \/ w[i].versionNumber >= n
                             \/ \E j \in 1..Len(s) : s[j] = w[i]
    <3> SUFFICES ASSUME NEW i \in 1..Len(w)
                 PROVE  w[i].versionNumber >= n \/ \E j \in 1..Len(s) : s[j] = w[i]
      OBVIOUS
    <3>1. i = 1 \/ i > 1
      BY <2>4
    <3>2. CASE i = 1
      BY <3>2, <2>3, <1>1
    <3> QED
      BY <3>1, <3>2, <2>3
  <2> HIDE DEF w
  <2>9. Continues([nextVersionNumber |-> n + 1, versions |-> w], h)
    BY <2>8 DEF Continues
  <2> QED
    BY <2>1, <2>3, <2>4, <2>7, <2>9
<1> QED
  BY <1>2, <1>3

(* Versions that fall are sorted already, and sorting finds it.            *)
LEMMA SortedIsSame ==
  ASSUME NEW D, NEW s \in Seq([versionNumber : Nat \ {0}, document : D]),
         \A i, j \in 1..Len(s) : i < j => s[j].versionNumber < s[i].versionNumber
  PROVE  LET r == H!Sorted(s) IN
         /\ r \in Seq([versionNumber : Nat \ {0}, document : D])
         /\ Len(r) = Len(s)
         /\ \A i, j \in 1..Len(s) : i < j => r[j].versionNumber < r[i].versionNumber
         /\ \A i \in 1..Len(s) : \E j \in 1..Len(s) : r[i] = s[j]
         /\ \A j \in 1..Len(s) : \E i \in 1..Len(s) : r[i] = s[j]
<1> DEFINE V == [versionNumber : Nat \ {0}, document : D]
           S == DOMAIN s
           Fits(p) == \A i, j \in S : i < j => s[p[i]].versionNumber >= s[p[j]].versionNumber
           order == CHOOSE p \in H!Bijection(S, S) : Fits(p)
           r == [i \in S |-> s[order[i]]]
<1>1. S = 1..Len(s) /\ Len(s) \in Nat /\ \A i \in S : s[i] \in V
  BY LenProperties
<1>n. \A i \in S : s[i].versionNumber \in Nat
  BY <1>1
<1>2. \E p \in H!Bijection(S, S) : Fits(p)
  <2> DEFINE id == [i \in S |-> i]
  <2>1. id \in H!Bijection(S, S)
    BY DEF H!Bijection, H!Injection, H!Surjection, H!IsInjective
  <2>2. Fits(id)
    BY <1>1, <1>n
  <2> HIDE DEF id, Fits
  <2> QED
    BY <2>1, <2>2
<1>3. order \in H!Bijection(S, S) /\ Fits(order)
  <2> HIDE DEF Fits
  <2> QED
    BY <1>2
<1>4. H!Sorted(s) = r
  BY DEF H!Sorted
<1> HIDE DEF order
<1>5. /\ order \in [S -> S]
      /\ \A i, j \in S : order[i] = order[j] => i = j
      /\ \A j \in S : \E i \in S : order[i] = j
  BY <1>3 DEF H!Bijection, H!Injection, H!Surjection, H!IsInjective
<1>6. r \in [1..Len(s) -> V]
  BY <1>1, <1>5
<1>7. r \in Seq(V) /\ Len(r) = Len(s)
  <2>1. r \in Seq(V)
    <3> HIDE DEF r
    <3> QED
      BY <1>1, <1>6
  <2>2. DOMAIN r = 1..Len(s)
    BY <1>1
  <2> HIDE DEF r
  <2> QED
    BY <1>1, <2>1, <2>2, LenProperties
<1>8. ASSUME NEW i \in 1..Len(s), NEW j \in 1..Len(s), i < j
      PROVE  r[j].versionNumber < r[i].versionNumber
  <2>1. order[i] \in S /\ order[j] \in S /\ order[i] # order[j] /\ i \in S /\ j \in S
    <3>1. i \in S /\ j \in S /\ i # j
      BY <1>1, <1>8
    <3> HIDE DEF S
    <3> QED
      BY <3>1, <1>5
  <2>2. s[order[i]].versionNumber >= s[order[j]].versionNumber
    BY <1>3, <1>8, <2>1
  <2>3. s[order[i]].versionNumber # s[order[j]].versionNumber
    <3>1. order[i] \in Int /\ order[j] \in Int /\ order[i] \in 1..Len(s) /\ order[j] \in 1..Len(s)
      BY <1>1, <2>1
    <3>2. order[i] < order[j] \/ order[j] < order[i]
      BY <3>1, <2>1
    <3> QED
      BY <3>1, <3>2, <1>1, <1>n
  <2>4. r[i] = s[order[i]] /\ r[j] = s[order[j]]
    BY <2>1
  <2> DEFINE k == order[i]  l == order[j]  x == s[k].versionNumber  y == s[l].versionNumber
  <2>5. x \in Int /\ y \in Int
    <3> HIDE DEF S
    <3>1. k \in S /\ l \in S
      BY <2>1
    <3> HIDE DEF k, l
    <3> QED
      BY <3>1, <1>1, <1>n
  <2>6. x >= y /\ x # y /\ r[i].versionNumber = x /\ r[j].versionNumber = y
    BY <2>2, <2>3, <2>4
  <2>7. y < x
    <3> HIDE DEF x, y
    <3> QED
      BY <2>5, <2>6
  <2> QED
    BY <2>6, <2>7
<1>9. \A i \in 1..Len(s) : \E j \in 1..Len(s) : r[i] = s[j]
  BY <1>1, <1>5
<1>10. \A j \in 1..Len(s) : \E i \in 1..Len(s) : r[i] = s[j]
  BY <1>1, <1>5
<1> HIDE DEF r
<1> QED
  BY <1>4, <1>7, <1>8, <1>9, <1>10

(* A version is where its number is.                                       *)
LEMMA VersionPlace ==
  ASSUME NEW D, NEW h, IsHistory(h, D), H!HistoryAssumption,
         NEW number \in H!Numbers(h.versions)
  PROVE  LET p == H!Position(h.versions, number) IN
         /\ p \in 1..Len(h.versions) /\ h.versions[p].versionNumber = number
         /\ H!VersionOf(h, number) = h.versions[p]
         /\ H!VersionOf(h, number).document \in D
<1>1. DOMAIN h.versions = 1..Len(h.versions)
      /\ \A i \in 1..Len(h.versions) : h.versions[i].document \in D
  BY HistoryPlaces
<1>2. \E i \in DOMAIN h.versions : h.versions[i].versionNumber = number
  BY DEF H!Numbers
<1>3. H!Position(h.versions, number) \in DOMAIN h.versions
      /\ h.versions[H!Position(h.versions, number)].versionNumber = number
  BY <1>2 DEF H!Position
<1> QED
  BY <1>1, <1>3 DEF H!VersionOf

(* Taking one out at the end.                                              *)
LEMMA WithoutLast ==
  ASSUME NEW S, NEW s \in Seq(S), NEW n \in Nat \ {0}, Len(s) = n
  PROVE  /\ H!Without(s, n) \in Seq(S) /\ Len(H!Without(s, n)) = n - 1
         /\ \A i \in 1..(n - 1) : H!Without(s, n)[i] = s[i]
<1>1. SubSeq(s, n + 1, n) = <<>>
  BY SubSeqEmpty
<1>2. SubSeq(s, 1, n - 1) \in Seq(S) /\ Len(SubSeq(s, 1, n - 1)) = n - 1
      /\ \A i \in 1..(n - 1) : SubSeq(s, 1, n - 1)[i] = s[i]
  <2> DEFINE k == n - 1
  <2>1. k \in Nat /\ k <= Len(s)
    OBVIOUS
  <2> HIDE DEF k
  <2>2. Len(SubSeq(s, 1, k)) = (IF 1 <= k THEN k - 1 + 1 ELSE 0)
        /\ SubSeq(s, 1, k) \in Seq(S)
        /\ \A i \in 1..(k - 1 + 1) : SubSeq(s, 1, k)[i] = s[1 + i - 1]
    BY <2>1
  <2>3. SubSeq(s, 1, k) \in Seq(S) /\ Len(SubSeq(s, 1, k)) = k
        /\ \A i \in 1..k : SubSeq(s, 1, k)[i] = s[i]
    BY <2>1, <2>2
  <2> QED
    BY <2>3 DEF k
<1>3. H!Without(s, n) = SubSeq(s, 1, n - 1) \o <<>>
  BY <1>1 DEF H!Without
<1>4. H!Without(s, n) = SubSeq(s, 1, n - 1)
  BY <1>2, <1>3, ConcatEmptySeq
<1> QED
  BY <1>2, <1>4

(* Three parts in a row.                                                   *)
LEMMA InARow ==
  ASSUME NEW S, NEW v \in S, NEW m \in Seq(S), NEW x \in S
  PROVE  /\ <<v>> \o m \o <<x>> \in Seq(S)
         /\ Len(<<v>> \o m \o <<x>>) = Len(m) + 2
         /\ (<<v>> \o m \o <<x>>)[1] = v
         /\ \A i \in 2..(Len(m) + 1) : (<<v>> \o m \o <<x>>)[i] = m[i - 1]
         /\ (<<v>> \o m \o <<x>>)[Len(m) + 2] = x
<1> DEFINE t == <<v>> \o m
<1>1. t \in Seq(S) /\ Len(t) = Len(m) + 1 /\ t[1] = v /\ Len(m) \in Nat
      /\ \A i \in 2..(Len(m) + 1) : t[i] = m[i - 1]
  BY InFront, LenProperties
<1> HIDE DEF t
<1>2. <<x>> \in Seq(S) /\ Len(<<x>>) = 1 /\ <<x>>[1] = x
  OBVIOUS
<1>3. /\ t \o <<x>> \in Seq(S) /\ Len(t \o <<x>>) = Len(t) + 1
      /\ \A i \in 1..(Len(t) + 1) :
           (t \o <<x>>)[i] = IF i <= Len(t) THEN t[i] ELSE <<x>>[i - Len(t)]
  BY <1>1, <1>2, ConcatProperties
<1>4. (t \o <<x>>)[1] = v
  BY <1>1, <1>3
<1>5. \A i \in 2..(Len(m) + 1) : (t \o <<x>>)[i] = m[i - 1]
  BY <1>1, <1>3
<1>6. (t \o <<x>>)[Len(m) + 2] = x
  BY <1>1, <1>2, <1>3
<1> QED
  BY <1>1, <1>3, <1>4, <1>5, <1>6 DEF t

(* A restore keeps a history, the version it brings back and the document  *)
(* it replaces, at the retention limit too.                                *)
LEMMA RestoreKeepsHistory ==
  ASSUME NEW D, NEW h, IsHistory(h, D), H!HistoryAssumption,
         NEW d \in D, NEW number, H!CanRestore(h, d, number)
  PROVE  LET r == H!RestoredHistory(h, d, number) IN
         /\ IsHistory(r, D)
         /\ number \in H!Numbers(r.versions)
         /\ \E i \in 1..Len(r.versions) : r.versions[i].document = d
         /\ Continues(r, h)
<1> DEFINE s == h.versions
           n == h.nextVersionNumber
           V == [versionNumber : Nat \ {0}, document : D]
           v == [versionNumber |-> n, document |-> d]
           saved == H!SaveVersion(h, d)
           p == H!Position(s, number)
           target == s[p]
           r == H!RestoredHistory(h, d, number)
<1>1. /\ n \in Nat \ {0} /\ n <= MaxNext /\ s \in Seq(V) /\ Len(s) \in Nat
      /\ Len(s) <= MaxVersions /\ DOMAIN s = 1..Len(s)
      /\ \A i \in 1..Len(s) :
           s[i].versionNumber \in Nat \ {0} /\ s[i].versionNumber < n /\ s[i] \in V
      /\ \A i, j \in 1..Len(s) : i < j => s[j].versionNumber < s[i].versionNumber
  <2>1. s \in Seq(V)
    BY HistoryPlaces
  <2>2. \A i \in 1..Len(s) : s[i] \in V
    <3> HIDE DEF V, s
    <3> QED
      BY <2>1, LenProperties
  <2> QED
    BY <2>1, <2>2, HistoryPlaces
<1>2. H!CanSave(h, d) /\ number \in H!Numbers(s)
  BY DEF H!CanRestore
<1>3. p \in 1..Len(s) /\ target.versionNumber = number /\ H!VersionOf(h, number) = target
  BY <1>2, VersionPlace
<1>4. /\ IsHistory(saved, D) /\ Len(saved.versions) >= 1
      /\ saved.versions[1].document = d /\ Continues(saved, h)
  BY <1>2, SaveKeepsHistory
<1>5. r = H!PreserveRestoreTarget(h, saved, target)
  BY <1>3 DEF H!RestoredHistory
<1> HIDE DEF r
<1>6. CASE number \in H!Numbers(saved.versions)
  <2>1. r = saved
    BY <1>3, <1>5, <1>6 DEF H!PreserveRestoreTarget
  <2>2. Len(saved.versions) \in Nat
    BY <1>4, HistoryPlaces
  <2>3. 1 \in 1..Len(saved.versions)
    BY <1>4, <2>2
  <2> HIDE DEF saved
  <2> QED
    BY <1>4, <1>6, <2>1, <2>3 DEF r
<1>7. CASE number \notin H!Numbers(saved.versions)
  <2>1. ~H!MatchesLatest(h, d)
    BY <1>2, <1>7 DEF H!SaveVersion
  <2> DEFINE t == <<v>> \o s
             w == H!Latest(t, MaxVersions)
  <2>2. saved = [nextVersionNumber |-> n + 1, versions |-> w]
    BY <2>1 DEF H!SaveVersion
  <2>3. MaxVersions \in Nat /\ MaxVersions >= 2 /\ n + 1 <= MaxNext /\ v \in V
    BY <1>1, <1>2, <2>1 DEF H!CanSave, H!HistoryAssumption
  <2>4. t \in Seq(V) /\ Len(t) = Len(s) + 1 /\ t[1] = v
        /\ \A i \in 2..(Len(s) + 1) : t[i] = s[i - 1]
    <3> HIDE DEF v, s, V
    <3> QED
      BY <1>1, <2>3, InFront
  <2> HIDE DEF t
  <2>5. /\ w \in Seq(V) /\ Len(w) = IF Len(t) < MaxVersions THEN Len(t) ELSE MaxVersions
        /\ \A i \in 1..Len(w) : i \in 1..Len(t) /\ w[i] = t[i]
    BY <2>3, <2>4, LatestPlaces
  <2> HIDE DEF w
  <2>6. DOMAIN w = 1..Len(w) /\ Len(w) \in Nat /\ Len(w) >= 1
    BY <2>3, <2>4, <2>5, <1>1, LenProperties
  <2>7. p + 1 > Len(w)
    <3> SUFFICES ASSUME p + 1 <= Len(w) PROVE FALSE
      BY <1>1, <1>3, <2>6
    <3>1. p + 1 \in 1..Len(w) /\ p + 1 \in 2..(Len(s) + 1)
      BY <1>1, <1>3, <2>6
    <3>2. (p + 1) - 1 = p
      BY <1>1, <1>3
    <3>3. w[p + 1] = s[p]
      <4>1. w[p + 1] = t[p + 1]
        BY <3>1, <2>5
      <4>2. t[p + 1] = s[(p + 1) - 1]
        BY <3>1, <2>4
      <4> QED
        BY <4>1, <4>2, <3>2
    <3>4. number \in H!Numbers(w)
      BY <3>1, <3>3, <1>3, <2>6 DEF H!Numbers
    <3> QED
      BY <3>4, <1>7, <2>2
  <2>8. Len(s) = MaxVersions /\ p = MaxVersions /\ Len(w) = MaxVersions
    BY <1>1, <1>3, <2>3, <2>4, <2>5, <2>7
  <2> DEFINE others == H!Without(s, p)
             m == H!Latest(others, MaxVersions - 2)
             kept == <<w[1]>> \o m \o <<target>>
             k == H!Sorted(kept)
  <2>9. others \in Seq(V) /\ Len(others) = MaxVersions - 1
        /\ \A i \in 1..(MaxVersions - 1) : others[i] = s[i]
    <3>1. MaxVersions \in Nat \ {0} /\ s \in Seq(V) /\ Len(s) = MaxVersions
      BY <1>1, <2>3, <2>8
    <3>2. p = MaxVersions
      BY <2>8
    <3> HIDE DEF s, V, p
    <3> QED
      BY <3>1, <3>2, WithoutLast
  <2> HIDE DEF others
  <2>10. /\ m \in Seq(V) /\ Len(m) = MaxVersions - 2
         /\ \A i \in 1..(MaxVersions - 2) : m[i] = s[i]
    <3>1. MaxVersions - 2 \in Nat
      BY <2>3
    <3>2. /\ m \in Seq(V)
          /\ Len(m) = IF Len(others) < MaxVersions - 2 THEN Len(others) ELSE MaxVersions - 2
          /\ \A i \in 1..Len(m) : i \in 1..Len(others) /\ m[i] = others[i]
      BY <3>1, <2>9, LatestPlaces
    <3> HIDE DEF m
    <3>3. Len(m) = MaxVersions - 2
      BY <3>2, <2>9, <2>3
    <3> QED
      BY <3>2, <3>3, <2>9
  <2> HIDE DEF m
  <2>11. w[1] = v /\ target \in V
    <3>1. 1 \in 1..Len(w)
      BY <2>6
    <3>2. w[1] = t[1]
      BY <3>1, <2>5
    <3>3. s[p] \in V
      BY <1>1, <1>3
    <3> QED
      BY <3>2, <3>3, <2>4
  <2>12. /\ kept \in Seq(V) /\ Len(kept) = MaxVersions /\ kept[1] = v
         /\ \A i \in 2..(MaxVersions - 1) : kept[i] = s[i - 1]
         /\ kept[MaxVersions] = target
    <3>1. m \in Seq(V) /\ Len(m) \in Nat /\ Len(m) + 2 = MaxVersions
          /\ Len(m) + 1 = MaxVersions - 1
      BY <2>3, <2>10
    <3>2. /\ kept \in Seq(V) /\ Len(kept) = Len(m) + 2 /\ kept[1] = w[1]
          /\ \A i \in 2..(Len(m) + 1) : kept[i] = m[i - 1]
          /\ kept[Len(m) + 2] = target
      <4>1. w[1] \in V
        BY <2>3, <2>11
      <4>2. target \in V
        BY <2>11
      <4> HIDE DEF V, target
      <4> QED
        BY <3>1, <4>1, <4>2, InARow
    <3> HIDE DEF kept
    <3>3. \A i \in 2..(MaxVersions - 1) : kept[i] = s[i - 1]
      <4> SUFFICES ASSUME NEW i \in 2..(MaxVersions - 1) PROVE kept[i] = s[i - 1]
        OBVIOUS
      <4>1. i - 1 \in 1..(MaxVersions - 2) /\ i \in 2..(Len(m) + 1)
        BY <3>1, <2>3
      <4> QED
        BY <4>1, <3>2, <2>10
    <3> QED
      BY <3>1, <3>2, <3>3, <2>11
  <2> HIDE DEF kept
  <2>13. /\ kept[1].versionNumber = n
         /\ \A i \in 2..MaxVersions :
              /\ kept[i] \in {s[i - 1], s[i]}
              /\ \E j \in 1..MaxVersions : j >= i - 1 /\ j <= i /\ kept[i] = s[j]
                                           /\ (i < MaxVersions => j = i - 1)
    <3>1. kept[1].versionNumber = n
      BY <2>12
    <3>2. ASSUME NEW i \in 2..MaxVersions
          PROVE  /\ kept[i] \in {s[i - 1], s[i]}
                 /\ \E j \in 1..MaxVersions : j >= i - 1 /\ j <= i /\ kept[i] = s[j]
                                           /\ (i < MaxVersions => j = i - 1)
      <4>1. CASE i < MaxVersions
        <5>1. i \in 2..(MaxVersions - 1) /\ i - 1 \in 1..MaxVersions
          BY <4>1, <2>3
        <5>2. kept[i] = s[i - 1]
          BY <5>1, <2>12
        <5> QED
          BY <5>1, <5>2
      <4>2. CASE i = MaxVersions
        <5>1. kept[i] = s[i] /\ i \in 1..MaxVersions
          BY <4>2, <2>3, <2>8, <2>12
        <5> QED
          BY <5>1, <4>2, <2>3
      <4> QED
        BY <4>1, <4>2, <2>3
    <3> QED
      BY <3>1, <3>2
  <2>14. \A i, j \in 1..Len(kept) : i < j => kept[j].versionNumber < kept[i].versionNumber
    <3> SUFFICES ASSUME NEW i \in 1..MaxVersions, NEW j \in 1..MaxVersions, i < j
                 PROVE  kept[j].versionNumber < kept[i].versionNumber
      BY <2>12
    <3>1. j \in 2..MaxVersions /\ i < MaxVersions
      BY <2>3
    <3>2. PICK b \in 1..MaxVersions : b >= j - 1 /\ b <= j /\ kept[j] = s[b]
      BY <3>1, <2>13
    <3>3. CASE i = 1
      BY <3>2, <3>3, <2>13, <1>1, <2>8
    <3>4. CASE i > 1
      <4>1. i \in 2..MaxVersions /\ i - 1 \in 1..MaxVersions /\ i - 1 < b
        BY <3>2, <3>4, <2>3
      <4>2. kept[i] = s[i - 1]
        BY <4>1, <3>1, <2>13
      <4> QED
        BY <4>1, <4>2, <3>2, <1>1, <2>8
    <3> QED
      BY <3>3, <3>4, <2>3
  <2>15. /\ k \in Seq(V) /\ Len(k) = MaxVersions
         /\ \A i, j \in 1..MaxVersions : i < j => k[j].versionNumber < k[i].versionNumber
         /\ \A i \in 1..MaxVersions : \E j \in 1..MaxVersions : k[i] = kept[j]
         /\ \A j \in 1..MaxVersions : \E i \in 1..MaxVersions : k[i] = kept[j]
    BY <2>12, <2>14, SortedIsSame
  <2> HIDE DEF k
  <2>16. k # <<>> /\ DOMAIN k = 1..MaxVersions /\ 1 \in 1..MaxVersions
    <3>1. DOMAIN k = 1..MaxVersions
      BY <2>15, LenProperties
    <3>2. 1 \in 1..MaxVersions
      BY <2>3
    <3>3. k # <<>>
      BY <3>2, <2>15, EmptySeq
    <3> QED
      BY <3>1, <3>2, <3>3
  <2>17. k[1].versionNumber = n
    <3>1. PICK i \in 1..MaxVersions : k[i] = kept[1]
      BY <2>15, <2>16
    <3>2. PICK j \in 1..MaxVersions : k[1] = kept[j]
      BY <2>15, <2>16
    <3>3. k[i].versionNumber = n /\ n \in Nat
      BY <3>1, <2>13, <1>1
    <3>4. CASE j = 1
      BY <3>2, <3>4, <2>13
    <3>5. CASE j # 1
      <4>0. 1 < j /\ (i = 1 \/ 1 < i)
        BY <3>5
      <4>1. kept[j].versionNumber < kept[1].versionNumber
        BY <4>0, <2>12, <2>14, <2>16
      <4>2. i = 1 \/ k[i].versionNumber < k[1].versionNumber
        BY <4>0, <2>15, <2>16
      <4>3. k[1].versionNumber \in Nat /\ k[i].versionNumber \in Nat
        <5>1. k[1] \in V /\ k[i] \in V
          <6> HIDE DEF V
          <6> QED
            BY <2>15, <2>16, LenProperties
        <5> QED
          BY <5>1
      <4> QED
        BY <4>1, <4>2, <4>3, <3>1, <3>2, <3>3, <2>13
    <3> QED
      BY <3>4, <3>5
  <2>18. r = [nextVersionNumber |-> n + 1, versions |-> k]
    <3>1. target.versionNumber \notin H!Numbers(saved.versions)
      BY <1>3, <1>7
    <3>2. r = [saved EXCEPT !.versions = H!Sorted(<<saved.versions[1]>>
                \o H!Latest(H!Without(h.versions, H!Position(h.versions, target.versionNumber)),
                            MaxVersions - 2) \o <<target>>)]
      BY <3>1, <1>5 DEF H!PreserveRestoreTarget
    <3>3. H!Position(h.versions, target.versionNumber) = p /\ saved.versions = w
      BY <1>3, <2>2
    <3>4. r = [saved EXCEPT !.versions = k]
      BY <3>2, <3>3 DEF k, kept, m, others
    <3> HIDE DEF saved
    <3> QED
      BY <3>4, <2>2
  <2>19. IsHistory(r, D)
    <3>1. n + 1 \in Nat \ {0} /\ k[1].versionNumber = (n + 1) - 1 /\ Len(k) <= MaxVersions
      <4> HIDE DEF V
      <4>1. Len(k) = MaxVersions /\ MaxVersions \in Nat /\ n \in Nat \ {0}
        BY <1>1, <2>3, <2>15
      <4>2. n + 1 \in Nat \ {0} /\ (n + 1) - 1 = n
        BY <4>1
      <4> QED
        BY <4>1, <4>2, <2>17
    <3> HIDE DEF n
    <3> QED
      BY <3>1, <2>3, <2>15, <2>16, <2>18, HistoryFrom
  <2>20. number \in H!Numbers(k)
    <3>0. MaxVersions \in 1..MaxVersions
      BY <2>3
    <3>1. PICK i \in 1..MaxVersions : k[i] = kept[MaxVersions]
      BY <2>15, <3>0
    <3> QED
      BY <3>1, <2>12, <2>16, <1>3 DEF H!Numbers
  <2>21. \E i \in 1..Len(k) : k[i].document = d
    <3>1. PICK i \in 1..MaxVersions : k[i] = kept[1]
      BY <2>15, <2>16
    <3> QED
      BY <3>1, <2>12, <2>15
  <2>22. ASSUME NEW i \in 1..Len(k)
         PROVE  k[i].versionNumber >= n \/ \E j \in 1..Len(s) : s[j] = k[i]
    <3>1. PICK j \in 1..MaxVersions : k[i] = kept[j]
      BY <2>15
    <3>2. CASE j = 1
      BY <3>1, <3>2, <2>13, <1>1
    <3>3. CASE j # 1
      <4>1. j \in 2..MaxVersions
        BY <3>3, <2>3
      <4> QED
        BY <4>1, <3>1, <2>13, <2>8
    <3> QED
      BY <3>2, <3>3
  <2>23. Continues(r, h)
    BY <2>18, <2>22 DEF Continues
  <2>24. r.versions = k
    BY <2>18
  <2> QED
    BY <2>19, <2>20, <2>21, <2>23, <2>24 DEF r
<1> QED
  BY <1>6, <1>7

-----------------------------------------------------------------------------
(* A history by itself.                                                    *)

(* Alone and in the workspace it is the same code.                         *)
LEMMA SameHistory ==
  /\ Alone!HistoryAssumption <=> H!HistoryAssumption
  /\ Alone!EmptyHistory = H!EmptyHistory
  /\ \A h : Alone!ValidHistory(h) <=> H!ValidHistory(h)
  /\ \A s : Alone!Numbers(s) = H!Numbers(s)
  /\ \A h, d : Alone!CanSave(h, d) <=> H!CanSave(h, d)
  /\ \A h, d : Alone!SaveVersion(h, d) = H!SaveVersion(h, d)
  /\ \A h, number : Alone!VersionOf(h, number) = H!VersionOf(h, number)
  /\ \A h, d, number : Alone!CanRestore(h, d, number) <=> H!CanRestore(h, d, number)
  /\ \A h, d, number : Alone!RestoredHistory(h, d, number) = H!RestoredHistory(h, d, number)
<1>1. Alone!HistoryAssumption <=> H!HistoryAssumption
  BY DEF Alone!HistoryAssumption, H!HistoryAssumption
<1>2. Alone!EmptyHistory = H!EmptyHistory
  BY DEF Alone!EmptyHistory, H!EmptyHistory
<1>3. \A h : Alone!ValidHistory(h) <=> H!ValidHistory(h)
  BY DEF Alone!ValidHistory, H!ValidHistory
<1>4. \A s : Alone!Numbers(s) = H!Numbers(s)
  BY DEF Alone!Numbers, H!Numbers
<1>5. \A h, d : Alone!MatchesLatest(h, d) <=> H!MatchesLatest(h, d)
  BY DEF Alone!MatchesLatest, H!MatchesLatest
<1>6. \A h, d : Alone!CanSave(h, d) <=> H!CanSave(h, d)
  BY <1>5 DEF Alone!CanSave, H!CanSave
<1>7. \A s, n : Alone!Latest(s, n) = H!Latest(s, n)
  BY DEF Alone!Latest, H!Latest
<1>8. \A h, d : Alone!SaveVersion(h, d) = H!SaveVersion(h, d)
  BY <1>5, <1>7 DEF Alone!SaveVersion, H!SaveVersion
<1>9. \A s, number : Alone!Position(s, number) = H!Position(s, number)
  BY DEF Alone!Position, H!Position
<1>10. \A h, number : Alone!VersionOf(h, number) = H!VersionOf(h, number)
  BY <1>9 DEF Alone!VersionOf, H!VersionOf
<1>11. \A h, d, number : Alone!CanRestore(h, d, number) <=> H!CanRestore(h, d, number)
  BY <1>4, <1>6, <1>10 DEF Alone!CanRestore, H!CanRestore
<1>12. \A s : Alone!Sorted(s) = H!Sorted(s)
  BY DEF Alone!Sorted, H!Sorted, Alone!Bijection, H!Bijection, Alone!Injection,
     H!Injection, Alone!Surjection, H!Surjection, Alone!IsInjective, H!IsInjective
<1>13. \A s, i : Alone!Without(s, i) = H!Without(s, i)
  BY DEF Alone!Without, H!Without
<1>14. \A h, g, v : Alone!PreserveRestoreTarget(h, g, v) = H!PreserveRestoreTarget(h, g, v)
  BY <1>4, <1>7, <1>9, <1>12, <1>13 DEF Alone!PreserveRestoreTarget, H!PreserveRestoreTarget
<1>15. \A h, d, number : Alone!RestoredHistory(h, d, number) = H!RestoredHistory(h, d, number)
  BY <1>8, <1>10, <1>14 DEF Alone!RestoredHistory, H!RestoredHistory
<1> QED
  BY <1>1, <1>2, <1>3, <1>4, <1>6, <1>8, <1>10, <1>11, <1>15

AloneInv == current \in AnyDocuments /\ IsHistory(history, AnyDocuments)

LEMMA AloneSaves ==
  ASSUME H!HistoryAssumption, AloneInv, Alone!Save
  PROVE  AloneInv' /\ Continues(history', history)
<1>1. H!CanSave(history, current) /\ history' = H!SaveVersion(history, current)
      /\ current' = current
  BY SameHistory DEF Alone!Save
<1>2. IsHistory(history, AnyDocuments) /\ current \in AnyDocuments
  BY DEF AloneInv
<1>3. IsHistory(H!SaveVersion(history, current), AnyDocuments)
      /\ Continues(H!SaveVersion(history, current), history)
  BY <1>1, <1>2, SaveKeepsHistory
<1> QED
  BY <1>1, <1>2, <1>3 DEF AloneInv

LEMMA AloneRestores ==
  ASSUME H!HistoryAssumption, AloneInv, NEW number, Alone!Restore(number)
  PROVE  /\ AloneInv' /\ Continues(history', history)
         /\ number \in Alone!Numbers(history'.versions)
         /\ \E i \in DOMAIN history'.versions : history'.versions[i].document = current
<1> DEFINE r == H!RestoredHistory(history, current, number)
<1>1. H!CanRestore(history, current, number) /\ history' = r
      /\ current' = H!VersionOf(history, number).document
  BY SameHistory DEF Alone!Restore
<1>2. IsHistory(history, AnyDocuments) /\ current \in AnyDocuments
  BY DEF AloneInv
<1>3. /\ IsHistory(r, AnyDocuments) /\ number \in H!Numbers(r.versions)
      /\ \E i \in 1..Len(r.versions) : r.versions[i].document = current
      /\ Continues(r, history)
  BY <1>1, <1>2, RestoreKeepsHistory
<1>4. number \in H!Numbers(history.versions)
  BY <1>1 DEF H!CanRestore
<1>5. H!VersionOf(history, number).document \in AnyDocuments
  BY <1>2, <1>4, VersionPlace
<1> HIDE DEF r
<1>6. DOMAIN r.versions = 1..Len(r.versions)
  BY <1>3, HistoryPlaces
<1>7. Alone!Numbers(r.versions) = H!Numbers(r.versions)
  BY SameHistory
<1>8. current' \in AnyDocuments
  BY <1>1, <1>5
<1>9. AloneInv'
  BY <1>1, <1>3, <1>8 DEF AloneInv
<1> QED
  BY <1>1, <1>3, <1>6, <1>7, <1>9

LEMMA AloneStep ==
  ASSUME H!HistoryAssumption, AloneInv, [Alone!Next]_(Alone!vars)
  PROVE  AloneInv' /\ (history' = history \/ Continues(history', history))
<1>1. CASE UNCHANGED Alone!vars
  <2>1. current' = current /\ history' = history
    BY <1>1 DEF Alone!vars
  <2> QED
    BY <2>1 DEF AloneInv
<1>2. CASE Alone!Edit
  <2>1. current' \in AnyDocuments /\ history' = history
    BY <1>2 DEF Alone!Edit
  <2> QED
    BY <2>1 DEF AloneInv
<1>3. CASE Alone!Save
  BY <1>3, AloneSaves
<1>4. CASE \E number \in Alone!Numbers(history.versions) : Alone!Restore(number)
  BY <1>4, AloneRestores
<1> QED
  BY <1>1, <1>2, <1>3, <1>4 DEF Alone!Next

LEMMA AloneBegins == ASSUME H!HistoryAssumption, Alone!Init PROVE AloneInv
<1>1. current \in AnyDocuments /\ history = H!EmptyHistory
  BY SameHistory DEF Alone!Init
<1> QED
  BY <1>1, EmptyIsHistory DEF AloneInv

(* Whatever is edited, saved and restored, in any order and at any         *)
(* retention limit, the next call accepts the history (validateHistory).   *)
THEOREM HistoriesStayValid ==
  ASSUME H!HistoryAssumption
  PROVE  Alone!Spec => [](Alone!TypeOK /\ Alone!HistoryIsValid)
<1>1. AloneInv /\ [Alone!Next]_(Alone!vars) => AloneInv'
  BY AloneStep
<1>2. AloneInv => Alone!TypeOK /\ Alone!HistoryIsValid
  <2> SUFFICES ASSUME AloneInv PROVE Alone!TypeOK /\ Alone!HistoryIsValid
    OBVIOUS
  <2>1. IsHistory(history, AnyDocuments) /\ current \in AnyDocuments
    BY DEF AloneInv
  <2>2. H!ValidHistory(history)
        /\ history.versions \in Seq([versionNumber : Nat \ {0}, document : AnyDocuments])
    BY <2>1 DEF IsHistory
  <2>3. Alone!ValidHistory(history)
    BY <2>2, SameHistory
  <2> QED
    BY <2>1, <2>2, <2>3 DEF Alone!TypeOK, Alone!HistoryIsValid, Alone!Versions
<1>3. Alone!Init => AloneInv
  BY AloneBegins
<1> QED
  BY <1>1, <1>2, <1>3, PTL DEF Alone!Spec

(* A restore keeps the version it brings back and the document it replaces *)
(* at the retention limit too (preserveRestoreTarget), and a number that   *)
(* stays means what it meant.                                              *)
THEOREM RestoresKeepBoth ==
  ASSUME H!HistoryAssumption
  PROVE  Alone!Spec =>
           [][Alone!RestoreKeepsBoth /\ Alone!NumbersAreStable]_(Alone!vars)
<1>1. AloneInv /\ [Alone!Next]_(Alone!vars) => AloneInv'
  BY AloneStep
<1>2. AloneInv /\ [Alone!Next]_(Alone!vars) =>
        [Alone!RestoreKeepsBoth /\ Alone!NumbersAreStable]_(Alone!vars)
  <2> SUFFICES ASSUME AloneInv, [Alone!Next]_(Alone!vars)
               PROVE  Alone!RestoreKeepsBoth /\ Alone!NumbersAreStable
    OBVIOUS
  <2>1. Alone!RestoreKeepsBoth
    BY AloneRestores DEF Alone!RestoreKeepsBoth
  <2>2. AloneInv' /\ (history' = history \/ Continues(history', history))
    BY AloneStep
  <2>3. IsHistory(history, AnyDocuments) /\ IsHistory(history', AnyDocuments)
    BY <2>2 DEF AloneInv
  <2>4. DOMAIN history.versions = 1..Len(history.versions)
        /\ DOMAIN history'.versions = 1..Len(history'.versions)
    BY <2>3, HistoryPlaces
  <2>5. Alone!NumbersAreStable
    BY <2>2, <2>4 DEF Alone!NumbersAreStable, Continues
  <2> QED
    BY <2>1, <2>5
<1>3. Alone!Init => AloneInv
  BY AloneBegins
<1> QED
  BY <1>1, <1>2, <1>3, PTL DEF Alone!Spec

-----------------------------------------------------------------------------
(* The attachments of an envelope.                                         *)

(* The running totals of some attachments.                                 *)
IsTotal(f, s) ==
  /\ f \in [0..Len(s) -> Nat] /\ f[0] = 0
  /\ \A n \in 1..Len(s) : f[n] = f[n - 1] + Size[s[n]]

LEMMA SizeOfFile == \A f \in Files : Size[f] \in Nat
BY WorkspaceAssumption

LEMMA TotalExists ==
  ASSUME NEW s \in Seq(Files) PROVE \E f : IsTotal(f, s)
<1> DEFINE Upto(m) == {f \in [0..m -> Nat] :
              f[0] = 0 /\ \A n \in 1..m : f[n] = f[n - 1] + Size[s[n]]}
           Bad == {m \in Nat : m <= Len(s) /\ Upto(m) = {}}
<1>0. Len(s) \in Nat /\ \A n \in 1..Len(s) : Size[s[n]] \in Nat
  BY SizeOfFile, LenProperties
<1>1. Bad = {}
  <2> SUFFICES ASSUME Bad # {} PROVE FALSE
    OBVIOUS
  <2>1. PICK m \in Bad : \A i \in Bad : m <= i
    <3>1. Bad \in SUBSET Nat
      OBVIOUS
    <3> HIDE DEF Bad
    <3> QED
      BY <3>1, LeastNat
  <2>2. m \in Nat /\ m <= Len(s) /\ Upto(m) = {}
    BY <2>1
  <2>3. m # 0
    <3>1. [i \in 0..0 |-> 0] \in Upto(0)
      OBVIOUS
    <3> QED
      BY <3>1, <2>2
  <2>4. m - 1 \in Nat /\ m - 1 <= Len(s) /\ m - 1 \notin Bad /\ m \in 1..Len(s)
    <3>1. m - 1 \in Nat /\ m - 1 <= Len(s) /\ ~(m <= m - 1) /\ m \in 1..Len(s)
      BY <2>2, <2>3, <1>0
    <3> HIDE DEF Bad
    <3> QED
      BY <2>1, <3>1
  <2>5. PICK g : g \in Upto(m - 1)
    <3> HIDE DEF Upto
    <3> QED
      BY <2>4
  <2>6. g \in [0..(m - 1) -> Nat] /\ g[0] = 0
        /\ \A n \in 1..(m - 1) : g[n] = g[n - 1] + Size[s[n]]
    BY <2>5
  <2> DEFINE f == [i \in 0..m |-> IF i = m THEN g[m - 1] + Size[s[m]] ELSE g[i]]
  <2>7. g[m - 1] + Size[s[m]] \in Nat
    BY <2>4, <2>6, <1>0
  <2>8. f \in [0..m -> Nat]
    BY <2>2, <2>6, <2>7
  <2>9. f[0] = 0
    BY <2>2, <2>3, <2>6
  <2>10. ASSUME NEW n \in 1..m PROVE f[n] = f[n - 1] + Size[s[n]]
    <3>1. CASE n = m
      <4>1. f[n] = g[m - 1] + Size[s[m]] /\ f[n - 1] = g[m - 1]
        BY <3>1, <2>2, <2>4
      <4> QED
        BY <4>1, <3>1
    <3>2. CASE n # m
      <4>1. n \in 1..(m - 1) /\ f[n] = g[n] /\ f[n - 1] = g[n - 1]
        BY <3>2, <2>2, <2>4
      <4> QED
        BY <4>1, <2>6
    <3> QED
      BY <3>1, <3>2
  <2>11. f \in Upto(m)
    <3> HIDE DEF f
    <3> QED
      BY <2>8, <2>9, <2>10
  <2> HIDE DEF f, Upto
  <2> QED
    BY <2>2, <2>11
<1>2. Upto(Len(s)) # {}
  <2> HIDE DEF Upto
  <2>1. Len(s) \notin Bad
    <3> HIDE DEF Bad
    <3> QED
      BY <1>1
  <2> QED
    BY <2>1, <1>0
<1> QED
  BY <1>2 DEF IsTotal

LEMMA TotalIsUnique ==
  ASSUME NEW s \in Seq(Files), NEW f, IsTotal(f, s), NEW g, IsTotal(g, s)
  PROVE  f = g
<1> DEFINE Bad == {m \in Nat : m <= Len(s) /\ f[m] # g[m]}
<1>0. Len(s) \in Nat
  BY LenProperties
<1>1. Bad = {}
  <2> SUFFICES ASSUME Bad # {} PROVE FALSE
    OBVIOUS
  <2>1. PICK m \in Bad : \A i \in Bad : m <= i
    <3>1. Bad \in SUBSET Nat
      OBVIOUS
    <3> HIDE DEF Bad
    <3> QED
      BY <3>1, LeastNat
  <2>2. m \in Nat /\ m <= Len(s) /\ f[m] # g[m]
    BY <2>1
  <2>3. m # 0
    BY <2>2 DEF IsTotal
  <2>4. m - 1 \in Nat /\ m - 1 <= Len(s) /\ ~(m <= m - 1) /\ m \in 1..Len(s)
    BY <2>2, <2>3, <1>0
  <2>5. m - 1 \notin Bad
    <3> HIDE DEF Bad
    <3> QED
      BY <2>1, <2>4
  <2>6. f[m - 1] = g[m - 1]
    BY <2>4, <2>5
  <2>7. f[m] = f[m - 1] + Size[s[m]] /\ g[m] = g[m - 1] + Size[s[m]]
    BY <2>4 DEF IsTotal
  <2> QED
    BY <2>2, <2>6, <2>7
<1>2. \A m \in 0..Len(s) : f[m] = g[m]
  <2> SUFFICES ASSUME NEW m \in 0..Len(s) PROVE f[m] = g[m]
    OBVIOUS
  <2>1. m \in Nat /\ m <= Len(s)
    BY <1>0
  <2>2. m \notin Bad
    <3> HIDE DEF Bad
    <3> QED
      BY <1>1
  <2> QED
    BY <2>1, <2>2
<1> QED
  BY <1>2 DEF IsTotal

(* The number of bytes is the last of any running totals.                  *)
LEMMA BytesAreTotal ==
  ASSUME NEW s \in Seq(Files), NEW f, IsTotal(f, s)
  PROVE  Bytes(s) = f[Len(s)] /\ Bytes(s) \in Nat
<1> DEFINE Fits(g) == g = [n \in 0..Len(s) |-> IF n = 0 THEN 0 ELSE g[n - 1] + Size[s[n]]]
           total == CHOOSE g : Fits(g)
<1>0. Len(s) \in Nat
  BY LenProperties
<1>1. Fits(f)
  <2>1. \A n \in 0..Len(s) : f[n] = IF n = 0 THEN 0 ELSE f[n - 1] + Size[s[n]]
    <3> SUFFICES ASSUME NEW n \in 0..Len(s)
                 PROVE  f[n] = IF n = 0 THEN 0 ELSE f[n - 1] + Size[s[n]]
      OBVIOUS
    <3>1. n = 0 \/ n \in 1..Len(s)
      BY <1>0
    <3> QED
      BY <3>1 DEF IsTotal
  <2> QED
    BY <2>1 DEF IsTotal
<1>2. Fits(total)
  <2> HIDE DEF Fits
  <2> QED
    BY <1>1
<1>3. Bytes(s) = total[Len(s)]
  BY DEF Bytes
<1> HIDE DEF total
<1>4. DOMAIN total = 0..Len(s) /\ total = [n \in 0..Len(s) |-> total[n]]
      /\ \A n \in 0..Len(s) : total[n] = IF n = 0 THEN 0 ELSE total[n - 1] + Size[s[n]]
  BY <1>2
<1> DEFINE Bad == {m \in Nat : m <= Len(s) /\ total[m] # f[m]}
<1>5. Bad = {}
  <2> SUFFICES ASSUME Bad # {} PROVE FALSE
    OBVIOUS
  <2>1. PICK m \in Bad : \A i \in Bad : m <= i
    <3>1. Bad \in SUBSET Nat
      OBVIOUS
    <3> HIDE DEF Bad
    <3> QED
      BY <3>1, LeastNat
  <2>2. m \in Nat /\ m <= Len(s) /\ total[m] # f[m]
    BY <2>1
  <2>3. m # 0
    <3>1. f[0] = 0 /\ 0 \in 0..Len(s)
      BY <1>0 DEF IsTotal
    <3> QED
      BY <1>4, <2>2, <3>1
  <2>4. m - 1 \in Nat /\ m - 1 <= Len(s) /\ ~(m <= m - 1) /\ m \in 1..Len(s) /\ m \in 0..Len(s)
    BY <2>2, <2>3, <1>0
  <2>5. m - 1 \notin Bad
    <3> HIDE DEF Bad
    <3> QED
      BY <2>1, <2>4
  <2>6. total[m - 1] = f[m - 1]
    BY <2>4, <2>5
  <2>7. f[m] = f[m - 1] + Size[s[m]]
    BY <2>4 DEF IsTotal
  <2>8. total[m] = total[m - 1] + Size[s[m]]
    BY <2>3, <2>4, <1>4
  <2> QED
    BY <2>2, <2>6, <2>7, <2>8
<1>6. total[Len(s)] = f[Len(s)]
  <2>1. Len(s) \notin Bad
    <3> HIDE DEF Bad
    <3> QED
      BY <1>5
  <2> QED
    BY <2>1, <1>0
<1>7. f[Len(s)] \in Nat
  BY <1>0 DEF IsTotal
<1> QED
  BY <1>3, <1>6, <1>7

(* The bytes of two rows of attachments add up.                            *)
LEMMA BytesAddUp ==
  ASSUME NEW s \in Seq(Files), NEW t \in Seq(Files)
  PROVE  /\ Bytes(s \o t) = Bytes(s) + Bytes(t)
         /\ Bytes(s) \in Nat /\ Bytes(t) \in Nat
<1>1. PICK f : IsTotal(f, s)
  BY TotalExists
<1>2. PICK g : IsTotal(g, t)
  BY TotalExists
<1>3. PICK u : u = s \o t
  OBVIOUS
<1>4. /\ u \in Seq(Files) /\ Len(u) = Len(s) + Len(t)
      /\ \A i \in 1..(Len(s) + Len(t)) : u[i] = IF i <= Len(s) THEN s[i] ELSE t[i - Len(s)]
  BY <1>3, ConcatProperties
<1>5. Len(s) \in Nat /\ Len(t) \in Nat /\ Len(u) \in Nat
  BY <1>4, LenProperties
<1> DEFINE h == [n \in 0..Len(u) |-> IF n <= Len(s) THEN f[n] ELSE f[Len(s)] + g[n - Len(s)]]
<1>6. /\ f \in [0..Len(s) -> Nat] /\ f[0] = 0
      /\ \A n \in 1..Len(s) : f[n] = f[n - 1] + Size[s[n]]
      /\ g \in [0..Len(t) -> Nat] /\ g[0] = 0
      /\ \A n \in 1..Len(t) : g[n] = g[n - 1] + Size[t[n]]
  BY <1>1, <1>2 DEF IsTotal
<1>7. h \in [0..Len(u) -> Nat]
  <2> SUFFICES ASSUME NEW n \in 0..Len(u)
               PROVE  (IF n <= Len(s) THEN f[n] ELSE f[Len(s)] + g[n - Len(s)]) \in Nat
    OBVIOUS
  <2>1. CASE n <= Len(s)
    <3>1. n \in 0..Len(s)
      BY <2>1, <1>5
    <3> QED
      BY <2>1, <3>1, <1>6
  <2>2. CASE ~(n <= Len(s))
    <3>1. n - Len(s) \in 0..Len(t) /\ Len(s) \in 0..Len(s)
      BY <2>2, <1>4, <1>5
    <3>2. f[Len(s)] \in Nat /\ g[n - Len(s)] \in Nat
      BY <3>1, <1>6
    <3> QED
      BY <2>2, <3>2
  <2> QED
    BY <2>1, <2>2
<1>8. h[0] = 0
  BY <1>5, <1>6
<1>9. ASSUME NEW n \in 1..Len(u) PROVE h[n] = h[n - 1] + Size[u[n]]
  <2>0. n \in 0..Len(u) /\ n - 1 \in 0..Len(u) /\ n \in 1..(Len(s) + Len(t)) /\ n \in Nat
    BY <1>4, <1>5
  <2>1. CASE n <= Len(s)
    <3>1. n \in 1..Len(s) /\ n - 1 <= Len(s)
      BY <2>0, <2>1, <1>5
    <3>2. h[n] = f[n] /\ h[n - 1] = f[n - 1] /\ u[n] = s[n]
      BY <3>1, <2>0, <2>1, <1>4
    <3> QED
      BY <3>1, <3>2, <1>6
  <2>2. CASE n = Len(s) + 1
    <3>1. ~(n <= Len(s)) /\ n - 1 = Len(s) /\ n - Len(s) = 1 /\ 1 \in 1..Len(t)
      BY <2>0, <2>2, <1>4, <1>5
    <3>2. h[n] = f[Len(s)] + g[1] /\ h[n - 1] = f[Len(s)] /\ u[n] = t[1]
      BY <3>1, <2>0, <1>4, <1>5
    <3>3. g[1] = g[0] + Size[t[1]]
      BY <3>1, <1>6
    <3>4. Size[t[1]] \in Nat
      BY <3>1, LenProperties, SizeOfFile
    <3>5. g[1] = Size[t[1]]
      BY <3>3, <3>4, <1>6
    <3> QED
      BY <3>2, <3>5
  <2>3. CASE n > Len(s) + 1
    <3>1. ~(n <= Len(s)) /\ ~(n - 1 <= Len(s)) /\ n - Len(s) \in 1..Len(t)
          /\ (n - 1) - Len(s) = (n - Len(s)) - 1
      BY <2>0, <2>3, <1>4, <1>5
    <3>2. h[n] = f[Len(s)] + g[n - Len(s)] /\ u[n] = t[n - Len(s)]
      BY <3>1, <2>0, <1>4
    <3>3. h[n - 1] = f[Len(s)] + g[(n - Len(s)) - 1]
      BY <3>1, <2>0
    <3>4. g[n - Len(s)] = g[(n - Len(s)) - 1] + Size[t[n - Len(s)]]
      BY <3>1, <1>6
    <3>5. f[Len(s)] \in Nat /\ g[(n - Len(s)) - 1] \in Nat /\ Size[t[n - Len(s)]] \in Nat
      <4>1. Len(s) \in 0..Len(s) /\ (n - Len(s)) - 1 \in 0..Len(t)
        BY <3>1, <1>5
      <4>2. t[n - Len(s)] \in Files
        BY <3>1, LenProperties
      <4> QED
        BY <4>1, <4>2, <1>6, SizeOfFile
    <3> DEFINE p == f[Len(s)]  q == g[(n - Len(s)) - 1]  r == Size[t[n - Len(s)]]
    <3>6. h[n] = p + (q + r) /\ h[n - 1] = p + q /\ Size[u[n]] = r
      BY <3>2, <3>3, <3>4
    <3>7. p \in Nat /\ q \in Nat /\ r \in Nat
      BY <3>5
    <3> HIDE DEF p, q, r
    <3> QED
      BY <3>6, <3>7
  <2>4. n <= Len(s) \/ n = Len(s) + 1 \/ n > Len(s) + 1
    BY <2>0, <1>5
  <2> QED
    BY <2>1, <2>2, <2>3, <2>4
<1>10. h[Len(u)] = f[Len(s)] + g[Len(t)]
  <2>1. Len(u) \in 0..Len(u)
    BY <1>5
  <2>2. CASE Len(t) = 0
    <3>1. Len(u) <= Len(s) /\ Len(u) = Len(s)
      BY <2>2, <1>4, <1>5
    <3>2. g[Len(t)] = 0 /\ f[Len(s)] \in Nat
      <4>1. Len(s) \in 0..Len(s)
        BY <1>5
      <4> QED
        BY <4>1, <2>2, <1>6
    <3> QED
      BY <2>1, <3>1, <3>2
  <2>3. CASE Len(t) # 0
    <3>1. ~(Len(u) <= Len(s)) /\ Len(u) - Len(s) = Len(t)
      BY <2>3, <1>4, <1>5
    <3> QED
      BY <2>1, <3>1
  <2> QED
    BY <2>2, <2>3
<1>11. IsTotal(h, u)
  <2> HIDE DEF h
  <2> QED
    BY <1>7, <1>8, <1>9 DEF IsTotal
<1> HIDE DEF h
<1>12. Bytes(u) = h[Len(u)]
  BY <1>4, <1>11, BytesAreTotal
<1>13. /\ Bytes(s) = f[Len(s)] /\ Bytes(s) \in Nat
       /\ Bytes(t) = g[Len(t)] /\ Bytes(t) \in Nat
  BY <1>1, <1>2, BytesAreTotal
<1> QED
  BY <1>3, <1>10, <1>12, <1>13

(* Attachments within the limits of an envelope.                           *)
Fit(s) ==
  /\ s \in Seq(Files) /\ Len(s) <= MaxAttachments /\ Distinct(s)
  /\ Bytes(s) <= MaxAttachmentTotalBytes

LEMMA NothingFits == Fit(<<>>)
<1> DEFINE f == [n \in 0..0 |-> 0]
<1>1. <<>> \in Seq(Files) /\ Len(<<>>) = 0
  OBVIOUS
<1>2. IsTotal(f, <<>>)
  BY <1>1 DEF IsTotal
<1>3. f[0] = 0
  OBVIOUS
<1> HIDE DEF f
<1>4. Bytes(<<>>) = 0
  BY <1>1, <1>2, <1>3, BytesAreTotal
<1>5. Distinct(<<>>)
  BY DEF Distinct
<1> QED
  BY <1>1, <1>4, <1>5, WorkspaceAssumption DEF Fit

LEMMA WithoutPlaces ==
  ASSUME NEW S, NEW s \in Seq(S), NEW i \in 1..Len(s)
  PROVE  /\ H!Without(s, i) \in Seq(S) /\ Len(H!Without(s, i)) = Len(s) - 1
         /\ \A j \in 1..(Len(s) - 1) :
              H!Without(s, i)[j] = IF j < i THEN s[j] ELSE s[j + 1]
<1>0. Len(s) \in Nat /\ i \in Nat /\ i >= 1 /\ i <= Len(s)
  BY LenProperties
<1>1. PICK a : a = SubSeq(s, 1, i - 1)
  OBVIOUS
<1>2. PICK b : b = SubSeq(s, i + 1, Len(s))
  OBVIOUS
<1>3. a \in Seq(S) /\ Len(a) = i - 1 /\ \A j \in 1..(i - 1) : a[j] = s[j]
  <2> DEFINE k == i - 1
  <2>1. k \in Nat /\ k <= Len(s)
    BY <1>0
  <2> HIDE DEF k
  <2>2. Len(SubSeq(s, 1, k)) = (IF 1 <= k THEN k - 1 + 1 ELSE 0)
        /\ SubSeq(s, 1, k) \in Seq(S)
        /\ \A j \in 1..(k - 1 + 1) : SubSeq(s, 1, k)[j] = s[1 + j - 1]
    BY <2>1, <1>0
  <2>3. SubSeq(s, 1, k) \in Seq(S) /\ Len(SubSeq(s, 1, k)) = k
        /\ \A j \in 1..k : SubSeq(s, 1, k)[j] = s[j]
    BY <2>1, <2>2
  <2> QED
    BY <2>3, <1>1 DEF k
<1>4. b \in Seq(S) /\ Len(b) = Len(s) - i /\ \A j \in 1..(Len(s) - i) : b[j] = s[i + j]
  <2>1. CASE i = Len(s)
    <3>1. SubSeq(s, i + 1, Len(s)) = <<>>
      BY <2>1, <1>0, SubSeqEmpty
    <3> QED
      BY <2>1, <3>1, <1>0, <1>2, EmptySeq
  <2>2. CASE i # Len(s)
    <3>1. i + 1 \in 1..(Len(s) + 1) /\ Len(s) \in (i + 1)..Len(s)
      BY <2>2, <1>0
    <3>2. SubSeq(s, i + 1, Len(s)) \in Seq(S)
          /\ Len(SubSeq(s, i + 1, Len(s))) = Len(s) - (i + 1) + 1
          /\ \A j \in 1..(Len(s) - (i + 1) + 1) :
               SubSeq(s, i + 1, Len(s))[j] = s[(i + 1) + j - 1]
      BY <2>2, <3>1, <1>0, SubSeqProperties
    <3>3. \A j \in 1..(Len(s) - i) : (i + 1) + j - 1 = i + j /\ j \in 1..(Len(s) - (i + 1) + 1)
      BY <1>0
    <3> QED
      BY <3>2, <3>3, <1>0, <1>2
  <2> QED
    BY <2>1, <2>2
<1>5. /\ a \o b \in Seq(S) /\ Len(a \o b) = (i - 1) + (Len(s) - i)
      /\ \A j \in 1..(Len(a) + Len(b)) :
           (a \o b)[j] = IF j <= Len(a) THEN a[j] ELSE b[j - Len(a)]
  <2>1. a \in Seq(S) /\ b \in Seq(S)
    BY <1>3, <1>4
  <2>2. /\ a \o b \in Seq(S) /\ Len(a \o b) = Len(a) + Len(b)
        /\ \A j \in 1..(Len(a) + Len(b)) :
             (a \o b)[j] = IF j <= Len(a) THEN a[j] ELSE b[j - Len(a)]
    BY <2>1, ConcatProperties
  <2> QED
    BY <2>2, <1>3, <1>4
<1>6. H!Without(s, i) = a \o b
  BY <1>1, <1>2 DEF H!Without
<1>7. \A j \in 1..(Len(s) - 1) : (a \o b)[j] = IF j < i THEN s[j] ELSE s[j + 1]
  <2> SUFFICES ASSUME NEW j \in 1..(Len(s) - 1)
               PROVE  (a \o b)[j] = IF j < i THEN s[j] ELSE s[j + 1]
    OBVIOUS
  <2>1. (a \o b)[j] = IF j <= i - 1 THEN a[j] ELSE b[j - (i - 1)]
    BY <1>0, <1>3, <1>4, <1>5
  <2>2. CASE j < i
    BY <2>1, <2>2, <1>0, <1>3
  <2>3. CASE ~(j < i)
    <3>1. j - (i - 1) \in 1..(Len(s) - i) /\ i + (j - (i - 1)) = j + 1 /\ ~(j <= i - 1)
      BY <2>3, <1>0
    <3> QED
      BY <2>1, <2>3, <3>1, <1>4
  <2> QED
    BY <2>2, <2>3
<1> QED
  BY <1>0, <1>5, <1>6, <1>7

LEMMA FewerFit ==
  ASSUME NEW s, Fit(s), NEW i \in DOMAIN s PROVE Fit(H!Without(s, i))
<1>1. s \in Seq(Files) /\ Len(s) \in Nat /\ DOMAIN s = 1..Len(s) /\ i \in 1..Len(s)
      /\ Len(s) <= MaxAttachments /\ Bytes(s) <= MaxAttachmentTotalBytes
  BY LenProperties DEF Fit
<1> DEFINE u == H!Without(s, i)
<1>2. /\ u \in Seq(Files) /\ Len(u) = Len(s) - 1
      /\ \A j \in 1..(Len(s) - 1) : u[j] = IF j < i THEN s[j] ELSE s[j + 1]
  BY <1>1, WithoutPlaces
<1>3. DOMAIN u = 1..(Len(s) - 1)
  <2> HIDE DEF u
  <2> QED
    BY <1>2, LenProperties
<1>4. Distinct(u)
  <2> HIDE DEF u
  <2> SUFFICES ASSUME NEW j \in DOMAIN u, NEW k \in DOMAIN u, u[j] = u[k] PROVE j = k
    BY DEF Distinct
  <2>1. \A m, n \in 1..Len(s) : s[m] = s[n] => m = n
    BY <1>1 DEF Fit, Distinct
  <2>2. j \in 1..(Len(s) - 1) /\ k \in 1..(Len(s) - 1)
    BY <1>3
  <2>3. /\ u[j] = IF j < i THEN s[j] ELSE s[j + 1]
        /\ u[k] = IF k < i THEN s[k] ELSE s[k + 1]
    BY <1>2, <2>2
  <2>4. j \in 1..Len(s) /\ j + 1 \in 1..Len(s) /\ k \in 1..Len(s) /\ k + 1 \in 1..Len(s)
    BY <2>2, <1>1
  <2>5. CASE j < i /\ k < i
    BY <2>1, <2>3, <2>4, <2>5
  <2>6. CASE ~(j < i) /\ ~(k < i)
    <3>1. j + 1 = k + 1
      BY <2>1, <2>3, <2>4, <2>6
    <3> QED
      BY <3>1, <2>2, <1>1
  <2>7. CASE j < i /\ ~(k < i)
    <3>1. j = k + 1
      BY <2>1, <2>3, <2>4, <2>7
    <3> QED
      BY <3>1, <2>2, <2>7, <1>1
  <2>8. CASE ~(j < i) /\ k < i
    <3>1. j + 1 = k
      BY <2>1, <2>3, <2>4, <2>8
    <3> QED
      BY <3>1, <2>2, <2>8, <1>1
  <2> QED
    BY <2>5, <2>6, <2>7, <2>8
<1>5. PICK a : a = SubSeq(s, 1, i - 1)
  OBVIOUS
<1>6. PICK b : b = SubSeq(s, i + 1, Len(s))
  OBVIOUS
<1>7. PICK c : c = SubSeq(s, i, Len(s))
  OBVIOUS
<1>8. PICK x : x = SubSeq(s, i, i)
  OBVIOUS
<1>9. a \in Seq(Files) /\ b \in Seq(Files) /\ c \in Seq(Files) /\ x \in Seq(Files)
  <2> DEFINE k == i - 1
           l == i + 1
  <2>1. i \in 1..Len(s) /\ k \in 0..Len(s) /\ l \in Nat /\ 1 <= l
    BY <1>1
  <2> HIDE DEF k, l
  <2>2. SubSeq(s, 1, k) \in Seq(Files) /\ SubSeq(s, i, i) \in Seq(Files)
        /\ SubSeq(s, i, Len(s)) \in Seq(Files)
    BY <1>1, <2>1
  <2>3. SubSeq(s, l, Len(s)) \in Seq(Files)
    BY <1>1, <2>1
  <2> QED
    BY <2>2, <2>3, <1>5, <1>6, <1>7, <1>8 DEF k, l
<1>10. s = a \o c
  <2>1. s = SubSeq(s, 1, Len(s))
    BY <1>1, SubSeqFull
  <2>2. SubSeq(s, 1, i - 1) \o SubSeq(s, (i - 1) + 1, Len(s)) = SubSeq(s, 1, Len(s))
    <3>1. 1 \in 1..(Len(s) + 1) /\ i - 1 \in (1 - 1)..Len(s) /\ Len(s) \in (i - 1)..Len(s)
      BY <1>1
    <3> QED
      BY <1>1, <3>1, ConcatAdjacentSubSeq
  <2>3. (i - 1) + 1 = i
    BY <1>1
  <2> QED
    BY <2>1, <2>2, <2>3, <1>5, <1>7
<1>11. c = x \o b
  <2>1. i \in 1..(Len(s) + 1) /\ i \in (i - 1)..Len(s) /\ Len(s) \in i..Len(s)
    BY <1>1
  <2>2. SubSeq(s, i, i) \o SubSeq(s, i + 1, Len(s)) = SubSeq(s, i, Len(s))
    BY <1>1, <2>1, ConcatAdjacentSubSeq
  <2> QED
    BY <2>2, <1>6, <1>7, <1>8
<1>12. u = a \o b
  BY <1>5, <1>6 DEF H!Without
<1>13. Bytes(s) = Bytes(a) + Bytes(c) /\ Bytes(c) = Bytes(x) + Bytes(b)
       /\ Bytes(u) = Bytes(a) + Bytes(b) /\ Bytes(a) \in Nat /\ Bytes(b) \in Nat
       /\ Bytes(x) \in Nat /\ Bytes(c) \in Nat
  <2>1. Bytes(a \o c) = Bytes(a) + Bytes(c) /\ Bytes(a) \in Nat /\ Bytes(c) \in Nat
    BY <1>9, BytesAddUp
  <2>2. Bytes(x \o b) = Bytes(x) + Bytes(b) /\ Bytes(x) \in Nat /\ Bytes(b) \in Nat
    BY <1>9, BytesAddUp
  <2>3. Bytes(a \o b) = Bytes(a) + Bytes(b)
    BY <1>9, BytesAddUp
  <2> HIDE DEF u
  <2> QED
    BY <2>1, <2>2, <2>3, <1>10, <1>11, <1>12
<1>14. Bytes(u) <= MaxAttachmentTotalBytes /\ Len(u) <= MaxAttachments
  <2> DEFINE all == Bytes(s)  left == Bytes(u)  m == Bytes(a)  n == Bytes(b)  o == Bytes(x)
  <2>1. all = m + (o + n) /\ left = m + n /\ m \in Nat /\ n \in Nat /\ o \in Nat
    BY <1>13
  <2>2. all <= MaxAttachmentTotalBytes /\ MaxAttachmentTotalBytes \in Nat
    BY <1>1, WorkspaceAssumption
  <2> HIDE DEF all, left, m, n, o
  <2>3. left <= MaxAttachmentTotalBytes
    BY <2>1, <2>2
  <2>4. Len(u) <= MaxAttachments
    BY <1>1, <1>2, WorkspaceAssumption
  <2> QED
    BY <2>3, <2>4 DEF left
<1> HIDE DEF u
<1> QED
  BY <1>2, <1>4, <1>14 DEF Fit, u

LEMMA MoreFit ==
  ASSUME NEW s, Fit(s), NEW t \in Seq(Files), WithinLimits(s, t)
  PROVE  Fit(s \o t)
<1>1. s \in Seq(Files) /\ Len(s) \in Nat /\ DOMAIN s = 1..Len(s)
      /\ Len(t) \in Nat /\ DOMAIN t = 1..Len(t)
  BY LenProperties DEF Fit
<1>2. Len(s \o t) <= MaxAttachments /\ Bytes(s) + Bytes(t) <= MaxAttachmentTotalBytes
      /\ Distinct(s) /\ Distinct(t) /\ FilesOf(s) \cap FilesOf(t) = {}
  BY DEF WithinLimits, Fit
<1>3. PICK u : u = s \o t
  OBVIOUS
<1>4. /\ u \in Seq(Files) /\ Len(u) = Len(s) + Len(t)
      /\ \A i \in 1..(Len(s) + Len(t)) : u[i] = IF i <= Len(s) THEN s[i] ELSE t[i - Len(s)]
  BY <1>1, <1>3, ConcatProperties
<1>5. DOMAIN u = 1..(Len(s) + Len(t))
  BY <1>4, LenProperties
<1>6. Bytes(u) = Bytes(s) + Bytes(t)
  BY <1>1, <1>3, BytesAddUp
<1>7. \A i \in 1..Len(s), j \in 1..Len(t) : s[i] # t[j]
  BY <1>1, <1>2 DEF FilesOf
<1>8. Distinct(u)
  <2> SUFFICES ASSUME NEW i \in DOMAIN u, NEW j \in DOMAIN u, u[i] = u[j] PROVE i = j
    BY DEF Distinct
  <2>0. i \in 1..(Len(s) + Len(t)) /\ j \in 1..(Len(s) + Len(t))
    BY <1>5
  <2>1. /\ u[i] = IF i <= Len(s) THEN s[i] ELSE t[i - Len(s)]
        /\ u[j] = IF j <= Len(s) THEN s[j] ELSE t[j - Len(s)]
    BY <1>4, <2>0
  <2>2. /\ i <= Len(s) => i \in 1..Len(s)
        /\ j <= Len(s) => j \in 1..Len(s)
        /\ ~(i <= Len(s)) => i - Len(s) \in 1..Len(t)
        /\ ~(j <= Len(s)) => j - Len(s) \in 1..Len(t)
    BY <2>0, <1>1
  <2>3. /\ \A m, n \in 1..Len(s) : s[m] = s[n] => m = n
        /\ \A m, n \in 1..Len(t) : t[m] = t[n] => m = n
    BY <1>1, <1>2 DEF Distinct
  <2>4. CASE i <= Len(s) /\ j <= Len(s)
    BY <2>1, <2>2, <2>3, <2>4
  <2>5. CASE ~(i <= Len(s)) /\ ~(j <= Len(s))
    <3>1. i - Len(s) = j - Len(s)
      BY <2>1, <2>2, <2>3, <2>5
    <3> QED
      BY <3>1, <2>0, <1>1
  <2>6. CASE i <= Len(s) /\ ~(j <= Len(s))
    BY <2>1, <2>2, <2>6, <1>7
  <2>7. CASE ~(i <= Len(s)) /\ j <= Len(s)
    BY <2>1, <2>2, <2>7, <1>7
  <2> QED
    BY <2>4, <2>5, <2>6, <2>7
<1> QED
  BY <1>2, <1>3, <1>4, <1>6, <1>8 DEF Fit

-----------------------------------------------------------------------------
(* What an envelope holds, and what can be taken back.                     *)

Good == {v \in Snapshots : Fit(v.attachments)}
Edits == [past : Seq(Good), future : Seq(Good)]

EnvelopesInv ==
  /\ envelopes \in [Envelopes -> Good] /\ edits \in [Envelopes -> Edits]
  /\ EditsAreBounded

(* The histories are such that the next call accepts them, and a reviewed  *)
(* restore is one that its history allows.                                 *)
VersionsInv ==
  /\ DOMAIN versions = Envelopes
  /\ \A e \in Envelopes : IsHistory(versions[e], Documents)
  /\ pendingRestore # None =>
       /\ pendingRestore.envelope \in Envelopes /\ pendingRestore.document \in Documents
       /\ IsHistory(pendingRestore.history, Documents)
       /\ H!CanRestore(pendingRestore.history, pendingRestore.document,
                       pendingRestore.number)

SessionInv ==
  /\ selected \in Envelopes /\ sessionEnded \in BOOLEAN
  /\ revision \in 1..MaxSessions /\ requests \in Nat

Imports == [requestId : Nat, source : Sources]
Staged == [requestId : Nat, candidates : Seq(Files)]

(* What is under review was asked for before; only one operation is under  *)
(* way, for an envelope that has nothing under review, and what it will    *)
(* put there no approval has been begun for.                               *)
PendingInv ==
  /\ pendingImports \in [Envelopes -> Imports \cup {None}]
  /\ pendingAttachments \in [Envelopes -> Staged \cup {None}]
  /\ \A e \in Envelopes : pendingImports[e] # None =>
       /\ pendingImports[e].requestId <= requests
       /\ fileOperation # None => pendingImports[e].requestId < requests

OperationInv == fileOperation # None =>
  /\ fileOperation \in awaited /\ fileOperation.kind # "approval" /\ ~sessionEnded
  /\ fileOperation.requestId = requests /\ fileOperation.revision = revision
  /\ pendingImports[fileOperation.envelope] = None
  /\ pendingAttachments[fileOperation.envelope] = None

(* An approval under way is of the source that is still under review under *)
(* its number, if any is.                                                  *)
AwaitedInv == \A op \in awaited :
  /\ op.envelope \in Envelopes /\ op.requestId \in Nat
  /\ op.revision \in Nat /\ op.revision <= revision
  /\ op.kind = "approval" =>
       /\ op.source \in Sources
       /\ op.revision = revision =>
            /\ op.requestId <= requests
            /\ fileOperation # None => op.requestId < requests
            /\ pendingImports[op.envelope] # None
               /\ pendingImports[op.envelope].requestId = op.requestId
               => pendingImports[op.envelope].source = op.source

ApprovingInv == approving # None =>
  \E op \in awaited : /\ op.kind = "approval" /\ op.revision = revision
                      /\ approving = [requestId |-> op.requestId]

ReviewsInv == PendingInv /\ OperationInv /\ AwaitedInv /\ ApprovingInv

(* Where nothing guards the work, there is none.                           *)
WorkInv ==
  /\ sessionWork \in BOOLEAN
  /\ ~sessionWork => /\ envelopes = DemoEnvelopes /\ edits = NoEdits
                     /\ versions = NoVersions
                     /\ pendingImports = NoReviews /\ pendingAttachments = NoReviews

Inv == EnvelopesInv /\ VersionsInv /\ SessionInv /\ ReviewsInv /\ WorkInv

LEMMA CanonicalTitles ==
  \A t \in DOMAIN Canonical :
    t \in Titles /\ Canonical[t] \in Titles /\ Canonical[t] \in DOMAIN Canonical
    /\ Canonical[Canonical[t]] = Canonical[t]
BY WorkspaceAssumption

LEMMA DocumentsAreDrafts == Documents \subseteq Drafts
BY CanonicalTitles DEF Documents, Drafts

LEMMA DocumentOfDraft ==
  ASSUME NEW d \in Drafts, HasDocument(d) PROVE Document(d) \in Documents
<1>1. d.title \in DOMAIN Canonical /\ d.recipient \in Recipients /\ d.markdown \in Markdowns
  BY DEF Drafts, HasDocument
<1>2. Document(d) = [title |-> Canonical[d.title], recipient |-> d.recipient,
                     markdown |-> d.markdown]
  BY DEF Document, Drafts
<1> QED
  BY <1>1, <1>2 DEF Documents

(* An envelope put together from good parts.                               *)
LEMMA GoodParts ==
  ASSUME NEW d \in Drafts, NEW s \in Sources \cup {None}, NEW a, Fit(a)
  PROVE  [draft |-> d, source |-> s, attachments |-> a] \in Good
<1>1. a \in Seq(Files)
  BY DEF Fit
<1> QED
  BY <1>1 DEF Good, Snapshots

LEMMA PartsOfGood ==
  ASSUME NEW v \in Good
  PROVE  /\ v = [draft |-> v.draft, source |-> v.source, attachments |-> v.attachments]
         /\ v.draft \in Drafts /\ v.source \in Sources \cup {None} /\ Fit(v.attachments)
         /\ v.draft = [title |-> v.draft.title, recipient |-> v.draft.recipient,
                       markdown |-> v.draft.markdown]
         /\ v.draft.title \in Titles /\ v.draft.recipient \in Recipients
         /\ v.draft.markdown \in Markdowns
BY DEF Good, Snapshots, Drafts

LEMMA DemoIsGood ==
  /\ DemoEnvelopes \in [Envelopes -> Good] /\ NoEdits \in [Envelopes -> Edits]
<1>1. \A e \in Envelopes : Baseline(DemoDrafts[e]) \in Good
  <2> SUFFICES ASSUME NEW e \in Envelopes PROVE Baseline(DemoDrafts[e]) \in Good
    OBVIOUS
  <2>1. DemoDrafts[e] \in Drafts
    BY WorkspaceAssumption DEF Drafts
  <2> QED
    BY <2>1, NothingFits, GoodParts DEF Baseline
<1>2. <<>> \in Seq(Good)
  BY EmptySeq
<1> QED
  BY <1>1, <1>2 DEF DemoEnvelopes, NoEdits, Edits

-----------------------------------------------------------------------------
(* Edits.                                                                  *)

LEMMA LastOfPlaces ==
  ASSUME NEW S, NEW s \in Seq(S), s # <<>>, NEW n \in Nat \ {0}
  PROVE  /\ LastOf(s, n) \in Seq(S) /\ Len(LastOf(s, n)) <= n
         /\ LastOf(s, n) # <<>> /\ LastOf(s, n)[Len(LastOf(s, n))] = s[Len(s)]
<1>1. Len(s) \in Nat \ {0}
  BY EmptySeq
<1>2. CASE Len(s) <= n
  BY <1>1, <1>2 DEF LastOf
<1>3. CASE ~(Len(s) <= n)
  <2> DEFINE k == Len(s) - n + 1
             u == SubSeq(s, k, Len(s))
  <2>1. LastOf(s, n) = u
    BY <1>3 DEF LastOf
  <2>2. k \in Nat /\ 1 <= k /\ k <= Len(s) /\ Len(s) - k + 1 = n /\ k + n - 1 = Len(s)
    BY <1>1, <1>3
  <2>3. /\ u \in Seq(S) /\ Len(u) = (IF k <= Len(s) THEN Len(s) - k + 1 ELSE 0)
        /\ \A i \in 1..(Len(s) - k + 1) : u[i] = s[k + i - 1]
    <3> HIDE DEF k
    <3>1. \A i \in k..Len(s) : s[i] \in S
      <4> SUFFICES ASSUME NEW i \in k..Len(s) PROVE s[i] \in S
        OBVIOUS
      <4>1. i \in 1..Len(s)
        BY <2>2, <1>1
      <4> QED
        BY <4>1, ElementOfSeq
    <3> QED
      BY <3>1, <2>2, <1>1, SubSeqProperties
  <2> HIDE DEF u, k
  <2>4. Len(u) = n /\ n \in 1..n
    BY <2>2, <2>3
  <2>5. u[n] = s[Len(s)]
    BY <2>2, <2>3, <2>4
  <2>6. u # <<>>
    BY <2>3, <2>4, EmptySeq
  <2> QED
    BY <2>1, <2>3, <2>4, <2>5, <2>6
<1> QED
  BY <1>2, <1>3

LEMMA RecordKeeps ==
  ASSUME EnvelopesInv, NEW e \in Envelopes
  PROVE  /\ Record(e) \in Edits
         /\ Len(Record(e).past) + Len(Record(e).future) <= MaxUndoSteps
         /\ Record(e).past # <<>>
         /\ Record(e).past[Len(Record(e).past)] = envelopes[e]
<1> DEFINE h == edits[e].past
           s == Append(h, envelopes[e])
           p == LastOf(s, MaxUndoSteps)
<1>1. h \in Seq(Good) /\ envelopes[e] \in Good /\ MaxUndoSteps \in Nat \ {0}
  BY WorkspaceAssumption DEF EnvelopesInv, Edits
<1>2. s \in Seq(Good) /\ Len(s) = Len(h) + 1 /\ s[Len(h) + 1] = envelopes[e] /\ Len(h) \in Nat
  <2> HIDE DEF h
  <2> QED
    BY <1>1, AppendProperties, LenProperties
<1> HIDE DEF s
<1>3. s # <<>>
  BY <1>2, EmptySeq
<1>4. p \in Seq(Good) /\ Len(p) <= MaxUndoSteps /\ p # <<>> /\ p[Len(p)] = s[Len(s)]
  BY <1>1, <1>2, <1>3, LastOfPlaces
<1>5. Record(e) = [past |-> p, future |-> <<>>]
  BY DEF Record, s
<1>6. <<>> \in Seq(Good) /\ Len(<<>>) = 0
  OBVIOUS
<1> HIDE DEF p
<1>7. Len(p) \in Nat
  BY <1>4, LenProperties
<1>8. Record(e) \in Edits
  BY <1>4, <1>5, <1>6 DEF Edits
<1>9. Record(e).past = p /\ Record(e).future = <<>>
  BY <1>5
<1> QED
  BY <1>1, <1>2, <1>4, <1>6, <1>7, <1>8, <1>9

(* One envelope is given new content, and the edits that take it back.     *)
Swaps(e, v, h) ==
  /\ envelopes' = [envelopes EXCEPT ![e] = v] /\ edits' = [edits EXCEPT ![e] = h]
  /\ e \in Envelopes /\ v \in Good /\ h \in Edits
  /\ Len(h.past) + Len(h.future) <= MaxUndoSteps
  /\ \/ h.past # <<>> /\ h.past[Len(h.past)] = envelopes[e]
     \/ h.future # <<>> /\ Head(h.future) = envelopes[e]

ContentStep ==
  \/ UNCHANGED <<envelopes, edits>>
  \/ \E e \in Envelopes, v \in Good, h \in Edits : Swaps(e, v, h)
  \/ envelopes' = DemoEnvelopes /\ edits' = NoEdits /\ revision' # revision

LEMMA UpdateSwaps ==
  ASSUME EnvelopesInv, NEW e \in Envelopes, NEW v \in Good, UpdateEnvelope(e, v)
  PROVE  ContentStep
<1>1. envelopes' = [envelopes EXCEPT ![e] = v] /\ edits' = [edits EXCEPT ![e] = Record(e)]
  BY DEF UpdateEnvelope
<1>2. Swaps(e, v, Record(e)) /\ Record(e) \in Edits
  BY <1>1, RecordKeeps DEF Swaps
<1> QED
  BY <1>2 DEF ContentStep

LEMMA UndoSwaps ==
  ASSUME EnvelopesInv, SessionInv, UndoEdit PROVE ContentStep
<1> DEFINE e == selected
           h == edits[e]
           p == SubSeq(h.past, 1, Len(h.past) - 1)
           f == <<envelopes[e]>> \o h.future
           v == h.past[Len(h.past)]
<1>1. e \in Envelopes
  BY DEF SessionInv
<1>2. /\ h.past \in Seq(Good) /\ h.future \in Seq(Good) /\ envelopes[e] \in Good
      /\ Len(h.past) + Len(h.future) <= MaxUndoSteps /\ h.past # <<>>
  BY <1>1 DEF EnvelopesInv, EditsAreBounded, Edits, UndoEdit
<1>3. /\ envelopes' = [envelopes EXCEPT ![e] = v]
      /\ edits' = [edits EXCEPT ![e] = [past |-> p, future |-> f]]
  BY DEF UndoEdit
<1>4. Len(h.past) \in Nat \ {0} /\ Len(h.future) \in Nat
  BY <1>2, EmptySeq, LenProperties
<1>5. v \in Good
  BY <1>2, <1>4, ElementOfSeq
<1>6. p \in Seq(Good) /\ Len(p) = Len(h.past) - 1
  <2> DEFINE k == Len(h.past) - 1
  <2>1. k \in Nat /\ k <= Len(h.past)
    BY <1>4
  <2> HIDE DEF k
  <2>2. Len(SubSeq(h.past, 1, k)) = (IF 1 <= k THEN k - 1 + 1 ELSE 0)
        /\ SubSeq(h.past, 1, k) \in Seq(Good)
    BY <2>1, <1>2
  <2>3. SubSeq(h.past, 1, k) \in Seq(Good) /\ Len(SubSeq(h.past, 1, k)) = k
    BY <2>1, <2>2
  <2> QED
    BY <2>3 DEF k
<1>7. f \in Seq(Good) /\ Len(f) = Len(h.future) + 1 /\ f[1] = envelopes[e]
  <2> HIDE DEF h
  <2> QED
    BY <1>2, InFront
<1>8. f # <<>> /\ Head(f) = envelopes[e]
  <2> HIDE DEF f
  <2>1. f # <<>>
    BY <1>4, <1>7, EmptySeq
  <2> QED
    BY <2>1, <1>7
<1> HIDE DEF p, f, v
<1>9. Len(p) + Len(f) <= MaxUndoSteps
  <2>1. MaxUndoSteps \in Nat
    BY WorkspaceAssumption
  <2>2. Len(h.past) + Len(h.future) <= MaxUndoSteps
    BY <1>2
  <2>3. Len(h.past) \in Nat /\ Len(h.future) \in Nat
    BY <1>4
  <2>4. Len(p) = Len(h.past) - 1 /\ Len(f) = Len(h.future) + 1
    BY <1>6, <1>7
  <2>5. PICK a \in Nat, b \in Nat : a = Len(h.past) /\ b = Len(h.future)
    BY <2>3
  <2>6. a + b <= MaxUndoSteps /\ Len(p) = a - 1 /\ Len(f) = b + 1
    BY <2>2, <2>4, <2>5
  <2> QED
    BY <2>1, <2>6
<1>10. [past |-> p, future |-> f] \in Edits
  BY <1>6, <1>7 DEF Edits
<1>11. Swaps(e, v, [past |-> p, future |-> f])
  BY <1>1, <1>3, <1>5, <1>8, <1>9, <1>10 DEF Swaps
<1> QED
  BY <1>1, <1>5, <1>10, <1>11 DEF ContentStep

LEMMA RedoSwaps ==
  ASSUME EnvelopesInv, SessionInv, RedoEdit PROVE ContentStep
<1> DEFINE e == selected
           h == edits[e]
           p == Append(h.past, envelopes[e])
           f == Tail(h.future)
           v == Head(h.future)
<1>1. e \in Envelopes
  BY DEF SessionInv
<1>2. /\ h.past \in Seq(Good) /\ h.future \in Seq(Good) /\ envelopes[e] \in Good
      /\ Len(h.past) + Len(h.future) <= MaxUndoSteps /\ h.future # <<>>
  BY <1>1 DEF EnvelopesInv, EditsAreBounded, Edits, RedoEdit
<1>3. /\ envelopes' = [envelopes EXCEPT ![e] = v]
      /\ edits' = [edits EXCEPT ![e] = [past |-> p, future |-> f]]
  BY DEF RedoEdit
<1>4. Len(h.past) \in Nat /\ Len(h.future) \in Nat \ {0}
  BY <1>2, EmptySeq, LenProperties
<1> HIDE DEF h
<1>5. v \in Good /\ f \in Seq(Good) /\ Len(f) = Len(h.future) - 1
  BY <1>2, HeadTailProperties
<1>6. p \in Seq(Good) /\ Len(p) = Len(h.past) + 1 /\ p[Len(h.past) + 1] = envelopes[e]
  BY <1>2, AppendProperties
<1> HIDE DEF p, f, v
<1>7. p # <<>> /\ p[Len(p)] = envelopes[e]
  BY <1>4, <1>6, EmptySeq
<1>8. Len(p) + Len(f) <= MaxUndoSteps
  <2>1. MaxUndoSteps \in Nat
    BY WorkspaceAssumption
  <2>2. Len(h.past) + Len(h.future) <= MaxUndoSteps
    BY <1>2
  <2>3. Len(h.past) \in Nat /\ Len(h.future) \in Nat
    BY <1>4
  <2>4. Len(p) = Len(h.past) + 1 /\ Len(f) = Len(h.future) - 1
    BY <1>5, <1>6
  <2>5. PICK a \in Nat, b \in Nat : a = Len(h.past) /\ b = Len(h.future)
    BY <2>3
  <2>6. a + b <= MaxUndoSteps /\ Len(p) = a + 1 /\ Len(f) = b - 1
    BY <2>2, <2>4, <2>5
  <2> QED
    BY <2>1, <2>6
<1>9. [past |-> p, future |-> f] \in Edits
  BY <1>5, <1>6 DEF Edits
<1>10. Swaps(e, v, [past |-> p, future |-> f])
  BY <1>1, <1>3, <1>5, <1>7, <1>8, <1>9 DEF Swaps
<1> QED
  BY <1>1, <1>5, <1>9, <1>10 DEF ContentStep

LEMMA ContentKeepsEnvelopes ==
  ASSUME EnvelopesInv, ContentStep PROVE EnvelopesInv'
<1>1. CASE UNCHANGED <<envelopes, edits>>
  BY <1>1 DEF EnvelopesInv, EditsAreBounded
<1>2. CASE \E e \in Envelopes, v \in Good, h \in Edits : Swaps(e, v, h)
  <2>1. PICK e \in Envelopes, v \in Good, h \in Edits : Swaps(e, v, h)
    BY <1>2
  <2>2. /\ envelopes' = [envelopes EXCEPT ![e] = v] /\ edits' = [edits EXCEPT ![e] = h]
        /\ Len(h.past) + Len(h.future) <= MaxUndoSteps
    BY <2>1 DEF Swaps
  <2>3. envelopes' \in [Envelopes -> Good] /\ edits' \in [Envelopes -> Edits]
    BY <2>2 DEF EnvelopesInv
  <2>4. \A d \in Envelopes : Len(edits'[d].past) + Len(edits'[d].future) <= MaxUndoSteps
    BY <2>2 DEF EnvelopesInv, EditsAreBounded
  <2> QED
    BY <2>3, <2>4 DEF EnvelopesInv, EditsAreBounded
<1>3. CASE envelopes' = DemoEnvelopes /\ edits' = NoEdits
  <2>1. envelopes' \in [Envelopes -> Good] /\ edits' \in [Envelopes -> Edits]
    BY <1>3, DemoIsGood
  <2>2. \A d \in Envelopes : Len(edits'[d].past) + Len(edits'[d].future) <= MaxUndoSteps
    BY <1>3, WorkspaceAssumption DEF NoEdits
  <2> QED
    BY <2>1, <2>2 DEF EnvelopesInv, EditsAreBounded
<1> QED
  BY <1>1, <1>2, <1>3 DEF ContentStep

(* The step property of ChangesCanBeUndone.                                *)
Undoable == \A e \in DOMAIN envelopes :
  envelopes'[e] # envelopes[e] /\ revision' = revision =>
    \/ edits'[e].past # <<>> /\ edits'[e].past[Len(edits'[e].past)] = envelopes[e]
    \/ edits'[e].future # <<>> /\ Head(edits'[e].future) = envelopes[e]

LEMMA ContentIsUndoable == ASSUME EnvelopesInv, ContentStep PROVE Undoable
<1>1. CASE UNCHANGED <<envelopes, edits>>
  BY <1>1 DEF Undoable
<1>2. CASE \E e \in Envelopes, v \in Good, h \in Edits : Swaps(e, v, h)
  <2>1. PICK e \in Envelopes, v \in Good, h \in Edits : Swaps(e, v, h)
    BY <1>2
  <2>2. /\ envelopes' = [envelopes EXCEPT ![e] = v] /\ edits' = [edits EXCEPT ![e] = h]
        /\ \/ h.past # <<>> /\ h.past[Len(h.past)] = envelopes[e]
           \/ h.future # <<>> /\ Head(h.future) = envelopes[e]
    BY <2>1 DEF Swaps
  <2>3. DOMAIN envelopes = Envelopes /\ DOMAIN edits = Envelopes
    BY DEF EnvelopesInv
  <2> QED
    BY <2>2, <2>3 DEF Undoable
<1>3. CASE revision' # revision
  BY <1>3 DEF Undoable
<1> QED
  BY <1>1, <1>2, <1>3 DEF ContentStep

-----------------------------------------------------------------------------
(* The steps of the workspace.                                             *)

(* A snapshot with one part replaced.                                      *)
LEMMA NewDraft ==
  ASSUME NEW D, NEW S, NEW A, NEW w \in [draft : D, source : S, attachments : A], NEW d
  PROVE  [w EXCEPT !.draft = d] =
           [draft |-> d, source |-> w.source, attachments |-> w.attachments]
OBVIOUS

LEMMA NewAttachments ==
  ASSUME NEW D, NEW S, NEW A, NEW w \in [draft : D, source : S, attachments : A], NEW a
  PROVE  [w EXCEPT !.attachments = a] =
           [draft |-> w.draft, source |-> w.source, attachments |-> a]
OBVIOUS

LEMMA NewMarkdown ==
  ASSUME NEW T, NEW R, NEW M, NEW S, NEW A, NEW m,
         NEW w \in [draft : [title : T, recipient : R, markdown : M],
                    source : S, attachments : A]
  PROVE  [w EXCEPT !.draft.markdown = m] =
           [draft |-> [title |-> w.draft.title, recipient |-> w.draft.recipient,
                       markdown |-> m],
            source |-> w.source, attachments |-> w.attachments]
OBVIOUS

LEMMA EditDraftSwaps ==
  ASSUME EnvelopesInv, SessionInv, NEW draft \in Drafts, EditDraft(draft)
  PROVE  ContentStep
<1> DEFINE v == [envelopes[selected] EXCEPT !.draft = draft]
<1>1. selected \in Envelopes /\ envelopes[selected] \in Good
  BY DEF EnvelopesInv, SessionInv
<1>2. v = [draft |-> draft, source |-> envelopes[selected].source,
           attachments |-> envelopes[selected].attachments]
  <2> DEFINE w == envelopes[selected]
  <2>1. w \in [draft : Drafts, source : Sources \cup {None}, attachments : Seq(Files)]
    BY <1>1 DEF Good, Snapshots
  <2> HIDE DEF w
  <2>2. [w EXCEPT !.draft = draft] =
          [draft |-> draft, source |-> w.source, attachments |-> w.attachments]
    BY <2>1, NewDraft
  <2> QED
    BY <2>2 DEF w
<1>3. v \in Good
  <2> HIDE DEF v
  <2> QED
    BY <1>1, <1>2, PartsOfGood, GoodParts
<1>4. UpdateEnvelope(selected, v)
  BY DEF EditDraft
<1> HIDE DEF v
<1> QED
  BY <1>1, <1>3, <1>4, UpdateSwaps

LEMMA ConfirmSwaps ==
  ASSUME H!HistoryAssumption, EnvelopesInv, VersionsInv, SessionInv,
         ConfirmDocumentRestore
  PROVE  ContentStep
<1>1. CASE ~(Changeable /\ RestoreIsCurrent)
  BY <1>1 DEF ConfirmDocumentRestore, content, drafts, ContentStep
<1>2. CASE Changeable /\ RestoreIsCurrent
  <2> DEFINE e == pendingRestore.envelope
             d == H!VersionOf(pendingRestore.history, pendingRestore.number).document
             v == [envelopes[e] EXCEPT !.draft = d]
  <2>1. pendingRestore # None
    BY DEF ConfirmDocumentRestore
  <2>2. UpdateEnvelope(e, v)
    BY <1>2 DEF ConfirmDocumentRestore
  <2>3. e \in Envelopes /\ envelopes[e] \in Good
    BY <2>1 DEF EnvelopesInv, VersionsInv
  <2>4. d \in Drafts
    <3>1. IsHistory(pendingRestore.history, Documents)
          /\ pendingRestore.number \in H!Numbers(pendingRestore.history.versions)
      BY <2>1 DEF VersionsInv, H!CanRestore
    <3>2. d \in Documents
      BY <3>1, VersionPlace
    <3> QED
      BY <3>2, DocumentsAreDrafts
  <2> HIDE DEF d
  <2>5. v = [draft |-> d, source |-> envelopes[e].source,
             attachments |-> envelopes[e].attachments]
    <3> DEFINE w == envelopes[e]
    <3>1. w \in [draft : Drafts, source : Sources \cup {None}, attachments : Seq(Files)]
      BY <2>3 DEF Good, Snapshots
    <3> HIDE DEF w
    <3>2. [w EXCEPT !.draft = d] =
            [draft |-> d, source |-> w.source, attachments |-> w.attachments]
      BY <3>1, NewDraft
    <3> QED
      BY <3>2 DEF w
  <2>6. v \in Good
    <3> HIDE DEF v, e
    <3> QED
      BY <2>3, <2>4, <2>5, PartsOfGood, GoodParts
  <2> HIDE DEF v, e
  <2> QED
    BY <2>2, <2>3, <2>6, UpdateSwaps
<1> QED
  BY <1>1, <1>2

LEMMA RemoveSwaps ==
  ASSUME EnvelopesInv, SessionInv, NEW file \in Files, RemoveAttachment(file)
  PROVE  ContentStep
<1>1. selected \in Envelopes /\ envelopes[selected] \in Good
  BY DEF EnvelopesInv, SessionInv
<1>2. PICK i \in DOMAIN envelopes[selected].attachments :
        UpdateEnvelope(selected, [envelopes[selected] EXCEPT
          !.attachments = H!Without(envelopes[selected].attachments, i)])
  BY DEF RemoveAttachment
<1> DEFINE a == H!Without(envelopes[selected].attachments, i)
           v == [envelopes[selected] EXCEPT !.attachments = a]
<1>3. Fit(a)
  BY <1>1, PartsOfGood, FewerFit
<1> HIDE DEF a
<1>4. v = [draft |-> envelopes[selected].draft, source |-> envelopes[selected].source,
           attachments |-> a]
  <2> DEFINE w == envelopes[selected]
  <2>1. w \in [draft : Drafts, source : Sources \cup {None}, attachments : Seq(Files)]
    BY <1>1 DEF Good, Snapshots
  <2> HIDE DEF w
  <2>2. [w EXCEPT !.attachments = a] =
          [draft |-> w.draft, source |-> w.source, attachments |-> a]
    BY <2>1, NewAttachments
  <2> QED
    BY <2>2 DEF w
<1>5. v \in Good
  <2> HIDE DEF v
  <2> QED
    BY <1>1, <1>3, <1>4, PartsOfGood, GoodParts
<1>6. UpdateEnvelope(selected, v)
  BY <1>2 DEF a
<1> HIDE DEF v
<1> QED
  BY <1>1, <1>5, <1>6, UpdateSwaps

LEMMA RestoreSourceSwaps ==
  ASSUME EnvelopesInv, SessionInv, RestoreImportedSource PROVE ContentStep
<1> DEFINE w == envelopes[selected]
           v == [w EXCEPT !.draft.markdown = w.source.markdown]
           d == [title |-> w.draft.title, recipient |-> w.draft.recipient,
                 markdown |-> w.source.markdown]
<1>1. selected \in Envelopes /\ w \in Good
  BY DEF EnvelopesInv, SessionInv
<1>2. w.source # None /\ UpdateEnvelope(selected, v)
  BY DEF RestoreImportedSource
<1>3. w.source.markdown \in Markdowns
  <2>1. w.source \in Sources
    BY <1>1, <1>2, PartsOfGood
  <2> QED
    BY <2>1, WorkspaceAssumption
<1> HIDE DEF w
<1>4. v = [draft |-> d, source |-> w.source, attachments |-> w.attachments]
  <2> DEFINE m == w.source.markdown
  <2>1. w \in [draft : [title : Titles, recipient : Recipients, markdown : Markdowns],
               source : Sources \cup {None}, attachments : Seq(Files)]
    BY <1>1 DEF Good, Snapshots, Drafts
  <2>2. v = [w EXCEPT !.draft.markdown = m] /\ d = [title |-> w.draft.title,
          recipient |-> w.draft.recipient, markdown |-> m]
    OBVIOUS
  <2> HIDE DEF m, v, d
  <2>3. [w EXCEPT !.draft.markdown = m] =
          [draft |-> [title |-> w.draft.title, recipient |-> w.draft.recipient,
                      markdown |-> m],
           source |-> w.source, attachments |-> w.attachments]
    BY <2>1, NewMarkdown
  <2> QED
    BY <2>2, <2>3
<1>5. d \in Drafts
  BY <1>1, <1>3, PartsOfGood DEF Drafts
<1> HIDE DEF d
<1>6. v \in Good
  <2> HIDE DEF v
  <2> QED
    BY <1>1, <1>4, <1>5, PartsOfGood, GoodParts
<1> HIDE DEF v
<1> QED
  BY <1>1, <1>2, <1>6, UpdateSwaps

LEMMA ApproveSwaps ==
  ASSUME EnvelopesInv, SessionInv, PendingInv, ApprovePendingAttachments
  PROVE  ContentStep
<1> DEFINE w == envelopes[selected]
           c == pendingAttachments[selected].candidates
           v == [w EXCEPT !.attachments = w.attachments \o c]
<1>1. selected \in Envelopes /\ w \in Good
  BY DEF EnvelopesInv, SessionInv
<1>2. c \in Seq(Files)
  BY <1>1 DEF PendingInv, Staged, ApprovePendingAttachments
<1>3. CASE ~StillFit(selected, c)
  BY <1>3 DEF ApprovePendingAttachments, ContentStep
<1>4. CASE StillFit(selected, c)
  <2>1. UpdateEnvelope(selected, v)
    BY <1>4 DEF ApprovePendingAttachments
  <2>2. Fit(w.attachments \o c)
    BY <1>1, <1>2, <1>4, PartsOfGood, MoreFit DEF StillFit
  <2> DEFINE a == w.attachments \o c
  <2> HIDE DEF a, w
  <2>3. v = [draft |-> w.draft, source |-> w.source, attachments |-> a]
    <3>1. w \in [draft : Drafts, source : Sources \cup {None}, attachments : Seq(Files)]
      BY <1>1 DEF Good, Snapshots
    <3>2. [w EXCEPT !.attachments = a] =
            [draft |-> w.draft, source |-> w.source, attachments |-> a]
      BY <3>1, NewAttachments
    <3> QED
      BY <3>2 DEF a
  <2>4. v \in Good
    <3> HIDE DEF v
    <3> QED
      BY <1>1, <2>2, <2>3, PartsOfGood, GoodParts DEF a
  <2> HIDE DEF v
  <2> QED
    BY <1>1, <2>1, <2>4, UpdateSwaps
<1> QED
  BY <1>3, <1>4

LEMMA ImportSwaps ==
  ASSUME EnvelopesInv, SessionInv, AwaitedInv, NEW op \in awaited, ImportApproved(op)
  PROVE  ContentStep
<1> DEFINE w == envelopes[op.envelope]
           s == op.source
           v == ImportedEnvelope(op.envelope, s)
           d == [title |-> Canonical[s.title], recipient |-> w.draft.recipient,
                 markdown |-> s.markdown]
<1>1. op.envelope \in Envelopes /\ w \in Good /\ s \in Sources
  BY DEF EnvelopesInv, AwaitedInv, ImportApproved
<1>2. CASE UNCHANGED <<envelopes, edits>>
  BY <1>2 DEF ContentStep
<1>3. CASE UpdateEnvelope(op.envelope, v) /\ s.title \in DOMAIN Canonical
  <2>1. Canonical[s.title] \in Titles /\ s.markdown \in Markdowns
    BY <1>1, <1>3, CanonicalTitles, WorkspaceAssumption
  <2>2. d \in Drafts
    BY <1>1, <2>1, PartsOfGood DEF Drafts
  <2>3. v = [draft |-> d, source |-> s, attachments |-> w.attachments]
    <3> HIDE DEF w, s
    <3>1. v = [w EXCEPT !.draft.title = Canonical[s.title],
                        !.draft.markdown = s.markdown, !.source = s]
      BY DEF ImportedEnvelope, w
    <3> DEFINE t == Canonical[s.title]
               m == s.markdown
    <3>2. w \in [draft : [title : Titles, recipient : Recipients, markdown : Markdowns],
                 source : Sources \cup {None}, attachments : Seq(Files)]
      BY <1>1 DEF Good, Snapshots, Drafts
    <3>3. d = [title |-> t, recipient |-> w.draft.recipient, markdown |-> m]
      OBVIOUS
    <3>4. v = [w EXCEPT !.draft.title = t, !.draft.markdown = m, !.source = s]
      BY <3>1
    <3> HIDE DEF t, m, v, d
    <3>5. [w EXCEPT !.draft.title = t, !.draft.markdown = m, !.source = s] =
            [draft |-> [title |-> t, recipient |-> w.draft.recipient, markdown |-> m],
             source |-> s, attachments |-> w.attachments]
      <4> DEFINE e == [w.draft EXCEPT !.title = t]
                 f == [e EXCEPT !.markdown = m]
                 a == [w EXCEPT !.draft = f]
                 b == [a EXCEPT !.source = s]
      <4>1. e = [title |-> t, recipient |-> w.draft.recipient,
                 markdown |-> w.draft.markdown]
        BY <3>2
      <4>2. b = [w EXCEPT !.draft.title = t, !.draft.markdown = m, !.source = s]
        BY <3>2
      <4> HIDE DEF e
      <4>3. f = [title |-> t, recipient |-> w.draft.recipient, markdown |-> m]
        BY <4>1
      <4> HIDE DEF f
      <4>4. a = [draft |-> f, source |-> w.source, attachments |-> w.attachments]
        BY <3>2
      <4> HIDE DEF a
      <4>5. b = [draft |-> f, source |-> s, attachments |-> w.attachments]
        BY <4>4
      <4> QED
        BY <4>2, <4>3, <4>5
    <3> QED
      BY <3>3, <3>4, <3>5
  <2> HIDE DEF d, v
  <2>4. v \in Good
    BY <1>1, <2>2, <2>3, PartsOfGood, GoodParts
  <2> QED
    BY <1>1, <1>3, <2>4, UpdateSwaps
<1> QED
  BY <1>2, <1>3 DEF ImportApproved

(* The steps that leave what an envelope holds alone.                      *)
LEMMA OthersLeaveContent ==
  ASSUME \/ SaveDocumentVersion
         \/ \E number : ReviewDocumentRestore(number)
         \/ CancelDocumentRestore
         \/ \E kind : BeginFileOperation(kind)
         \/ DiscardPendingAttachments \/ BeginImportApproval \/ DiscardPendingImport
         \/ \E op, source : ImportPrepared(op, source)
         \/ \E op, candidates : AttachmentsPrepared(op, candidates)
         \/ \E op : PreparationFailed(op) \/ PreparationDropped(op) \/ ImportRefused(op)
         \/ \E e : SelectEnvelope(e) \/ OpenEnvelope(e)
         \/ EndSession
         \/ UNCHANGED workspaceVars
  PROVE  UNCHANGED <<envelopes, edits>>
<1>1. CASE SaveDocumentVersion
  BY <1>1 DEF SaveDocumentVersion
<1>2. CASE \E number : ReviewDocumentRestore(number)
  BY <1>2 DEF ReviewDocumentRestore, content, drafts
<1>3. CASE CancelDocumentRestore
  BY <1>3 DEF CancelDocumentRestore, content, drafts
<1>4. CASE \E kind : BeginFileOperation(kind)
  BY <1>4 DEF BeginFileOperation, content, drafts
<1>5. CASE DiscardPendingAttachments \/ BeginImportApproval \/ DiscardPendingImport
  BY <1>5 DEF DiscardPendingAttachments, BeginImportApproval, DiscardPendingImport,
     content, drafts
<1>6. CASE \E op, source : ImportPrepared(op, source)
  BY <1>6 DEF ImportPrepared, drafts
<1>7. CASE \E op, candidates : AttachmentsPrepared(op, candidates)
  BY <1>7 DEF AttachmentsPrepared, drafts
<1>8. CASE \E op : PreparationFailed(op) \/ PreparationDropped(op) \/ ImportRefused(op)
  BY <1>8 DEF PreparationFailed, PreparationDropped, ImportRefused, content, drafts
<1>9. CASE \E e : SelectEnvelope(e) \/ OpenEnvelope(e)
  BY <1>9 DEF SelectEnvelope, OpenEnvelope, content, drafts
<1>10. CASE EndSession
  BY <1>10 DEF EndSession, drafts
<1>11. CASE UNCHANGED workspaceVars
  BY <1>11 DEF workspaceVars, content, drafts
<1> QED
  BY <1>1, <1>2, <1>3, <1>4, <1>5, <1>6, <1>7, <1>8, <1>9, <1>10, <1>11

(* A step, one action at a time.                                           *)
LEMMA StepIs ==
  ASSUME [WorkspaceNext]_workspaceVars
  PROVE  \/ \E draft \in Drafts : EditDraft(draft)
         \/ UndoEdit
         \/ RedoEdit
         \/ SaveDocumentVersion
         \/ \E number \in H!Numbers(versions[selected].versions) :
              ReviewDocumentRestore(number)
         \/ ConfirmDocumentRestore
         \/ CancelDocumentRestore
         \/ \E file \in Files : RemoveAttachment(file)
         \/ RestoreImportedSource
         \/ \E kind \in {"import", "attachment"} : BeginFileOperation(kind)
         \/ ApprovePendingAttachments
         \/ DiscardPendingAttachments
         \/ BeginImportApproval
         \/ DiscardPendingImport
         \/ \E op \in awaited, source \in Sources : ImportPrepared(op, source)
         \/ \E op \in awaited, candidates \in Candidates : AttachmentsPrepared(op, candidates)
         \/ \E op \in awaited : PreparationFailed(op)
         \/ \E op \in awaited : PreparationDropped(op)
         \/ \E op \in awaited : ImportApproved(op)
         \/ \E op \in awaited : ImportRefused(op)
         \/ \E e \in Envelopes : SelectEnvelope(e) \/ OpenEnvelope(e)
         \/ EndSession
         \/ RestartLocalRehearsal
         \/ UNCHANGED workspaceVars
BY DEF WorkspaceNext, Edit, Settle

LEMMA StepMovesContent ==
  ASSUME H!HistoryAssumption, Inv, [WorkspaceNext]_workspaceVars PROVE ContentStep
<1>0. EnvelopesInv /\ VersionsInv /\ SessionInv /\ PendingInv /\ AwaitedInv
  BY DEF Inv, ReviewsInv
<1>1. CASE \E draft \in Drafts : EditDraft(draft)
  BY <1>0, <1>1, EditDraftSwaps
<1>2. CASE UndoEdit
  BY <1>0, <1>2, UndoSwaps
<1>3. CASE RedoEdit
  BY <1>0, <1>3, RedoSwaps
<1>4. CASE ConfirmDocumentRestore
  BY <1>0, <1>4, ConfirmSwaps
<1>5. CASE \E file \in Files : RemoveAttachment(file)
  BY <1>0, <1>5, RemoveSwaps
<1>6. CASE RestoreImportedSource
  BY <1>0, <1>6, RestoreSourceSwaps
<1>7. CASE ApprovePendingAttachments
  BY <1>0, <1>7, ApproveSwaps
<1>8. CASE \E op \in awaited : ImportApproved(op)
  BY <1>0, <1>8, ImportSwaps
<1>9. CASE RestartLocalRehearsal
  <2>1. envelopes' = DemoEnvelopes /\ edits' = NoEdits /\ revision' = revision + 1
    BY <1>9 DEF RestartLocalRehearsal
  <2>2. revision \in Int
    BY <1>0 DEF SessionInv
  <2> QED
    BY <2>1, <2>2 DEF ContentStep
<1>10. CASE UNCHANGED <<envelopes, edits>>
  BY <1>10 DEF ContentStep
<1>11. (UNCHANGED <<envelopes, edits>>)
       \/ (\E draft \in Drafts : EditDraft(draft)) \/ UndoEdit \/ RedoEdit
       \/ ConfirmDocumentRestore \/ (\E file \in Files : RemoveAttachment(file))
       \/ RestoreImportedSource \/ ApprovePendingAttachments
       \/ (\E op \in awaited : ImportApproved(op)) \/ RestartLocalRehearsal
  BY StepIs, OthersLeaveContent
<1> QED
  BY <1>1, <1>2, <1>3, <1>4, <1>5, <1>6, <1>7, <1>8, <1>9, <1>10, <1>11

-----------------------------------------------------------------------------
(* Versions and planned restores.                                          *)

(* What a step does to the versions of the envelopes.                      *)
VersionsStep ==
  \/ UNCHANGED versions
  \/ \E e \in Envelopes : \E r :
       /\ versions' = [versions EXCEPT ![e] = r]
       /\ IsHistory(r, Documents)
       /\ Continues(r, versions[e])
  \/ versions' = NoVersions /\ revision' # revision

Planned(r) ==
  /\ r.envelope \in Envelopes /\ r.document \in Documents
  /\ IsHistory(r.history, Documents)
  /\ H!CanRestore(r.history, r.document, r.number)

LEMMA SaveMovesVersions ==
  ASSUME H!HistoryAssumption, EnvelopesInv, VersionsInv, SessionInv, SaveDocumentVersion
  PROVE  VersionsStep
<1> DEFINE e == selected
           d == Document(envelopes[e].draft)
           h == versions[e]
           r == H!SaveVersion(h, d)
<1>1. e \in Envelopes /\ envelopes[e] \in Good /\ IsHistory(h, Documents)
  BY DEF EnvelopesInv, VersionsInv, SessionInv
<1>2. HasDocument(envelopes[e].draft) /\ H!CanSave(h, d)
      /\ versions' = [versions EXCEPT ![e] = r]
  BY DEF SaveDocumentVersion
<1>3. d \in Documents
  <2>1. envelopes[e].draft \in Drafts
    BY <1>1, PartsOfGood
  <2> QED
    BY <1>2, <2>1, DocumentOfDraft
<1> HIDE DEF h, d
<1>4. IsHistory(r, Documents) /\ Continues(r, h)
  BY <1>1, <1>2, <1>3, SaveKeepsHistory
<1> HIDE DEF r
<1> QED
  BY <1>1, <1>2, <1>4 DEF VersionsStep, h

LEMMA ReviewPlans ==
  ASSUME EnvelopesInv, VersionsInv, SessionInv, NEW number, ReviewDocumentRestore(number)
  PROVE  Planned(pendingRestore') /\ UNCHANGED versions
<1> DEFINE e == selected
           d == Document(envelopes[e].draft)
<1>1. e \in Envelopes /\ envelopes[e] \in Good /\ IsHistory(versions[e], Documents)
  BY DEF EnvelopesInv, VersionsInv, SessionInv
<1>2. /\ HasDocument(envelopes[e].draft) /\ H!CanRestore(versions[e], d, number)
      /\ pendingRestore' = [envelope |-> e, document |-> d, history |-> versions[e],
                            number |-> number]
  BY DEF ReviewDocumentRestore
<1>3. d \in Documents
  <2>1. envelopes[e].draft \in Drafts
    BY <1>1, PartsOfGood
  <2> QED
    BY <1>2, <2>1, DocumentOfDraft
<1>4. UNCHANGED versions
  BY DEF ReviewDocumentRestore, content, drafts
<1> HIDE DEF d
<1> QED
  BY <1>1, <1>2, <1>3, <1>4 DEF Planned

LEMMA ConfirmMovesVersions ==
  ASSUME H!HistoryAssumption, VersionsInv, ConfirmDocumentRestore
  PROVE  VersionsStep
<1>1. CASE ~(Changeable /\ RestoreIsCurrent)
  BY <1>1 DEF ConfirmDocumentRestore, content, drafts, VersionsStep
<1>2. CASE Changeable /\ RestoreIsCurrent
  <2> DEFINE p == pendingRestore
             r == H!RestoredHistory(p.history, p.document, p.number)
  <2>1. p # None
    BY DEF ConfirmDocumentRestore
  <2>2. /\ p.envelope \in Envelopes /\ p.document \in Documents
        /\ IsHistory(p.history, Documents)
        /\ H!CanRestore(p.history, p.document, p.number)
    BY <2>1 DEF VersionsInv
  <2>3. versions' = [versions EXCEPT ![p.envelope] = r]
    BY <1>2 DEF ConfirmDocumentRestore
  <2>4. versions[p.envelope] = p.history
    BY <1>2 DEF RestoreIsCurrent
  <2> HIDE DEF p
  <2>5. IsHistory(r, Documents) /\ Continues(r, p.history)
    BY <2>2, RestoreKeepsHistory
  <2> HIDE DEF r
  <2> QED
    BY <2>2, <2>3, <2>4, <2>5 DEF VersionsStep
<1> QED
  BY <1>1, <1>2

LEMMA RestartMovesVersions ==
  ASSUME SessionInv, RestartLocalRehearsal PROVE VersionsStep
<1>1. versions' = NoVersions /\ revision' = revision + 1
  BY DEF RestartLocalRehearsal
<1>2. revision \in Int
  BY DEF SessionInv
<1> QED
  BY <1>1, <1>2 DEF VersionsStep

LEMMA OthersLeaveVersions ==
  ASSUME [WorkspaceNext]_workspaceVars
  PROVE  \/ SaveDocumentVersion \/ ConfirmDocumentRestore \/ RestartLocalRehearsal
         \/ \E number : ReviewDocumentRestore(number)
         \/ UNCHANGED versions /\ pendingRestore' \in {pendingRestore, None}
<1>1. CASE (\E draft \in Drafts : EditDraft(draft)) \/ UndoEdit \/ RedoEdit
  BY <1>1 DEF EditDraft, UndoEdit, RedoEdit
<1>2. CASE CancelDocumentRestore \/ (\E file \in Files : RemoveAttachment(file))
           \/ RestoreImportedSource
  BY <1>2 DEF CancelDocumentRestore, RemoveAttachment, RestoreImportedSource,
     content, drafts
<1>3. CASE \E kind \in {"import", "attachment"} : BeginFileOperation(kind)
  BY <1>3 DEF BeginFileOperation, content, drafts
<1>4. CASE ApprovePendingAttachments \/ DiscardPendingAttachments
           \/ BeginImportApproval \/ DiscardPendingImport
  BY <1>4 DEF ApprovePendingAttachments, DiscardPendingAttachments,
     BeginImportApproval, DiscardPendingImport, content, drafts
<1>5. CASE \/ \E op \in awaited, source \in Sources : ImportPrepared(op, source)
           \/ \E op \in awaited, candidates \in Candidates :
                AttachmentsPrepared(op, candidates)
  BY <1>5 DEF ImportPrepared, AttachmentsPrepared, drafts
<1>6. CASE \E op \in awaited : PreparationFailed(op) \/ PreparationDropped(op)
  BY <1>6 DEF PreparationFailed, PreparationDropped, content, drafts
<1>7. CASE \E op \in awaited : ImportApproved(op) \/ ImportRefused(op)
  BY <1>7 DEF ImportApproved, ImportRefused, content, drafts
<1>8. CASE (\E e \in Envelopes : SelectEnvelope(e) \/ OpenEnvelope(e)) \/ EndSession
  BY <1>8 DEF SelectEnvelope, OpenEnvelope, EndSession, content, drafts
<1>9. CASE UNCHANGED workspaceVars
  BY <1>9 DEF workspaceVars, content, drafts
<1> QED
  BY <1>1, <1>2, <1>3, <1>4, <1>5, <1>6, <1>7, <1>8, <1>9, StepIs

LEMMA StepMovesVersions ==
  ASSUME H!HistoryAssumption, Inv, [WorkspaceNext]_workspaceVars
  PROVE  VersionsStep /\ (\/ pendingRestore' \in {pendingRestore, None}
                          \/ Planned(pendingRestore'))
<1>0. EnvelopesInv /\ VersionsInv /\ SessionInv
  BY DEF Inv
<1>1. CASE SaveDocumentVersion
  <2>1. pendingRestore' = pendingRestore
    BY <1>1 DEF SaveDocumentVersion
  <2> QED
    BY <1>0, <1>1, <2>1, SaveMovesVersions
<1>2. CASE \E number : ReviewDocumentRestore(number)
  BY <1>0, <1>2, ReviewPlans DEF VersionsStep
<1>3. CASE ConfirmDocumentRestore
  <2>1. pendingRestore' = None
    BY <1>3 DEF ConfirmDocumentRestore
  <2> QED
    BY <1>0, <1>3, <2>1, ConfirmMovesVersions
<1>4. CASE RestartLocalRehearsal
  <2>1. pendingRestore' = None
    BY <1>4 DEF RestartLocalRehearsal
  <2> QED
    BY <1>0, <1>4, <2>1, RestartMovesVersions
<1>5. CASE UNCHANGED versions /\ pendingRestore' \in {pendingRestore, None}
  BY <1>5 DEF VersionsStep
<1> QED
  BY <1>1, <1>2, <1>3, <1>4, <1>5, OthersLeaveVersions

LEMMA VersionsKeepInv ==
  ASSUME H!HistoryAssumption, VersionsInv, VersionsStep,
         \/ pendingRestore' \in {pendingRestore, None}
         \/ Planned(pendingRestore')
  PROVE  VersionsInv'
<1>1. DOMAIN versions' = Envelopes /\ \A e \in Envelopes : IsHistory(versions'[e], Documents)
  <2>1. CASE UNCHANGED versions
    BY <2>1 DEF VersionsInv
  <2>2. CASE \E e \in Envelopes : \E r : versions' = [versions EXCEPT ![e] = r]
                                     /\ IsHistory(r, Documents)
    BY <2>2 DEF VersionsInv
  <2>3. CASE versions' = NoVersions
    BY <2>3, EmptyIsHistory DEF NoVersions
  <2> QED
    BY <2>1, <2>2, <2>3 DEF VersionsStep
<1>2. pendingRestore' # None => Planned(pendingRestore')
  <2>1. pendingRestore # None => Planned(pendingRestore)
    BY DEF VersionsInv, Planned
  <2> QED
    BY <2>1
<1> QED
  BY <1>1, <1>2 DEF VersionsInv, Planned

-----------------------------------------------------------------------------
(* Reviews of files.                                                       *)

(* The steps that bring no import to be reviewed and ask for nothing new.  *)
LEMMA LessUnderReview ==
  ASSUME ReviewsInv,
         UNCHANGED <<requests, revision, sessionEnded>>, awaited' \subseteq awaited,
         pendingImports' \in [Envelopes -> Imports \cup {None}],
         \A e \in Envelopes : pendingImports'[e] \in {pendingImports[e], None},
         pendingAttachments' \in [Envelopes -> Staged \cup {None}],
         fileOperation' # None =>
           /\ fileOperation' = fileOperation /\ fileOperation \in awaited'
           /\ \A e \in Envelopes :
                pendingAttachments'[e] \in {pendingAttachments[e], None},
         approving' # None =>
           \E op \in awaited' : /\ op.kind = "approval" /\ op.revision = revision
                                /\ approving' = [requestId |-> op.requestId]
  PROVE  ReviewsInv'
<1>0. PendingInv /\ OperationInv /\ AwaitedInv
  BY DEF ReviewsInv
<1>1. PendingInv'
  BY <1>0 DEF PendingInv
<1>2. OperationInv'
  <2> SUFFICES ASSUME fileOperation' # None
               PROVE  /\ fileOperation' \in awaited' /\ fileOperation'.kind # "approval"
                      /\ ~sessionEnded'
                      /\ fileOperation'.requestId = requests'
                      /\ fileOperation'.revision = revision'
                      /\ pendingImports'[fileOperation'.envelope] = None
                      /\ pendingAttachments'[fileOperation'.envelope] = None
    BY DEF OperationInv
  <2>1. fileOperation' = fileOperation /\ fileOperation # None /\ fileOperation \in awaited'
    OBVIOUS
  <2>2. fileOperation.envelope \in Envelopes
    BY <1>0, <2>1 DEF AwaitedInv
  <2> QED
    BY <1>0, <2>1, <2>2 DEF OperationInv
<1>3. AwaitedInv'
  BY <1>0 DEF AwaitedInv
<1>4. ApprovingInv'
  BY DEF ApprovingInv
<1> QED
  BY <1>1, <1>2, <1>3, <1>4 DEF ReviewsInv

(* The steps that have nothing to do with reviews.                         *)
LEMMA QuietKeepsReviews ==
  ASSUME ReviewsInv, UNCHANGED <<reviews, awaited, sessionEnded, revision>>
  PROVE  ReviewsInv'
BY DEF ReviewsInv, reviews, PendingInv, OperationInv, AwaitedInv, ApprovingInv

LEMMA BeginKeepsReviews ==
  ASSUME SessionInv, ReviewsInv, NEW kind \in {"import", "attachment"},
         BeginFileOperation(kind)
  PROVE  ReviewsInv'
<1> DEFINE op == [kind |-> kind, envelope |-> selected,
             requestId |-> requests + 1, revision |-> revision,
             origin |-> IF kind = "attachment" THEN envelopes[selected].attachments ELSE <<>>]
<1>0. PendingInv /\ OperationInv /\ AwaitedInv /\ ApprovingInv
  BY DEF ReviewsInv
<1>1. /\ selected \in Envelopes /\ revision \in Nat /\ requests \in Nat
      /\ ~sessionEnded /\ fileOperation = None
      /\ pendingImports[selected] = None /\ pendingAttachments[selected] = None
      /\ requests' = requests + 1 /\ fileOperation' = op /\ awaited' = awaited \cup {op}
      /\ UNCHANGED <<pendingImports, pendingAttachments, approving, sessionEnded, revision>>
  BY DEF BeginFileOperation, CanBeginFileOperation, Changeable, SessionInv
<1>2. op.kind # "approval" /\ op.envelope = selected /\ op.requestId = requests + 1
      /\ op.revision = revision
  OBVIOUS
<1> HIDE DEF op
<1>3. PendingInv'
  <2>1. \A e \in Envelopes : pendingImports[e] # None =>
          pendingImports[e].requestId \in Nat /\ pendingImports[e].requestId <= requests
    BY <1>0 DEF PendingInv, Imports
  <2>2. \A e \in Envelopes : pendingImports[e] # None =>
          pendingImports[e].requestId <= requests + 1
          /\ pendingImports[e].requestId < requests + 1
    BY <1>1, <2>1
  <2> QED
    BY <1>0, <1>1, <2>2 DEF PendingInv
<1>4. OperationInv'
  BY <1>1, <1>2 DEF OperationInv
<1>5. AwaitedInv'
  <2> SUFFICES ASSUME NEW o \in awaited'
               PROVE  /\ o.envelope \in Envelopes /\ o.requestId \in Nat
                      /\ o.revision \in Nat /\ o.revision <= revision
                      /\ o.kind = "approval" =>
                           /\ o.source \in Sources
                           /\ o.revision = revision =>
                                /\ o.requestId <= requests + 1
                                /\ o.requestId < requests + 1
                                /\ pendingImports[o.envelope] # None
                                   /\ pendingImports[o.envelope].requestId = o.requestId
                                   => pendingImports[o.envelope].source = o.source
    BY <1>1 DEF AwaitedInv
  <2>1. CASE o = op
    BY <1>1, <1>2, <2>1
  <2>2. CASE o \in awaited
    <3>1. /\ o.envelope \in Envelopes /\ o.requestId \in Nat
          /\ o.revision \in Nat /\ o.revision <= revision
          /\ o.kind = "approval" =>
               /\ o.source \in Sources
               /\ o.revision = revision =>
                    /\ o.requestId <= requests
                    /\ pendingImports[o.envelope] # None
                       /\ pendingImports[o.envelope].requestId = o.requestId
                       => pendingImports[o.envelope].source = o.source
      BY <1>0, <2>2 DEF AwaitedInv
    <3>2. o.requestId <= requests => o.requestId <= requests + 1 /\ o.requestId < requests + 1
      BY <1>1, <3>1
    <3> QED
      BY <3>1, <3>2
  <2> QED
    BY <1>1, <2>1, <2>2
<1>6. ApprovingInv'
  BY <1>0, <1>1 DEF ApprovingInv
<1> QED
  BY <1>3, <1>4, <1>5, <1>6 DEF ReviewsInv

LEMMA ImportPreparedKeepsReviews ==
  ASSUME SessionInv, ReviewsInv, NEW op \in awaited, NEW source \in Sources,
         ImportPrepared(op, source)
  PROVE  ReviewsInv'
<1> DEFINE review == [requestId |-> op.requestId, source |-> source]
<1>0. PendingInv /\ OperationInv /\ AwaitedInv /\ ApprovingInv
  BY DEF ReviewsInv
<1>1. /\ op.kind = "import" /\ awaited' = awaited \ {op}
      /\ fileOperation # None /\ fileOperation.requestId = op.requestId
      /\ pendingImports' = [pendingImports EXCEPT ![op.envelope] = review]
      /\ fileOperation' = None
      /\ UNCHANGED <<pendingAttachments, approving, requests, sessionEnded, revision>>
  BY DEF ImportPrepared, Resumed, IsCurrentFileOperation, Finish
<1>2. op.envelope \in Envelopes /\ op.requestId = requests /\ requests \in Nat
  BY <1>0, <1>1 DEF OperationInv, AwaitedInv, SessionInv
<1>3. review \in Imports /\ review # None /\ review.requestId = requests
      /\ review.source = source
  BY <1>2 DEF Imports, None
<1> HIDE DEF review
<1>4. PendingInv'
  <2>1. pendingImports' \in [Envelopes -> Imports \cup {None}]
    BY <1>0, <1>1, <1>3 DEF PendingInv
  <2>2. \A e \in Envelopes : pendingImports'[e] # None =>
          pendingImports'[e].requestId <= requests
    BY <1>0, <1>1, <1>2, <1>3 DEF PendingInv
  <2> QED
    BY <1>0, <1>1, <2>1, <2>2 DEF PendingInv
<1>5. OperationInv'
  BY <1>1 DEF OperationInv
<1>6. AwaitedInv'
  <2> SUFFICES ASSUME NEW o \in awaited, o # op
               PROVE  /\ o.envelope \in Envelopes /\ o.requestId \in Nat
                      /\ o.revision \in Nat /\ o.revision <= revision
                      /\ o.kind = "approval" =>
                           /\ o.source \in Sources
                           /\ o.revision = revision =>
                                /\ o.requestId <= requests
                                /\ pendingImports'[o.envelope] # None
                                   /\ pendingImports'[o.envelope].requestId = o.requestId
                                   => pendingImports'[o.envelope].source = o.source
    BY <1>1 DEF AwaitedInv
  <2>1. /\ o.envelope \in Envelopes /\ o.requestId \in Nat
        /\ o.revision \in Nat /\ o.revision <= revision
        /\ o.kind = "approval" =>
             /\ o.source \in Sources
             /\ o.revision = revision =>
                  /\ o.requestId <= requests /\ o.requestId < requests
                  /\ pendingImports[o.envelope] # None
                     /\ pendingImports[o.envelope].requestId = o.requestId
                     => pendingImports[o.envelope].source = o.source
    BY <1>0, <1>1 DEF AwaitedInv
  <2>2. pendingImports'[o.envelope] = IF o.envelope = op.envelope THEN review
                                      ELSE pendingImports[o.envelope]
    BY <1>0, <1>1, <2>1 DEF PendingInv
  <2>3. o.requestId < requests => o.requestId # review.requestId
    BY <1>2, <1>3, <2>1
  <2> QED
    BY <2>1, <2>2, <2>3
<1>7. ApprovingInv'
  BY <1>0, <1>1 DEF ApprovingInv
<1> QED
  BY <1>4, <1>5, <1>6, <1>7 DEF ReviewsInv

LEMMA BeginApprovalKeepsReviews ==
  ASSUME SessionInv, ReviewsInv, BeginImportApproval PROVE ReviewsInv'
<1> DEFINE review == pendingImports[selected]
           op == [kind |-> "approval", envelope |-> selected,
                  requestId |-> review.requestId, revision |-> revision,
                  source |-> review.source]
<1>0. PendingInv /\ OperationInv /\ AwaitedInv /\ ApprovingInv
  BY DEF ReviewsInv
<1>1. /\ selected \in Envelopes /\ revision \in Nat /\ requests \in Nat
      /\ review # None /\ approving' = [requestId |-> review.requestId]
      /\ awaited' = awaited \cup {op}
      /\ UNCHANGED <<pendingImports, pendingAttachments, fileOperation, requests,
                     sessionEnded, revision>>
  BY DEF BeginImportApproval, SessionInv
<1>2. review.requestId \in Nat /\ review.source \in Sources /\ review.requestId <= requests
      /\ (fileOperation # None => review.requestId < requests)
  BY <1>0, <1>1 DEF PendingInv, Imports
<1>3. /\ op.kind = "approval" /\ op.envelope = selected /\ op.revision = revision
      /\ op.requestId = review.requestId /\ op.source = review.source
  OBVIOUS
<1> HIDE DEF op
<1>4. PendingInv'
  BY <1>0, <1>1 DEF PendingInv
<1>5. OperationInv'
  BY <1>0, <1>1 DEF OperationInv
<1>6. AwaitedInv'
  BY <1>0, <1>1, <1>2, <1>3 DEF AwaitedInv
<1>7. ApprovingInv'
  BY <1>1, <1>3 DEF ApprovingInv
<1> QED
  BY <1>4, <1>5, <1>6, <1>7 DEF ReviewsInv

LEMMA EndKeepsReviews ==
  ASSUME SessionInv, ReviewsInv, EndSession PROVE ReviewsInv'
<1>0. AwaitedInv
  BY DEF ReviewsInv
<1>1. /\ requests' = requests + 1 /\ requests \in Nat /\ fileOperation' = None
      /\ approving' = None /\ pendingImports' = NoReviews /\ pendingAttachments' = NoReviews
      /\ UNCHANGED <<awaited, revision>>
  BY DEF EndSession, CancelFileWork, SessionInv
<1>2. \A e \in Envelopes : NoReviews[e] = None
  BY DEF NoReviews
<1>3. AwaitedInv'
  <2>1. \A op \in awaited : op.envelope \in Envelopes /\ op.requestId \in Nat
    BY <1>0 DEF AwaitedInv
  <2>2. \A op \in awaited : op.requestId <= requests => op.requestId <= requests + 1
    BY <1>1, <2>1
  <2> QED
    BY <1>0, <1>1, <1>2, <2>2 DEF AwaitedInv
<1> QED
  BY <1>1, <1>2, <1>3 DEF ReviewsInv, PendingInv, OperationInv, ApprovingInv, NoReviews

LEMMA RestartKeepsReviews ==
  ASSUME SessionInv, ReviewsInv, RestartLocalRehearsal PROVE ReviewsInv'
<1>0. AwaitedInv
  BY DEF ReviewsInv
<1>1. /\ revision' = revision + 1 /\ revision \in Nat /\ fileOperation' = None
      /\ approving' = None /\ pendingImports' = NoReviews /\ pendingAttachments' = NoReviews
      /\ UNCHANGED awaited
  BY DEF RestartLocalRehearsal, SessionInv
<1>2. \A e \in Envelopes : NoReviews[e] = None
  BY DEF NoReviews
<1>3. AwaitedInv'
  <2>1. \A op \in awaited : op.revision \in Nat /\ op.revision <= revision
    BY <1>0 DEF AwaitedInv
  <2>2. \A op \in awaited : op.revision <= revision + 1 /\ op.revision # revision + 1
    BY <1>1, <2>1
  <2> QED
    BY <1>0, <1>1, <2>2 DEF AwaitedInv
<1> QED
  BY <1>1, <1>2, <1>3 DEF ReviewsInv, PendingInv, OperationInv, ApprovingInv, NoReviews

LEMMA DecisionsKeepReviews ==
  ASSUME ReviewsInv, SessionInv,
         ApprovePendingAttachments \/ DiscardPendingAttachments \/ DiscardPendingImport
  PROVE  ReviewsInv'
<1>0. PendingInv /\ OperationInv /\ ApprovingInv /\ selected \in Envelopes
  BY DEF ReviewsInv, SessionInv
<1>1. UNCHANGED <<requests, revision, sessionEnded, awaited, fileOperation, approving>>
  BY DEF ApprovePendingAttachments, DiscardPendingAttachments, DiscardPendingImport
<1>2. /\ pendingImports' \in {pendingImports, [pendingImports EXCEPT ![selected] = None]}
      /\ pendingAttachments' \in {pendingAttachments,
                                  [pendingAttachments EXCEPT ![selected] = None]}
  BY DEF ApprovePendingAttachments, DiscardPendingAttachments, DiscardPendingImport
<1>3. /\ pendingImports' \in [Envelopes -> Imports \cup {None}]
      /\ \A e \in Envelopes : pendingImports'[e] \in {pendingImports[e], None}
  BY <1>0, <1>2 DEF PendingInv
<1>4. /\ pendingAttachments' \in [Envelopes -> Staged \cup {None}]
      /\ \A e \in Envelopes : pendingAttachments'[e] \in {pendingAttachments[e], None}
  BY <1>0, <1>2 DEF PendingInv
<1>5. fileOperation' # None => fileOperation' = fileOperation /\ fileOperation \in awaited'
  BY <1>0, <1>1 DEF OperationInv
<1>6. approving' # None =>
        \E op \in awaited' : /\ op.kind = "approval" /\ op.revision = revision
                             /\ approving' = [requestId |-> op.requestId]
  BY <1>0, <1>1 DEF ApprovingInv
<1> QED
  BY <1>1, <1>3, <1>4, <1>5, <1>6, LessUnderReview

LEMMA AttachmentsPreparedKeepReviews ==
  ASSUME ReviewsInv, NEW op \in awaited, NEW candidates \in Candidates,
         AttachmentsPrepared(op, candidates)
  PROVE  ReviewsInv'
<1> DEFINE review == [requestId |-> op.requestId, candidates |-> candidates]
<1>0. PendingInv /\ OperationInv /\ AwaitedInv /\ ApprovingInv
  BY DEF ReviewsInv
<1>1. /\ op.kind = "attachment" /\ awaited' = awaited \ {op} /\ fileOperation' = None
      /\ pendingAttachments' = [pendingAttachments EXCEPT ![op.envelope] = review]
      /\ UNCHANGED <<pendingImports, approving, requests, revision, sessionEnded>>
  BY DEF AttachmentsPrepared, Resumed, Finish
<1>2. review \in Staged
  <2>1. op.requestId \in Nat
    BY <1>0 DEF AwaitedInv
  <2>2. candidates \in Seq(Files)
    <3>1. PICK n \in 1..MaxAttachments : candidates \in [1..n -> Files]
      BY DEF Candidates
    <3> QED
      BY <3>1
  <2> QED
    BY <2>1, <2>2 DEF Staged
<1> HIDE DEF review
<1>3. pendingAttachments' \in [Envelopes -> Staged \cup {None}]
  BY <1>0, <1>1, <1>2 DEF PendingInv
<1>4. /\ pendingImports' \in [Envelopes -> Imports \cup {None}]
      /\ \A e \in Envelopes : pendingImports'[e] \in {pendingImports[e], None}
  BY <1>0, <1>1 DEF PendingInv
<1>5. approving' # None =>
        \E o \in awaited' : /\ o.kind = "approval" /\ o.revision = revision
                            /\ approving' = [requestId |-> o.requestId]
  BY <1>0, <1>1 DEF ApprovingInv
<1> QED
  BY <1>1, <1>3, <1>4, <1>5, LessUnderReview

LEMMA NoReviewComes ==
  ASSUME ReviewsInv, NEW op \in awaited,
         PreparationFailed(op) \/ PreparationDropped(op)
  PROVE  ReviewsInv'
<1>0. PendingInv /\ OperationInv /\ AwaitedInv /\ ApprovingInv
  BY DEF ReviewsInv
<1>1. /\ op.kind # "approval" /\ awaited' = awaited \ {op}
      /\ UNCHANGED <<pendingImports, pendingAttachments, approving, requests, revision,
                     sessionEnded>>
  BY DEF PreparationFailed, PreparationDropped, Resumed, reviews
<1>2. fileOperation' # None => fileOperation' = fileOperation /\ fileOperation \in awaited'
  <2>1. CASE PreparationFailed(op)
    BY <2>1 DEF PreparationFailed, FailedOperation, Finish
  <2>2. CASE PreparationDropped(op)
    <3>1. fileOperation' = fileOperation /\ ~IsCurrentFileOperation(op)
      BY <2>2 DEF PreparationDropped, reviews
    <3>2. ASSUME fileOperation # None PROVE op # fileOperation
      <4>1. /\ fileOperation.revision = revision /\ ~sessionEnded /\ revision \in Nat
        BY <1>0, <3>2 DEF OperationInv, AwaitedInv
      <4>2. ~EndedFor(fileOperation)
        BY <4>1 DEF EndedFor
      <4> QED
        BY <3>1, <3>2, <4>2 DEF IsCurrentFileOperation
    <3> QED
      BY <1>0, <1>1, <3>1, <3>2 DEF OperationInv
  <2> QED
    BY <2>1, <2>2
<1>3. approving' # None =>
        \E o \in awaited' : /\ o.kind = "approval" /\ o.revision = revision
                            /\ approving' = [requestId |-> o.requestId]
  BY <1>0, <1>1 DEF ApprovingInv
<1> QED
  BY <1>0, <1>1, <1>2, <1>3, LessUnderReview DEF PendingInv

LEMMA ApprovalEnds ==
  ASSUME ReviewsInv, NEW op \in awaited, ImportApproved(op) \/ ImportRefused(op)
  PROVE  ReviewsInv'
<1>0. PendingInv /\ OperationInv /\ AwaitedInv /\ ApprovingInv
  BY DEF ReviewsInv
<1>1. /\ op.kind = "approval" /\ awaited' = awaited \ {op}
      /\ UNCHANGED <<pendingAttachments, fileOperation, requests, revision, sessionEnded>>
      /\ approving' = IF op.revision = revision /\ approving = [requestId |-> op.requestId]
                      THEN None ELSE approving
  BY DEF ImportApproved, ImportRefused, Resumed
<1>2. pendingImports' \in {pendingImports, [pendingImports EXCEPT ![op.envelope] = None]}
  BY DEF ImportApproved, ImportRefused
<1>3. /\ pendingImports' \in [Envelopes -> Imports \cup {None}]
      /\ \A e \in Envelopes : pendingImports'[e] \in {pendingImports[e], None}
  BY <1>0, <1>2 DEF PendingInv
<1>4. fileOperation' # None => fileOperation' = fileOperation /\ fileOperation \in awaited'
  BY <1>0, <1>1 DEF OperationInv
<1>5. approving' # None =>
        \E o \in awaited' : /\ o.kind = "approval" /\ o.revision = revision
                            /\ approving' = [requestId |-> o.requestId]
  BY <1>0, <1>1 DEF ApprovingInv
<1> QED
  BY <1>0, <1>1, <1>3, <1>4, <1>5, LessUnderReview DEF PendingInv

LEMMA StepKeepsReviews ==
  ASSUME SessionInv, ReviewsInv, [WorkspaceNext]_workspaceVars PROVE ReviewsInv'
<1>1. CASE UNCHANGED <<reviews, awaited, sessionEnded, revision>>
  BY <1>1, QuietKeepsReviews
<1>2. CASE \/ \E draft \in Drafts : EditDraft(draft)
           \/ UndoEdit \/ RedoEdit \/ SaveDocumentVersion
           \/ \E number \in H!Numbers(versions[selected].versions) :
                ReviewDocumentRestore(number)
  BY <1>1, <1>2 DEF EditDraft, UndoEdit, RedoEdit, SaveDocumentVersion,
     ReviewDocumentRestore
<1>3. CASE \/ ConfirmDocumentRestore \/ CancelDocumentRestore
           \/ \E file \in Files : RemoveAttachment(file)
           \/ RestoreImportedSource
  BY <1>1, <1>3 DEF ConfirmDocumentRestore, CancelDocumentRestore, RemoveAttachment,
     RestoreImportedSource
<1>4. CASE (\E e \in Envelopes : SelectEnvelope(e) \/ OpenEnvelope(e)) \/ UNCHANGED workspaceVars
  BY <1>1, <1>4 DEF SelectEnvelope, OpenEnvelope, workspaceVars
<1>5. CASE \/ ApprovePendingAttachments \/ DiscardPendingAttachments
           \/ DiscardPendingImport
  BY <1>5, DecisionsKeepReviews
<1>6. CASE \E kind \in {"import", "attachment"} : BeginFileOperation(kind)
  BY <1>6, BeginKeepsReviews
<1>7. CASE BeginImportApproval
  BY <1>7, BeginApprovalKeepsReviews
<1>8. CASE \E op \in awaited, source \in Sources : ImportPrepared(op, source)
  BY <1>8, ImportPreparedKeepsReviews
<1>9. CASE \E op \in awaited, candidates \in Candidates : AttachmentsPrepared(op, candidates)
  BY <1>9, AttachmentsPreparedKeepReviews
<1>10. CASE \E op \in awaited : PreparationFailed(op) \/ PreparationDropped(op)
  BY <1>10, NoReviewComes
<1>11. CASE \E op \in awaited : ImportApproved(op) \/ ImportRefused(op)
  BY <1>11, ApprovalEnds
<1>12. CASE EndSession
  BY <1>12, EndKeepsReviews
<1>13. CASE RestartLocalRehearsal
  BY <1>13, RestartKeepsReviews
<1> QED
  BY <1>2, <1>3, <1>4, <1>5, <1>6, <1>7, <1>8, <1>9, <1>10, <1>11, <1>12, <1>13, StepIs

LEMMA StepKeepsSession ==
  ASSUME SessionInv, [WorkspaceNext]_workspaceVars PROVE SessionInv'
<1>1. CASE UNCHANGED <<selected, sessionEnded, revision, requests>>
  BY <1>1 DEF SessionInv
<1>2. CASE \/ \E draft \in Drafts : EditDraft(draft)
           \/ UndoEdit \/ RedoEdit \/ SaveDocumentVersion
           \/ \E number \in H!Numbers(versions[selected].versions) :
                ReviewDocumentRestore(number)
  BY <1>1, <1>2 DEF EditDraft, UndoEdit, RedoEdit, SaveDocumentVersion,
     ReviewDocumentRestore, reviews
<1>3. CASE \/ ConfirmDocumentRestore \/ CancelDocumentRestore
           \/ \E file \in Files : RemoveAttachment(file)
           \/ RestoreImportedSource
  BY <1>1, <1>3 DEF ConfirmDocumentRestore, CancelDocumentRestore, RemoveAttachment,
     RestoreImportedSource, reviews
<1>4. CASE \E e \in Envelopes : SelectEnvelope(e) \/ OpenEnvelope(e)
  BY <1>4 DEF SelectEnvelope, OpenEnvelope, SessionInv, reviews
<1>5. CASE \/ ApprovePendingAttachments \/ DiscardPendingAttachments
           \/ BeginImportApproval \/ DiscardPendingImport
  BY <1>1, <1>5 DEF ApprovePendingAttachments, DiscardPendingAttachments,
     BeginImportApproval, DiscardPendingImport
<1>6. CASE \E kind \in {"import", "attachment"} : BeginFileOperation(kind)
  BY <1>6 DEF BeginFileOperation, SessionInv
<1>7. CASE \/ \E op \in awaited, source \in Sources : ImportPrepared(op, source)
           \/ \E op \in awaited, candidates \in Candidates :
                AttachmentsPrepared(op, candidates)
  BY <1>1, <1>7 DEF ImportPrepared, AttachmentsPrepared
<1>8. CASE \E op \in awaited : PreparationFailed(op) \/ PreparationDropped(op)
  BY <1>1, <1>8 DEF PreparationFailed, PreparationDropped, reviews
<1>9. CASE \E op \in awaited : ImportApproved(op) \/ ImportRefused(op)
  BY <1>1, <1>9 DEF ImportApproved, ImportRefused
<1>10. CASE EndSession
  BY <1>10 DEF EndSession, CancelFileWork, SessionInv
<1>11. CASE RestartLocalRehearsal
  <2>1. revision' = revision + 1 /\ revision < MaxSessions /\ MaxSessions \in Nat
    BY <1>11, WorkspaceAssumption DEF RestartLocalRehearsal
  <2>2. revision' \in 1..MaxSessions
    BY <2>1 DEF SessionInv
  <2> QED
    BY <1>11, <2>2 DEF RestartLocalRehearsal, SessionInv
<1>12. CASE UNCHANGED workspaceVars
  BY <1>1, <1>12 DEF workspaceVars, reviews
<1> QED
  BY <1>2, <1>3, <1>4, <1>5, <1>6, <1>7, <1>8, <1>9, <1>10, <1>11, <1>12, StepIs

(* Where nothing guards the work, an edit, a decision or an undo finds     *)
(* nothing to change, and what brings something guards it.                 *)
LEMMA StepKeepsWork ==
  ASSUME SessionInv, ReviewsInv, WorkInv, [WorkspaceNext]_workspaceVars PROVE WorkInv'
<1>0. PendingInv /\ AwaitedInv /\ selected \in Envelopes
  BY DEF ReviewsInv, SessionInv
<1>1. CASE UNCHANGED <<content, pendingImports, pendingAttachments>>
  BY <1>1 DEF WorkInv, content, drafts
<1>2. CASE sessionWork' = TRUE
  BY <1>2 DEF WorkInv
<1>3. CASE RestartLocalRehearsal
  BY <1>3 DEF RestartLocalRehearsal, WorkInv
<1>4. CASE sessionWork = TRUE /\ sessionWork' = sessionWork
  BY <1>2, <1>4
<1>5. CASE (\E draft \in Drafts : EditDraft(draft)) \/ SaveDocumentVersion
           \/ (\E file \in Files : RemoveAttachment(file)) \/ RestoreImportedSource
  BY <1>2, <1>5 DEF EditDraft, SaveDocumentVersion, RemoveAttachment,
     RestoreImportedSource, UpdateEnvelope
<1>6. CASE UndoEdit \/ RedoEdit
  <2>1. sessionWork' = sessionWork /\ (edits[selected].past # <<>> \/ edits[selected].future # <<>>)
    BY <1>6 DEF UndoEdit, RedoEdit
  <2>2. edits # NoEdits
    BY <1>0, <2>1 DEF NoEdits
  <2> QED
    BY <1>4, <2>1, <2>2 DEF WorkInv
<1>7. CASE \/ \E number \in H!Numbers(versions[selected].versions) :
                ReviewDocumentRestore(number)
           \/ CancelDocumentRestore
  BY <1>1, <1>7 DEF ReviewDocumentRestore, CancelDocumentRestore, reviews
<1>8. CASE ConfirmDocumentRestore
  BY <1>1, <1>2, <1>8 DEF ConfirmDocumentRestore, UpdateEnvelope, reviews
<1>9. CASE \/ \E kind \in {"import", "attachment"} : BeginFileOperation(kind)
           \/ BeginImportApproval
  BY <1>1, <1>9 DEF BeginFileOperation, BeginImportApproval
<1>10. CASE ApprovePendingAttachments \/ DiscardPendingAttachments
  <2>1. pendingAttachments[selected] # None
    BY <1>10 DEF ApprovePendingAttachments, DiscardPendingAttachments
  <2>2. sessionWork = TRUE
    BY <1>0, <2>1 DEF NoReviews, WorkInv
  <2>3. sessionWork' = TRUE
    BY <1>10, <2>2 DEF ApprovePendingAttachments, DiscardPendingAttachments,
       UpdateEnvelope, content
  <2> QED
    BY <1>2, <2>3
<1>11. CASE DiscardPendingImport
  <2>1. pendingImports[selected] # None /\ sessionWork' = sessionWork
    BY <1>11 DEF DiscardPendingImport, content
  <2>2. sessionWork = TRUE
    BY <1>0, <2>1 DEF NoReviews, WorkInv
  <2> QED
    BY <1>4, <2>1, <2>2
<1>12. CASE \/ \E op \in awaited, source \in Sources : ImportPrepared(op, source)
            \/ \E op \in awaited, candidates \in Candidates :
                 AttachmentsPrepared(op, candidates)
            \/ EndSession
  BY <1>2, <1>12 DEF ImportPrepared, AttachmentsPrepared, EndSession
<1>13. CASE \E op \in awaited :
              PreparationFailed(op) \/ PreparationDropped(op) \/ ImportRefused(op)
  BY <1>1, <1>13 DEF PreparationFailed, PreparationDropped, ImportRefused, reviews
<1>14. CASE \E op \in awaited : ImportApproved(op)
  <2>1. sessionWork' = TRUE \/ UNCHANGED <<content, pendingImports, pendingAttachments>>
    BY <1>14 DEF ImportApproved, UpdateEnvelope, content, drafts
  <2> QED
    BY <1>1, <1>2, <2>1
<1>15. CASE (\E e \in Envelopes : SelectEnvelope(e) \/ OpenEnvelope(e)) \/ UNCHANGED workspaceVars
  BY <1>1, <1>15 DEF SelectEnvelope, OpenEnvelope, workspaceVars, reviews
<1> QED
  BY <1>3, <1>5, <1>6, <1>7, <1>8, <1>9, <1>10, <1>11, <1>12, <1>13, <1>14, <1>15, StepIs

-----------------------------------------------------------------------------
(* The invariant of the workspace.                                         *)

LEMMA InitInv == ASSUME H!HistoryAssumption, WorkspaceInit PROVE Inv
<1>1. EnvelopesInv
  <2>1. envelopes = DemoEnvelopes /\ edits = NoEdits
    BY DEF WorkspaceInit
  <2>2. MaxUndoSteps \in Nat
    BY WorkspaceAssumption
  <2>3. \A e \in Envelopes : Len(edits[e].past) + Len(edits[e].future) <= MaxUndoSteps
    <3>1. \A e \in Envelopes : edits[e].past = <<>> /\ edits[e].future = <<>>
      BY <2>1 DEF NoEdits
    <3>2. Len(<<>>) + Len(<<>>) <= MaxUndoSteps
      BY <2>2
    <3> QED
      BY <3>1, <3>2
  <2> QED
    BY <2>1, <2>3, DemoIsGood DEF EnvelopesInv, EditsAreBounded
<1>2. VersionsInv
  BY EmptyIsHistory DEF WorkspaceInit, VersionsInv, NoVersions
<1>3. SessionInv
  <2>1. MaxSessions \in Nat \ {0}
    BY WorkspaceAssumption
  <2>2. 1 \in 1..MaxSessions
    BY <2>1
  <2> QED
    BY <2>2 DEF WorkspaceInit, SessionInv
<1>4. ReviewsInv
  BY DEF WorkspaceInit, ReviewsInv, PendingInv, OperationInv, AwaitedInv, ApprovingInv, NoReviews
<1>5. WorkInv
  BY DEF WorkspaceInit, WorkInv
<1> QED
  BY <1>1, <1>2, <1>3, <1>4, <1>5 DEF Inv

LEMMA StepKeepsInv ==
  ASSUME H!HistoryAssumption, Inv, [WorkspaceNext]_workspaceVars PROVE Inv'
<1>0. EnvelopesInv /\ VersionsInv /\ SessionInv /\ ReviewsInv /\ WorkInv
  BY DEF Inv
<1>1. EnvelopesInv'
  BY <1>0, StepMovesContent, ContentKeepsEnvelopes
<1>2. VersionsInv'
  BY <1>0, StepMovesVersions, VersionsKeepInv
<1>3. SessionInv'
  BY <1>0, StepKeepsSession
<1>4. ReviewsInv'
  BY <1>0, StepKeepsReviews
<1>5. WorkInv'
  BY <1>0, StepKeepsWork
<1> QED
  BY <1>1, <1>2, <1>3, <1>4, <1>5 DEF Inv

(* The workspace keeps its inductive invariant.                            *)
THEOREM WorkspaceInvariant == ASSUME H!HistoryAssumption PROVE WorkspaceSpec => []Inv
<1>1. WorkspaceInit => Inv
  BY InitInv
<1>2. Inv /\ [WorkspaceNext]_workspaceVars => Inv'
  BY StepKeepsInv
<1> QED
  BY <1>1, <1>2, PTL DEF WorkspaceSpec

LEMMA InvGivesType == ASSUME Inv PROVE WorkspaceTypeOK
<1>0. EnvelopesInv /\ SessionInv /\ PendingInv /\ OperationInv /\ AwaitedInv /\ ApprovingInv
  BY DEF Inv, ReviewsInv
<1>1. ASSUME NEW e \in Envelopes
      PROVE  /\ envelopes[e] \in Snapshots
             /\ edits[e].past \in Seq(Snapshots) /\ edits[e].future \in Seq(Snapshots)
             /\ pendingImports[e] = None \/ pendingImports[e].source \in Sources
             /\ pendingAttachments[e] = None \/ pendingAttachments[e].candidates \in Seq(Files)
  <2>1. envelopes[e] \in Good /\ edits[e] \in Edits
    BY <1>0 DEF EnvelopesInv
  <2>2. \A s \in Seq(Good) : s \in Seq(Snapshots)
    <3> SUFFICES ASSUME NEW s \in Seq(Good) PROVE s \in Seq(Snapshots)
      OBVIOUS
    <3>1. Len(s) \in Nat /\ s = [i \in 1..Len(s) |-> s[i]]
          /\ \A i \in 1..Len(s) : s[i] \in Good
      BY LenProperties, ElementOfSeq
    <3>2. \A i \in 1..Len(s) : s[i] \in Snapshots
      BY <3>1 DEF Good
    <3>3. s \in [1..Len(s) -> Snapshots]
      BY <3>1, <3>2
    <3> QED
      BY <3>1, <3>3, SeqDef
  <2>3. edits[e].past \in Seq(Good) /\ edits[e].future \in Seq(Good)
    BY <2>1 DEF Edits
  <2>4. envelopes[e] \in Snapshots
    BY <2>1 DEF Good
  <2>5. pendingImports[e] = None \/ pendingImports[e].source \in Sources
    BY <1>0 DEF PendingInv, Imports
  <2>6. pendingAttachments[e] = None \/ pendingAttachments[e].candidates \in Seq(Files)
    BY <1>0 DEF PendingInv, Staged
  <2> QED
    BY <2>2, <2>3, <2>4, <2>5, <2>6
<1>2. fileOperation # None => fileOperation \in awaited
  BY <1>0 DEF OperationInv
<1>3. approving # None => \E op \in awaited : op.kind = "approval" /\ op.revision = revision
  BY <1>0 DEF ApprovingInv
<1>4. selected \in Envelopes /\ sessionEnded \in BOOLEAN /\ revision \in 1..MaxSessions
  BY <1>0 DEF SessionInv
<1> QED
  BY <1>1, <1>2, <1>3, <1>4 DEF WorkspaceTypeOK

LEMMA InvBoundsAttachments == ASSUME Inv PROVE AttachmentsAreBounded
<1>1. \A e \in Envelopes : Fit(envelopes[e].attachments)
  BY DEF Inv, EnvelopesInv, Good
<1> QED
  BY <1>1 DEF Fit, AttachmentsAreBounded

LEMMA InvProtectsWork ==
  ASSUME H!HistoryAssumption, Inv PROVE WorkIsProtected
<1>0. EnvelopesInv /\ VersionsInv /\ WorkInv
  BY DEF Inv
<1> SUFFICES ASSUME NEW e \in Envelopes
             PROVE  /\ LossReasons(e) # {} \/ pendingImports[e] # None
                       \/ pendingAttachments[e] # None => sessionWork
                    /\ <<envelopes[e], edits[e], versions[e]>>
                         # <<DemoEnvelopes[e], NoEdits[e], NoVersions[e]>>
                       => LossReasons(e) # {}
  BY DEF WorkIsProtected
<1>1. ASSUME ~sessionWork
      PROVE  LossReasons(e) = {} /\ pendingImports[e] = None /\ pendingAttachments[e] = None
  <2>1. /\ envelopes = DemoEnvelopes /\ edits = NoEdits /\ versions = NoVersions
        /\ pendingImports = NoReviews /\ pendingAttachments = NoReviews
    BY <1>0, <1>1 DEF WorkInv
  <2>2. /\ envelopes[e].draft = DemoDrafts[e] /\ envelopes[e].source = None
        /\ envelopes[e].attachments = <<>>
    BY <2>1 DEF DemoEnvelopes, Baseline
  <2>3. edits[e].past = <<>> /\ edits[e].future = <<>> /\ Len(<<>>) = 0
    BY <2>1 DEF NoEdits
  <2>4. versions[e].versions = <<>>
    BY <2>1 DEF NoVersions, H!EmptyHistory
  <2>5. ~(Len(edits[e].past) + Len(edits[e].future) > 0)
    BY <2>3
  <2>6. LossReasons(e) = {}
    BY <2>2, <2>4, <2>5 DEF LossReasons
  <2> QED
    BY <2>1, <2>6 DEF NoReviews
<1>2. ASSUME LossReasons(e) = {}
      PROVE  envelopes[e] = DemoEnvelopes[e] /\ edits[e] = NoEdits[e]
             /\ versions[e] = NoVersions[e]
  <2>1. "document" \notin LossReasons(e) /\ "import-source" \notin LossReasons(e)
        /\ "attachments" \notin LossReasons(e) /\ "versions" \notin LossReasons(e)
        /\ "edit-history" \notin LossReasons(e)
    BY <1>2
  <2>2. envelopes[e].draft = DemoDrafts[e]
    BY <2>1 DEF LossReasons
  <2>3. envelopes[e].source = None
    BY <2>1 DEF LossReasons
  <2>4. envelopes[e].attachments = <<>>
    BY <2>1 DEF LossReasons
  <2>5. versions[e].versions = <<>>
    BY <2>1 DEF LossReasons
  <2>6. ~(Len(edits[e].past) + Len(edits[e].future) > 0)
    BY <2>1 DEF LossReasons
  <2>7. envelopes[e] = DemoEnvelopes[e]
    <3>1. envelopes[e] \in Good
      BY <1>0 DEF EnvelopesInv
    <3>2. envelopes[e] = [draft |-> envelopes[e].draft, source |-> envelopes[e].source,
                          attachments |-> envelopes[e].attachments]
      BY <3>1, PartsOfGood
    <3>3. DemoEnvelopes[e] = [draft |-> DemoDrafts[e], source |-> None, attachments |-> <<>>]
      BY DEF DemoEnvelopes, Baseline
    <3> QED
      BY <2>2, <2>3, <2>4, <3>2, <3>3
  <2>8. edits[e] = NoEdits[e]
    <3>1. edits[e] \in Edits
      BY <1>0 DEF EnvelopesInv
    <3>2. edits[e].past \in Seq(Good) /\ edits[e].future \in Seq(Good)
          /\ edits[e] = [past |-> edits[e].past, future |-> edits[e].future]
      BY <3>1 DEF Edits
    <3>3. PICK a \in Nat, b \in Nat : a = Len(edits[e].past) /\ b = Len(edits[e].future)
      BY <3>2, LenProperties
    <3>4. ~(a + b > 0)
      BY <2>6, <3>3
    <3>5. a = 0 /\ b = 0
      BY <3>4
    <3>6. edits[e].past = <<>> /\ edits[e].future = <<>>
      BY <3>2, <3>3, <3>5, EmptySeq
    <3> QED
      BY <3>2, <3>6 DEF NoEdits
  <2>9. versions[e] = NoVersions[e]
    <3>1. IsHistory(versions[e], Documents)
      BY <1>0 DEF VersionsInv
    <3>2. versions[e] = [nextVersionNumber |-> versions[e].nextVersionNumber,
                         versions |-> versions[e].versions]
      BY <3>1 DEF IsHistory
    <3>3. versions[e].nextVersionNumber = 1
      BY <2>5, <3>1, HistoryPlaces
    <3> QED
      BY <2>5, <3>2, <3>3 DEF NoVersions, H!EmptyHistory
  <2> QED
    BY <2>7, <2>8, <2>9
<1>3. sessionWork \in BOOLEAN
  BY <1>0 DEF WorkInv
<1> QED
  BY <1>1, <1>2, <1>3

(* Whatever the Owner edits, undoes, redoes, restores or has reviewed, and *)
(* whenever what was awaited comes back, no envelope holds more snapshots  *)
(* or attachments than it may, and work is guarded and named before it is  *)
(* lost.                                                                   *)
THEOREM EnvelopesStaySound ==
  ASSUME H!HistoryAssumption
  PROVE  WorkspaceSpec => [](WorkspaceTypeOK /\ EditsAreBounded /\ AttachmentsAreBounded /\ WorkIsProtected)
<1>1. Inv => WorkspaceTypeOK /\ EditsAreBounded /\ AttachmentsAreBounded /\ WorkIsProtected
  BY InvGivesType, InvBoundsAttachments, InvProtectsWork DEF Inv, EnvelopesInv
<1> QED
  BY <1>1, WorkspaceInvariant, PTL

(* Whatever replaces the content of an envelope, the Owner's or a copy that *)
(* arrives late, can be taken back: the content replaced is next in line.  *)
THEOREM EditsCanBeUndone ==
  ASSUME H!HistoryAssumption PROVE WorkspaceSpec => ChangesCanBeUndone
<1>1. Inv /\ [WorkspaceNext]_workspaceVars => Undoable
  BY StepMovesContent, ContentIsUndoable DEF Inv
<1>2. Undoable => [Undoable]_workspaceVars
  OBVIOUS
<1>3. WorkspaceSpec => [][Undoable]_workspaceVars
  BY <1>1, WorkspaceInvariant, PTL DEF WorkspaceSpec
<1> QED
  BY <1>3, PTL DEF ChangesCanBeUndone, Undoable

-----------------------------------------------------------------------------
(* What files bring is reviewed.                                           *)

FilesStep == ReviewsAreDecided /\ ImportsWereReviewed /\ EndedRehearsalsStayEnded

\* An envelope keeps its imported source, or is one that it was before.
SourceKept(e) ==
  \/ envelopes'[e].source = envelopes[e].source
  \/ envelopes'[e] \in {edits[e].past[i] : i \in DOMAIN edits[e].past}
                    \cup {edits[e].future[i] : i \in DOMAIN edits[e].future}

(* A step that leaves what is under review alone.                          *)
LEMMA EditsNeedNoReview ==
  ASSUME UNCHANGED <<pendingImports, pendingAttachments, awaited>>,
         sessionEnded => UNCHANGED content,
         \A e \in DOMAIN envelopes : SourceKept(e)
  PROVE  FilesStep
<1>1. ReviewsAreDecided
  BY DEF ReviewsAreDecided
<1>2. ImportsWereReviewed
  BY DEF ImportsWereReviewed, SourceKept
<1>3. EndedRehearsalsStayEnded
  BY DEF EndedRehearsalsStayEnded
<1> QED
  BY <1>1, <1>2, <1>3 DEF FilesStep

(* One that puts nothing else under review, changes no envelope, and lets  *)
(* go of nothing awaited from a rehearsal before.                          *)
LEMMA LessNeedsNoReview ==
  ASSUME \A e \in DOMAIN envelopes :
           /\ pendingImports[e] # None => pendingImports'[e] \in {pendingImports[e], None}
           /\ pendingAttachments[e] # None =>
                pendingAttachments'[e] \in {pendingAttachments[e], None},
         UNCHANGED envelopes, ~sessionEnded,
         \A op \in awaited \ awaited' : ~(op.revision < revision)
  PROVE  FilesStep
<1>1. ReviewsAreDecided
  BY DEF ReviewsAreDecided
<1>2. ImportsWereReviewed
  BY DEF ImportsWereReviewed
<1>3. EndedRehearsalsStayEnded
  BY DEF EndedRehearsalsStayEnded
<1> QED
  BY <1>1, <1>2, <1>3 DEF FilesStep

(* One envelope is given content of the same source.                       *)
LEMMA UpdateNeedsNoReview ==
  ASSUME EnvelopesInv, NEW e \in Envelopes, NEW v, UpdateEnvelope(e, v),
         v.source = envelopes[e].source,
         UNCHANGED <<pendingImports, pendingAttachments, awaited>>
  PROVE  FilesStep
<1>1. ~sessionEnded /\ envelopes' = [envelopes EXCEPT ![e] = v]
  BY DEF UpdateEnvelope, Changeable
<1>2. \A d \in DOMAIN envelopes : SourceKept(d)
  BY <1>1 DEF SourceKept
<1> QED
  BY <1>1, <1>2, EditsNeedNoReview

LEMMA SourceOfGood ==
  ASSUME NEW w \in Good
  PROVE  /\ \A d : [w EXCEPT !.draft = d].source = w.source
         /\ \A a : [w EXCEPT !.attachments = a].source = w.source
         /\ \A m : [w EXCEPT !.draft.markdown = m].source = w.source
<1>1. w \in [draft : Drafts, source : Sources \cup {None}, attachments : Seq(Files)]
  BY DEF Good, Snapshots
<1> QED
  BY <1>1

LEMMA OwnerEditsNeedNoReview ==
  ASSUME EnvelopesInv, SessionInv,
         \/ \E draft \in Drafts : EditDraft(draft)
         \/ \E file \in Files : RemoveAttachment(file)
         \/ RestoreImportedSource
  PROVE  FilesStep
<1>0. selected \in Envelopes /\ envelopes[selected] \in Good
  BY DEF EnvelopesInv, SessionInv
<1>1. UNCHANGED <<pendingImports, pendingAttachments, awaited>>
  BY DEF EditDraft, RemoveAttachment, RestoreImportedSource, reviews
<1>2. \E v : UpdateEnvelope(selected, v) /\ v.source = envelopes[selected].source
  <2>1. CASE \E draft \in Drafts : EditDraft(draft)
    <3>1. PICK draft \in Drafts : EditDraft(draft)
      BY <2>1
    <3>2. UpdateEnvelope(selected, [envelopes[selected] EXCEPT !.draft = draft])
      BY <3>1 DEF EditDraft
    <3>3. [envelopes[selected] EXCEPT !.draft = draft].source = envelopes[selected].source
      BY <1>0, SourceOfGood
    <3> QED
      BY <3>2, <3>3
  <2>2. CASE \E file \in Files : RemoveAttachment(file)
    <3>1. PICK file \in Files : RemoveAttachment(file)
      BY <2>2
    <3>2. PICK i \in DOMAIN envelopes[selected].attachments :
            UpdateEnvelope(selected, [envelopes[selected] EXCEPT
              !.attachments = H!Without(envelopes[selected].attachments, i)])
      BY <3>1 DEF RemoveAttachment
    <3> DEFINE a == H!Without(envelopes[selected].attachments, i)
    <3>3. UpdateEnvelope(selected, [envelopes[selected] EXCEPT !.attachments = a])
      BY <3>2
    <3> HIDE DEF a
    <3>4. [envelopes[selected] EXCEPT !.attachments = a].source = envelopes[selected].source
      BY <1>0, SourceOfGood
    <3> QED
      BY <3>3, <3>4
  <2>3. CASE RestoreImportedSource
    <3> DEFINE m == envelopes[selected].source.markdown
    <3>1. UpdateEnvelope(selected, [envelopes[selected] EXCEPT !.draft.markdown = m])
      BY <2>3 DEF RestoreImportedSource
    <3> HIDE DEF m
    <3>2. [envelopes[selected] EXCEPT !.draft.markdown = m].source
            = envelopes[selected].source
      BY <1>0, SourceOfGood
    <3> QED
      BY <3>1, <3>2
  <2> QED
    BY <2>1, <2>2, <2>3
<1> QED
  BY <1>0, <1>1, <1>2, UpdateNeedsNoReview

LEMMA UndoNeedsNoReview ==
  ASSUME EnvelopesInv, SessionInv, UndoEdit \/ RedoEdit PROVE FilesStep
<1> DEFINE e == selected
<1>0. e \in Envelopes /\ edits[e].past \in Seq(Good) /\ edits[e].future \in Seq(Good)
  BY DEF EnvelopesInv, SessionInv, Edits
<1>1. UNCHANGED <<pendingImports, pendingAttachments, awaited>> /\ ~sessionEnded
  BY DEF UndoEdit, RedoEdit, reviews, Changeable
<1>2. \E v : /\ envelopes' = [envelopes EXCEPT ![e] = v]
             /\ v \in {edits[e].past[i] : i \in DOMAIN edits[e].past}
                   \cup {edits[e].future[i] : i \in DOMAIN edits[e].future}
  <2>1. CASE UndoEdit
    <3>1. edits[e].past # <<>>
          /\ envelopes' = [envelopes EXCEPT ![e] = edits[e].past[Len(edits[e].past)]]
      BY <2>1 DEF UndoEdit
    <3>2. Len(edits[e].past) \in DOMAIN edits[e].past
      BY <1>0, <3>1, EmptySeq, LenProperties
    <3> QED
      BY <3>1, <3>2
  <2>2. CASE RedoEdit
    <3>1. edits[e].future # <<>>
          /\ envelopes' = [envelopes EXCEPT ![e] = Head(edits[e].future)]
      BY <2>2 DEF RedoEdit
    <3>2. 1 \in DOMAIN edits[e].future /\ Head(edits[e].future) = edits[e].future[1]
      BY <1>0, <3>1, EmptySeq, LenProperties
    <3> QED
      BY <3>1, <3>2
  <2> QED
    BY <2>1, <2>2
<1>3. \A d \in DOMAIN envelopes : SourceKept(d)
  <2>1. PICK v : /\ envelopes' = [envelopes EXCEPT ![e] = v]
                 /\ v \in {edits[e].past[i] : i \in DOMAIN edits[e].past}
                       \cup {edits[e].future[i] : i \in DOMAIN edits[e].future}
    BY <1>2
  <2> QED
    BY <2>1 DEF SourceKept
<1> QED
  BY <1>1, <1>3, EditsNeedNoReview

LEMMA RestoreNeedsNoReview ==
  ASSUME EnvelopesInv, VersionsInv, ConfirmDocumentRestore PROVE FilesStep
<1>0. UNCHANGED <<pendingImports, pendingAttachments, awaited>>
  BY DEF ConfirmDocumentRestore, reviews
<1>1. CASE ~(Changeable /\ RestoreIsCurrent)
  <2>1. UNCHANGED content
    BY <1>1 DEF ConfirmDocumentRestore
  <2>2. \A e \in DOMAIN envelopes : SourceKept(e)
    BY <2>1 DEF SourceKept, content, drafts
  <2> QED
    BY <1>0, <2>1, <2>2, EditsNeedNoReview
<1>2. CASE Changeable /\ RestoreIsCurrent
  <2> DEFINE e == pendingRestore.envelope
             d == H!VersionOf(pendingRestore.history, pendingRestore.number).document
  <2>1. e \in Envelopes /\ envelopes[e] \in Good
    BY DEF EnvelopesInv, VersionsInv, ConfirmDocumentRestore
  <2>2. UpdateEnvelope(e, [envelopes[e] EXCEPT !.draft = d])
    BY <1>2 DEF ConfirmDocumentRestore
  <2> HIDE DEF d, e
  <2>3. [envelopes[e] EXCEPT !.draft = d].source = envelopes[e].source
    BY <2>1, SourceOfGood
  <2> QED
    BY <1>0, <2>1, <2>2, <2>3, UpdateNeedsNoReview
<1> QED
  BY <1>1, <1>2

LEMMA DecisionsAreReviewed ==
  ASSUME EnvelopesInv, SessionInv, ReviewsInv,
         ApprovePendingAttachments \/ DiscardPendingAttachments \/ DiscardPendingImport
  PROVE  FilesStep
<1>0. selected \in Envelopes /\ envelopes[selected] \in Good /\ DOMAIN envelopes = Envelopes
      /\ PendingInv
  BY DEF EnvelopesInv, SessionInv, ReviewsInv
<1>1. UNCHANGED awaited /\ ~sessionEnded
  BY DEF ApprovePendingAttachments, DiscardPendingAttachments, DiscardPendingImport, Changeable
<1>2. /\ pendingImports' \in {pendingImports, [pendingImports EXCEPT ![selected] = None]}
      /\ pendingAttachments' \in {pendingAttachments,
                                  [pendingAttachments EXCEPT ![selected] = None]}
  BY DEF ApprovePendingAttachments, DiscardPendingAttachments, DiscardPendingImport
<1>3. ReviewsAreDecided
  BY <1>0, <1>2 DEF ReviewsAreDecided, PendingInv
<1>4. \A e \in DOMAIN envelopes : SourceKept(e)
  <2>1. CASE UNCHANGED envelopes
    BY <2>1 DEF SourceKept
  <2>2. CASE ApprovePendingAttachments
    <3> DEFINE a == envelopes[selected].attachments \o pendingAttachments[selected].candidates
    <3>1. CASE envelopes' = [envelopes EXCEPT ![selected] =
                               [envelopes[selected] EXCEPT !.attachments = a]]
      <4> HIDE DEF a
      <4>1. [envelopes[selected] EXCEPT !.attachments = a].source = envelopes[selected].source
        BY <1>0, SourceOfGood
      <4> QED
        BY <3>1, <4>1 DEF SourceKept
    <3>2. UNCHANGED envelopes \/ envelopes' = [envelopes EXCEPT ![selected] =
                                      [envelopes[selected] EXCEPT !.attachments = a]]
      BY <2>2 DEF ApprovePendingAttachments, UpdateEnvelope
    <3> QED
      BY <2>1, <3>1, <3>2
  <2>3. CASE DiscardPendingAttachments \/ DiscardPendingImport
    BY <2>1, <2>3 DEF DiscardPendingAttachments, DiscardPendingImport, content, drafts
  <2> QED
    BY <2>2, <2>3
<1>5. ImportsWereReviewed
  BY <1>4 DEF ImportsWereReviewed, SourceKept
<1>6. EndedRehearsalsStayEnded
  BY <1>1 DEF EndedRehearsalsStayEnded
<1> QED
  BY <1>3, <1>5, <1>6 DEF FilesStep

LEMMA PreparedIsReviewed ==
  ASSUME EnvelopesInv, SessionInv, ReviewsInv, NEW op \in awaited,
         \/ \E source \in Sources : ImportPrepared(op, source)
         \/ \E candidates \in Candidates : AttachmentsPrepared(op, candidates)
         \/ PreparationFailed(op)
  PROVE  FilesStep
<1>0. OperationInv /\ PendingInv /\ DOMAIN envelopes = Envelopes
  BY DEF EnvelopesInv, ReviewsInv
<1>1. /\ awaited' = awaited \ {op} /\ IsCurrentFileOperation(op) /\ UNCHANGED envelopes
      /\ pendingImports' = pendingImports
         \/ \E r : pendingImports' = [pendingImports EXCEPT ![op.envelope] = r]
      /\ pendingAttachments' = pendingAttachments
         \/ \E r : pendingAttachments' = [pendingAttachments EXCEPT ![op.envelope] = r]
  BY DEF ImportPrepared, AttachmentsPrepared, PreparationFailed, Resumed, content, drafts
<1>2. /\ ~(op.revision < revision) /\ ~sessionEnded /\ fileOperation # None
      /\ fileOperation.envelope = op.envelope
  BY <1>1 DEF IsCurrentFileOperation, EndedFor
<1>3. pendingImports[op.envelope] = None /\ pendingAttachments[op.envelope] = None
  BY <1>0, <1>2 DEF OperationInv
<1>4. \A e \in Envelopes :
        /\ pendingImports[e] # None => pendingImports'[e] \in {pendingImports[e], None}
        /\ pendingAttachments[e] # None =>
             pendingAttachments'[e] \in {pendingAttachments[e], None}
  BY <1>0, <1>1, <1>3 DEF PendingInv
<1> QED
  BY <1>0, <1>1, <1>2, <1>4, LessNeedsNoReview

LEMMA ApprovalWasReviewed ==
  ASSUME EnvelopesInv, SessionInv, ReviewsInv, NEW op \in awaited, ImportApproved(op)
  PROVE  FilesStep
<1> DEFINE e == op.envelope
           v == ImportedEnvelope(e, op.source)
<1>0. /\ AwaitedInv /\ PendingInv /\ DOMAIN envelopes = Envelopes /\ e \in Envelopes
      /\ envelopes[e] \in Good /\ op.revision \in Nat /\ op.revision <= revision
      /\ revision \in Nat
  BY DEF EnvelopesInv, ReviewsInv, AwaitedInv, SessionInv
<1>1. op.kind = "approval" /\ awaited' = awaited \ {op} /\ UNCHANGED <<pendingAttachments,
        versions, fileOperation, requests, revision>>
      /\ (op.revision # revision => UNCHANGED approving)
  BY DEF ImportApproved, Resumed
<1>2. CASE UNCHANGED <<envelopes, edits, sessionWork, pendingImports>>
  <2>1. ReviewsAreDecided
    BY <1>1, <1>2 DEF ReviewsAreDecided
  <2>2. ImportsWereReviewed
    BY <1>2 DEF ImportsWereReviewed
  <2>3. UNCHANGED <<content, pendingImports, pendingAttachments>>
    BY <1>1, <1>2 DEF content, drafts
  <2>4. op.revision < revision => UNCHANGED reviews
    BY <1>0, <1>1, <1>2 DEF reviews
  <2>5. EndedRehearsalsStayEnded
    BY <1>1, <2>3, <2>4 DEF EndedRehearsalsStayEnded
  <2> QED
    BY <2>1, <2>2, <2>5 DEF FilesStep
<1>3. CASE /\ ApprovalStands(op)
           /\ pendingImports[e] # None /\ pendingImports[e].requestId = op.requestId
           /\ UpdateEnvelope(e, v)
           /\ pendingImports' = [pendingImports EXCEPT ![e] = None]
  <2>1. /\ ~(op.revision < revision) /\ ~sessionEnded /\ selected = e
        /\ envelopes' = [envelopes EXCEPT ![e] = v]
    BY <1>3 DEF ApprovalStands, EndedFor, UpdateEnvelope
  <2>2. op.revision = revision
    BY <1>0, <2>1
  <2>3. pendingImports[e].source = op.source
    BY <1>0, <1>1, <1>3, <2>2 DEF AwaitedInv
  <2>4. v.source = op.source /\ v.draft.recipient = envelopes[e].draft.recipient
    <3> DEFINE w == envelopes[e]
               t == Canonical[op.source.title]
               m == op.source.markdown
               s == op.source
    <3>1. w \in [draft : [title : Titles, recipient : Recipients, markdown : Markdowns],
                 source : Sources \cup {None}, attachments : Seq(Files)]
      BY <1>0 DEF Good, Snapshots, Drafts
    <3>2. v = [w EXCEPT !.draft.title = t, !.draft.markdown = m, !.source = s]
      BY DEF ImportedEnvelope
    <3> HIDE DEF w, t, m, s, v
    <3>3. [w EXCEPT !.draft.title = t, !.draft.markdown = m, !.source = s].source = s
      BY <3>1
    <3>4. [w EXCEPT !.draft.title = t, !.draft.markdown = m, !.source = s].draft.recipient
            = w.draft.recipient
      BY <3>1
    <3> QED
      BY <3>2, <3>3, <3>4 DEF w, s
  <2> HIDE DEF v
  <2>5. ReviewsAreDecided
    BY <1>0, <1>1, <1>3 DEF ReviewsAreDecided, PendingInv
  <2>6. ImportsWereReviewed
    BY <1>0, <1>3, <2>1, <2>3, <2>4 DEF ImportsWereReviewed
  <2>7. EndedRehearsalsStayEnded
    BY <1>1, <2>1 DEF EndedRehearsalsStayEnded
  <2> QED
    BY <2>5, <2>6, <2>7 DEF FilesStep
<1> QED
  BY <1>2, <1>3 DEF ImportApproved

LEMMA RefusedIsReviewed ==
  ASSUME NEW op \in awaited, SessionInv, ReviewsInv, ImportRefused(op) \/ PreparationDropped(op)
  PROVE  FilesStep
<1>1. /\ awaited' = awaited \ {op}
      /\ UNCHANGED <<content, pendingImports, pendingAttachments, revision>>
      /\ (op.revision # revision => UNCHANGED reviews)
  BY DEF ImportRefused, PreparationDropped, Resumed, reviews
<1>2. op.revision \in Nat /\ revision \in Nat
  BY DEF ReviewsInv, AwaitedInv, SessionInv
<1>3. ReviewsAreDecided
  BY <1>1 DEF ReviewsAreDecided
<1>4. ImportsWereReviewed
  BY <1>1 DEF ImportsWereReviewed, content, drafts
<1>5. EndedRehearsalsStayEnded
  BY <1>1, <1>2 DEF EndedRehearsalsStayEnded
<1> QED
  BY <1>3, <1>4, <1>5 DEF FilesStep

LEMMA SessionStepsAreReviewed ==
  ASSUME EnvelopesInv, SessionInv, EndSession \/ RestartLocalRehearsal
  PROVE  FilesStep
<1>0. DOMAIN envelopes = Envelopes /\ revision \in Nat
  BY DEF EnvelopesInv, SessionInv
<1>1. /\ awaited' = awaited /\ pendingImports' = NoReviews /\ pendingAttachments' = NoReviews
      /\ \/ ~sessionEnded /\ UNCHANGED envelopes
         \/ revision' = revision + 1
  BY DEF EndSession, RestartLocalRehearsal, drafts
<1>2. revision + 1 # revision
  BY <1>0
<1>3. ReviewsAreDecided
  BY <1>0, <1>1 DEF ReviewsAreDecided, NoReviews
<1>4. ImportsWereReviewed
  BY <1>1, <1>2 DEF ImportsWereReviewed
<1>5. EndedRehearsalsStayEnded
  BY <1>1, <1>2 DEF EndedRehearsalsStayEnded
<1> QED
  BY <1>3, <1>4, <1>5 DEF FilesStep

LEMMA QuietIsReviewed ==
  ASSUME UNCHANGED <<envelopes, pendingImports, pendingAttachments>>,
         awaited' = awaited \/ awaited \subseteq awaited',
         UNCHANGED content \/ ~sessionEnded
  PROVE  FilesStep
<1>1. ReviewsAreDecided
  BY DEF ReviewsAreDecided
<1>2. ImportsWereReviewed
  BY DEF ImportsWereReviewed
<1>3. EndedRehearsalsStayEnded
  BY DEF EndedRehearsalsStayEnded
<1> QED
  BY <1>1, <1>2, <1>3 DEF FilesStep

LEMMA StepIsReviewed == ASSUME Inv, [WorkspaceNext]_workspaceVars PROVE FilesStep
<1>0. EnvelopesInv /\ VersionsInv /\ SessionInv /\ ReviewsInv
  BY DEF Inv
<1>1. CASE \/ \E draft \in Drafts : EditDraft(draft)
           \/ \E file \in Files : RemoveAttachment(file)
           \/ RestoreImportedSource
  BY <1>0, <1>1, OwnerEditsNeedNoReview
<1>2. CASE UndoEdit \/ RedoEdit
  BY <1>0, <1>2, UndoNeedsNoReview
<1>3. CASE ConfirmDocumentRestore
  BY <1>0, <1>3, RestoreNeedsNoReview
<1>4. CASE \/ ApprovePendingAttachments \/ DiscardPendingAttachments
           \/ DiscardPendingImport
  BY <1>0, <1>4, DecisionsAreReviewed
<1>5. CASE \E op \in awaited :
             \/ \E source \in Sources : ImportPrepared(op, source)
             \/ \E candidates \in Candidates : AttachmentsPrepared(op, candidates)
             \/ PreparationFailed(op)
  BY <1>0, <1>5, PreparedIsReviewed
<1>6. CASE \E op \in awaited : ImportApproved(op)
  BY <1>0, <1>6, ApprovalWasReviewed
<1>7. CASE \E op \in awaited : ImportRefused(op) \/ PreparationDropped(op)
  BY <1>0, <1>7, RefusedIsReviewed
<1>8. CASE EndSession \/ RestartLocalRehearsal
  BY <1>0, <1>8, SessionStepsAreReviewed
<1>9. CASE SaveDocumentVersion
  BY <1>9, QuietIsReviewed DEF SaveDocumentVersion, reviews, Changeable
<1>10. CASE \/ \E number \in H!Numbers(versions[selected].versions) :
                 ReviewDocumentRestore(number)
            \/ CancelDocumentRestore
  BY <1>10, QuietIsReviewed DEF ReviewDocumentRestore, CancelDocumentRestore, reviews,
     content, drafts
<1>11. CASE \/ \E kind \in {"import", "attachment"} : BeginFileOperation(kind)
            \/ BeginImportApproval
  BY <1>11, QuietIsReviewed DEF BeginFileOperation, BeginImportApproval, content, drafts
<1>12. CASE (\E e \in Envelopes : SelectEnvelope(e) \/ OpenEnvelope(e)) \/ UNCHANGED workspaceVars
  BY <1>12, QuietIsReviewed DEF SelectEnvelope, OpenEnvelope, workspaceVars, reviews, content, drafts
<1> QED
  BY <1>1, <1>2, <1>3, <1>4, <1>5, <1>6, <1>7, <1>8, <1>9, <1>10, <1>11, <1>12, StepIs

(* A file review leaves an envelope by being decided, an import becomes    *)
(* the copy of the envelope it was reviewed for while the Owner looks at   *)
(* it, and what was awaited when a rehearsal ended leaves no trace.        *)
THEOREM FilesStayReviewed == ASSUME H!HistoryAssumption PROVE WorkspaceSpec => FilesAreReviewed
<1>1. Inv /\ [WorkspaceNext]_workspaceVars => FilesStep
  BY StepIsReviewed
<1>2. WorkspaceSpec => [][FilesStep]_workspaceVars
  BY <1>1, WorkspaceInvariant, PTL DEF WorkspaceSpec
<1> QED
  BY <1>2, PTL DEF FilesAreReviewed, FilesStep

-----------------------------------------------------------------------------
(* The versions of an envelope are a history.                              *)

\* What the history of an envelope sees of its draft.
Seen(e) == IF HasDocument(envelopes[e].draft) THEN Document(envelopes[e].draft)
           ELSE CHOOSE document \in Documents : TRUE

LEMMA HistoryOf ==
  ASSUME NEW e \in Envelopes
  PROVE  /\ Seen(e)' = Seen(e) /\ versions'[e] = versions[e] => UNCHANGED History(e)!vars
         /\ History(e)!Init <=> Seen(e) \in Documents /\ versions[e] = H!EmptyHistory
         /\ History(e)!Edit <=> Seen(e)' \in Documents /\ versions'[e] = versions[e]
         /\ History(e)!Save <=>
              /\ H!CanSave(versions[e], Seen(e))
              /\ versions'[e] = H!SaveVersion(versions[e], Seen(e))
              /\ Seen(e)' = Seen(e)
         /\ \A number : History(e)!Restore(number) <=>
              /\ H!CanRestore(versions[e], Seen(e), number)
              /\ Seen(e)' = H!VersionOf(versions[e], number).document
              /\ versions'[e] = H!RestoredHistory(versions[e], Seen(e), number)
         /\ History(e)!Next <=>
              \/ History(e)!Edit \/ History(e)!Save
              \/ \E number \in H!Numbers(versions[e].versions) : History(e)!Restore(number)
<1>1. History(e)!EmptyHistory = H!EmptyHistory
  BY DEF History!EmptyHistory, H!EmptyHistory
<1>2. \A s : History(e)!Numbers(s) = H!Numbers(s)
  BY DEF History!Numbers, H!Numbers
<1>3. \A h, d : History(e)!MatchesLatest(h, d) <=> H!MatchesLatest(h, d)
  BY DEF History!MatchesLatest, H!MatchesLatest
<1>4. \A h, d : History(e)!CanSave(h, d) <=> H!CanSave(h, d)
  BY <1>3 DEF History!CanSave, H!CanSave
<1>5. \A s, n : History(e)!Latest(s, n) = H!Latest(s, n)
  BY DEF History!Latest, H!Latest
<1>6. \A h, d : History(e)!SaveVersion(h, d) = H!SaveVersion(h, d)
  BY <1>3, <1>5 DEF History!SaveVersion, H!SaveVersion
<1>7. \A s, number : History(e)!Position(s, number) = H!Position(s, number)
  BY DEF History!Position, H!Position
<1>8. \A h, number : History(e)!VersionOf(h, number) = H!VersionOf(h, number)
  BY <1>7 DEF History!VersionOf, H!VersionOf
<1>9. \A h, d, number : History(e)!CanRestore(h, d, number) <=> H!CanRestore(h, d, number)
  BY <1>2, <1>4, <1>8 DEF History!CanRestore, H!CanRestore
<1>10. \A s : History(e)!Sorted(s) = H!Sorted(s)
  BY DEF History!Sorted, H!Sorted, History!Bijection, H!Bijection, History!Injection,
     H!Injection, History!Surjection, H!Surjection, History!IsInjective, H!IsInjective
<1>11. \A s, i : History(e)!Without(s, i) = H!Without(s, i)
  BY DEF History!Without, H!Without
<1>12. \A h, g, v : History(e)!PreserveRestoreTarget(h, g, v)
                      = H!PreserveRestoreTarget(h, g, v)
  BY <1>2, <1>5, <1>7, <1>10, <1>11 DEF History!PreserveRestoreTarget,
     H!PreserveRestoreTarget
<1>13. \A h, d, number : History(e)!RestoredHistory(h, d, number)
                           = H!RestoredHistory(h, d, number)
  BY <1>6, <1>8, <1>12 DEF History!RestoredHistory, H!RestoredHistory
<1>14. Seen(e)' = Seen(e) /\ versions'[e] = versions[e] => UNCHANGED History(e)!vars
  BY DEF History!vars, Seen
<1>15. History(e)!Init <=> Seen(e) \in Documents /\ versions[e] = H!EmptyHistory
  BY <1>1 DEF History!Init, Seen
<1>16. History(e)!Edit <=> Seen(e)' \in Documents /\ versions'[e] = versions[e]
  BY DEF History!Edit, Seen
<1>17. History(e)!Save <=>
         /\ H!CanSave(versions[e], Seen(e))
         /\ versions'[e] = H!SaveVersion(versions[e], Seen(e))
         /\ Seen(e)' = Seen(e)
  BY <1>4, <1>6 DEF History!Save, Seen
<1>18. \A number : History(e)!Restore(number) <=>
         /\ H!CanRestore(versions[e], Seen(e), number)
         /\ Seen(e)' = H!VersionOf(versions[e], number).document
         /\ versions'[e] = H!RestoredHistory(versions[e], Seen(e), number)
  BY <1>8, <1>9, <1>13 DEF History!Restore, Seen
<1>19. History(e)!Next <=>
         \/ History(e)!Edit \/ History(e)!Save
         \/ \E number \in H!Numbers(versions[e].versions) : History(e)!Restore(number)
  BY <1>2 DEF History!Next
<1> QED
  BY <1>14, <1>15, <1>16, <1>17, <1>18, <1>19

LEMMA DraftIsSeen ==
  ASSUME NEW e \in Envelopes, NEW d \in Drafts
  PROVE  (IF HasDocument(d) THEN Document(d) ELSE CHOOSE document \in Documents : TRUE)
           \in Documents
<1>1. CASE HasDocument(d)
  BY <1>1, DocumentOfDraft
<1>2. CASE ~HasDocument(d)
  <2>1. \E document : document \in Documents
    <3>1. DemoDrafts[e] \in [title : DOMAIN Canonical, recipient : Recipients,
                             markdown : Markdowns]
      BY WorkspaceAssumption
    <3>2. DemoDrafts[e] \in Drafts /\ HasDocument(DemoDrafts[e])
      BY <3>1, CanonicalTitles DEF Drafts, HasDocument
    <3> QED
      BY <3>2, DocumentOfDraft
  <2> QED
    BY <1>2, <2>1
<1> QED
  BY <1>1, <1>2

LEMMA DocumentOfDocument ==
  ASSUME NEW d \in Documents PROVE HasDocument(d) /\ Document(d) = d
<1>1. PICK t \in DOMAIN Canonical : d.title = Canonical[t]
  BY DEF Documents
<1>2. d.title \in DOMAIN Canonical /\ Canonical[d.title] = d.title
  BY <1>1, CanonicalTitles
<1>3. d = [title |-> d.title, recipient |-> d.recipient, markdown |-> d.markdown]
  BY DEF Documents
<1>4. Document(d) = [title |-> d.title, recipient |-> d.recipient, markdown |-> d.markdown]
  <2> DEFINE u == Canonical[d.title]
  <2>1. d \in [title : {Canonical[x] : x \in DOMAIN Canonical},
               recipient : Recipients, markdown : Markdowns]
    BY DEF Documents
  <2>2. Document(d) = [d EXCEPT !.title = u]
    BY DEF Document
  <2>3. u = d.title
    BY <1>2
  <2> HIDE DEF u
  <2>4. [d EXCEPT !.title = u] = [title |-> u, recipient |-> d.recipient,
                                  markdown |-> d.markdown]
    BY <2>1
  <2> QED
    BY <2>2, <2>3, <2>4
<1> QED
  BY <1>2, <1>3, <1>4 DEF HasDocument

LEMMA SaveIsHistory ==
  ASSUME EnvelopesInv, EnvelopesInv', VersionsInv, SessionInv, SaveDocumentVersion
  PROVE  HistoryStep
<1> SUFFICES ASSUME NEW e \in Envelopes PROVE [History(e)!Next]_(History(e)!vars)
  BY DEF HistoryStep
<1>1. UNCHANGED envelopes /\ selected \in Envelopes
  BY DEF SaveDocumentVersion, SessionInv
<1>2. Seen(e)' = Seen(e)
  BY <1>1 DEF Seen
<1>3. CASE e = selected
  <2>1. /\ HasDocument(envelopes[e].draft)
        /\ H!CanSave(versions[e], Document(envelopes[e].draft))
        /\ versions' = [versions EXCEPT
                          ![e] = H!SaveVersion(versions[e], Document(envelopes[e].draft))]
    BY <1>3 DEF SaveDocumentVersion
  <2>2. Seen(e) = Document(envelopes[e].draft)
    BY <2>1 DEF Seen
  <2>3. versions'[e] = H!SaveVersion(versions[e], Seen(e))
    BY <2>1, <2>2 DEF VersionsInv
  <2>4. History(e)!Save
    BY <1>2, <2>1, <2>2, <2>3, HistoryOf
  <2> QED
    BY <2>4, HistoryOf
<1>4. CASE e # selected
  <2>1. versions'[e] = versions[e]
    BY <1>1, <1>4 DEF SaveDocumentVersion, VersionsInv
  <2> QED
    BY <1>2, <2>1, HistoryOf
<1> QED
  BY <1>3, <1>4

LEMMA RestoreIsHistory ==
  ASSUME H!HistoryAssumption, EnvelopesInv, EnvelopesInv', VersionsInv,
         ConfirmDocumentRestore, Changeable, RestoreIsCurrent
  PROVE  HistoryStep
<1> DEFINE p == pendingRestore
           r == H!RestoredHistory(p.history, p.document, p.number)
           d == H!VersionOf(p.history, p.number).document
<1> SUFFICES ASSUME NEW e \in Envelopes PROVE [History(e)!Next]_(History(e)!vars)
  BY DEF HistoryStep
<1>1. /\ p.envelope \in Envelopes /\ IsHistory(p.history, Documents)
      /\ H!CanRestore(p.history, p.document, p.number)
  BY DEF ConfirmDocumentRestore, VersionsInv
<1>2. /\ versions' = [versions EXCEPT ![p.envelope] = r]
      /\ envelopes' = [envelopes EXCEPT ![p.envelope] =
                         [envelopes[p.envelope] EXCEPT !.draft = d]]
  BY DEF ConfirmDocumentRestore, UpdateEnvelope
<1>3. /\ HasDocument(envelopes[p.envelope].draft)
      /\ Document(envelopes[p.envelope].draft) = p.document
      /\ versions[p.envelope] = p.history
  BY DEF RestoreIsCurrent
<1>4. CASE e = p.envelope
  <2>1. Seen(e) = p.document
    BY <1>3, <1>4 DEF Seen
  <2>2. p.number \in H!Numbers(p.history.versions)
    BY <1>1 DEF H!CanRestore
  <2>3. d \in Documents
    BY <1>1, <2>2, VersionPlace
  <2>4. envelopes'[e].draft = d
    <3>1. envelopes[e] \in [draft : Drafts, source : Sources \cup {None},
                            attachments : Seq(Files)]
      BY DEF EnvelopesInv, Good, Snapshots
    <3> HIDE DEF d
    <3>2. [envelopes[e] EXCEPT !.draft = d].draft = d
      BY <3>1
    <3>3. envelopes'[e] = [envelopes[e] EXCEPT !.draft = d]
      BY <1>2, <1>4 DEF EnvelopesInv
    <3> QED
      BY <3>2, <3>3
  <2>5. Seen(e)' = d
    <3> HIDE DEF d
    <3>1. HasDocument(d) /\ Document(d) = d
      BY <2>3, DocumentOfDocument
    <3>2. HasDocument(envelopes'[e].draft) /\ Document(envelopes'[e].draft) = d
      BY <2>4, <3>1
    <3> QED
      BY <3>2 DEF Seen
  <2>6. versions'[e] = r
    BY <1>2, <1>4 DEF VersionsInv
  <2>7. History(e)!Restore(p.number)
    BY <1>1, <1>3, <1>4, <2>1, <2>5, <2>6, HistoryOf
  <2> QED
    BY <1>3, <1>4, <2>2, <2>7, HistoryOf
<1>5. CASE e # p.envelope
  <2>1. versions'[e] = versions[e] /\ envelopes'[e] = envelopes[e]
    <3> HIDE DEF r, d
    <3> QED
      BY <1>2, <1>5 DEF EnvelopesInv, VersionsInv
  <2>2. Seen(e)' = Seen(e)
    BY <2>1 DEF Seen
  <2> QED
    BY <2>1, <2>2, HistoryOf
<1> QED
  BY <1>4, <1>5

LEMMA StepIsHistory ==
  ASSUME H!HistoryAssumption, Inv, Inv', [WorkspaceNext]_workspaceVars, revision' = revision
  PROVE  HistoryStep
<1>0. EnvelopesInv /\ EnvelopesInv' /\ VersionsInv /\ SessionInv
  BY DEF Inv
<1>1. CASE UNCHANGED versions
  <2> SUFFICES ASSUME NEW e \in Envelopes PROVE [History(e)!Next]_(History(e)!vars)
    BY DEF HistoryStep
  <2>1. Seen(e)' \in Documents
    <3>1. envelopes'[e].draft \in Drafts
      BY <1>0, PartsOfGood DEF EnvelopesInv
    <3> QED
      BY <3>1, DraftIsSeen DEF Seen
  <2> QED
    BY <1>1, <2>1, HistoryOf
<1>2. CASE SaveDocumentVersion
  BY <1>0, <1>2, SaveIsHistory
<1>3. CASE ConfirmDocumentRestore
  <2>1. CASE Changeable /\ RestoreIsCurrent
    BY <1>0, <1>3, <2>1, RestoreIsHistory
  <2>2. CASE ~(Changeable /\ RestoreIsCurrent)
    BY <1>1, <1>3, <2>2 DEF ConfirmDocumentRestore, content, drafts
  <2> QED
    BY <2>1, <2>2
<1>4. CASE RestartLocalRehearsal
  <2>1. revision' = revision + 1 /\ revision \in Int
    BY <1>0, <1>4 DEF RestartLocalRehearsal, SessionInv
  <2> QED
    BY <2>1
<1>5. SaveDocumentVersion \/ ConfirmDocumentRestore \/ RestartLocalRehearsal
      \/ UNCHANGED versions
  BY OthersLeaveVersions DEF ReviewDocumentRestore, content, drafts
<1> QED
  BY <1>1, <1>2, <1>3, <1>4, <1>5

(* What the workspace does to the versions and the draft of an envelope is *)
(* what a history does, although a restore is planned at its review and    *)
(* carried out later; a fresh rehearsal begins with an empty history.      *)
THEOREM VersionsAreHistories ==
  ASSUME H!HistoryAssumption
  PROVE  WorkspaceSpec => /\ \A e \in Envelopes : History(e)!Init
                 /\ [][revision' = revision => HistoryStep]_workspaceVars
<1> DEFINE Step == revision' = revision => HistoryStep
           Start == \A e \in Envelopes : History(e)!Init
<1>1. WorkspaceInit => Start
  <2> SUFFICES ASSUME WorkspaceInit, NEW e \in Envelopes PROVE History(e)!Init
    OBVIOUS
  <2>1. EnvelopesInv
    BY InitInv DEF Inv
  <2>2. envelopes[e].draft \in Drafts
    BY <2>1, PartsOfGood DEF EnvelopesInv
  <2>3. Seen(e) \in Documents
    BY <2>2, DraftIsSeen DEF Seen
  <2>4. versions[e] = H!EmptyHistory
    BY DEF WorkspaceInit, NoVersions
  <2> QED
    BY <2>3, <2>4, HistoryOf
<1>2. Inv /\ Inv' /\ [WorkspaceNext]_workspaceVars => Step
  BY StepIsHistory
<1> HIDE DEF Step, Start
<1>3. WorkspaceSpec => Start
  BY <1>1, PTL DEF WorkspaceSpec
<1>4. WorkspaceSpec => [][Step]_workspaceVars
  BY <1>2, WorkspaceInvariant, PTL DEF WorkspaceSpec
<1> QED
  BY <1>3, <1>4, PTL DEF Step, Start
=============================================================================
