---------------------------- MODULE UsageProofs ----------------------------
(***************************************************************************)
(* Theorems on Usage, for every set of requests, every limit and every     *)
(* number of days. What is charged and stored are sums, which the library  *)
(* folds over a set; the first part shows that such a sum does not depend  *)
(* on the order of the fold.                                               *)
(***************************************************************************)
EXTENDS Usage, FiniteSetTheorems, WellFoundedInduction, TLAPS

-----------------------------------------------------------------------------
(* Sums of numbers over a finite set *)

(* SumFunctionOnSet is a fold: it takes the elements in the order of CHOOSE. g is that *)
(* fold, over the subsets of S.                                                        *)
Pick(S) == CHOOSE x \in S : TRUE
Unfolded(g, f, S) == [s \in SUBSET S |-> IF s = {} THEN 0 ELSE f[Pick(s)] + g[s \ {Pick(s)}]]
IsSum(g, f, S) == g = Unfolded(g, f, S)
Agree(f, h, S) == \A x \in S : f[x] = h[x]

\* Induction over the numbers, for a set of them.
LEMMA Numbers ==
  ASSUME NEW N \in SUBSET Nat, 0 \in N, \A n \in N : n + 1 \in N
  PROVE  N = Nat
<1> DEFINE R == OpToRel(<, Nat)
           T == Nat \ N
<1> SUFFICES ASSUME T # {} PROVE FALSE
  OBVIOUS
<1>1. PICK y \in T : \A z \in T : ~ (<<z, y>> \in R)
  <2>1. T \subseteq Nat /\ T # {}
    OBVIOUS
  <2> HIDE DEF T
  <2> QED
    BY <2>1, NatLessThanWellFounded, WFMin
<1>2. y \in Nat /\ y # 0
  OBVIOUS
<1>3. y - 1 \in Nat /\ y - 1 < y /\ (y - 1) + 1 = y
  BY <1>2
<1>4. y - 1 \notin T
  BY <1>1, <1>2, <1>3 DEF OpToRel
<1> QED
  BY <1>3, <1>4

\* What is left of a finite set is one smaller.
LEMMA Remaining ==
  ASSUME NEW S, IsFiniteSet(S), NEW x \in S
  PROVE  /\ IsFiniteSet(S \ {x})
         /\ Cardinality(S) \in Nat /\ Cardinality(S \ {x}) \in Nat
         /\ Cardinality(S) = Cardinality(S \ {x}) + 1
BY FS_RemoveElement, FS_CardinalityType, FS_Subset

LEMMA Picked ==
  ASSUME NEW S, IsFiniteSet(S), S # {}
  PROVE  Pick(S) \in S /\ Cardinality(S \ {Pick(S)}) + 1 = Cardinality(S)
         /\ Cardinality(S \ {Pick(S)}) \in Nat /\ IsFiniteSet(S \ {Pick(S)})
<1>1. Pick(S) \in S
  BY DEF Pick
<1> HIDE DEF Pick
<1> QED
  BY <1>1, Remaining

\* The fold of the library.
LEMMA SumIsFold ==
  ASSUME NEW f, NEW S
  PROVE  SumFunctionOnSet(f, S) = (CHOOSE g : IsSum(g, f, S))[S]
BY Zenon DEF SumFunctionOnSet, FoldFunctionOnSet, MapThenFoldSet, IsSum, Unfolded, Pick

\* There is such a fold.
LEMMA SumExists ==
  ASSUME NEW f, NEW S, IsFiniteSet(S)
  PROVE  \E g : IsSum(g, f, S)
<1> DEFINE Unfolds(g, n) ==
             \A s \in SUBSET S : Cardinality(s) <= n => g[s] = Unfolded(g, f, S)[s]
           N == {n \in Nat : \E g : Unfolds(g, n)}
<1>1. 0 \in N
  <2> DEFINE zero == [s \in SUBSET S |-> 0]
  <2>1. ASSUME NEW s \in SUBSET S, Cardinality(s) <= 0 PROVE s = {}
    BY <2>1, FS_Subset, FS_EmptySet, FS_CardinalityType
  <2>2. Unfolds(zero, 0)
    BY <2>1 DEF Unfolded
  <2> QED
    BY <2>2
<1>2. ASSUME NEW n \in N PROVE n + 1 \in N
  <2>1. PICK g : Unfolds(g, n)
    OBVIOUS
  <2> DEFINE h == Unfolded(g, f, S)
  <2>2. ASSUME NEW s \in SUBSET S, Cardinality(s) <= n + 1 PROVE h[s] = Unfolded(h, f, S)[s]
    <3>1. CASE s = {}
      BY <3>1 DEF Unfolded
    <3>2. CASE s # {}
      <4> DEFINE rest == s \ {Pick(s)}
      <4>1. rest \in SUBSET S /\ Cardinality(rest) <= n
        BY <2>2, <3>2, Picked, FS_Subset
      <4>2. g[rest] = h[rest]
        BY <2>1, <4>1
      <4> QED
        BY <3>2, <4>1, <4>2 DEF Unfolded
    <3> QED
      BY <3>1, <3>2
  <2>3. Unfolds(h, n + 1)
    BY <2>2
  <2> QED
    BY <2>3
<1>3. N = Nat
  <2>1. N \in SUBSET Nat
    OBVIOUS
  <2> HIDE DEF N
  <2> QED
    BY <1>1, <1>2, <2>1, Numbers
<1>4. PICK g : Unfolds(g, Cardinality(S))
  BY <1>3, FS_CardinalityType
<1> DEFINE h == Unfolded(g, f, S)
<1>5. ASSUME NEW s \in SUBSET S PROVE g[s] = h[s]
  <2>1. Cardinality(s) <= Cardinality(S)
    BY FS_Subset
  <2> QED
    BY <1>4, <2>1
<1>6. ASSUME NEW s \in SUBSET S, s # {} PROVE s \ {Pick(s)} \in SUBSET S
  OBVIOUS
<1>7. Unfolded(h, f, S) = Unfolded(g, f, S)
  <2> HIDE DEF h
  <2> QED
    BY <1>5, <1>6 DEF Unfolded
<1> QED
  BY <1>7 DEF IsSum

\* Two folds agree on what is in both, if their terms do.
LEMMA SumsAgree ==
  ASSUME NEW f, NEW h, NEW S, NEW T, NEW U, U \subseteq S, U \subseteq T, IsFiniteSet(U), Agree(f, h, U),
         NEW a, NEW b, IsSum(a, f, S), IsSum(b, h, T)
  PROVE  a[U] = b[U]
<1> DEFINE N == {n \in Nat : \A s \in SUBSET U : Cardinality(s) = n => a[s] = b[s]}
<1>1. ASSUME NEW s \in SUBSET U
      PROVE  /\ a[s] = IF s = {} THEN 0 ELSE f[Pick(s)] + a[s \ {Pick(s)}]
             /\ b[s] = IF s = {} THEN 0 ELSE h[Pick(s)] + b[s \ {Pick(s)}]
  <2>1. s \in SUBSET S /\ s \in SUBSET T
    OBVIOUS
  <2> QED
    BY <2>1 DEF IsSum, Unfolded
<1>2. 0 \in N
  <2> SUFFICES ASSUME NEW s \in SUBSET U, Cardinality(s) = 0 PROVE a[s] = b[s]
    OBVIOUS
  <2>1. s = {}
    BY FS_Subset, FS_EmptySet
  <2> QED
    BY <1>1, <2>1
<1>3. ASSUME NEW n \in N PROVE n + 1 \in N
  <2> SUFFICES ASSUME NEW s \in SUBSET U, Cardinality(s) = n + 1 PROVE a[s] = b[s]
    OBVIOUS
  <2>1. IsFiniteSet(s) /\ n \in Nat
    BY FS_Subset
  <2>2. s # {}
    BY <2>1, FS_EmptySet
  <2>3. Pick(s) \in s /\ Cardinality(s \ {Pick(s)}) = n
    BY <2>1, <2>2, Picked
  <2>4. a[s \ {Pick(s)}] = b[s \ {Pick(s)}] /\ f[Pick(s)] = h[Pick(s)]
    BY <2>3 DEF Agree
  <2> HIDE DEF N
  <2> QED
    BY <1>1, <2>2, <2>4
<1>4. N = Nat
  <2>1. N \in SUBSET Nat
    OBVIOUS
  <2> HIDE DEF N
  <2> QED
    BY <1>2, <1>3, <2>1, Numbers
<1> QED
  BY <1>4, FS_CardinalityType

LEMMA SumIsSome ==
  ASSUME NEW f, NEW S, IsFiniteSet(S)
  PROVE  \E g : IsSum(g, f, S) /\ SumFunctionOnSet(f, S) = g[S]
BY SumExists, SumIsFold

\* A sum depends on the terms in it only.
LEMMA SumSame ==
  ASSUME NEW f, NEW h, NEW S, IsFiniteSet(S), Agree(f, h, S)
  PROVE  SumFunctionOnSet(f, S) = SumFunctionOnSet(h, S)
<1>1. PICK a : IsSum(a, f, S) /\ SumFunctionOnSet(f, S) = a[S]
  BY SumIsSome
<1>2. PICK b : IsSum(b, h, S) /\ SumFunctionOnSet(h, S) = b[S]
  BY SumIsSome
<1>3. a[S] = b[S]
  <2>1. S \subseteq S /\ IsSum(a, f, S) /\ IsSum(b, h, S)
    BY <1>1, <1>2
  <2> QED
    BY <2>1, SumsAgree
<1> QED
  BY <1>1, <1>2, <1>3

LEMMA SumEmpty == ASSUME NEW f PROVE SumFunctionOnSet(f, {}) = 0
<1>1. PICK g : IsSum(g, f, {}) /\ SumFunctionOnSet(f, {}) = g[{}]
  BY SumIsSome, FS_EmptySet
<1> QED
  BY <1>1 DEF IsSum, Unfolded

LEMMA SumPicked ==
  ASSUME NEW f, NEW S, IsFiniteSet(S), S # {}
  PROVE  SumFunctionOnSet(f, S) = f[Pick(S)] + SumFunctionOnSet(f, S \ {Pick(S)})
<1> DEFINE rest == S \ {Pick(S)}
<1>1. PICK a : IsSum(a, f, S) /\ SumFunctionOnSet(f, S) = a[S]
  BY SumIsSome
<1>2. PICK b : IsSum(b, f, rest) /\ SumFunctionOnSet(f, rest) = b[rest]
  BY SumIsSome, FS_Subset
<1>3. a[rest] = b[rest]
  <2>1. rest \subseteq S /\ IsFiniteSet(rest) /\ Agree(f, f, rest)
    BY FS_Subset DEF Agree
  <2> HIDE DEF rest
  <2> QED
    BY <1>1, <1>2, <2>1, SumsAgree
<1>4. a[S] = f[Pick(S)] + a[rest]
  BY <1>1 DEF IsSum, Unfolded
<1> QED
  BY <1>1, <1>2, <1>3, <1>4

\* A sum of numbers is a number.
LEMMA SumIsNumber ==
  ASSUME NEW f, NEW S, IsFiniteSet(S), \A x \in S : f[x] \in Nat
  PROVE  SumFunctionOnSet(f, S) \in Nat
<1> DEFINE N == {n \in Nat : \A s \in SUBSET S : Cardinality(s) = n => SumFunctionOnSet(f, s) \in Nat}
<1>1. 0 \in N
  <2> SUFFICES ASSUME NEW s \in SUBSET S, Cardinality(s) = 0 PROVE SumFunctionOnSet(f, s) \in Nat
    OBVIOUS
  <2>1. s = {}
    BY FS_Subset, FS_EmptySet
  <2> QED
    BY <2>1, SumEmpty
<1>2. ASSUME NEW n \in N PROVE n + 1 \in N
  <2> SUFFICES ASSUME NEW s \in SUBSET S, Cardinality(s) = n + 1
               PROVE  SumFunctionOnSet(f, s) \in Nat
    OBVIOUS
  <2>1. IsFiniteSet(s) /\ n \in Nat
    BY FS_Subset
  <2>2. s # {} /\ Pick(s) \in s
    BY <2>1, FS_EmptySet, Picked
  <2>3. SumFunctionOnSet(f, s \ {Pick(s)}) \in Nat
    <3>1. \A y \in s : Cardinality(s \ {y}) = n /\ s \ {y} \in SUBSET S
      BY <2>1, Remaining
    <3> QED
      BY <2>2, <3>1
  <2>4. SumFunctionOnSet(f, s) = f[Pick(s)] + SumFunctionOnSet(f, s \ {Pick(s)})
    BY <2>1, <2>2, SumPicked
  <2> HIDE DEF N
  <2> QED
    BY <2>2, <2>3, <2>4
<1>3. N = Nat
  <2>1. N \in SUBSET Nat
    OBVIOUS
  <2> HIDE DEF N
  <2> QED
    BY <1>1, <1>2, <2>1, Numbers
<1> QED
  BY <1>3, FS_CardinalityType

\* Nothing but zeros is zero in all.
LEMMA SumOfZeros ==
  ASSUME NEW f, NEW S, IsFiniteSet(S), \A x \in S : f[x] = 0
  PROVE  SumFunctionOnSet(f, S) = 0
<1> DEFINE N == {n \in Nat : \A s \in SUBSET S : Cardinality(s) = n => SumFunctionOnSet(f, s) = 0}
<1>1. 0 \in N
  <2> SUFFICES ASSUME NEW s \in SUBSET S, Cardinality(s) = 0 PROVE SumFunctionOnSet(f, s) = 0
    OBVIOUS
  <2>1. s = {}
    BY FS_Subset, FS_EmptySet
  <2> QED
    BY <2>1, SumEmpty
<1>2. ASSUME NEW n \in N PROVE n + 1 \in N
  <2> SUFFICES ASSUME NEW s \in SUBSET S, Cardinality(s) = n + 1
               PROVE  SumFunctionOnSet(f, s) = 0
    OBVIOUS
  <2>1. IsFiniteSet(s) /\ n \in Nat
    BY FS_Subset
  <2>2. s # {} /\ Pick(s) \in s
    BY <2>1, FS_EmptySet, Picked
  <2>3. \A y \in s : Cardinality(s \ {y}) = n /\ s \ {y} \in SUBSET S
    BY <2>1, Remaining
  <2>4. SumFunctionOnSet(f, s \ {Pick(s)}) = 0
    BY <2>2, <2>3
  <2>5. SumFunctionOnSet(f, s) = f[Pick(s)] + SumFunctionOnSet(f, s \ {Pick(s)})
    BY <2>1, <2>2, SumPicked
  <2> HIDE DEF N
  <2> QED
    BY <2>2, <2>4, <2>5
<1>3. N = Nat
  <2>1. N \in SUBSET Nat
    OBVIOUS
  <2> HIDE DEF N
  <2> QED
    BY <1>1, <1>2, <2>1, Numbers
<1> QED
  BY <1>3, FS_CardinalityType

\* Any term of a sum may be taken out of it.
LEMMA SumTakes ==
  ASSUME NEW f, NEW S, IsFiniteSet(S), \A x \in S : f[x] \in Nat
  PROVE  \A x \in S : SumFunctionOnSet(f, S) = f[x] + SumFunctionOnSet(f, S \ {x})
<1> DEFINE Total(s) == SumFunctionOnSet(f, s)
           Good(s) == \A x \in s : Total(s) = f[x] + Total(s \ {x})
           N == {n \in Nat : \A s \in SUBSET S : Cardinality(s) = n => Good(s)}
<1>0. \A s \in SUBSET S : IsFiniteSet(s) /\ Total(s) \in Nat
  BY FS_Subset, SumIsNumber
<1>1. 0 \in N
  <2> SUFFICES ASSUME NEW s \in SUBSET S, Cardinality(s) = 0 PROVE Good(s)
    OBVIOUS
  <2>1. s = {}
    BY FS_Subset, FS_EmptySet
  <2> QED
    BY <2>1
<1>2. ASSUME NEW n \in N PROVE n + 1 \in N
  <2> SUFFICES ASSUME NEW s \in SUBSET S, Cardinality(s) = n + 1, NEW x \in s
               PROVE  Total(s) = f[x] + Total(s \ {x})
    OBVIOUS
  <2> DEFINE p == Pick(s)
             both == (s \ {x}) \ {p}
  <2>1. IsFiniteSet(s) /\ n \in Nat
    BY <1>0
  <2>2. s # {} /\ p \in s
    BY <2>1, Picked
  <2>3. Total(s) = f[p] + Total(s \ {p})
    BY <2>1, <2>2, SumPicked
  <2>4. ASSUME NEW y \in s PROVE Good(s \ {y})
    <3>1. Cardinality(s \ {y}) = n /\ s \ {y} \in SUBSET S
      BY <2>1, Remaining
    <3> HIDE DEF Good
    <3> QED
      BY <3>1
  <2>5. CASE x = p
    BY <2>3, <2>5
  <2>6. CASE x # p
    <3>1. Total(s \ {p}) = f[x] + Total(both)
      <4>1. (s \ {p}) \ {x} = both /\ x \in s \ {p}
        BY <2>6
      <4> HIDE DEF both
      <4> QED
        BY <2>2, <2>4, <4>1
    <3>2. Total(s \ {x}) = f[p] + Total(both)
      BY <2>2, <2>4, <2>6
    <3>3. Total(both) \in Nat /\ f[p] \in Nat /\ f[x] \in Nat
      BY <1>0, <2>2
    <3> HIDE DEF Total, both
    <3> QED
      BY <2>3, <3>1, <3>2, <3>3
  <2> QED
    BY <2>5, <2>6
<1>3. N = Nat
  <2>1. N \in SUBSET Nat
    OBVIOUS
  <2> HIDE DEF N
  <2> QED
    BY <1>1, <1>2, <2>1, Numbers
<1> QED
  BY <1>3, FS_CardinalityType

\* A sum with one term more.
LEMMA SumAdds ==
  ASSUME NEW f, NEW S, IsFiniteSet(S), NEW x, x \notin S,
         f[x] \in Nat, \A y \in S : f[y] \in Nat
  PROVE  SumFunctionOnSet(f, S \cup {x}) = f[x] + SumFunctionOnSet(f, S)
<1>1. IsFiniteSet(S \cup {x}) /\ (S \cup {x}) \ {x} = S /\ x \in S \cup {x}
  BY FS_AddElement
<1>2. \A y \in S \cup {x} : f[y] \in Nat
  OBVIOUS
<1> QED
  BY <1>1, <1>2, SumTakes

\* A sum in which one term has grown by n.
LEMMA SumGrows ==
  ASSUME NEW f, NEW h, NEW S, IsFiniteSet(S), NEW x \in S, NEW n \in Nat,
         \A y \in S : f[y] \in Nat,
         h[x] = f[x] + n, \A y \in S \ {x} : h[y] = f[y]
  PROVE  SumFunctionOnSet(h, S) = SumFunctionOnSet(f, S) + n
<1> DEFINE rest == S \ {x}
<1>1. IsFiniteSet(rest)
  BY FS_Subset
<1>2. \A y \in S : h[y] \in Nat
  OBVIOUS
<1>3. SumFunctionOnSet(h, S) = h[x] + SumFunctionOnSet(h, rest)
  BY <1>2, SumTakes
<1>4. SumFunctionOnSet(f, S) = f[x] + SumFunctionOnSet(f, rest)
  BY SumTakes
<1>5. SumFunctionOnSet(h, rest) = SumFunctionOnSet(f, rest)
  BY <1>1, SumSame DEF Agree
<1>6. SumFunctionOnSet(f, rest) \in Nat
  BY <1>1, SumIsNumber
<1> HIDE DEF rest
<1> QED
  BY <1>3, <1>4, <1>5, <1>6

-----------------------------------------------------------------------------
(* The invariant of admissions *)

(* The advisory lock has one holder. *)
OneHolder == \A r, s \in Requests : Holds(r) /\ Holds(s) => r = s

(* What is reserved is still within the limits when it is committed, since nothing *)
(* but its own commit adds to the ledger or to the recordings meanwhile.           *)
RoomForDay(r) == \A k \in Daily : ledger[day[r]][k] + Charge(r)[k] <= DailyLimit[k]
RoomForFile(r) ==
  r \in Uploads =>
    /\ Cardinality(recordings) + 1 <= MaxRecordings
    /\ Bytes(recordings) + Size[r] <= MaxBytes
ReservedFits == \A r \in Requests : pc[r] = "reserved" => RoomForDay(r) /\ RoomForFile(r)

AdmissionInv == TypeOK /\ OneHolder /\ DailyWithinLimits /\ ReservedFits

(* A step that adds a recording ends within the limits. *)
GrowthFits ==
  ~(recordings' \subseteq recordings) =>
    Cardinality(recordings') <= MaxRecordings /\ Bytes(recordings') <= MaxBytes

-----------------------------------------------------------------------------

\* What a request charges is a record of numbers.
LEMMA ChargeType ==
  ASSUME TypeOK, NEW r \in Requests, NEW k \in Daily
  PROVE  /\ Charge(r)[k] \in Nat
         /\ k \notin Checked(r) => Charge(r)[k] = 0
<1>1. r \in Uploads => seconds[r] \in Nat
  <2>1. r \in Uploads => seconds[r] \in Seconds \cup {0}
    BY Zenon DEF TypeOK
  <2>2. \A n : n \in Seconds \cup {0} => n \in Nat
    <3>1. \A n : n \in Seconds => n \in Nat
      BY SecondsAssumption, Zenon
    <3>2. 0 \in Nat
      OBVIOUS
    <3> QED
      BY <3>1, <3>2, Zenon
  <2> QED
    BY <2>1, <2>2, Zenon
<1>2. Charge(r)[k] = IF k = Kind(r) THEN 1
                     ELSE IF r \in Uploads /\ k = "audio_seconds" THEN seconds[r] ELSE 0
  BY DEF Charge
<1>3. Charge(r)[k] \in Nat
  BY <1>1, <1>2
<1>4. k \notin Checked(r) => k # Kind(r) /\ ~(r \in Uploads /\ k = "audio_seconds")
  BY DEF Checked
<1> QED
  BY <1>2, <1>3, <1>4

\* What fits is within the limits when it has been added.
LEMMA FitsLeavesRoom ==
  ASSUME TypeOK, DailyWithinLimits, NEW r \in Requests, Fits(r)
  PROVE  RoomForDay(r) /\ RoomForFile(r)
<1>1. ASSUME NEW k \in Daily PROVE ledger[day[r]][k] + Charge(r)[k] <= DailyLimit[k]
  <2>1. day[r] \in Days /\ ledger[day[r]][k] \in Nat /\ ledger[day[r]][k] <= DailyLimit[k]
    BY DEF TypeOK, DailyWithinLimits
  <2>2. CASE k \in Checked(r)
    BY <2>2 DEF Fits, FitsDay
  <2>3. CASE k \notin Checked(r)
    BY <2>1, <2>3, ChargeType
  <2> QED
    BY <2>2, <2>3
<1>2. RoomForFile(r)
  BY DEF Fits, FitsAccount, RoomForFile
<1> QED
  BY <1>1, <1>2 DEF RoomForDay

\* Recordings are finitely many. Deleting one frees its slot and its bytes; another one
\* takes no more than its own.
LEMMA RecordingsCount ==
  ASSUME NEW rs, rs \subseteq Uploads \cup Existing, NEW c \in Uploads \cup Existing
  PROVE  /\ IsFiniteSet(rs) /\ Cardinality(rs) \in Nat /\ Bytes(rs) \in Nat
         /\ Cardinality(rs \ {c}) <= Cardinality(rs) /\ Bytes(rs \ {c}) <= Bytes(rs)
         /\ Cardinality(rs \cup {c}) <= Cardinality(rs) + 1
         /\ Bytes(rs \cup {c}) <= Bytes(rs) + Size[c]
<1>1. IsFiniteSet(rs) /\ IsFiniteSet(rs \ {c})
  BY FiniteAssumption, FS_Union, FS_Subset
<1>2. Size[c] \in Nat /\ \A u \in rs : Size[u] \in Nat
  BY SizeAssumption
<1>3. Bytes(rs) \in Nat /\ Bytes(rs \ {c}) \in Nat
  BY <1>1, <1>2, SumIsNumber DEF Bytes
<1>4. CASE c \in rs
  <2>1. rs \cup {c} = rs
    BY <1>4
  <2>2. Bytes(rs) = Size[c] + Bytes(rs \ {c})
    BY <1>1, <1>2, <1>4, SumTakes DEF Bytes
  <2>3. Cardinality(rs) \in Nat /\ Cardinality(rs \ {c}) = Cardinality(rs) - 1
    BY <1>1, <1>4, FS_CardinalityType, FS_RemoveElement
  <2>4. /\ Cardinality(rs \ {c}) <= Cardinality(rs) /\ Cardinality(rs) <= Cardinality(rs) + 1
        /\ Bytes(rs \ {c}) <= Bytes(rs) /\ Bytes(rs) <= Bytes(rs) + Size[c]
    BY <1>2, <1>3, <2>2, <2>3
  <2> QED
    BY <1>1, <1>3, <2>1, <2>3, <2>4
<1>5. CASE c \notin rs
  <2>1. rs \ {c} = rs
    BY <1>5
  <2>2. Bytes(rs \cup {c}) = Size[c] + Bytes(rs)
    BY <1>1, <1>2, <1>5, SumAdds DEF Bytes
  <2>3. Cardinality(rs) \in Nat /\ Cardinality(rs \cup {c}) = Cardinality(rs) + 1
    BY <1>1, <1>5, FS_CardinalityType, FS_AddElement
  <2> QED
    BY <1>1, <1>2, <1>3, <2>1, <2>2, <2>3
<1> QED
  BY <1>4, <1>5

\* The ledger is empty at first.
LEMMA AdmissionInit == Init => AdmissionInv
<1> SUFFICES ASSUME Init PROVE AdmissionInv
  OBVIOUS
<1> USE DEF Init
<1>1. TypeOK
  BY DaysAssumption DEF TypeOK, Days, Places
<1>2. OneHolder /\ ReservedFits
  BY DEF OneHolder, Holds, ReservedFits
<1>3. DailyWithinLimits
  BY LimitsAssumption DEF DailyWithinLimits
<1> QED
  BY <1>1, <1>2, <1>3 DEF AdmissionInv

\* A request that moves without touching the ledger or the recordings.
LEMMA MoveStep ==
  ASSUME AdmissionInv, NEW r \in Requests, NEW p \in Places,
         pc' = [pc EXCEPT ![r] = p],
         UNCHANGED <<ledger, recordings>>,
         today' \in Days,
         day' \in [Requests -> Days], \A s \in Requests \ {r} : day'[s] = day[s],
         seconds' \in [Uploads -> Seconds \cup {0}],
         \A s \in Uploads \ {r} : seconds'[s] = seconds[s],
         p \in {"locked", "decoding", "measured", "reserved"} =>
           Holds(r) \/ \A s \in Requests : ~Holds(s),
         p = "reserved" => Fits(r) /\ UNCHANGED <<day, seconds>>
  PROVE  AdmissionInv'
<1> USE DEF AdmissionInv
<1>1. TypeOK'
  BY DEF TypeOK
<1>2. OneHolder'
  BY DEF OneHolder, Holds, TypeOK
<1>3. DailyWithinLimits'
  BY DEF DailyWithinLimits
<1>4. ASSUME NEW s \in Requests, pc'[s] = "reserved" PROVE RoomForDay(s)' /\ RoomForFile(s)'
  <2>1. pc[s] = "reserved" \/ Fits(s)
    BY <1>4 DEF TypeOK
  <2>2. RoomForDay(s) /\ RoomForFile(s)
    BY <2>1, FitsLeavesRoom DEF ReservedFits
  <2>3. day'[s] = day[s] /\ (s \in Uploads => seconds'[s] = seconds[s])
    BY <1>4 DEF TypeOK
  <2> QED
    BY <2>2, <2>3 DEF RoomForDay, RoomForFile, Charge, Kind, Requests
<1> QED
  BY <1>1, <1>2, <1>3, <1>4 DEF ReservedFits

\* The commit of a reservation.
LEMMA CommitStep ==
  ASSUME AdmissionInv, NEW r \in Requests, Commit(r)
  PROVE  /\ AdmissionInv'
         /\ GrowthFits
<1> USE DEF AdmissionInv, Commit
<1>1. Holds(r) /\ RoomForDay(r) /\ RoomForFile(r)
  BY DEF Holds, ReservedFits
<1>2. \A k \in Daily : Charge(r)[k] \in Nat
  BY ChargeType
<1>3. TypeOK'
  <2>1. ledger' \in [Days -> [Daily -> Nat]]
    BY <1>2 DEF TypeOK
  <2>2. recordings' \subseteq Uploads \cup Existing /\ pc' \in [Requests -> Places]
    BY DEF TypeOK, Places
  <2> QED
    BY <2>1, <2>2 DEF TypeOK
<1>4. OneHolder'
  BY DEF OneHolder, Holds, TypeOK
<1>5. DailyWithinLimits'
  BY <1>1, <1>2 DEF DailyWithinLimits, RoomForDay, TypeOK
<1>6. \A s \in Requests : pc'[s] # "reserved"
  BY <1>1 DEF OneHolder, Holds, TypeOK
<1>7. GrowthFits
  <2> SUFFICES ASSUME ~(recordings' \subseteq recordings)
               PROVE  Cardinality(recordings') <= MaxRecordings /\ Bytes(recordings') <= MaxBytes
    BY DEF GrowthFits
  <2>1. r \in Uploads /\ recordings' = recordings \cup {r}
    OBVIOUS
  <2>2. r \in Uploads \cup Existing /\ recordings \subseteq Uploads \cup Existing
        /\ recordings' \subseteq Uploads \cup Existing
    BY <1>3, <2>1 DEF TypeOK
  <2>3. /\ Cardinality(recordings) \in Nat /\ Cardinality(recordings') \in Nat
        /\ Cardinality(recordings') <= Cardinality(recordings) + 1
        /\ Bytes(recordings) \in Nat /\ Bytes(recordings') \in Nat /\ Size[r] \in Nat
        /\ Bytes(recordings') <= Bytes(recordings) + Size[r]
    BY <2>1, <2>2, RecordingsCount, SizeAssumption
  <2> QED
    BY <1>1, <2>1, <2>3, LimitsAssumption DEF RoomForFile
<1> QED
  BY <1>3, <1>4, <1>5, <1>6, <1>7 DEF ReservedFits

\* Deleting a recording takes nothing from the ledger.
LEMMA DeleteStep ==
  ASSUME AdmissionInv, NEW c \in Uploads \cup Existing, Delete(c)
  PROVE  AdmissionInv'
<1> USE DEF AdmissionInv, Delete
<1>1. TypeOK' /\ OneHolder' /\ DailyWithinLimits'
  BY DEF TypeOK, OneHolder, Holds, DailyWithinLimits
<1>2. /\ Cardinality(recordings') <= Cardinality(recordings) /\ Bytes(recordings') <= Bytes(recordings)
      /\ Cardinality(recordings) \in Nat /\ Cardinality(recordings') \in Nat
      /\ Bytes(recordings) \in Nat /\ Bytes(recordings') \in Nat
  BY <1>1, RecordingsCount DEF TypeOK
<1>3. \A r \in Requests : RoomForDay(r) => RoomForDay(r)'
  BY DEF RoomForDay, Charge, Kind
<1>4. \A r \in Requests : RoomForFile(r) => RoomForFile(r)'
  BY <1>2, LimitsAssumption, SizeAssumption DEF RoomForFile
<1> QED
  BY <1>1, <1>3, <1>4 DEF ReservedFits

\* Every step keeps the invariant.
LEMMA AdmissionStep ==
  ASSUME AdmissionInv, [Next]_vars
  PROVE  /\ AdmissionInv'
         /\ GrowthFits
<1>1. CASE UNCHANGED vars
  BY <1>1 DEF vars, AdmissionInv, TypeOK, OneHolder, Holds, DailyWithinLimits, ReservedFits,
              RoomForDay, RoomForFile, Charge, Kind, GrowthFits
<1>2. ASSUME NEW r \in Requests, Ask(r) \/ Lock(r) \/ Precheck(r) \/ Measure(r) \/ Reserve(r)
                                   \/ Refuse(r) \/ Call(r) \/ Abandon(r)
      PROVE  AdmissionInv' /\ recordings' = recordings
  <2> USE DEF AdmissionInv, TypeOK
  <2>1. CASE Ask(r) \/ Refuse(r) \/ Call(r) \/ Abandon(r)
    <3>1. PICK p \in {"waiting", "refused", "called", "failed"} : pc' = [pc EXCEPT ![r] = p]
      BY <2>1 DEF Ask, Refuse, Call, Abandon
    <3>2. UNCHANGED <<today, ledger, recordings, day, seconds>> /\ p \in Places
      BY <2>1 DEF Ask, Refuse, Call, Abandon, Places
    <3> QED
      BY <3>1, <3>2, MoveStep
  <2>2. CASE Lock(r)
    BY <2>2, MoveStep DEF Lock, Places
  <2>3. CASE Precheck(r)
    BY <2>3, MoveStep DEF Precheck, Places, Holds
  <2>4. CASE Measure(r)
    <3>1. /\ pc' = [pc EXCEPT ![r] = "measured"] /\ "measured" \in Places /\ Holds(r)
          /\ UNCHANGED <<today, ledger, recordings>>
          /\ day' \in [Requests -> Days] /\ \A s \in Requests \ {r} : day'[s] = day[s]
      BY <2>4 DEF Measure, Places, Holds
    <3>2. /\ seconds' \in [Uploads -> Seconds \cup {0}]
          /\ \A s \in Uploads \ {r} : seconds'[s] = seconds[s]
      BY <2>4 DEF Measure
    <3> QED
      BY <3>1, <3>2, MoveStep
  <2>5. CASE Reserve(r)
    <3>1. Holds(r)
      BY <2>5 DEF Reserve, Holds
    <3> QED
      BY <2>5, <3>1, MoveStep DEF Reserve, Places
  <2> QED
    BY <1>2, <2>1, <2>2, <2>3, <2>4, <2>5 DEF Lock, Precheck, Measure, Reserve, Ask, Refuse, Call, Abandon
<1>3. ASSUME NEW c \in Uploads \cup Existing, Delete(c)
      PROVE  AdmissionInv' /\ recordings' \subseteq recordings
  BY <1>3, DeleteStep DEF Delete
<1>4. CASE Midnight
  <2>1. TypeOK'
    BY <1>4, DaysAssumption DEF Midnight, AdmissionInv, TypeOK, Days
  <2> QED
    BY <1>4, <2>1 DEF Midnight, AdmissionInv, OneHolder, Holds, DailyWithinLimits, ReservedFits,
                      RoomForDay, RoomForFile, Charge, Kind, GrowthFits
<1>5. ASSUME recordings' \subseteq recordings PROVE GrowthFits
  BY <1>5 DEF GrowthFits
<1>6. CASE \E r \in Requests : Ask(r) \/ Admission(r) \/ Abandon(r)
  BY <1>2, <1>5, <1>6, CommitStep DEF Admission
<1>7. CASE \E c \in Uploads \cup Existing : Delete(c)
  BY <1>3, <1>5, <1>7
<1>8. Midnight => recordings' = recordings
  BY DEF Midnight
<1> QED
  BY <1>1, <1>4, <1>5, <1>6, <1>7, <1>8 DEF Next

\* So it holds in every behaviour.
LEMMA AdmissionCorrect == Spec => []AdmissionInv
<1>1. AdmissionInv /\ [Next]_vars => AdmissionInv'
  BY AdmissionStep
<1> QED
  BY <1>1, AdmissionInit, PTL DEF Spec

-----------------------------------------------------------------------------
(* The ledger *)

Settled == {r \in Requests : pc[r] \in {"committed", "called"}}
SettledOn(d) == {r \in Settled : day[r] = d}
Charges(d, k) == [r \in SettledOn(d) |-> Charge(r)[k]]
PaidCalls == [d \in Days |-> ledger[d]["ai"]]

(* The ledger is what was committed, and its calls of the provider are those of any day. *)
LedgerInv ==
  /\ IsFiniteSet(Settled)
  /\ \A d \in Days, k \in Daily : ledger[d][k] = SumFunctionOnSet(Charges(d, k), SettledOn(d))
  /\ SumFunctionOnSet(PaidCalls, Days) = Cardinality(Settled \cap AiCalls)

\* The fold of a function is the sum over its domain.
LEMMA SumOfFunction ==
  ASSUME NEW f PROVE SumFunction(f) = SumFunctionOnSet(f, DOMAIN f)
BY DEF SumFunction

LEMMA DaysFinite == IsFiniteSet(Days)
BY DaysAssumption, FS_Interval DEF Days

\* Nothing is charged at first.
LEMMA LedgerInit == Init => LedgerInv
<1> SUFFICES ASSUME Init PROVE LedgerInv
  OBVIOUS
<1> USE DEF Init
<1>1. Settled = {} /\ \A d \in Days : SettledOn(d) = {}
  BY DEF Settled, SettledOn
<1>2. \A d \in Days, k \in Daily : ledger[d][k] = 0
  OBVIOUS
<1>3. SumFunctionOnSet(PaidCalls, Days) = 0
  <2>1. \A d \in Days : PaidCalls[d] = 0
    BY <1>2 DEF PaidCalls, Daily
  <2> QED
    BY <2>1, DaysFinite, SumOfZeros
<1>4. IsFiniteSet(Settled) /\ Cardinality(Settled \cap AiCalls) = 0
  BY <1>1, FS_EmptySet
<1> QED
  BY <1>1, <1>2, <1>3, <1>4, SumEmpty DEF LedgerInv

\* A step that charges nothing and settles nothing.
LEMMA LedgerStays ==
  ASSUME LedgerInv, UNCHANGED ledger, Settled' = Settled,
         \A r \in Settled : day'[r] = day[r] /\ Charge(r)' = Charge(r)
  PROVE  LedgerInv'
<1>1. ASSUME NEW d \in Days PROVE SettledOn(d)' = SettledOn(d)
  BY DEF SettledOn
<1>2. ASSUME NEW d \in Days, NEW k \in Daily PROVE Charges(d, k)' = Charges(d, k)
  <2>1. \A r \in SettledOn(d) : Charge(r)' = Charge(r)
    BY DEF SettledOn
  <2> QED
    BY <1>1, <2>1 DEF Charges
<1>3. PaidCalls' = PaidCalls
  BY DEF PaidCalls
<1> QED
  BY <1>1, <1>2, <1>3 DEF LedgerInv

\* A commit charges its request to the day that the request has read, and to no other.
LEMMA LedgerCommits ==
  ASSUME TypeOK, LedgerInv, NEW r \in Requests, Commit(r)
  PROVE  LedgerInv'
<1>1. \A k \in Daily : Charge(r)[k] \in Nat
  BY ChargeType
<1>2. /\ r \notin Settled /\ Settled' = Settled \cup {r} /\ IsFiniteSet(Settled')
  <2>1. r \notin Settled /\ Settled' = Settled \cup {r}
    BY DEF Commit, Settled, TypeOK
  <2> QED
    BY <2>1, FS_AddElement DEF LedgerInv
<1>3. \A s \in Requests : Charge(s)' = Charge(s)
  BY DEF Commit, Charge, Kind
<1>4. ASSUME NEW d \in Days, NEW k \in Daily
      PROVE  ledger'[d][k] = SumFunctionOnSet(Charges(d, k), SettledOn(d))'
  <2>1. IsFiniteSet(SettledOn(d)) /\ r \notin SettledOn(d) /\ SettledOn(d) \subseteq Requests
    BY <1>2, FS_Subset DEF SettledOn, Settled, LedgerInv
  <2>2. ledger[d][k] = SumFunctionOnSet(Charges(d, k), SettledOn(d))
    BY DEF LedgerInv
  <2>3. CASE d # day[r]
    <3>1. SettledOn(d)' = SettledOn(d)
      BY <1>2, <2>3 DEF SettledOn, Commit
    <3>2. Charges(d, k)' = Charges(d, k)
      BY <1>3, <2>1, <3>1 DEF Charges
    <3>3. ledger'[d][k] = ledger[d][k]
      BY <2>3 DEF Commit, TypeOK
    <3> QED
      BY <2>2, <3>1, <3>2, <3>3
  <2>4. CASE d = day[r]
    <3>1. SettledOn(d)' = SettledOn(d) \cup {r}
      BY <1>2, <2>4 DEF SettledOn, Commit
    <3> DEFINE more == [s \in SettledOn(d) \cup {r} |-> Charge(s)[k]]
    <3>2. Charges(d, k)' = more
      BY <1>3, <2>1, <3>1 DEF Charges
    <3>3. ledger'[d][k] = ledger[d][k] + Charge(r)[k]
      BY <2>4 DEF Commit, TypeOK
    <3>4. more[r] = Charge(r)[k] /\ \A s \in SettledOn(d) : more[s] = Charge(s)[k] /\ more[s] \in Nat
      BY <2>1, ChargeType
    <3>5. Agree(more, Charges(d, k), SettledOn(d))
      BY <3>4 DEF Agree, Charges
    <3> HIDE DEF more
    <3>6. SumFunctionOnSet(more, SettledOn(d)) = SumFunctionOnSet(Charges(d, k), SettledOn(d))
      BY <2>1, <3>5, SumSame
    <3>7. SumFunctionOnSet(more, SettledOn(d)) \in Nat
      BY <2>1, <3>4, SumIsNumber
    <3>8. SumFunctionOnSet(more, SettledOn(d) \cup {r})
            = Charge(r)[k] + SumFunctionOnSet(more, SettledOn(d))
      BY <1>1, <2>1, <3>4, SumAdds
    <3>9. SumFunctionOnSet(Charges(d, k), SettledOn(d))' = SumFunctionOnSet(more, SettledOn(d) \cup {r})
      BY <3>1, <3>2
    <3> QED
      BY <1>1, <2>2, <3>3, <3>6, <3>7, <3>8, <3>9
  <2> QED
    BY <2>3, <2>4
<1>5. SumFunctionOnSet(PaidCalls', Days) = Cardinality(Settled' \cap AiCalls)
  <2>1. day[r] \in Days /\ "ai" \in Daily /\ \A d \in Days : PaidCalls[d] \in Nat
    BY DEF TypeOK, PaidCalls, Daily
  <2>2. /\ PaidCalls'[day[r]] = PaidCalls[day[r]] + Charge(r)["ai"]
        /\ \A d \in Days \ {day[r]} : PaidCalls'[d] = PaidCalls[d]
    BY <2>1 DEF Commit, PaidCalls, TypeOK
  <2>3. SumFunctionOnSet(PaidCalls', Days) = SumFunctionOnSet(PaidCalls, Days) + Charge(r)["ai"]
    <3> DEFINE f == PaidCalls
               h == PaidCalls'
    <3>1. Charge(r)["ai"] \in Nat
      BY <1>1, <2>1
    <3>2. /\ h[day[r]] = f[day[r]] + Charge(r)["ai"] /\ \A d \in Days : f[d] \in Nat
          /\ \A d \in Days \ {day[r]} : h[d] = f[d]
      BY <2>1, <2>2
    <3> HIDE DEF f, h
    <3>3. SumFunctionOnSet(h, Days) = SumFunctionOnSet(f, Days) + Charge(r)["ai"]
      BY <2>1, <3>1, <3>2, DaysFinite, SumGrows
    <3> QED
      BY <3>3 DEF f, h
  <2>4. IsFiniteSet(Settled \cap AiCalls) /\ Cardinality(Settled \cap AiCalls) \in Nat
        /\ SumFunctionOnSet(PaidCalls, Days) = Cardinality(Settled \cap AiCalls)
    BY FS_Subset, FS_CardinalityType DEF LedgerInv
  <2>5. CASE r \in AiCalls
    <3>1. Charge(r)["ai"] = 1
      BY <2>1, <2>5, KindsAssumption DEF Charge, Kind, Requests
    <3>2. Settled' \cap AiCalls = (Settled \cap AiCalls) \cup {r} /\ r \notin Settled \cap AiCalls
      BY <1>2, <2>5
    <3>3. Cardinality(Settled' \cap AiCalls) = Cardinality(Settled \cap AiCalls) + 1
      BY <2>4, <3>2, FS_AddElement
    <3> QED
      BY <2>3, <2>4, <3>1, <3>3
  <2>6. CASE r \notin AiCalls
    <3>1. Charge(r)["ai"] = 0
      BY <2>1, <2>6 DEF Charge, Kind
    <3>2. Settled' \cap AiCalls = Settled \cap AiCalls
      BY <1>2, <2>6
    <3>3. Cardinality(Settled' \cap AiCalls) = Cardinality(Settled \cap AiCalls)
      BY <3>2
    <3>4. SumFunctionOnSet(PaidCalls', Days) = Cardinality(Settled \cap AiCalls) + 0
      BY <2>3, <2>4, <3>1
    <3> QED
      BY <2>4, <3>3, <3>4
  <2> QED
    BY <2>5, <2>6
<1> QED
  BY <1>2, <1>4, <1>5 DEF LedgerInv

\* The ledger stays what was committed: through every move of a request, deletion and midnight.
LEMMA LedgerStep ==
  ASSUME TypeOK, LedgerInv, [Next]_vars
  PROVE  LedgerInv'
<1>1. ASSUME NEW r \in Requests, Ask(r) \/ Lock(r) \/ Precheck(r) \/ Measure(r) \/ Reserve(r)
                                   \/ Refuse(r) \/ Call(r) \/ Abandon(r)
      PROVE  LedgerInv'
  <2>1. UNCHANGED ledger
    BY <1>1 DEF Ask, Lock, Precheck, Measure, Reserve, Refuse, Call, Abandon
  <2>2. Settled' = Settled
    <3>1. PICK p \in Places : pc' = [pc EXCEPT ![r] = p]
      BY <1>1 DEF Ask, Lock, Precheck, Measure, Reserve, Refuse, Call, Abandon, Places
    <3>2. p \in {"committed", "called"} <=> pc[r] \in {"committed", "called"}
      <4>1. p = pc'[r]
        BY <3>1 DEF TypeOK
      <4>2. CASE Call(r)
        BY <4>1, <4>2 DEF Call, TypeOK
      <4>3. CASE Ask(r) \/ Lock(r) \/ Precheck(r) \/ Measure(r)
        BY <4>1, <4>3 DEF Ask, Lock, Precheck, Measure, TypeOK
      <4>4. CASE Reserve(r) \/ Refuse(r) \/ Abandon(r)
        BY <4>1, <4>4 DEF Reserve, Refuse, Abandon, Holds, TypeOK
      <4> QED
        BY <1>1, <4>2, <4>3, <4>4
    <3> QED
      BY <3>1, <3>2 DEF Settled, TypeOK
  <2>3. ASSUME NEW s \in Settled PROVE day'[s] = day[s] /\ Charge(s)' = Charge(s)
    <3>1. s \in Requests /\ pc[s] \in {"committed", "called"}
      BY DEF Settled
    <3>2. day'[s] = day[s] /\ (s \in Uploads => seconds'[s] = seconds[s])
      <4>1. CASE Lock(r) \/ Measure(r)
        BY <3>1, <4>1 DEF Lock, Measure, TypeOK
      <4>2. CASE ~(Lock(r) \/ Measure(r))
        BY <1>1, <4>2 DEF Ask, Precheck, Reserve, Refuse, Call, Abandon
      <4> QED
        BY <4>1, <4>2
    <3> QED
      BY <3>2 DEF Charge, Kind
  <2> QED
    BY <2>1, <2>2, <2>3, LedgerStays
<1>2. CASE UNCHANGED <<ledger, pc, day, seconds>>
  <2>1. Settled' = Settled /\ UNCHANGED ledger /\ \A r \in Settled : day'[r] = day[r]
    BY <1>2 DEF Settled
  <2>2. \A r \in Settled : Charge(r)' = Charge(r)
    BY <1>2 DEF Charge, Kind
  <2> QED
    BY <2>1, <2>2, LedgerStays
<1>3. UNCHANGED vars \/ Midnight \/ (\E c \in Uploads \cup Existing : Delete(c))
        => UNCHANGED <<ledger, pc, day, seconds>>
  BY DEF vars, Midnight, Delete
<1> QED
  BY <1>1, <1>2, <1>3, LedgerCommits DEF Next, Admission

LEMMA LedgerCorrect == Spec => []LedgerInv
<1>1. AdmissionInv /\ LedgerInv /\ [Next]_vars => LedgerInv'
  BY LedgerStep DEF AdmissionInv
<1> QED
  BY <1>1, LedgerInit, AdmissionCorrect, PTL DEF Spec

-----------------------------------------------------------------------------
(* The results *)

\* The variables keep their types.
THEOREM UsageTypeCorrect == Spec => []TypeOK
BY AdmissionCorrect, PTL DEF AdmissionInv

\* Each day is charged exactly for the admissions committed under it: the refused, the
\* failed and the deleted neither add nor take back.
THEOREM LedgerStaysExact == Spec => []LedgerIsExact
<1>1. LedgerInv => LedgerIsExact
  <2> SUFFICES ASSUME LedgerInv, NEW d \in Days, NEW k \in Daily
               PROVE  ledger[d][k] = SumFunction(Charges(d, k))
    <3>1. \A d \in Days :
            {r \in Requests : pc[r] \in {"committed", "called"} /\ day[r] = d} = SettledOn(d)
      BY DEF SettledOn, Settled
    <3> QED
      BY <3>1 DEF LedgerIsExact, Charges
  <2>1. DOMAIN Charges(d, k) = SettledOn(d)
    BY DEF Charges
  <2> QED
    BY <2>1, SumOfFunction DEF LedgerInv
<1> QED
  BY <1>1, LedgerCorrect, PTL

\* The provider is never called more often than the ledger was charged for.
THEOREM CallsStayPaid == Spec => []CallsArePaid
<1>1. LedgerInv => CallsArePaid
  <2> SUFFICES ASSUME LedgerInv PROVE CallsArePaid
    OBVIOUS
  <2>1. SumFunction(PaidCalls) = Cardinality(Settled \cap AiCalls)
    BY SumOfFunction DEF LedgerInv, PaidCalls
  <2>2. IsFiniteSet(Settled \cap AiCalls)
    BY FS_Subset DEF LedgerInv
  <2>3. {r \in AiCalls : pc[r] = "called"} \subseteq Settled \cap AiCalls
    BY DEF Settled, Requests
  <2> QED
    BY <2>1, <2>2, <2>3, FS_Subset DEF CallsArePaid, PaidCalls
<1> QED
  BY <1>1, LedgerCorrect, PTL

\* No day is ever charged more than the pilot allows.
THEOREM DailyLimitsHold == Spec => []DailyWithinLimits
<1>1. AdmissionInv => DailyWithinLimits
  BY DEF AdmissionInv
<1> QED
  BY <1>1, AdmissionCorrect, PTL

\* A new recording never takes the account beyond its slots or its bytes, even if the
\* account was beyond them when the limits were switched on.
THEOREM GrowthStaysWithinLimits == Spec => GrowsWithinLimits
<1>1. AdmissionInv /\ [Next]_vars => [GrowthFits]_vars
  BY AdmissionStep
<1> QED
  BY <1>1, AdmissionCorrect, PTL DEF Spec, GrowsWithinLimits, GrowthFits
=============================================================================
