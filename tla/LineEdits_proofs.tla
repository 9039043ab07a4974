-------------------------- MODULE LineEdits_proofs --------------------------
(***************************************************************************)
(* What TLAPS proves of LineEdits, for any keys, values and lengths of     *)
(* texts.                                                                  *)
(*                                                                         *)
(* No recursion over a text is needed.  The places of a text that a step   *)
(* keeps are listed in one order only (OneList), so two texts are the same *)
(* when the same places of a third are listed in them: that is how lines   *)
(* are followed through apply_line_edits and apply_overrides.  What these  *)
(* keep and what they set is stated key by key (EditsKeep, EditsSet,       *)
(* OverridesKeep, OverridesSet), and the properties follow from that.  The *)
(* loop of shared_lines is the one induction, over the steps of Spec: the  *)
(* box shares the lines seen so far (SharesSeen).                          *)
(***************************************************************************)
EXTENDS LineEdits, FiniteSetTheorems, TLAPS

-----------------------------------------------------------------------------
(* Places in order.                                                        *)

\* How many of some places come up to i.
Rank(places, i) == Cardinality({j \in places : j =< i})

\* A function that lists some places from the first to the last.
Lists(f, m, places) ==
    /\ f \in [1..m -> places]
    /\ \A i \in places : \E n \in 1..m : f[n] = i
    /\ \A n, o \in 1..m : n < o => f[n] < f[o]

LEMMA PlacesFinite ==
  ASSUME NEW m \in Nat, NEW P \in SUBSET (1..m)
  PROVE  IsFiniteSet(P) /\ Cardinality(P) \in Nat /\ Cardinality(P) =< m
<1>1. IsFiniteSet(1..m) /\ Cardinality(1..m) = m
  BY FS_Interval
<1>2. IsFiniteSet(P) /\ Cardinality(P) =< Cardinality(1..m)
  BY <1>1, FS_Subset
<1> QED BY <1>1, <1>2, FS_CardinalityType

\* Ranks number the places from 1, in order.
LEMMA RankIncreases ==
  ASSUME NEW m \in Nat, NEW P \in SUBSET (1..m)
  PROVE  \A i \in P : /\ i \in Nat
                      /\ Rank(P, i) \in 1..Cardinality(P)
                      /\ \A j \in P : i < j => Rank(P, i) < Rank(P, j)
<1> TAKE i \in P
<1> DEFINE Upto(j) == {k \in P : k =< j}
<1>0. \A j \in P : j \in 1..m /\ j \in Nat /\ j =< j
  OBVIOUS
<1>1. \A j \in P : Upto(j) \in SUBSET P /\ j \in Upto(j)
  BY <1>0
<1>2. IsFiniteSet(P) /\ Cardinality(P) \in Nat
  BY PlacesFinite
<1>3. \A j \in P : IsFiniteSet(Upto(j)) /\ Cardinality(Upto(j)) \in Nat
                   /\ Cardinality(Upto(j)) =< Cardinality(P)
  BY <1>1, <1>2, FS_Subset, FS_CardinalityType
<1>4. Cardinality(Upto(i)) # 0
  BY <1>1, <1>3, FS_EmptySet
<1>5. ASSUME NEW j \in P, i < j
      PROVE  Cardinality(Upto(i)) < Cardinality(Upto(j))
  <2>1. Upto(i) \in SUBSET Upto(j) /\ Upto(i) # Upto(j)
    <3>1. j \notin Upto(i) /\ \A k \in P : k =< i => k =< j
      BY <1>0, <1>5
    <3> QED BY <3>1, <1>1
  <2>2. Cardinality(Upto(i)) =< Cardinality(Upto(j)) /\ Cardinality(Upto(i)) # Cardinality(Upto(j))
    BY <2>1, <1>3, FS_Subset
  <2> QED BY <2>2, <1>3
<1> QED BY <1>0, <1>2, <1>3, <1>4, <1>5 DEF Rank

\* Every number up to the number of places is the rank of one of them.
LEMMA NthPlace ==
  ASSUME NEW m \in Nat, NEW P \in SUBSET (1..m)
  PROVE  /\ \A n \in 1..Cardinality(P) : Nth(P, n) \in P /\ Rank(P, Nth(P, n)) = n
         /\ \A i \in P : Nth(P, Rank(P, i)) = i
<1> DEFINE c == Cardinality(P)
           R == [i \in P |-> Rank(P, i)]
<1>1. IsFiniteSet(P) /\ c \in Nat
  BY PlacesFinite
<1>r. \A i \in P : /\ i \in Nat
                   /\ Rank(P, i) \in 1..c
                   /\ \A j \in P : i < j => Rank(P, i) < Rank(P, j)
  BY RankIncreases
<1>2. \A i, j \in P : Rank(P, i) = Rank(P, j) => i = j
  <2> SUFFICES ASSUME NEW i \in P, NEW j \in P, i < j
               PROVE  Rank(P, i) # Rank(P, j)
    BY <1>r
  <2> QED BY <1>1, <1>r
<1>3. R \in Injection(P, 1..c)
  BY <1>2, <1>r DEF Injection, IsInjective
<1>4. IsFiniteSet(1..c) /\ Cardinality(1..c) = c
  BY <1>1, FS_Interval
<1>5. R \in Surjection(P, 1..c)
  BY <1>3, <1>4, FS_Injection
<1>6. ASSUME NEW n \in 1..c
      PROVE  Nth(P, n) \in P /\ Rank(P, Nth(P, n)) = n
  <2>1. \E i \in P : Rank(P, i) = n
    BY <1>5 DEF Surjection
  <2> QED BY <2>1 DEF Nth, Rank
<1>7. ASSUME NEW i \in P
      PROVE  Nth(P, Rank(P, i)) = i
  <2>1. Rank(P, i) \in 1..c
    BY <1>r
  <2> QED BY <2>1, <1>6, <1>2
<1> QED BY <1>6, <1>7

\* Nth lists the places.
LEMMA NthLists ==
  ASSUME NEW m \in Nat, NEW P \in SUBSET (1..m)
  PROVE  Lists([n \in 1..Cardinality(P) |-> Nth(P, n)], Cardinality(P), P)
<1> DEFINE c == Cardinality(P)
<1>1. c \in Nat
  BY PlacesFinite
<1>r. \A i \in P : /\ i \in Nat
                   /\ Rank(P, i) \in 1..c
                   /\ \A j \in P : i < j => Rank(P, i) < Rank(P, j)
  BY RankIncreases
<1>n. /\ \A n \in 1..c : Nth(P, n) \in P /\ Rank(P, Nth(P, n)) = n
      /\ \A i \in P : Nth(P, Rank(P, i)) = i
  BY NthPlace
<1>2. ASSUME NEW n \in 1..c, NEW o \in 1..c, n < o
      PROVE  Nth(P, n) < Nth(P, o)
  <2>1. /\ Nth(P, n) \in P /\ Rank(P, Nth(P, n)) = n
        /\ Nth(P, o) \in P /\ Rank(P, Nth(P, o)) = o
    BY <1>n
  <2>2. \A i, j \in P : Rank(P, i) < Rank(P, j) => i < j
    <3> SUFFICES ASSUME NEW i \in P, NEW j \in P, ~ (i < j)
                 PROVE  ~ (Rank(P, i) < Rank(P, j))
      OBVIOUS
    <3>1. i = j \/ j < i
      BY <1>r
    <3> QED BY <3>1, <1>1, <1>r
  <2> QED BY <2>1, <2>2, <1>2
<1>3. \A i \in P : \E n \in 1..c : Nth(P, n) = i
  BY <1>n, <1>r
<1> QED BY <1>1, <1>2, <1>3, <1>n DEF Lists

\* There is no other list of them.
LEMMA OneList ==
  ASSUME NEW m \in Nat, NEW P \in SUBSET (1..m), NEW c \in Nat, NEW f, Lists(f, c, P)
  PROVE  c = Cardinality(P) /\ \A n \in 1..c : f[n] = Nth(P, n)
<1>0. /\ \A i \in P : i \in Nat
      /\ \A n \in 1..c : n \in Nat
  OBVIOUS
<1>1. /\ f \in [1..c -> P]
      /\ \A n \in 1..c : f[n] \in P /\ f[n] \in Nat /\ n \in Nat
      /\ \A n, o \in 1..c : n < o => f[n] < f[o]
  <2>1. f \in [1..c -> P] /\ \A n, o \in 1..c : n < o => f[n] < f[o]
    BY DEF Lists
  <2>2. \A n \in 1..c : f[n] \in P
    BY <2>1
  <2> QED BY <2>1, <2>2, <1>0
<1>i. \A n, o \in 1..c : f[n] = f[o] => n = o
  <2> SUFFICES ASSUME NEW n \in 1..c, NEW o \in 1..c, n < o PROVE f[n] # f[o]
    BY <1>1
  <2> QED BY <1>1
<1>2. f \in Bijection(1..c, P)
  BY <1>1, <1>i DEF Lists, Bijection, Injection, IsInjective, Surjection
<1>3. c = Cardinality(P)
  BY <1>2, FS_CountingElements DEF ExistsBijection
<1>4. ASSUME NEW n \in 1..c
      PROVE  f[n] = Nth(P, n)
  <2> DEFINE U == {j \in P : j =< f[n]}
             g == [k \in 1..n |-> f[k]]
  <2>1. f[n] \in P
    BY <1>1
  <2>2. \A k \in 1..c : f[k] =< f[n] <=> k =< n
    <3> TAKE k \in 1..c
    <3>1. k < n \/ k = n \/ n < k
      BY <1>1
    <3> QED BY <3>1, <1>1
  <2>3. \A k \in 1..n : k \in 1..c
    OBVIOUS
  <2>4. g \in [1..n -> U]
    BY <1>1, <2>2, <2>3
  <2>5. \A j \in U : \E k \in 1..n : g[k] = j
    <3>1. TAKE j \in U
    <3>2. PICK k \in 1..c : f[k] = j
      BY <3>1 DEF Lists
    <3>3. k \in 1..n
      BY <3>2, <3>1, <2>2
    <3> QED BY <3>2, <3>3
  <2>6. \A k, l \in 1..n : g[k] = g[l] => k = l
    BY <1>i, <2>3
  <2>7. g \in Bijection(1..n, U)
    BY <2>4, <2>5, <2>6 DEF Bijection, Injection, IsInjective, Surjection
  <2>8. Cardinality(U) = n
    BY <2>7, FS_CountingElements DEF ExistsBijection
  <2>9. Rank(P, f[n]) = n
    BY <2>8 DEF Rank
  <2> QED BY <2>9, <2>1, NthPlace
<1> QED BY <1>3, <1>4

-----------------------------------------------------------------------------
(* The lines of a text at some places.                                     *)

LEMMA AtPlaces ==
  ASSUME NEW S, NEW t \in Seq(S), NEW P \in SUBSET DOMAIN t
  PROVE  /\ At(t, P) \in Seq(S)
         /\ Len(At(t, P)) = Cardinality(P)
         /\ \E f : /\ Lists(f, Len(At(t, P)), P)
                   /\ \A n \in 1..Len(At(t, P)) : At(t, P)[n] = t[f[n]]
<1> DEFINE c == Cardinality(P)
           f == [n \in 1..c |-> Nth(P, n)]
<1>1. Len(t) \in Nat /\ DOMAIN t = 1..Len(t)
  OBVIOUS
<1>2. c \in Nat
  BY <1>1, PlacesFinite
<1>3. Lists(f, c, P)
  BY <1>1, NthLists
<1>4. \A n \in 1..c : f[n] \in P /\ t[f[n]] \in S
  <2>1. f \in [1..c -> P]
    BY <1>3 DEF Lists
  <2>2. \A n \in 1..c : f[n] \in P
    BY <2>1
  <2>3. \A i \in P : t[i] \in S
    BY <1>1
  <2> QED BY <2>2, <2>3
<1>5. At(t, P) = [n \in 1..c |-> t[f[n]]]
  BY DEF At
<1>6. At(t, P) \in [1..c -> S]
  BY <1>4, <1>5
<1>7. At(t, P) \in Seq(S) /\ Len(At(t, P)) = c
  BY <1>2, <1>6
<1> HIDE DEF f
<1>8. \A n \in 1..c : At(t, P)[n] = t[f[n]]
  BY <1>5
<1> QED BY <1>3, <1>7, <1>8

\* A sequence that goes through the places in order is what is at them.
LEMMA AtListed ==
  ASSUME NEW S, NEW t \in Seq(S), NEW P \in SUBSET DOMAIN t,
         NEW R, NEW s \in Seq(R), NEW f, Lists(f, Len(s), P),
         \A n \in 1..Len(s) : s[n] = t[f[n]]
  PROVE  s = At(t, P)
<1>1. Len(t) \in Nat /\ DOMAIN t = 1..Len(t) /\ Len(s) \in Nat /\ s = [n \in 1..Len(s) |-> s[n]]
  OBVIOUS
<1>2. Len(s) = Cardinality(P) /\ \A n \in 1..Len(s) : f[n] = Nth(P, n)
  <2>1. P \in SUBSET (1..Len(t)) /\ Lists(f, Len(s), P)
    BY <1>1
  <2>2. Len(t) \in Nat /\ Len(s) \in Nat
    BY <1>1
  <2> QED BY ONLY <2>1, <2>2, OneList
<1>3. \A n \in 1..Len(s) : s[n] = t[Nth(P, n)]
  BY <1>2
<1> QED BY <1>1, <1>2, <1>3 DEF At

LEMMA AtWhole ==
  ASSUME NEW S, NEW t \in Seq(S)
  PROVE  At(t, DOMAIN t) = t
<1> DEFINE f == [n \in 1..Len(t) |-> n]
<1>1. Lists(f, Len(t), DOMAIN t) /\ \A n \in 1..Len(t) : t[n] = t[f[n]]
  BY DEF Lists
<1> HIDE DEF f
<1> QED BY <1>1, AtListed

\* The lines at some places are exactly those of the text there.
LEMMA AtLines ==
  ASSUME NEW S, NEW t \in Seq(S), NEW P \in SUBSET DOMAIN t
  PROVE  /\ At(t, P) \in Seq(S)
         /\ \A n \in DOMAIN At(t, P) : \E i \in P : At(t, P)[n] = t[i]
         /\ \A i \in P : \E n \in DOMAIN At(t, P) : At(t, P)[n] = t[i]
<1>1. At(t, P) \in Seq(S)
  BY AtPlaces
<1>2. DOMAIN At(t, P) = 1..Len(At(t, P))
  BY <1>1
<1>3. PICK f : /\ Lists(f, Len(At(t, P)), P)
               /\ \A n \in 1..Len(At(t, P)) : At(t, P)[n] = t[f[n]]
  BY AtPlaces
<1>4. /\ \A n \in 1..Len(At(t, P)) : f[n] \in P
      /\ \A i \in P : \E n \in 1..Len(At(t, P)) : f[n] = i
  BY <1>3 DEF Lists
<1>5. ASSUME NEW n \in DOMAIN At(t, P)
      PROVE  \E i \in P : At(t, P)[n] = t[i]
  <2>1. f[n] \in P /\ At(t, P)[n] = t[f[n]]
    BY <1>2, <1>3, <1>4
  <2> QED BY <2>1
<1>6. ASSUME NEW i \in P
      PROVE  \E n \in DOMAIN At(t, P) : At(t, P)[n] = t[i]
  BY <1>2, <1>3, <1>4
<1> QED BY <1>1, <1>5, <1>6

\* Two lines at some places are in the text's order, at different places.
LEMMA AtOrder ==
  ASSUME NEW S, NEW t \in Seq(S), NEW P \in SUBSET DOMAIN t
  PROVE  \A n, o \in DOMAIN At(t, P) : n < o =>
           \E i, j \in P : i < j /\ At(t, P)[n] = t[i] /\ At(t, P)[o] = t[j]
<1>1. PICK f : /\ Lists(f, Len(At(t, P)), P)
               /\ \A n \in 1..Len(At(t, P)) : At(t, P)[n] = t[f[n]]
  BY AtPlaces
<1>2. DOMAIN At(t, P) = 1..Len(At(t, P))
  BY AtPlaces
<1> DEFINE s == At(t, P)
<1> HIDE DEF s
<1> SUFFICES ASSUME NEW n \in DOMAIN s, NEW o \in DOMAIN s, n < o
             PROVE  \E i, j \in P : i < j /\ s[n] = t[i] /\ s[o] = t[j]
  BY DEF s
<1>3. f[n] \in P /\ f[o] \in P /\ f[n] < f[o] /\ s[n] = t[f[n]] /\ s[o] = t[f[o]]
  BY <1>1, <1>2 DEF s, Lists
<1> QED BY <1>3

\* Taking lines out of what is at some places, or the same lines out of the text.
LEMMA AmongAt ==
  ASSUME NEW S, NEW t \in Seq(S), NEW P \in SUBSET DOMAIN t, NEW L,
         \A i \in DOMAIN t : t[i] \in L => i \in P
  PROVE  Among(At(t, P), L) = Among(t, L)
<1> DEFINE s == At(t, P)
           Q == {n \in DOMAIN s : s[n] \in L}
           O == {i \in DOMAIN t : t[i] \in L}
           r == At(s, Q)
<1>1. s \in Seq(S) /\ Len(s) \in Nat
  BY AtPlaces
<1>2. DOMAIN s = 1..Len(s) /\ DOMAIN t = 1..Len(t) /\ Len(t) \in Nat
  BY <1>1
<1>3. PICK e : Lists(e, Len(s), P) /\ \A n \in 1..Len(s) : s[n] = t[e[n]]
  BY AtPlaces
<1> HIDE DEF s
<1>4. Q \in SUBSET DOMAIN s /\ O \in SUBSET DOMAIN t
  OBVIOUS
<1> HIDE DEF Q, O
<1>5. r \in Seq(S) /\ Len(r) \in Nat
  BY <1>1, <1>4, AtPlaces
<1>6. PICK d : Lists(d, Len(r), Q) /\ \A n \in 1..Len(r) : r[n] = s[d[n]]
  BY <1>1, <1>4, AtPlaces
<1> HIDE DEF r
<1> DEFINE f == [n \in 1..Len(r) |-> e[d[n]]]
<1>7. /\ \A n \in 1..Len(r) : d[n] \in Q
      /\ \A k \in Q : \E n \in 1..Len(r) : d[n] = k
      /\ \A n, o \in 1..Len(r) : n < o => d[n] < d[o]
  BY <1>6 DEF Lists
<1>8. /\ \A n \in 1..Len(s) : e[n] \in P
      /\ \A k \in P : \E n \in 1..Len(s) : e[n] = k
      /\ \A n, o \in 1..Len(s) : n < o => e[n] < e[o]
  BY <1>3 DEF Lists
<1>9. \A n \in Q : n \in 1..Len(s) /\ e[n] \in O
  <2> TAKE n \in Q
  <2>1. n \in 1..Len(s) /\ s[n] \in L
    BY <1>2 DEF Q
  <2> QED BY <2>1, <1>3, <1>8 DEF O
<1>10. \A i \in O : \E n \in Q : e[n] = i
  <2> TAKE i \in O
  <2>1. i \in P /\ t[i] \in L
    BY DEF O
  <2>2. PICK n \in 1..Len(s) : e[n] = i
    BY <2>1, <1>8
  <2>3. n \in Q
    BY <2>1, <2>2, <1>2, <1>3 DEF Q
  <2> QED BY <2>2, <2>3
<1>11. Lists(f, Len(r), O)
  <2>1. f \in [1..Len(r) -> O]
    BY <1>7, <1>9
  <2>2. \A i \in O : \E n \in 1..Len(r) : f[n] = i
    <3> TAKE i \in O
    <3>1. PICK k \in Q : e[k] = i
      BY <1>10
    <3>2. PICK n \in 1..Len(r) : d[n] = k
      BY <1>7
    <3> QED BY <3>1, <3>2
  <2>3. \A n, o \in 1..Len(r) : n < o => f[n] < f[o]
    BY <1>7, <1>8, <1>9
  <2> QED BY <2>1, <2>2, <2>3 DEF Lists
<1>12. \A n \in 1..Len(r) : r[n] = t[f[n]]
  BY <1>3, <1>6, <1>7, <1>9
<1> HIDE DEF f
<1>13. r = At(t, O)
  BY <1>4, <1>5, <1>11, <1>12, AtListed
<1> QED BY <1>13 DEF r, s, Q, O, Among

\* Texts that have the same of these lines at the same places.
LEMMA AmongSame ==
  ASSUME NEW S, NEW t \in Seq(S), NEW u \in Seq(S), NEW L,
         \A i \in DOMAIN t : t[i] \in L => i \in DOMAIN u /\ u[i] = t[i],
         \A i \in DOMAIN u : u[i] \in L => i \in DOMAIN t /\ t[i] \in L
  PROVE  Among(t, L) = Among(u, L)
<1> DEFINE P == {i \in DOMAIN t : t[i] \in L}
<1>1. P = {i \in DOMAIN u : u[i] \in L}
  OBVIOUS
<1>2. \A i \in P : t[i] = u[i]
  OBVIOUS
<1>3. P \in SUBSET (1..Len(t)) /\ Len(t) \in Nat
  OBVIOUS
<1> HIDE DEF P
<1>4. \A n \in 1..Cardinality(P) : Nth(P, n) \in P
  BY <1>3, NthPlace
<1>5. At(t, P) = At(u, P)
  BY <1>2, <1>4 DEF At
<1> QED BY <1>1, <1>5 DEF Among, P

\* Lines of other keys at the end of a text do not count.
LEMMA AmongAppend ==
  ASSUME NEW S, NEW t \in Seq(S), NEW u \in Seq(S), NEW L, \A i \in DOMAIN u : u[i] \notin L
  PROVE  Among(t \o u, L) = Among(t, L)
<1> DEFINE w == t \o u
           P == {i \in DOMAIN t : t[i] \in L}
<1>1. /\ Len(t) \in Nat /\ Len(u) \in Nat
      /\ DOMAIN t = 1..Len(t) /\ DOMAIN u = 1..Len(u) /\ DOMAIN w = 1..(Len(t) + Len(u))
      /\ w \in Seq(S)
      /\ \A i \in DOMAIN w : w[i] = IF i =< Len(t) THEN t[i] ELSE u[i - Len(t)]
  OBVIOUS
<1> HIDE DEF w
<1>2. \A i \in DOMAIN w : w[i] \in L => i \in DOMAIN t
  <2> SUFFICES ASSUME NEW i \in DOMAIN w, w[i] \in L, i > Len(t) PROVE FALSE
    BY <1>1
  <2>1. i - Len(t) \in DOMAIN u
    BY <1>1
  <2> QED BY <2>1, <1>1
<1>3. P = {i \in DOMAIN w : w[i] \in L}
  BY <1>1, <1>2
<1>4. \A i \in P : w[i] = t[i]
  BY <1>1
<1>5. P \in SUBSET (1..Len(t))
  BY <1>1
<1> HIDE DEF P
<1>6. \A n \in 1..Cardinality(P) : Nth(P, n) \in P
  BY <1>1, <1>5, NthPlace
<1>7. At(w, P) = At(t, P)
  BY <1>4, <1>6 DEF At
<1> QED BY <1>3, <1>7 DEF w, P, Among

-----------------------------------------------------------------------------
(* Texts and keys.                                                         *)

AnyLine == Line \cup {BlankLine}

LEMMA TextsAreSequences ==
  ASSUME NEW t \in Text
  PROVE  t \in Seq(AnyLine)
<1>0. MaxLines \in Nat
  BY LinesAssumption
<1>1. PICK n \in 0..MaxLines : t \in [1..n -> AnyLine]
  BY DEF Text, AnyLine
<1>2. n \in Nat
  BY <1>0
<1> QED BY <1>1, <1>2

\* A line is blank, or has a key.
LEMMA LineCases ==
  /\ BlankLine \notin Line
  /\ "" \notin Key /\ BlankLine.key = ""
  /\ \A line \in AnyLine : line = BlankLine <=> line.key = ""
  /\ \A line \in AnyLine : line # BlankLine =>
       line \in Line /\ line.key \in Key /\ line.value \in Value
                     /\ line = [key |-> line.key, value |-> line.value]
<1>1. "" \notin Key
  BY LinesAssumption
<1>2. BlankLine.key = "" /\ \A line \in Line : line.key \in Key
  BY DEF Line, BlankLine
<1>3. \A line \in Line : line.value \in Value /\ line = [key |-> line.key, value |-> line.value]
  BY DEF Line
<1>4. \A line \in AnyLine : line \in Line \/ line = BlankLine
  BY DEF AnyLine
<1> QED BY <1>1, <1>2, <1>3, <1>4

\* Only the lines of a key count for it, in their order.
LEMMA AmongKey ==
  ASSUME NEW t \in Seq(AnyLine), NEW k \in Key
  PROVE  /\ k \in Keys(t) <=> \E i \in DOMAIN t : t[i].key = k
         /\ k \in Keys(t) <=> Among(t, OfKey(k)) # <<>>
         /\ k \in Keys(t) =>
              /\ LineOf(t, k) \in Line
              /\ LineOf(t, k).key = k
              /\ \E i \in DOMAIN t : t[i] = LineOf(t, k)
<1> DEFINE P == {i \in DOMAIN t : t[i] \in OfKey(k)}
           own == At(t, P)
<1>0. \A i \in DOMAIN t : t[i] \in AnyLine
  OBVIOUS
<1>1. \A i \in DOMAIN t : t[i] \in AnyLine /\ (t[i].key = k <=> t[i] \in OfKey(k))
  BY <1>0, LineCases DEF OfKey
<1>2. k \in Keys(t) <=> \E i \in DOMAIN t : t[i].key = k
  BY LineCases DEF Keys
<1>3. P \in SUBSET DOMAIN t
  OBVIOUS
<1>4. own \in Seq(AnyLine) /\ Len(own) \in Nat /\ DOMAIN own = 1..Len(own)
  BY <1>3, AtLines
<1>5. /\ \A n \in DOMAIN own : \E i \in P : own[n] = t[i]
      /\ \A i \in P : \E n \in DOMAIN own : own[n] = t[i]
  BY <1>3, AtLines
<1> HIDE DEF own
<1>6. k \in Keys(t) <=> P # {}
  BY <1>1, <1>2
<1>7. P # {} <=> own # <<>>
  BY <1>4, <1>5
<1>8. own # <<>> => \E i \in P : own[Len(own)] = t[i]
  BY <1>4, <1>5
<1>9. \A i \in P : t[i] \in Line /\ t[i].key = k /\ i \in DOMAIN t
  BY DEF OfKey
<1> HIDE DEF P
<1> QED BY <1>2, <1>6, <1>7, <1>8, <1>9 DEF own, P, Among, LineOf

LEMMA KeysOfText ==
  ASSUME NEW t \in Seq(AnyLine)
  PROVE  Keys(t) \subseteq Key
<1>1. \A i \in DOMAIN t : t[i] \in AnyLine
  OBVIOUS
<1> QED BY <1>1, LineCases DEF Keys

\* The first and the last of some places.
LEMMA EndPlaces ==
  ASSUME NEW m \in Nat, NEW P \in SUBSET (1..m), P # {}
  PROVE  /\ Cardinality(P) \in Nat /\ Cardinality(P) > 0
         /\ Nth(P, 1) \in P /\ \A i \in P : Nth(P, 1) =< i
         /\ Nth(P, Cardinality(P)) \in P /\ \A i \in P : i =< Nth(P, Cardinality(P))
<1> DEFINE c == Cardinality(P)
<1>1. IsFiniteSet(P) /\ c \in Nat
  BY PlacesFinite
<1>2. c > 0
  BY <1>1, FS_EmptySet
<1>3. 1 \in 1..c /\ c \in 1..c
  BY <1>1, <1>2
<1>4. \A i \in P : /\ i \in Nat
                   /\ Rank(P, i) \in 1..c
                   /\ \A j \in P : i < j => Rank(P, i) < Rank(P, j)
  BY RankIncreases
<1>5. \A n \in 1..c : Nth(P, n) \in P /\ Rank(P, Nth(P, n)) = n
  BY NthPlace
<1>6. \A i \in P : Nth(P, 1) =< i /\ i =< Nth(P, c)
  <2> TAKE i \in P
  <2>1. Nth(P, 1) \in P /\ Rank(P, Nth(P, 1)) = 1 /\ Nth(P, c) \in P /\ Rank(P, Nth(P, c)) = c
    BY <1>3, <1>5
  <2> DEFINE first == Nth(P, 1)
             last == Nth(P, c)
  <2> HIDE DEF first, last
  <2>2. i < first => Rank(P, i) < 1
    BY <2>1, <1>4 DEF first
  <2>3. last < i => c < Rank(P, i)
    BY <2>1, <1>4 DEF last
  <2>4. Rank(P, i) \in 1..c /\ i \in Nat /\ first \in Nat /\ last \in Nat
    BY <2>1, <1>4 DEF first, last
  <2>5. first =< i /\ i =< last
    BY <2>2, <2>3, <2>4, <1>1
  <2> QED BY <2>5 DEF first, last
<1> QED BY <1>1, <1>2, <1>3, <1>5, <1>6

\* The first line of a key that a text has.
LEMMA FirstLine ==
  ASSUME NEW t \in Seq(AnyLine), NEW k \in Key, k \in Keys(t)
  PROVE  \E i \in DOMAIN t : t[i].key = k /\ FirstOfKey(t, i)
<1> DEFINE P == {i \in DOMAIN t : t[i].key = k}
<1>1. P # {} /\ P \in SUBSET (1..Len(t)) /\ Len(t) \in Nat
  BY AmongKey
<1>2. Nth(P, 1) \in P /\ \A i \in P : Nth(P, 1) =< i
  BY <1>1, EndPlaces
<1>3. \A j \in 1..(Nth(P, 1) - 1) : j \in DOMAIN t /\ ~ (Nth(P, 1) =< j)
  BY <1>2
<1>4. FirstOfKey(t, Nth(P, 1))
  BY <1>2, <1>3 DEF FirstOfKey
<1> QED BY <1>2, <1>4

-----------------------------------------------------------------------------
(* Removing the blank lines at the edges.                                  *)

\* A text without blank lines at its edges.
Trimmed(t) == t # <<>> => t[1] # BlankLine /\ t[Len(t)] # BlankLine

LEMMA NormalizeTrimmed ==
  ASSUME NEW t \in Seq(AnyLine), Trimmed(t)
  PROVE  Normalize(t) = t
<1> DEFINE solid == {i \in DOMAIN t : t[i] # BlankLine}
<1>1. Len(t) \in Nat /\ DOMAIN t = 1..Len(t)
  OBVIOUS
<1>2. ASSUME t # <<>>
      PROVE  1 \in solid /\ Len(t) \in solid
  BY <1>1, <1>2 DEF Trimmed
<1>3. ASSUME NEW i \in DOMAIN t
      PROVE  \E j, k \in solid : j =< i /\ i =< k
  <2>1. t # <<>> /\ 1 =< i /\ i =< Len(t)
    BY <1>1
  <2> HIDE DEF solid
  <2> QED BY <2>1, <1>2
<1>4. {i \in DOMAIN t : \E j, k \in solid : j =< i /\ i =< k} = DOMAIN t
  BY <1>3
<1>5. At(t, DOMAIN t) = t
  BY AtWhole
<1> QED BY <1>4, <1>5 DEF Normalize

LEMMA NormalizeKeeps ==
  ASSUME NEW t \in Seq(AnyLine)
  PROVE  /\ Normalize(t) \in Seq(AnyLine)
         /\ Trimmed(Normalize(t))
         /\ \A n \in DOMAIN Normalize(t) : \E i \in DOMAIN t : Normalize(t)[n] = t[i]
         /\ \A L : BlankLine \notin L => Among(Normalize(t), L) = Among(t, L)
         /\ Keys(Normalize(t)) = Keys(t)
<1> DEFINE solid == {i \in DOMAIN t : t[i] # BlankLine}
           P == {i \in DOMAIN t : \E j, k \in solid : j =< i /\ i =< k}
           s == At(t, P)
<1>1. Len(t) \in Nat /\ P \in SUBSET (1..Len(t)) /\ P \in SUBSET DOMAIN t
  OBVIOUS
<1>2. \A i \in solid : i \in P /\ i =< i
  OBVIOUS
<1>3. s = Normalize(t)
  BY DEF Normalize
<1>4. s \in Seq(AnyLine) /\ Len(s) = Cardinality(P) /\ Len(s) \in Nat
  BY <1>1, AtPlaces
<1>5. Trimmed(s)
  <2> SUFFICES ASSUME s # <<>>
               PROVE  s[1] # BlankLine /\ s[Len(s)] # BlankLine
    BY DEF Trimmed
  <2>1. P # {}
    <3>1. Len(s) # 0
      BY <1>4
    <3> QED BY ONLY <3>1, <1>4, FS_EmptySet
  <2> DEFINE first == Nth(P, 1)
             last == Nth(P, Cardinality(P))
  <2>2. /\ Cardinality(P) \in Nat /\ Cardinality(P) > 0
        /\ first \in P /\ \A i \in P : first =< i
        /\ last \in P /\ \A i \in P : i =< last
    BY <2>1, <1>1, EndPlaces
  <2>3. s[1] = t[first] /\ s[Len(s)] = t[last]
    BY <2>2, <1>4 DEF At
  <2>4. PICK j \in solid : j =< first
    BY <2>2
  <2>5. PICK k \in solid : last =< k
    BY <2>2
  <2>6. first =< j /\ k =< last
    BY <2>2, <2>4, <2>5, <1>2
  <2>7. first \in solid /\ last \in solid
    <3>1. first \in Nat /\ last \in Nat /\ j \in Nat /\ k \in Nat
      BY <2>2, <1>1
    <3>2. first = j /\ last = k
      BY ONLY <3>1, <2>4, <2>5, <2>6
    <3> QED BY <3>2
  <2> QED BY <2>3, <2>7
<1>6. ASSUME NEW L, BlankLine \notin L
      PROVE  Among(s, L) = Among(t, L)
  <2>1. \A i \in DOMAIN t : t[i] \in L => i \in P
    BY <1>2, <1>6
  <2> HIDE DEF P
  <2> QED BY <2>1, <1>1, AmongAt
<1> HIDE DEF s
<1>7. ASSUME NEW k \in Key
      PROVE  k \in Keys(s) <=> k \in Keys(t)
  <2>1. BlankLine \notin OfKey(k)
    BY LineCases DEF OfKey
  <2>2. Among(s, OfKey(k)) = Among(t, OfKey(k))
    BY <2>1, <1>6
  <2> QED BY <2>2, <1>4, AmongKey
<1>8. Keys(s) = Keys(t)
  BY <1>4, <1>7, KeysOfText
<1>9. \A n \in DOMAIN s : \E i \in DOMAIN t : s[n] = t[i]
  BY <1>1, AtLines DEF s
<1> QED BY <1>3, <1>4, <1>5, <1>6, <1>8, <1>9

-----------------------------------------------------------------------------
(* Overriding settings.                                                    *)

Overrides == [Key -> Value \cup {C!Absent}]

SetKeys(o) == {k \in Key : o[k] # C!Absent}

\* A key is on one line at most.
OnOneLine(t, k) == \A i, j \in DOMAIN t : t[i].key = k /\ t[j].key = k => i = j

\* The lines that apply_overrides keeps, before it sets their values.
KeptPlaces(t, o) ==
    {i \in DOMAIN Normalize(t) : Normalize(t)[i].key \in SetKeys(o) => FirstOfKey(Normalize(t), i)}

KeptLines(t, o) == At(Normalize(t), KeptPlaces(t, o))

LEMMA OverrideSteps ==
  ASSUME NEW t \in Seq(AnyLine), NEW o \in Overrides
  PROVE  /\ KeptLines(t, o) \in Seq(AnyLine)
         /\ ApplyOverrides(t, o) \in Seq(AnyLine)
         /\ Len(ApplyOverrides(t, o)) = Len(KeptLines(t, o))
         /\ \A i \in DOMAIN ApplyOverrides(t, o) :
              LET old == KeptLines(t, o)[i]
                  got == ApplyOverrides(t, o)[i]
              IN  /\ got.key = old.key
                  /\ old.key \in SetKeys(o) => got = [key |-> old.key, value |-> o[old.key]]
                  /\ old.key \notin SetKeys(o) => got = old
<1> DEFINE normal == Normalize(t)
           Set(line) == line # BlankLine /\ o[line.key] # C!Absent
           stay == {i \in DOMAIN normal : Set(normal[i]) => FirstOfKey(normal, i)}
           lines == At(normal, stay)
           w == ApplyOverrides(t, o)
<1>1. normal \in Seq(AnyLine)
  BY NormalizeKeeps
<1>2. \A line \in AnyLine : Set(line) <=> line.key \in SetKeys(o)
  BY LineCases DEF SetKeys
<1>3. \A line \in AnyLine : Set(line) =>
        LET new == [key |-> line.key, value |-> o[line.key]]
        IN  /\ new \in AnyLine /\ new.key = line.key
            /\ [line EXCEPT !.value = o[line.key]] = new
  <2> TAKE line \in AnyLine
  <2> HAVE Set(line)
  <2>1. line \in Line /\ line.key \in Key /\ line = [key |-> line.key, value |-> line.value]
    BY LineCases
  <2>2. o[line.key] \in Value
    BY <2>1 DEF Overrides
  <2> QED BY <2>1, <2>2 DEF AnyLine, Line
<1>4. stay = {i \in DOMAIN normal : normal[i].key \in SetKeys(o) => FirstOfKey(normal, i)}
  <2>1. \A i \in DOMAIN normal : normal[i] \in AnyLine
    BY <1>1
  <2> HIDE DEF Set, normal
  <2> QED BY <2>1, <1>2
<1>5. w = [i \in DOMAIN lines |->
            IF Set(lines[i]) THEN [lines[i] EXCEPT !.value = o[lines[i].key]] ELSE lines[i]]
  BY DEF ApplyOverrides
<1>6. stay \in SUBSET DOMAIN normal
  OBVIOUS
<1> HIDE DEF normal, stay, w
<1>7. lines \in Seq(AnyLine) /\ DOMAIN lines = 1..Len(lines) /\ Len(lines) \in Nat
  BY <1>1, <1>6, AtPlaces
<1> HIDE DEF lines
<1>8. \A i \in DOMAIN lines : lines[i] \in AnyLine
  BY <1>7
<1>9. \A i \in DOMAIN lines :
        /\ w[i] \in AnyLine
        /\ w[i].key = lines[i].key
        /\ lines[i].key \in SetKeys(o) => w[i] = [key |-> lines[i].key, value |-> o[lines[i].key]]
        /\ lines[i].key \notin SetKeys(o) => w[i] = lines[i]
  <2> TAKE i \in DOMAIN lines
  <2>1. w[i] = IF Set(lines[i]) THEN [lines[i] EXCEPT !.value = o[lines[i].key]] ELSE lines[i]
    BY <1>5
  <2>2. lines[i] \in AnyLine /\ (Set(lines[i]) <=> lines[i].key \in SetKeys(o))
    BY <1>8, <1>2
  <2>3. CASE Set(lines[i])
    <3> DEFINE new == [key |-> lines[i].key, value |-> o[lines[i].key]]
    <3>1. new \in AnyLine /\ new.key = lines[i].key /\ w[i] = new
      BY <2>1, <2>2, <2>3, <1>3
    <3> QED BY <3>1, <2>2, <2>3
  <2>4. CASE ~ Set(lines[i])
    BY <2>1, <2>2, <2>4
  <2> QED BY <2>3, <2>4
<1>10. w \in Seq(AnyLine) /\ Len(w) = Len(lines) /\ DOMAIN w = DOMAIN lines
  <2>1. w \in [1..Len(lines) -> AnyLine]
    BY <1>5, <1>7, <1>9
  <2> QED BY <2>1, <1>7
<1>11. lines = KeptLines(t, o)
  BY <1>4 DEF normal, lines, KeptLines, KeptPlaces
<1> QED BY <1>7, <1>9, <1>10, <1>11 DEF w

\* Lines of settings that are not overridden are kept, in order.
LEMMA OverridesKeep ==
  ASSUME NEW t \in Seq(AnyLine), NEW o \in Overrides,
         NEW L \in SUBSET Line, \A line \in L : line.key \notin SetKeys(o)
  PROVE  Among(ApplyOverrides(t, o), L) = Among(t, L)
<1> DEFINE normal == Normalize(t)
           w == ApplyOverrides(t, o)
<1>1. /\ normal \in Seq(AnyLine)
      /\ Among(normal, L) = Among(t, L)
  <2>1. BlankLine \notin L
    BY LineCases
  <2> QED BY <2>1, NormalizeKeeps
<1> DEFINE stay == KeptPlaces(t, o)
           lines == KeptLines(t, o)
<1>2. /\ lines \in Seq(AnyLine) /\ w \in Seq(AnyLine) /\ Len(w) = Len(lines)
      /\ \A i \in DOMAIN w : /\ w[i].key = lines[i].key
                             /\ lines[i].key \notin SetKeys(o) => w[i] = lines[i]
  BY OverrideSteps
<1>3. Among(lines, L) = Among(normal, L)
  <2>1. stay \in SUBSET DOMAIN normal /\ \A i \in DOMAIN normal : normal[i] \in L => i \in stay
    BY DEF KeptPlaces
  <2>2. lines = At(normal, stay)
    BY DEF KeptLines
  <2> HIDE DEF lines, normal, stay
  <2> QED BY <2>1, <2>2, <1>1, AmongAt
<1> HIDE DEF lines, w
<1>4. DOMAIN lines = DOMAIN w
  BY <1>2
<1>5. Among(w, L) = Among(lines, L)
  <2>1. \A i \in DOMAIN w : w[i] \in L => lines[i] = w[i]
    BY <1>2
  <2>2. \A i \in DOMAIN lines : lines[i] \in L => w[i] = lines[i]
    BY <1>2, <1>4
  <2> QED BY <2>1, <2>2, <1>2, <1>4, AmongSame
<1> QED BY <1>1, <1>3, <1>5 DEF w

\* Whether a key is on one line can be told from its lines alone.
LEMMA OneLineAmong ==
  ASSUME NEW t \in Seq(AnyLine), NEW k \in Key
  PROVE  OnOneLine(t, k) <=> Len(Among(t, OfKey(k))) =< 1
<1> DEFINE P == {i \in DOMAIN t : t[i] \in OfKey(k)}
<1>1. \A i \in DOMAIN t : t[i].key = k <=> t[i] \in OfKey(k)
  <2>1. \A i \in DOMAIN t : t[i] \in AnyLine
    OBVIOUS
  <2> QED BY <2>1, LineCases DEF OfKey
<1>2. OnOneLine(t, k) <=> \A i, j \in P : i = j
  BY <1>1 DEF OnOneLine
<1>3. P \in SUBSET DOMAIN t /\ P \in SUBSET (1..Len(t)) /\ Len(t) \in Nat
  OBVIOUS
<1>4. Among(t, OfKey(k)) = At(t, P)
  BY DEF Among
<1> HIDE DEF P
<1>5. Len(At(t, P)) = Cardinality(P) /\ IsFiniteSet(P) /\ Cardinality(P) \in Nat
  BY <1>3, AtPlaces, PlacesFinite
<1>6. ASSUME \A i, j \in P : i = j
      PROVE  Cardinality(P) =< 1
  <2>1. CASE P = {}
    BY <2>1, FS_EmptySet
  <2>2. CASE P # {}
    <3>1. PICK i \in P : P = {i}
      BY <2>2, <1>6
    <3>2. Cardinality({i}) = 1
      BY FS_Singleton, Zenon
    <3>3. 1 =< 1
      OBVIOUS
    <3> QED BY <3>1, <3>2, <3>3
  <2> QED BY <2>1, <2>2
<1>7. ASSUME Cardinality(P) =< 1
      PROVE  \A i, j \in P : i = j
  <2>1. CASE Cardinality(P) = 0
    <3>1. P = {}
      BY <2>1, <1>5, FS_EmptySet
    <3> QED BY <3>1
  <2>2. CASE Cardinality(P) = 1
    <3>1. \E i : P = {i}
      BY <2>2, <1>5, FS_Singleton
    <3> QED BY <3>1
  <2> QED BY <2>1, <2>2, <1>5, <1>7
<1> QED BY <1>2, <1>4, <1>5, <1>6, <1>7

\* An overridden setting has one line, with its value, where there was any.
LEMMA OverridesSet ==
  ASSUME NEW t \in Seq(AnyLine), NEW o \in Overrides, NEW k \in SetKeys(o)
  PROVE  /\ k \in Keys(ApplyOverrides(t, o)) <=> k \in Keys(t)
         /\ \A i \in DOMAIN ApplyOverrides(t, o) :
              ApplyOverrides(t, o)[i].key = k => ApplyOverrides(t, o)[i].value = o[k]
         /\ OnOneLine(ApplyOverrides(t, o), k)
<1> DEFINE normal == Normalize(t)
           stay == KeptPlaces(t, o)
           lines == KeptLines(t, o)
           w == ApplyOverrides(t, o)
<1>k. k \in Key
  BY DEF SetKeys
<1>1. normal \in Seq(AnyLine) /\ Keys(normal) = Keys(t)
  BY NormalizeKeeps
<1>2. /\ lines \in Seq(AnyLine) /\ w \in Seq(AnyLine) /\ Len(w) = Len(lines)
      /\ \A i \in DOMAIN w :
           /\ w[i].key = lines[i].key
           /\ lines[i].key \in SetKeys(o) => w[i] = [key |-> lines[i].key, value |-> o[lines[i].key]]
  BY OverrideSteps
<1>3. stay \in SUBSET DOMAIN normal /\ lines = At(normal, stay)
  BY DEF KeptLines, KeptPlaces
<1>4. \A i \in stay : normal[i].key = k => FirstOfKey(normal, i)
  BY DEF KeptPlaces
<1>5. \A i \in DOMAIN normal : FirstOfKey(normal, i) => i \in stay
  BY DEF KeptPlaces
<1> HIDE DEF normal, stay, lines, w
<1>6. DOMAIN lines = DOMAIN w /\ DOMAIN w \subseteq Nat
  BY <1>2
<1>7. k \in Keys(lines) <=> k \in Keys(normal)
  <2>1. ASSUME k \in Keys(lines) PROVE k \in Keys(normal)
    <3>1. PICK n \in DOMAIN lines : lines[n].key = k
      BY <2>1, <1>2, <1>k, AmongKey
    <3>2. PICK i \in stay : lines[n] = normal[i]
      BY <1>1, <1>3, AtLines
    <3> QED BY <3>1, <3>2, <1>1, <1>3, <1>k, AmongKey
  <2>2. ASSUME k \in Keys(normal) PROVE k \in Keys(lines)
    <3>1. PICK i \in DOMAIN normal : normal[i].key = k /\ FirstOfKey(normal, i)
      BY <2>2, <1>1, <1>k, FirstLine
    <3>2. PICK n \in DOMAIN lines : lines[n] = normal[i]
      BY <3>1, <1>1, <1>3, <1>5, AtLines
    <3> QED BY <3>1, <3>2, <1>2, <1>k, AmongKey
  <2> QED BY <2>1, <2>2
<1>8. k \in Keys(w) <=> k \in Keys(lines)
  BY <1>2, <1>6, <1>k, AmongKey
<1>9. \A i \in DOMAIN w : w[i].key = k => w[i].value = o[k]
  BY <1>2
<1>10. OnOneLine(w, k)
  <2> SUFFICES ASSUME NEW n \in DOMAIN w, NEW q \in DOMAIN w, w[n].key = k, w[q].key = k, n < q
               PROVE  FALSE
    BY <1>6 DEF OnOneLine
  <2>1. lines[n].key = k /\ lines[q].key = k
    BY <1>2
  <2>2. PICK i \in stay, j \in stay : i < j /\ lines[n] = normal[i] /\ lines[q] = normal[j]
    BY <1>1, <1>3, <1>6, AtOrder
  <2>3. FirstOfKey(normal, j) /\ normal[i].key = k /\ normal[j].key = k
    BY <2>1, <2>2, <1>4
  <2>4. i \in 1..(j - 1)
    BY <2>2, <1>1, <1>3
  <2> QED BY <2>3, <2>4 DEF FirstOfKey
<1> QED BY <1>1, <1>7, <1>8, <1>9, <1>10 DEF w

-----------------------------------------------------------------------------
(* Editing lines.                                                          *)

Removed(b, a) == Keys(b) \ Keys(a)

Added(c, b, a) == Keys(a) \ (Keys(b) \cup Keys(c))

\* The lines of apply_line_edits: those of its own that the slicer keeps, those
\* added, and both with the new lines for changed keys.
OwnPlaces(c, b, a) ==
    {i \in DOMAIN Normalize(c) : Kept(Normalize(c), i, ChangedKeys(b, a), Removed(b, a))}

Own(c, b, a) == At(Normalize(c), OwnPlaces(c, b, a))

AddedPlaces(c, b, a) == {i \in DOMAIN a : FirstOfKey(a, i) /\ a[i].key \in Added(c, b, a)}

AddedLines(c, b, a) == At(a, AddedPlaces(c, b, a))

Joined(c, b, a) == Own(c, b, a) \o AddedLines(c, b, a)

Relined(c, b, a) ==
    [i \in DOMAIN Joined(c, b, a) |->
       IF Joined(c, b, a)[i].key \in ChangedKeys(b, a) THEN LineOf(a, Joined(c, b, a)[i].key)
       ELSE Joined(c, b, a)[i]]

LEMMA EditSteps ==
  ASSUME NEW c \in Seq(AnyLine), NEW b \in Seq(AnyLine), NEW a \in Seq(AnyLine)
  PROVE  /\ ApplyLineEdits(c, b, a) = Normalize(Relined(c, b, a))
         /\ Own(c, b, a) \in Seq(AnyLine) /\ AddedLines(c, b, a) \in Seq(AnyLine)
         /\ Relined(c, b, a) \in Seq(AnyLine) /\ Joined(c, b, a) \in Seq(AnyLine)
         /\ DOMAIN Relined(c, b, a) = DOMAIN Joined(c, b, a)
         /\ \A i \in DOMAIN Joined(c, b, a) :
              LET old == Joined(c, b, a)[i]
                  got == Relined(c, b, a)[i]
              IN  /\ got.key = old.key
                  /\ old.key \in ChangedKeys(b, a) => got = LineOf(a, old.key)
                  /\ old.key \notin ChangedKeys(b, a) => got = old
<1> DEFINE normal == Normalize(c)
           own == Own(c, b, a)
           added == AddedLines(c, b, a)
           joined == Joined(c, b, a)
           relined == Relined(c, b, a)
           changed == ChangedKeys(b, a)
<1>1. normal \in Seq(AnyLine)
  BY NormalizeKeeps
<1>2. own \in Seq(AnyLine)
  <2>1. OwnPlaces(c, b, a) \in SUBSET DOMAIN normal
    BY DEF OwnPlaces
  <2> HIDE DEF normal
  <2>2. At(normal, OwnPlaces(c, b, a)) \in Seq(AnyLine)
    BY <1>1, <2>1, AtPlaces
  <2> QED BY <2>2 DEF Own, normal
<1>3. added \in Seq(AnyLine)
  <2>1. AddedPlaces(c, b, a) \in SUBSET DOMAIN a
    BY DEF AddedPlaces
  <2> QED BY <2>1, AtPlaces DEF AddedLines
<1>4. joined \in Seq(AnyLine)
  BY <1>2, <1>3 DEF Joined
<1>5. \A k \in changed : k \in Key /\ LineOf(a, k) \in AnyLine /\ LineOf(a, k).key = k
  <2> TAKE k \in changed
  <2>1. k \in Keys(a) /\ k \in Key
    BY KeysOfText DEF ChangedKeys
  <2> QED BY <2>1, AmongKey DEF AnyLine
<1>6. relined = [i \in DOMAIN joined |->
                   IF joined[i].key \in changed THEN LineOf(a, joined[i].key) ELSE joined[i]]
  BY DEF Relined
<1>7. ApplyLineEdits(c, b, a) = Normalize(relined)
  BY DEF ApplyLineEdits, Edited, Relined, Joined, Own, AddedLines, OwnPlaces, AddedPlaces,
         Removed, Added
<1> HIDE DEF own, added, joined, relined, changed
<1>8. \A i \in DOMAIN joined : joined[i] \in AnyLine
  BY <1>4
<1>9. \A i \in DOMAIN joined :
        /\ relined[i] \in AnyLine
        /\ relined[i].key = joined[i].key
        /\ joined[i].key \in changed => relined[i] = LineOf(a, joined[i].key)
        /\ joined[i].key \notin changed => relined[i] = joined[i]
  BY <1>5, <1>6, <1>8
<1>10. relined \in Seq(AnyLine) /\ DOMAIN relined = DOMAIN joined
  <2>1. DOMAIN joined = 1..Len(joined) /\ Len(joined) \in Nat
    BY <1>4
  <2>2. relined \in [1..Len(joined) -> AnyLine]
    BY <1>6, <1>9, <2>1
  <2> QED BY <2>1, <2>2
<1> QED BY <1>2, <1>3, <1>4, <1>7, <1>9, <1>10 DEF own, added, joined, relined, changed

\* Lines of settings that are neither changed nor removed are kept, in order.
LEMMA EditsKeep ==
  ASSUME NEW c \in Seq(AnyLine), NEW b \in Seq(AnyLine), NEW a \in Seq(AnyLine),
         NEW L \in SUBSET Line,
         \A line \in L : line.key \notin ChangedKeys(b, a) \cup Removed(b, a)
  PROVE  Among(ApplyLineEdits(c, b, a), L) = Among(c, L)
<1> DEFINE normal == Normalize(c)
           own == Own(c, b, a)
           added == AddedLines(c, b, a)
           joined == Joined(c, b, a)
           relined == Relined(c, b, a)
<1>0. BlankLine \notin L
  BY LineCases
<1>1. normal \in Seq(AnyLine) /\ Among(normal, L) = Among(c, L)
  BY <1>0, NormalizeKeeps
<1>2. /\ ApplyLineEdits(c, b, a) = Normalize(relined)
      /\ own \in Seq(AnyLine) /\ added \in Seq(AnyLine)
      /\ relined \in Seq(AnyLine) /\ joined \in Seq(AnyLine)
      /\ DOMAIN relined = DOMAIN joined
      /\ \A i \in DOMAIN joined :
           /\ relined[i].key = joined[i].key
           /\ joined[i].key \notin ChangedKeys(b, a) => relined[i] = joined[i]
  BY EditSteps
<1>3. Among(own, L) = Among(normal, L)
  <2>1. OwnPlaces(c, b, a) \in SUBSET DOMAIN normal /\ own = At(normal, OwnPlaces(c, b, a))
    BY DEF OwnPlaces, Own
  <2>2. \A i \in DOMAIN normal : normal[i] \in L => i \in OwnPlaces(c, b, a)
    BY DEF OwnPlaces, Kept
  <2> HIDE DEF normal, own
  <2> QED BY <2>1, <2>2, <1>1, AmongAt
<1>4. \A i \in DOMAIN added : added[i] \notin L
  <2> TAKE i \in DOMAIN added
  <2>1. AddedPlaces(c, b, a) \in SUBSET DOMAIN a
    BY DEF AddedPlaces
  <2>2. PICK j \in AddedPlaces(c, b, a) : added[i] = a[j]
    BY <2>1, AtLines DEF AddedLines
  <2>3. a[j].key \in Keys(a) \ Keys(b)
    BY DEF AddedPlaces, Added
  <2>4. a[j].key \in ChangedKeys(b, a)
    BY <2>3 DEF ChangedKeys
  <2> QED BY <2>2, <2>4
<1>5. joined = own \o added
  BY DEF Joined
<1> HIDE DEF normal, own, added, joined, relined
<1>6. Among(joined, L) = Among(own, L)
  BY <1>2, <1>4, <1>5, AmongAppend
<1>7. Among(relined, L) = Among(joined, L)
  <2>1. \A i \in DOMAIN joined : joined[i] \in L => relined[i] = joined[i]
    BY <1>2
  <2>2. \A i \in DOMAIN relined : relined[i] \in L => joined[i] = relined[i]
    BY <1>2
  <2> QED BY <2>1, <2>2, <1>2, AmongSame
<1>8. Among(Normalize(relined), L) = Among(relined, L)
  BY <1>0, <1>2, NormalizeKeeps
<1> QED BY <1>1, <1>2, <1>3, <1>6, <1>7, <1>8 DEF normal

\* Where the lines of Joined come from.
LEMMA JoinedFrom ==
  ASSUME NEW c \in Seq(AnyLine), NEW b \in Seq(AnyLine), NEW a \in Seq(AnyLine)
  PROVE  /\ \A n \in DOMAIN Joined(c, b, a) :
              \/ \E i \in OwnPlaces(c, b, a) : Joined(c, b, a)[n] = Normalize(c)[i]
              \/ \E i \in AddedPlaces(c, b, a) : Joined(c, b, a)[n] = a[i]
         /\ \A n, q \in DOMAIN Joined(c, b, a) : n < q =>
              \/ \E i, j \in OwnPlaces(c, b, a) :
                   i < j /\ Joined(c, b, a)[n] = Normalize(c)[i] /\ Joined(c, b, a)[q] = Normalize(c)[j]
              \/ \E i \in OwnPlaces(c, b, a), j \in AddedPlaces(c, b, a) :
                   Joined(c, b, a)[n] = Normalize(c)[i] /\ Joined(c, b, a)[q] = a[j]
              \/ \E i, j \in AddedPlaces(c, b, a) :
                   i < j /\ Joined(c, b, a)[n] = a[i] /\ Joined(c, b, a)[q] = a[j]
         /\ \A i \in OwnPlaces(c, b, a) :
              \E n \in DOMAIN Joined(c, b, a) : Joined(c, b, a)[n] = Normalize(c)[i]
         /\ \A i \in AddedPlaces(c, b, a) :
              \E n \in DOMAIN Joined(c, b, a) : Joined(c, b, a)[n] = a[i]
<1> DEFINE normal == Normalize(c)
           P == OwnPlaces(c, b, a)
           Q == AddedPlaces(c, b, a)
           own == Own(c, b, a)
           added == AddedLines(c, b, a)
           joined == Joined(c, b, a)
<1>1. normal \in Seq(AnyLine) /\ own \in Seq(AnyLine) /\ added \in Seq(AnyLine)
  BY NormalizeKeeps, EditSteps
<1>2. /\ P \in SUBSET DOMAIN normal /\ own = At(normal, P)
      /\ Q \in SUBSET DOMAIN a /\ added = At(a, Q)
      /\ joined = own \o added
  BY DEF OwnPlaces, Own, AddedPlaces, AddedLines, Joined
<1> HIDE DEF normal, P, Q, own, added, joined
<1>3. /\ \A n \in DOMAIN own : \E i \in P : own[n] = normal[i]
      /\ \A i \in P : \E n \in DOMAIN own : own[n] = normal[i]
      /\ \A n, q \in DOMAIN own : n < q =>
           \E i, j \in P : i < j /\ own[n] = normal[i] /\ own[q] = normal[j]
  <2>1. /\ \A n \in DOMAIN own : \E i \in P : own[n] = normal[i]
        /\ \A i \in P : \E n \in DOMAIN own : own[n] = normal[i]
    BY <1>1, <1>2, AtLines
  <2>2. \A n, q \in DOMAIN own : n < q =>
          \E i, j \in P : i < j /\ own[n] = normal[i] /\ own[q] = normal[j]
    <3>1. normal \in Seq(AnyLine) /\ P \in SUBSET DOMAIN normal
      BY <1>1, <1>2
    <3>2. \A n, q \in DOMAIN At(normal, P) : n < q =>
            \E i, j \in P : i < j /\ At(normal, P)[n] = normal[i] /\ At(normal, P)[q] = normal[j]
      BY ONLY <3>1, AtOrder
    <3> QED BY <3>2, <1>2
  <2> QED BY <2>1, <2>2
<1>4. /\ \A n \in DOMAIN added : \E i \in Q : added[n] = a[i]
      /\ \A i \in Q : \E n \in DOMAIN added : added[n] = a[i]
      /\ \A n, q \in DOMAIN added : n < q =>
           \E i, j \in Q : i < j /\ added[n] = a[i] /\ added[q] = a[j]
  <2>1. /\ \A n \in DOMAIN added : \E i \in Q : added[n] = a[i]
        /\ \A i \in Q : \E n \in DOMAIN added : added[n] = a[i]
    BY <1>2, AtLines
  <2>2. \A n, q \in DOMAIN added : n < q =>
          \E i, j \in Q : i < j /\ added[n] = a[i] /\ added[q] = a[j]
    BY <1>2, AtOrder
  <2> QED BY <2>1, <2>2
<1>5. /\ Len(own) \in Nat /\ Len(added) \in Nat
      /\ DOMAIN own = 1..Len(own) /\ DOMAIN added = 1..Len(added)
      /\ DOMAIN joined = 1..(Len(own) + Len(added))
      /\ \A n \in DOMAIN joined : joined[n] = IF n =< Len(own) THEN own[n] ELSE added[n - Len(own)]
  BY <1>1, <1>2
<1>6. \A n \in DOMAIN joined :
        IF n =< Len(own) THEN n \in DOMAIN own /\ joined[n] = own[n]
        ELSE n - Len(own) \in DOMAIN added /\ joined[n] = added[n - Len(own)]
  BY <1>5
<1>7. ASSUME NEW n \in DOMAIN joined
      PROVE  (\E i \in P : joined[n] = normal[i]) \/ (\E i \in Q : joined[n] = a[i])
  <2>1. CASE n =< Len(own)
    <3>1. n \in DOMAIN own /\ joined[n] = own[n]
      BY <2>1, <1>6
    <3> QED BY <3>1, <1>3
  <2>2. CASE ~ (n =< Len(own))
    <3>1. n - Len(own) \in DOMAIN added /\ joined[n] = added[n - Len(own)]
      BY <2>2, <1>6
    <3> QED BY <3>1, <1>4
  <2> QED BY <2>1, <2>2
<1>8. ASSUME NEW n \in DOMAIN joined, NEW q \in DOMAIN joined, n < q
      PROVE  \/ \E i, j \in P : i < j /\ joined[n] = normal[i] /\ joined[q] = normal[j]
             \/ \E i \in P, j \in Q : joined[n] = normal[i] /\ joined[q] = a[j]
             \/ \E i, j \in Q : i < j /\ joined[n] = a[i] /\ joined[q] = a[j]
  <2>1. CASE q =< Len(own)
    <3>1. n =< Len(own)
      BY <1>5, <1>8, <2>1
    <3>2. n \in DOMAIN own /\ q \in DOMAIN own /\ joined[n] = own[n] /\ joined[q] = own[q]
      BY <2>1, <3>1, <1>6
    <3> QED BY <3>2, <1>3, <1>8
  <2>2. CASE n =< Len(own) /\ ~ (q =< Len(own))
    BY <2>2, <1>3, <1>4, <1>6
  <2>3. CASE ~ (n =< Len(own))
    <3>1. ~ (q =< Len(own)) /\ n - Len(own) < q - Len(own)
      BY <1>5, <1>8, <2>3
    <3> QED BY <2>3, <3>1, <1>4, <1>6
  <2> QED BY <2>1, <2>2, <2>3
<1>9. ASSUME NEW i \in P
      PROVE  \E n \in DOMAIN joined : joined[n] = normal[i]
  <2>1. PICK n \in DOMAIN own : own[n] = normal[i]
    BY <1>3
  <2>2. n \in DOMAIN joined /\ joined[n] = own[n]
    BY <2>1, <1>5
  <2> QED BY <2>1, <2>2
<1>10. ASSUME NEW i \in Q
       PROVE  \E n \in DOMAIN joined : joined[n] = a[i]
  <2>1. PICK n \in DOMAIN added : added[n] = a[i]
    BY <1>4
  <2>2. Len(own) + n \in DOMAIN joined /\ joined[Len(own) + n] = added[n]
    BY <2>1, <1>5
  <2> QED BY <2>1, <2>2
<1> QED BY <1>7, <1>8, <1>9, <1>10 DEF normal, P, Q, joined

\* A removed setting goes; a changed one has one line, the new one, where there
\* was any, and a new one has one line everywhere.
LEMMA EditsSet ==
  ASSUME NEW c \in Seq(AnyLine), NEW b \in Seq(AnyLine), NEW a \in Seq(AnyLine)
  PROVE  /\ \A k \in Removed(b, a) : k \notin Keys(ApplyLineEdits(c, b, a))
         /\ \A k \in ChangedKeys(b, a) :
              /\ k \in Keys(ApplyLineEdits(c, b, a)) <=> k \in Keys(c) \/ k \notin Keys(b)
              /\ \A i \in DOMAIN ApplyLineEdits(c, b, a) :
                   ApplyLineEdits(c, b, a)[i].key = k => ApplyLineEdits(c, b, a)[i] = LineOf(a, k)
              /\ OnOneLine(ApplyLineEdits(c, b, a), k)
<1> DEFINE normal == Normalize(c)
           P == OwnPlaces(c, b, a)
           Q == AddedPlaces(c, b, a)
           joined == Joined(c, b, a)
           relined == Relined(c, b, a)
           w == ApplyLineEdits(c, b, a)
<1>1. /\ normal \in Seq(AnyLine) /\ Keys(normal) = Keys(c)
      /\ Keys(b) \subseteq Key /\ Keys(a) \subseteq Key
  BY NormalizeKeeps, KeysOfText
<1>2. /\ w = Normalize(relined)
      /\ relined \in Seq(AnyLine) /\ joined \in Seq(AnyLine)
      /\ DOMAIN relined = DOMAIN joined
      /\ \A i \in DOMAIN joined :
           /\ relined[i].key = joined[i].key
           /\ joined[i].key \in ChangedKeys(b, a) => relined[i] = LineOf(a, joined[i].key)
  BY EditSteps
<1>3. /\ \A n \in DOMAIN joined :
           (\E i \in P : joined[n] = normal[i]) \/ (\E i \in Q : joined[n] = a[i])
      /\ \A n, q \in DOMAIN joined : n < q =>
           \/ \E i, j \in P : i < j /\ joined[n] = normal[i] /\ joined[q] = normal[j]
           \/ \E i \in P, j \in Q : joined[n] = normal[i] /\ joined[q] = a[j]
           \/ \E i, j \in Q : i < j /\ joined[n] = a[i] /\ joined[q] = a[j]
      /\ \A i \in P : \E n \in DOMAIN joined : joined[n] = normal[i]
      /\ \A i \in Q : \E n \in DOMAIN joined : joined[n] = a[i]
  BY JoinedFrom
<1>4. \A i \in P : /\ i \in DOMAIN normal
                   /\ normal[i].key \notin Removed(b, a)
                   /\ normal[i].key \in ChangedKeys(b, a) => FirstOfKey(normal, i)
  BY DEF OwnPlaces, Kept
<1>5. \A i \in DOMAIN normal :
        normal[i].key \in ChangedKeys(b, a) /\ FirstOfKey(normal, i) => i \in P
  BY DEF OwnPlaces, Kept, ChangedKeys, Removed
<1>6. \A i \in Q : i \in DOMAIN a /\ a[i].key \in Added(c, b, a) /\ FirstOfKey(a, i)
  BY DEF AddedPlaces
<1>7. \A i \in DOMAIN a : a[i].key \in Added(c, b, a) /\ FirstOfKey(a, i) => i \in Q
  BY DEF AddedPlaces
<1> HIDE DEF normal, P, Q, joined, relined, w
<1>8. /\ w \in Seq(AnyLine) /\ Keys(w) = Keys(relined)
      /\ \A n \in DOMAIN w : \E i \in DOMAIN relined : w[n] = relined[i]
      /\ \A L : BlankLine \notin L => Among(w, L) = Among(relined, L)
  BY <1>2, NormalizeKeeps
<1>9. Keys(relined) = Keys(joined)
  BY <1>2 DEF Keys
<1>10. ASSUME NEW k \in Removed(b, a)
       PROVE  k \notin Keys(w)
  <2> SUFFICES ASSUME k \in Keys(joined) PROVE FALSE
    BY <1>8, <1>9
  <2>1. PICK n \in DOMAIN joined : joined[n].key = k
    BY <1>1, <1>2, AmongKey DEF Removed
  <2>2. CASE \E i \in P : joined[n] = normal[i]
    BY <2>1, <2>2, <1>4
  <2>3. CASE \E i \in Q : joined[n] = a[i]
    BY <2>1, <2>3, <1>6 DEF Added, Removed
  <2> QED BY <2>2, <2>3, <1>3
<1>11. ASSUME NEW k \in ChangedKeys(b, a)
       PROVE  k \in Keys(w) <=> k \in Keys(c) \/ k \notin Keys(b)
  <2>1. k \in Key /\ k \in Keys(a)
    BY <1>1 DEF ChangedKeys
  <2>2. ASSUME k \in Keys(joined)
        PROVE  k \in Keys(normal) \/ k \notin Keys(b)
    <3>1. PICK n \in DOMAIN joined : joined[n].key = k
      BY <2>1, <2>2, <1>2, AmongKey
    <3>2. CASE \E i \in P : joined[n] = normal[i]
      <4>1. \E i \in DOMAIN normal : normal[i].key = k
        BY <3>1, <3>2, <1>4
      <4> QED BY <4>1, <2>1, <1>1, AmongKey
    <3>3. CASE \E i \in Q : joined[n] = a[i]
      BY <3>1, <3>3, <1>6 DEF Added
    <3> QED BY <3>2, <3>3, <1>3
  <2>3. ASSUME k \in Keys(normal)
        PROVE  k \in Keys(joined)
    <3>1. PICK i \in DOMAIN normal : normal[i].key = k /\ FirstOfKey(normal, i)
      BY <2>1, <2>3, <1>1, FirstLine
    <3>2. PICK n \in DOMAIN joined : joined[n] = normal[i]
      BY <3>1, <1>3, <1>5
    <3> QED BY <3>1, <3>2, <2>1, <1>2, AmongKey
  <2>4. ASSUME k \notin Keys(normal), k \notin Keys(b)
        PROVE  k \in Keys(joined)
    <3>1. k \in Added(c, b, a)
      BY <2>1, <2>4, <1>1 DEF Added
    <3>2. PICK i \in DOMAIN a : a[i].key = k /\ FirstOfKey(a, i)
      BY <2>1, FirstLine
    <3>3. PICK n \in DOMAIN joined : joined[n] = a[i]
      BY <3>1, <3>2, <1>3, <1>7
    <3> QED BY <3>2, <3>3, <2>1, <1>2, AmongKey
  <2> QED BY <2>2, <2>3, <2>4, <1>1, <1>8, <1>9
<1>12. ASSUME NEW k \in ChangedKeys(b, a), NEW n \in DOMAIN w, w[n].key = k
       PROVE  w[n] = LineOf(a, k)
  <2>1. PICK i \in DOMAIN relined : w[n] = relined[i]
    BY <1>8
  <2> QED BY <2>1, <1>2, <1>12
<1>13. ASSUME NEW k \in ChangedKeys(b, a)
       PROVE  OnOneLine(w, k)
  <2>1. k \in Key
    BY <1>1 DEF ChangedKeys
  <2>2. OnOneLine(relined, k)
    <3> SUFFICES ASSUME NEW n \in DOMAIN relined, NEW q \in DOMAIN relined,
                        relined[n].key = k, relined[q].key = k, n < q
                 PROVE  FALSE
      <4>1. DOMAIN relined = 1..Len(relined)
        BY <1>2
      <4> QED BY <4>1 DEF OnOneLine
    <3>1. /\ n \in DOMAIN joined /\ q \in DOMAIN joined
          /\ joined[n].key = k /\ joined[q].key = k
      BY <1>2
    <3>2. \A i \in P : normal[i].key \in Keys(c) \cup {""}
      BY <1>1, <1>4 DEF Keys, BlankLine
    <3>3. CASE \E i, j \in P : i < j /\ joined[n] = normal[i] /\ joined[q] = normal[j]
      <4>1. PICK i \in P, j \in P : i < j /\ joined[n] = normal[i] /\ joined[q] = normal[j]
        BY <3>3
      <4>2. i \in 1..(j - 1) /\ FirstOfKey(normal, j)
        <5>1. DOMAIN normal = 1..Len(normal)
          BY <1>1
        <5> QED BY <5>1, <4>1, <3>1, <1>4
      <4> QED BY <4>1, <4>2, <3>1 DEF FirstOfKey
    <3>4. CASE \E i \in P, j \in Q : joined[n] = normal[i] /\ joined[q] = a[j]
      <4>1. PICK i \in P, j \in Q : joined[n] = normal[i] /\ joined[q] = a[j]
        BY <3>4
      <4>2. k \in Keys(c) \cup {""} /\ k \in Added(c, b, a)
        BY <4>1, <3>1, <3>2, <1>6
      <4> QED BY <4>2, <2>1, LineCases DEF Added
    <3>5. CASE \E i, j \in Q : i < j /\ joined[n] = a[i] /\ joined[q] = a[j]
      <4>1. PICK i \in Q, j \in Q : i < j /\ joined[n] = a[i] /\ joined[q] = a[j]
        BY <3>5
      <4>2. i \in 1..(j - 1) /\ FirstOfKey(a, j)
        <5>1. DOMAIN a = 1..Len(a)
          OBVIOUS
        <5> QED BY <5>1, <4>1, <1>6
      <4> QED BY <4>1, <4>2, <3>1 DEF FirstOfKey
    <3> QED BY <3>1, <3>3, <3>4, <3>5, <1>3
  <2>3. Among(w, OfKey(k)) = Among(relined, OfKey(k))
    <3>1. BlankLine \notin OfKey(k)
      BY LineCases DEF OfKey
    <3> QED BY <3>1, <1>8
  <2> QED BY <2>1, <2>2, <2>3, <1>2, <1>8, OneLineAmong
<1> QED BY <1>10, <1>11, <1>12, <1>13 DEF w

-----------------------------------------------------------------------------
(* The settings a text stands for.                                         *)

LEMMA SettingOf ==
  ASSUME NEW t \in Seq(AnyLine), NEW k \in Key
  PROVE  /\ k \in Keys(t) => /\ Settings(t)[k] = LineOf(t, k).value
                             /\ Settings(t)[k] # C!Absent
                             /\ LineOf(t, k) = [key |-> k, value |-> Settings(t)[k]]
         /\ k \notin Keys(t) => Settings(t)[k] = C!Absent
<1>1. Settings(t)[k] = IF k \in Keys(t) THEN LineOf(t, k).value ELSE C!Absent
  BY DEF Settings
<1>2. ASSUME k \in Keys(t)
      PROVE  /\ LineOf(t, k).value \in Value
             /\ LineOf(t, k) = [key |-> k, value |-> LineOf(t, k).value]
  <2>1. LineOf(t, k) \in Line /\ LineOf(t, k).key = k
    BY <1>2, AmongKey
  <2> QED BY <2>1 DEF Line
<1>3. C!Absent \notin Value
  BY LinesAssumption
<1> QED BY <1>1, <1>2, <1>3

LEMMA SettingsAmong ==
  ASSUME NEW s \in Seq(AnyLine), NEW t \in Seq(AnyLine), NEW k \in Key,
         Among(s, OfKey(k)) = Among(t, OfKey(k))
  PROVE  Settings(s)[k] = Settings(t)[k]
<1>1. k \in Keys(s) <=> k \in Keys(t)
  BY AmongKey
<1>2. LineOf(s, k) = LineOf(t, k)
  BY DEF LineOf
<1> QED BY <1>1, <1>2 DEF Settings

LEMMA EditsType ==
  ASSUME NEW c \in Seq(AnyLine), NEW b \in Seq(AnyLine), NEW a \in Seq(AnyLine)
  PROVE  ApplyLineEdits(c, b, a) \in Seq(AnyLine)
BY EditSteps, NormalizeKeeps

LEMMA OfKeyLines ==
  ASSUME NEW k \in Key
  PROVE  /\ OfKey(k) \in SUBSET Line
         /\ \A line \in OfKey(k) : line.key = k
BY DEF OfKey

\* apply_line_edits on a text does to its settings what ConfigLines says, for
\* every text of the slicer, of the box and of the admin.
THEOREM EditsOnSettings ==
  ASSUME NEW c \in Seq(AnyLine), NEW b \in Seq(AnyLine), NEW a \in Seq(AnyLine)
  PROVE  Settings(ApplyLineEdits(c, b, a)) = C!ApplyLineEdits(Settings(c), Settings(b), Settings(a))
<1> DEFINE w == ApplyLineEdits(c, b, a)
           e == C!ApplyLineEdits(Settings(c), Settings(b), Settings(a))
<1>1. w \in Seq(AnyLine)
  BY EditsType
<1>2. ASSUME NEW k \in Key
      PROVE  /\ k \in C!RemovedKeys(Settings(b), Settings(a)) <=> k \in Removed(b, a)
             /\ k \in C!ChangedKeys(Settings(b), Settings(a)) <=> k \in ChangedKeys(b, a)
             /\ k \in C!AddedKeys(Settings(b), Settings(a)) <=> k \in Keys(a) \ Keys(b)
             /\ Settings(c)[k] # C!Absent <=> k \in Keys(c)
  <2>1. \A t \in {a, b, c} : /\ Settings(t)[k] # C!Absent <=> k \in Keys(t)
                             /\ k \in Keys(t) => LineOf(t, k) = [key |-> k, value |-> Settings(t)[k]]
    BY SettingOf
  <2>2. k \in Keys(a) /\ k \in Keys(b) =>
          (LineOf(a, k) = LineOf(b, k) <=> Settings(a)[k] = Settings(b)[k])
    <3> SUFFICES ASSUME k \in Keys(a), k \in Keys(b)
                 PROVE  LineOf(a, k) = LineOf(b, k) <=> Settings(a)[k] = Settings(b)[k]
      OBVIOUS
    <3> DEFINE va == Settings(a)[k]
               vb == Settings(b)[k]
    <3>1. LineOf(a, k) = [key |-> k, value |-> va] /\ LineOf(b, k) = [key |-> k, value |-> vb]
      BY <2>1
    <3> HIDE DEF va, vb
    <3>2. LineOf(a, k).value = va /\ LineOf(b, k).value = vb
      BY <3>1
    <3>3. LineOf(a, k) = LineOf(b, k) <=> va = vb
      BY <3>1, <3>2
    <3> QED BY <3>3 DEF va, vb
  <2>3. k \in C!RemovedKeys(Settings(b), Settings(a)) <=> k \in Removed(b, a)
    BY <2>1 DEF C!RemovedKeys, Removed
  <2>4. k \in C!AddedKeys(Settings(b), Settings(a)) <=> k \in Keys(a) \ Keys(b)
    BY <2>1 DEF C!AddedKeys
  <2>5. k \in C!ChangedKeys(Settings(b), Settings(a)) <=> k \in ChangedKeys(b, a)
    BY <2>1, <2>2 DEF C!ChangedKeys, ChangedKeys
  <2> QED BY <2>1, <2>3, <2>4, <2>5
<1>3. ASSUME NEW k \in Key
      PROVE  Settings(w)[k] = e[k]
  <2>1. e[k] = IF k \in Removed(b, a) THEN C!Absent
               ELSE IF k \in ChangedKeys(b, a) /\ (k \in Keys(c) \/ k \in Keys(a) \ Keys(b))
                    THEN Settings(a)[k]
                    ELSE Settings(c)[k]
    BY <1>2 DEF C!ApplyLineEdits
  <2> HIDE DEF w, e
  <2>2. CASE k \in Removed(b, a)
    <3>1. k \notin Keys(w)
      BY <2>2, EditsSet DEF w
    <3> QED BY <3>1, <2>1, <2>2, <1>1, SettingOf
  <2>3. CASE k \in ChangedKeys(b, a)
    <3>1. k \notin Removed(b, a) /\ k \in Keys(a)
      BY <2>3 DEF ChangedKeys, Removed
    <3>2. /\ k \in Keys(w) <=> k \in Keys(c) \/ k \notin Keys(b)
          /\ \A i \in DOMAIN w : w[i].key = k => w[i] = LineOf(a, k)
      BY <2>3, EditsSet DEF w
    <3>3. CASE k \in Keys(w)
      <4>1. LineOf(w, k) = LineOf(a, k)
        BY <3>2, <3>3, <1>1, AmongKey
      <4>2. Settings(w)[k] = Settings(a)[k]
        BY <4>1, <3>1, <3>3, <1>1, SettingOf
      <4> QED BY <4>2, <3>1, <3>2, <3>3, <2>1, <2>3
    <3>4. CASE k \notin Keys(w)
      <4>1. Settings(w)[k] = C!Absent /\ Settings(c)[k] = C!Absent
        BY <3>2, <3>4, <1>1, SettingOf
      <4> QED BY <4>1, <3>1, <3>2, <3>4, <2>1
    <3> QED BY <3>3, <3>4
  <2>4. CASE k \notin Removed(b, a) /\ k \notin ChangedKeys(b, a)
    <3>1. Among(w, OfKey(k)) = Among(c, OfKey(k))
      BY <2>4, OfKeyLines, EditsKeep DEF w
    <3>2. Settings(w)[k] = Settings(c)[k]
      BY <3>1, <1>1, SettingsAmong
    <3> QED BY <3>2, <2>1, <2>4
  <2> QED BY <2>2, <2>3, <2>4
<1>4. Settings(w) = [k \in Key |-> Settings(w)[k]]
  BY DEF Settings
<1>5. e = [k \in Key |-> e[k]]
  BY DEF C!ApplyLineEdits
<1> HIDE DEF w, e
<1> QED BY <1>3, <1>4, <1>5 DEF w, e

\* apply_overrides on a text does to its settings what ConfigLines says.
THEOREM OverridesOnSettings ==
  ASSUME NEW t \in Seq(AnyLine), NEW o \in Overrides
  PROVE  Settings(ApplyOverrides(t, o)) = C!ApplyOverrides(Settings(t), o)
<1> DEFINE w == ApplyOverrides(t, o)
           e == C!ApplyOverrides(Settings(t), o)
<1>1. w \in Seq(AnyLine)
  BY OverrideSteps
<1>2. ASSUME NEW k \in Key
      PROVE  Settings(w)[k] = e[k]
  <2>1. e[k] = IF Settings(t)[k] # C!Absent /\ k \in SetKeys(o) THEN o[k] ELSE Settings(t)[k]
    BY DEF C!ApplyOverrides, SetKeys
  <2>2. Settings(t)[k] # C!Absent <=> k \in Keys(t)
    BY SettingOf
  <2> HIDE DEF w, e
  <2>3. CASE k \in SetKeys(o)
    <3>1. /\ k \in Keys(w) <=> k \in Keys(t)
          /\ \A i \in DOMAIN w : w[i].key = k => w[i].value = o[k]
      BY <2>3, OverridesSet DEF w
    <3>2. CASE k \in Keys(w)
      <4>1. LineOf(w, k).value = o[k]
        BY <3>1, <3>2, <1>1, AmongKey
      <4> QED BY <4>1, <3>1, <3>2, <2>1, <2>2, <2>3, <1>1, SettingOf
    <3>3. CASE k \notin Keys(w)
      BY <3>1, <3>3, <2>1, <2>2, <1>1, SettingOf
    <3> QED BY <3>2, <3>3
  <2>4. CASE k \notin SetKeys(o)
    <3>1. Among(w, OfKey(k)) = Among(t, OfKey(k))
      BY <2>4, OfKeyLines, OverridesKeep DEF w
    <3>2. Settings(w)[k] = Settings(t)[k]
      BY <3>1, <1>1, SettingsAmong
    <3> QED BY <3>2, <2>1, <2>4
  <2> QED BY <2>3, <2>4
<1>3. Settings(w) = [k \in Key |-> Settings(w)[k]]
  BY DEF Settings
<1>4. e = [k \in Key |-> e[k]]
  BY DEF C!ApplyOverrides
<1> HIDE DEF w, e
<1> QED BY <1>2, <1>3, <1>4 DEF w, e

-----------------------------------------------------------------------------
(* What a slicer is sent.                                                  *)

\* A setting on one line is on one line after other settings are overridden.
LEMMA OverridesOneLine ==
  ASSUME NEW t \in Seq(AnyLine), NEW o \in Overrides, NEW k \in Key, OnOneLine(t, k)
  PROVE  OnOneLine(ApplyOverrides(t, o), k)
<1>1. ApplyOverrides(t, o) \in Seq(AnyLine)
  BY OverrideSteps
<1>2. CASE k \in SetKeys(o)
  BY <1>2, OverridesSet
<1>3. CASE k \notin SetKeys(o)
  <2>1. Among(ApplyOverrides(t, o), OfKey(k)) = Among(t, OfKey(k))
    BY <1>3, OfKeyLines, OverridesKeep
  <2> QED BY <2>1, <1>1, OneLineAmong
<1> QED BY <1>2, <1>3

LEMMA OverridesKeys ==
  ASSUME NEW t \in Seq(AnyLine), NEW o \in Overrides
  PROVE  Keys(ApplyOverrides(t, o)) = Keys(t)
<1>1. ApplyOverrides(t, o) \in Seq(AnyLine)
  BY OverrideSteps
<1>2. ASSUME NEW k \in Key
      PROVE  k \in Keys(ApplyOverrides(t, o)) <=> k \in Keys(t)
  <2>1. CASE k \in SetKeys(o)
    BY <2>1, OverridesSet
  <2>2. CASE k \notin SetKeys(o)
    <3>1. Among(ApplyOverrides(t, o), OfKey(k)) = Among(t, OfKey(k))
      BY <2>2, OfKeyLines, OverridesKeep
    <3> QED BY <3>1, <1>1, AmongKey
  <2> QED BY <2>1, <2>2
<1> QED BY <1>1, <1>2, KeysOfText

\* A text that is as the request wants it: no removed setting, every new one, and
\* of one that it changes or overrides one line at most, the one it asks for.
AsWanted(w, b, a, o) ==
    /\ w \in Seq(AnyLine)
    /\ \A k \in Removed(b, a) : k \notin Keys(w)
    /\ Keys(a) \ Keys(b) \subseteq Keys(w)
    /\ \A k \in ChangedKeys(b, a) \cup SetKeys(o) : OnOneLine(w, k)
    /\ \A i \in DOMAIN w :
         /\ w[i].key \in SetKeys(o) => w[i].value = o[w[i].key]
         /\ w[i].key \in ChangedKeys(b, a) \ SetKeys(o) => w[i] = LineOf(a, w[i].key)

LEMMA WantedLines ==
  ASSUME NEW c \in Seq(AnyLine), NEW b \in Seq(AnyLine), NEW a \in Seq(AnyLine),
         NEW o \in Overrides
  PROVE  AsWanted(Wanted(c, b, a, o), b, a, o)
<1> DEFINE e == ApplyLineEdits(c, b, a)
           w == ApplyOverrides(e, o)
<1>0. w = Wanted(c, b, a, o)
  BY DEF Wanted
<1>1. e \in Seq(AnyLine) /\ Keys(a) \subseteq Key
  BY EditsType, KeysOfText
<1>2. /\ \A k \in Removed(b, a) : k \notin Keys(e)
      /\ \A k \in ChangedKeys(b, a) :
              /\ k \in Keys(e) <=> k \in Keys(c) \/ k \notin Keys(b)
              /\ \A i \in DOMAIN e : e[i].key = k => e[i] = LineOf(a, k)
              /\ OnOneLine(e, k)
  BY EditsSet
<1> HIDE DEF e
<1>3. w \in Seq(AnyLine) /\ Keys(w) = Keys(e)
  BY <1>1, OverrideSteps, OverridesKeys
<1>4. \A k \in Key : OnOneLine(e, k) => OnOneLine(w, k)
  BY <1>1, OverridesOneLine
<1>5. \A k \in SetKeys(o) : OnOneLine(w, k) /\ \A i \in DOMAIN w : w[i].key = k => w[i].value = o[k]
  BY <1>1, OverridesSet
<1>6. ASSUME NEW k \in ChangedKeys(b, a) \ SetKeys(o), NEW i \in DOMAIN w, w[i].key = k
      PROVE  w[i] = LineOf(a, k)
  <2>1. k \in Key /\ k \in Keys(a)
    BY <1>1 DEF ChangedKeys
  <2>2. Among(w, OfKey(k)) = Among(e, OfKey(k))
    BY <2>1, <1>1, <1>6, OfKeyLines, OverridesKeep
  <2> DEFINE P == {j \in DOMAIN w : w[j] \in OfKey(k)}
             Q == {j \in DOMAIN e : e[j] \in OfKey(k)}
  <2>3. Among(w, OfKey(k)) = At(w, P) /\ Among(e, OfKey(k)) = At(e, Q)
    BY DEF Among
  <2>4. i \in P
    <3>1. w[i] \in AnyLine
      BY <1>3
    <3>2. w[i] # BlankLine
      BY <2>1, <1>6, LineCases
    <3>3. w[i] \in Line
      BY <3>1, <3>2, LineCases
    <3> QED BY <3>3, <1>6 DEF OfKey
  <2>5. P \in SUBSET DOMAIN w /\ Q \in SUBSET DOMAIN e
    OBVIOUS
  <2>6. \A j \in Q : e[j].key = k
    BY DEF OfKey
  <2> HIDE DEF P, Q, w
  <2>7. PICK n \in DOMAIN At(w, P) : At(w, P)[n] = w[i]
    BY <2>4, <2>5, <1>3, AtLines
  <2>8. PICK j \in Q : At(e, Q)[n] = e[j]
    <3>1. At(w, P) = At(e, Q)
      BY <2>2, <2>3 DEF w
    <3>2. \A m \in DOMAIN At(e, Q) : \E j \in Q : At(e, Q)[m] = e[j]
      BY <2>5, <1>1, AtLines
    <3> QED BY <3>1, <3>2, <2>7
  <2>9. e[j] = LineOf(a, k)
    BY <2>5, <2>6, <2>8, <1>2, <1>6
  <2> QED BY <2>2, <2>3, <2>7, <2>8, <2>9
<1>7. Keys(a) \ Keys(b) \subseteq Keys(w)
  BY <1>2, <1>3 DEF ChangedKeys
<1>8. \A k \in Removed(b, a) : k \notin Keys(w)
  BY <1>2, <1>3
<1>9. \A k \in ChangedKeys(b, a) \cup SetKeys(o) : OnOneLine(w, k)
  BY <1>1, <1>2, <1>4, <1>5 DEF ChangedKeys
<1> HIDE DEF w
<1>10. \A i \in DOMAIN w :
        /\ w[i].key \in SetKeys(o) => w[i].value = o[w[i].key]
        /\ w[i].key \in ChangedKeys(b, a) \ SetKeys(o) => w[i] = LineOf(a, w[i].key)
  BY <1>5, <1>6
<1> QED BY <1>0, <1>3, <1>7, <1>8, <1>9, <1>10 DEF AsWanted

\* A key on one line is on the first line of it.
LEMMA OneLineFirst ==
  ASSUME NEW t \in Seq(AnyLine), NEW i \in DOMAIN t, OnOneLine(t, t[i].key)
  PROVE  FirstOfKey(t, i)
<1>1. \A j \in 1..(i - 1) : j \in DOMAIN t /\ j # i
  OBVIOUS
<1> QED BY <1>1 DEF OnOneLine, FirstOfKey

\* Blank lines are where they were when only values are new.
LEMMA SameKeysTrimmed ==
  ASSUME NEW t \in Seq(AnyLine), NEW u \in Seq(AnyLine), Trimmed(t),
         DOMAIN u = DOMAIN t, \A i \in DOMAIN t : u[i].key = t[i].key
  PROVE  Trimmed(u)
<1>1. /\ DOMAIN t = 1..Len(t) /\ DOMAIN u = 1..Len(u) /\ Len(t) \in Nat /\ Len(u) \in Nat
      /\ \A i \in DOMAIN t : t[i] \in AnyLine /\ u[i] \in AnyLine
  OBVIOUS
<1>2. \A i \in DOMAIN t : t[i] # BlankLine => u[i] # BlankLine
  BY <1>1, LineCases
<1>3. Len(t) = Len(u)
  BY <1>1
<1>4. ASSUME u # <<>>
      PROVE  1 \in DOMAIN t /\ Len(t) \in DOMAIN t /\ t # <<>>
  BY <1>1, <1>3, <1>4
<1> QED BY <1>2, <1>3, <1>4 DEF Trimmed

\* The line edits leave a text that has them already as it is, but for lines that
\* an override replaces.
LEMMA EditsAgain ==
  ASSUME NEW w \in Seq(AnyLine), NEW b \in Seq(AnyLine), NEW a \in Seq(AnyLine),
         \A k \in Removed(b, a) : k \notin Keys(w),
         Keys(a) \ Keys(b) \subseteq Keys(w),
         \A k \in ChangedKeys(b, a) : OnOneLine(w, k)
  PROVE  /\ DOMAIN ApplyLineEdits(w, b, a) = DOMAIN Normalize(w)
         /\ Trimmed(ApplyLineEdits(w, b, a))
         /\ \A i \in DOMAIN Normalize(w) :
              LET old == Normalize(w)[i]
                  got == ApplyLineEdits(w, b, a)[i]
              IN  /\ got.key = old.key
                  /\ old.key \in ChangedKeys(b, a) => got = LineOf(a, old.key)
                  /\ old.key \notin ChangedKeys(b, a) => got = old
<1> DEFINE n == Normalize(w)
           r == Relined(w, b, a)
<1>1. /\ n \in Seq(AnyLine) /\ Trimmed(n) /\ Keys(n) = Keys(w)
      /\ \A L : BlankLine \notin L => Among(n, L) = Among(w, L)
  BY NormalizeKeeps
<1>k. /\ Keys(a) \subseteq Key /\ Keys(b) \subseteq Key
      /\ ChangedKeys(b, a) \subseteq Key /\ Removed(b, a) \subseteq Key
  BY KeysOfText DEF ChangedKeys, Removed
<1>2. ASSUME NEW k \in ChangedKeys(b, a)
      PROVE  OnOneLine(n, k)
  <2>1. BlankLine \notin OfKey(k) /\ k \in Key
    BY <1>k, LineCases DEF OfKey
  <2>2. Among(n, OfKey(k)) = Among(w, OfKey(k))
    BY <2>1, <1>1
  <2> QED BY <2>1, <2>2, <1>1, OneLineAmong
<1>3. \A i \in DOMAIN n : Kept(n, i, ChangedKeys(b, a), Removed(b, a))
  <2> TAKE i \in DOMAIN n
  <2>1. n[i].key \notin Removed(b, a)
    BY <1>1, <1>k, AmongKey
  <2>2. n[i].key \in ChangedKeys(b, a) => FirstOfKey(n, i)
    BY <1>1, <1>2, OneLineFirst
  <2> QED BY <2>1, <2>2 DEF Kept
<1>4. OwnPlaces(w, b, a) = DOMAIN n
  BY <1>3 DEF OwnPlaces
<1>5. Own(w, b, a) = n
  BY <1>1, <1>4, AtWhole DEF Own
<1>6. AddedPlaces(w, b, a) = {}
  BY DEF AddedPlaces, Added
<1>7. AddedLines(w, b, a) = <<>>
  <2>1. Cardinality({}) = 0 /\ AddedPlaces(w, b, a) \in SUBSET DOMAIN a
    BY <1>6, FS_EmptySet
  <2>2. AddedLines(w, b, a) \in Seq(AnyLine)
    BY EditSteps
  <2>3. Len(AddedLines(w, b, a)) = 0
    BY <2>1, <1>6, AtPlaces DEF AddedLines
  <2> QED BY <2>2, <2>3
<1>8. Joined(w, b, a) = n
  BY <1>1, <1>5, <1>7 DEF Joined
<1>9. /\ ApplyLineEdits(w, b, a) = Normalize(r)
      /\ r \in Seq(AnyLine)
      /\ DOMAIN r = DOMAIN n
      /\ \A i \in DOMAIN n :
           /\ r[i].key = n[i].key
           /\ n[i].key \in ChangedKeys(b, a) => r[i] = LineOf(a, n[i].key)
           /\ n[i].key \notin ChangedKeys(b, a) => r[i] = n[i]
  BY <1>8, EditSteps
<1> HIDE DEF n, r
<1>10. Trimmed(r)
  BY <1>1, <1>9, SameKeysTrimmed
<1>11. Normalize(r) = r
  BY <1>9, <1>10, NormalizeTrimmed
<1> QED BY <1>9, <1>10, <1>11 DEF n

\* Overriding settings that are on one line each changes their values only.
LEMMA OverridesAgain ==
  ASSUME NEW t \in Seq(AnyLine), NEW o \in Overrides, Trimmed(t),
         \A k \in SetKeys(o) : OnOneLine(t, k)
  PROVE  /\ DOMAIN ApplyOverrides(t, o) = DOMAIN t
         /\ \A i \in DOMAIN t :
              LET got == ApplyOverrides(t, o)[i]
              IN  /\ t[i].key \in SetKeys(o) => got = [key |-> t[i].key, value |-> o[t[i].key]]
                  /\ t[i].key \notin SetKeys(o) => got = t[i]
<1>1. Normalize(t) = t
  BY NormalizeTrimmed
<1>2. KeptPlaces(t, o) = DOMAIN t
  <2>1. \A i \in DOMAIN t : t[i].key \in SetKeys(o) => FirstOfKey(t, i)
    BY OneLineFirst
  <2> QED BY <2>1, <1>1 DEF KeptPlaces
<1>3. KeptLines(t, o) = t
  BY <1>1, <1>2, AtWhole DEF KeptLines
<1>4. ApplyOverrides(t, o) \in Seq(AnyLine) /\ Len(ApplyOverrides(t, o)) = Len(t)
  BY <1>3, OverrideSteps
<1>5. DOMAIN ApplyOverrides(t, o) = DOMAIN t
  BY <1>4
<1>6. \A i \in DOMAIN ApplyOverrides(t, o) :
        LET got == ApplyOverrides(t, o)[i]
        IN  /\ t[i].key \in SetKeys(o) => got = [key |-> t[i].key, value |-> o[t[i].key]]
            /\ t[i].key \notin SetKeys(o) => got = t[i]
  BY <1>3, OverrideSteps
<1> QED BY <1>5, <1>6

\* A text that is another, place by place, with the values set.
SetInPlace(x, n, b, a, o) ==
    /\ n \in Seq(AnyLine) /\ x \in Seq(AnyLine) /\ DOMAIN x = DOMAIN n
    /\ \A i \in DOMAIN n :
         /\ n[i].key \in SetKeys(o) => x[i] = [key |-> n[i].key, value |-> o[n[i].key]]
         /\ n[i].key \in ChangedKeys(b, a) \ SetKeys(o) => x[i] = LineOf(a, n[i].key)
         /\ n[i].key \notin ChangedKeys(b, a) \cup SetKeys(o) => x[i] = n[i]

\* Where nothing is to be removed or added and what is set is on one line, the
\* lines that are wanted are the slicer's, place by place, with the values set.
LEMMA WantedInPlace ==
  ASSUME NEW c \in Seq(AnyLine), NEW b \in Seq(AnyLine), NEW a \in Seq(AnyLine),
         NEW o \in Overrides,
         \A k \in Removed(b, a) : k \notin Keys(c),
         Keys(a) \ Keys(b) \subseteq Keys(c),
         \A k \in ChangedKeys(b, a) \cup SetKeys(o) : OnOneLine(c, k)
  PROVE  SetInPlace(Wanted(c, b, a, o), Normalize(c), b, a, o)
<1> DEFINE n == Normalize(c)
           e == ApplyLineEdits(c, b, a)
           x == ApplyOverrides(e, o)
<1>0. Wanted(c, b, a, o) = x
  BY DEF Wanted
<1>1. /\ n \in Seq(AnyLine)
      /\ \A L : BlankLine \notin L => Among(n, L) = Among(c, L)
  BY NormalizeKeeps
<1>2. /\ e \in Seq(AnyLine) /\ DOMAIN e = DOMAIN n /\ Trimmed(e)
      /\ \A i \in DOMAIN n :
           /\ e[i].key = n[i].key
           /\ n[i].key \in ChangedKeys(b, a) => e[i] = LineOf(a, n[i].key)
           /\ n[i].key \notin ChangedKeys(b, a) => e[i] = n[i]
  BY EditsType, EditsAgain
<1> HIDE DEF n, e
<1>3. ASSUME NEW k \in SetKeys(o)
      PROVE  OnOneLine(e, k)
  <2>1. k \in Key /\ BlankLine \notin OfKey(k)
    BY LineCases DEF SetKeys, OfKey
  <2>2. Among(n, OfKey(k)) = Among(c, OfKey(k))
    BY <2>1, <1>1
  <2>3. OnOneLine(n, k)
    BY <2>1, <2>2, <1>1, OneLineAmong
  <2> QED BY <2>3, <1>2 DEF OnOneLine
<1>4. /\ DOMAIN x = DOMAIN e
      /\ \A i \in DOMAIN e :
           /\ e[i].key \in SetKeys(o) => x[i] = [key |-> e[i].key, value |-> o[e[i].key]]
           /\ e[i].key \notin SetKeys(o) => x[i] = e[i]
  BY <1>2, <1>3, OverridesAgain
<1>5. x \in Seq(AnyLine)
  BY <1>2, OverrideSteps
<1> HIDE DEF x
<1>6. SetInPlace(x, n, b, a, o)
  BY <1>1, <1>2, <1>4, <1>5 DEF SetInPlace
<1> QED BY <1>0, <1>6 DEF n

\* What was sent is what the same request wants of it again (explain_no_response).
THEOREM WantedAgain ==
  ASSUME NEW c \in Seq(AnyLine), NEW b \in Seq(AnyLine), NEW a \in Seq(AnyLine),
         NEW o \in Overrides
  PROVE  Wanted(Wanted(c, b, a, o), b, a, o) = Normalize(Wanted(c, b, a, o))
<1> DEFINE w == Wanted(c, b, a, o)
           n == Normalize(w)
           x == Wanted(w, b, a, o)
<1>1. /\ w \in Seq(AnyLine)
      /\ \A k \in Removed(b, a) : k \notin Keys(w)
      /\ Keys(a) \ Keys(b) \subseteq Keys(w)
      /\ \A k \in ChangedKeys(b, a) \cup SetKeys(o) : OnOneLine(w, k)
      /\ \A i \in DOMAIN w :
           /\ w[i].key \in SetKeys(o) => w[i].value = o[w[i].key]
           /\ w[i].key \in ChangedKeys(b, a) \ SetKeys(o) => w[i] = LineOf(a, w[i].key)
  <2>1. AsWanted(w, b, a, o)
    BY WantedLines
  <2> HIDE DEF w
  <2> QED BY <2>1 DEF AsWanted
<1> HIDE DEF w
<1>2. /\ n \in Seq(AnyLine)
      /\ \A i \in DOMAIN n : \E j \in DOMAIN w : n[i] = w[j]
  BY <1>1, NormalizeKeeps
<1> HIDE DEF n, x
<1>3. SetInPlace(x, n, b, a, o)
  BY <1>1, WantedInPlace DEF n, x
<1>4. ASSUME NEW i \in DOMAIN n
      PROVE  x[i] = n[i]
  <2>1. PICK j \in DOMAIN w : n[i] = w[j]
    BY <1>2
  <2>2. n[i] \in AnyLine
    BY <1>2
  <2>3. CASE n[i].key \in SetKeys(o)
    <3>1. n[i].key \in Key
      BY <2>3 DEF SetKeys
    <3>2. n[i] = [key |-> n[i].key, value |-> n[i].value]
      BY <3>1, <2>2, LineCases
    <3>3. n[i].value = o[n[i].key]
      BY <2>1, <2>3, <1>1
    <3> QED BY <3>2, <3>3, <2>3, <1>3 DEF SetInPlace
  <2>4. CASE n[i].key \in ChangedKeys(b, a) \ SetKeys(o)
    BY <2>1, <2>4, <1>1, <1>3 DEF SetInPlace
  <2>5. CASE n[i].key \notin ChangedKeys(b, a) \cup SetKeys(o)
    BY <2>5, <1>3 DEF SetInPlace
  <2> QED BY <2>3, <2>4, <2>5
<1>5. x = n
  BY <1>2, <1>3, <1>4 DEF SetInPlace
<1> QED BY <1>5 DEF w, n, x

\* Where a slicer has each setting that is set on one line at most, build_plan finds
\* its text to be what is wanted exactly when the settings are: comparing the texts,
\* as the code does, and comparing the settings, as SlicerUpdates does, decide alike
\* whether a PATCH is sent.
THEOREM ComparedAsSettings ==
  ASSUME NEW c \in Seq(AnyLine), NEW b \in Seq(AnyLine), NEW a \in Seq(AnyLine),
         NEW o \in Overrides,
         \A k \in ChangedKeys(b, a) \cup SetKeys(o) : OnOneLine(c, k)
  PROVE  Wanted(c, b, a, o) = Normalize(c) <=>
           C!ApplyOverrides(C!ApplyLineEdits(Settings(c), Settings(b), Settings(a)), o) = Settings(c)
<1> DEFINE n == Normalize(c)
           e == ApplyLineEdits(c, b, a)
           x == Wanted(c, b, a, o)
           set == ChangedKeys(b, a) \cup SetKeys(o)
<1>1. /\ n \in Seq(AnyLine) /\ Keys(n) = Keys(c)
      /\ \A L : BlankLine \notin L => Among(n, L) = Among(c, L)
  BY NormalizeKeeps
<1>2. e \in Seq(AnyLine) /\ x \in Seq(AnyLine)
  BY EditsType, OverrideSteps DEF Wanted
<1>3. Settings(x) =
        C!ApplyOverrides(C!ApplyLineEdits(Settings(c), Settings(b), Settings(a)), o)
  <2>1. Settings(e) = C!ApplyLineEdits(Settings(c), Settings(b), Settings(a))
    BY EditsOnSettings
  <2>2. Settings(x) = C!ApplyOverrides(Settings(e), o)
    BY <1>2, OverridesOnSettings DEF Wanted
  <2> HIDE DEF e, x
  <2> QED BY <2>1, <2>2
<1>4. ASSUME NEW k \in Key
      PROVE  Settings(n)[k] = Settings(c)[k]
  <2>1. BlankLine \notin OfKey(k)
    BY LineCases DEF OfKey
  <2> QED BY <2>1, <1>1, SettingsAmong
<1>5. ASSUME NEW k \in Key
      PROVE  /\ Settings(x)[k] # C!Absent <=> k \in Keys(x)
             /\ Settings(c)[k] # C!Absent <=> k \in Keys(c)
  BY <1>2, SettingOf
<1>6. Settings(n) = Settings(c)
  <2> DEFINE f == Settings(n)
             g == Settings(c)
  <2>1. f = [k \in Key |-> f[k]] /\ g = [k \in Key |-> g[k]]
    BY DEF Settings
  <2>2. \A k \in Key : f[k] = g[k]
    BY <1>4
  <2> HIDE DEF f, g
  <2>3. f = g
    BY <2>1, <2>2
  <2> QED BY <2>3 DEF f, g
<1>7. ASSUME Settings(x) = Settings(c)
      PROVE  x = n
  <2>1. \A k \in Key : k \in Keys(x) <=> k \in Keys(c)
    BY <1>5, <1>7
  <2>2. AsWanted(x, b, a, o)
    BY WantedLines
  <2>3. /\ Keys(a) \subseteq Key /\ Keys(b) \subseteq Key
        /\ Removed(b, a) \subseteq Key /\ set \subseteq Key
    BY KeysOfText DEF Removed, ChangedKeys, SetKeys
  <2> HIDE DEF x
  <2>4. /\ \A k \in Removed(b, a) : k \notin Keys(c)
        /\ Keys(a) \ Keys(b) \subseteq Keys(c)
    BY <2>1, <2>2, <2>3 DEF AsWanted
  <2>5. /\ DOMAIN x = DOMAIN n
        /\ \A i \in DOMAIN n :
             /\ n[i].key \in SetKeys(o) => x[i] = [key |-> n[i].key, value |-> o[n[i].key]]
             /\ n[i].key \in ChangedKeys(b, a) \ SetKeys(o) => x[i] = LineOf(a, n[i].key)
             /\ n[i].key \notin ChangedKeys(b, a) \cup SetKeys(o) => x[i] = n[i]
    <3>1. SetInPlace(x, n, b, a, o)
      BY <2>4, WantedInPlace DEF x
    <3> QED BY <3>1 DEF SetInPlace
  <2>6. \A k \in set : OnOneLine(n, k)
    <3>1. ASSUME NEW k \in set
          PROVE  OnOneLine(n, k)
      <4>1. k \in Key /\ BlankLine \notin OfKey(k)
        BY <2>3, LineCases DEF OfKey
      <4>2. Among(n, OfKey(k)) = Among(c, OfKey(k)) /\ OnOneLine(c, k)
        BY <4>1, <1>1
      <4> QED BY <4>1, <4>2, <1>1, OneLineAmong
    <3> QED BY <3>1
  <2> HIDE DEF n
  <2>7. ASSUME NEW i \in DOMAIN n, n[i].key \in set
        PROVE  x[i] = n[i]
    <3> DEFINE k == n[i].key
    <3>0. k \in Key /\ OnOneLine(n, k)
      BY <2>3, <2>6, <2>7
    <3>1. \A j \in DOMAIN n : n[j].key = k => j = i
      BY <3>0 DEF OnOneLine
    <3>2. x[i].key = k
      <4>1. k \in ChangedKeys(b, a) => LineOf(a, k).key = k
        BY <3>0, AmongKey DEF ChangedKeys
      <4> QED BY <4>1, <2>5, <2>7
    <3>3. \A j \in DOMAIN x : x[j].key = k => j = i
      BY <3>0, <3>1, <3>2, <2>2, <2>5, <2>7 DEF AsWanted, OnOneLine
    <3>4. k \in Keys(n) /\ k \in Keys(x)
      BY <3>0, <3>2, <2>5, <1>1, <1>2, AmongKey
    <3>5. LineOf(n, k) = n[i] /\ LineOf(x, k) = x[i]
      <4>1. LineOf(n, k).key = k /\ \E j \in DOMAIN n : n[j] = LineOf(n, k)
        BY <3>0, <3>4, <1>1, AmongKey
      <4>2. LineOf(x, k).key = k /\ \E j \in DOMAIN x : x[j] = LineOf(x, k)
        BY <3>0, <3>4, <1>2, AmongKey
      <4> QED BY <4>1, <4>2, <3>1, <3>3
    <3>6. n[i].value = Settings(n)[k] /\ x[i].value = Settings(x)[k]
      BY <3>0, <3>4, <3>5, <1>1, <1>2, SettingOf
    <3>7. n[i] \in AnyLine /\ x[i] \in AnyLine
      BY <1>1, <1>2, <2>5
    <3>8. n[i] = [key |-> k, value |-> n[i].value] /\ x[i] = [key |-> k, value |-> x[i].value]
      BY <3>0, <3>2, <3>7, LineCases
    <3> QED BY <3>6, <3>8, <1>6, <1>7
  <2> QED BY <1>1, <1>2, <2>5, <2>7
<1> QED BY <1>3, <1>6, <1>7

-----------------------------------------------------------------------------
(* The box and the batch.                                                  *)

\* The lines of the selected texts that have gone into the box.
Before(t, i) == t < slicer \/ (t = slicer /\ i < next)

Seen == {line \in Line :
           \E t \in DOMAIN selected : \E i \in DOMAIN selected[t] :
             Before(t, i) /\ selected[t][i] = line}

\* The keys that have two values among some lines.
TwoValued(lines) ==
    {k \in Key : \E l, m \in lines : l.key = k /\ m.key = k /\ l.value # m.value}

\* The box has the lines seen of every key with one value, and locks the others.
SharesSeen(shown, lines) ==
    /\ shown.differing = TwoValued(lines)
    /\ {shown.lines[i] : i \in DOMAIN shown.lines} = {l \in lines : l.key \notin shown.differing}

BatchType ==
    /\ box \in [lines : Seq(Line), differing : SUBSET Key]
    /\ typed \in Seq(AnyLine) /\ current \in Seq(AnyLine) /\ overrides \in Overrides

Reading ==
    step = "read" =>
      /\ selected \in Seq(Text)
      /\ slicer \in 1..(Len(selected) + 1)
      /\ next \in Nat
      /\ slicer \in DOMAIN selected => next \in 1..(Len(selected[slicer]) + 1)
      /\ SharesSeen(box, Seen)

SentAsPlanned == Planned => wanted = Wanted(current, box.lines, typed, overrides)

Inv == BatchType /\ Reading /\ SentAsPlanned

LEMMA LinesAreTexts == Seq(Line) \subseteq Seq(AnyLine)
<1>1. Line \subseteq AnyLine
  BY DEF AnyLine
<1> QED BY <1>1

\* Equal keys and values, equal lines.
LEMMA SameLine ==
  ASSUME NEW l \in Line, NEW m \in Line, l.key = m.key, l.value = m.value
  PROVE  l = m
<1>1. l = [key |-> l.key, value |-> l.value] /\ m = [key |-> m.key, value |-> m.value]
  BY DEF Line
<1> QED BY <1>1

\* One more line into the box.
LEMMA ShareOne ==
  ASSUME NEW shown \in [lines : Seq(Line), differing : SUBSET Key],
         NEW lines \in SUBSET Line, NEW line \in Line, SharesSeen(shown, lines)
  PROVE  /\ Share(shown, line) \in [lines : Seq(Line), differing : SUBSET Key]
         /\ SharesSeen(Share(shown, line), lines \cup {line})
<1> DEFINE k == line.key
           old == shown.lines
           all == lines \cup {line}
<1>0. k \in Key /\ old \in Seq(Line) /\ old \in Seq(AnyLine) /\ shown.differing \in SUBSET Key
  BY LinesAreTexts DEF Line
<1>1. shown.differing = TwoValued(lines)
  BY DEF SharesSeen
<1>2. /\ \A i \in DOMAIN old : old[i] \in lines /\ old[i].key \notin shown.differing
      /\ \A l \in lines : l.key \notin shown.differing => \E i \in DOMAIN old : old[i] = l
  BY DEF SharesSeen
<1>3. shown.differing \subseteq TwoValued(all)
  BY <1>1 DEF TwoValued
<1>4. TwoValued(all) \subseteq shown.differing \cup {k}
  BY <1>1 DEF TwoValued
<1> HIDE DEF old, all
<1>5. CASE k \in shown.differing
  <2>1. Share(shown, line) = shown
    BY <1>5 DEF Share
  <2>2. TwoValued(all) = shown.differing
    BY <1>3, <1>4, <1>5
  <2>3. {l \in all : l.key \notin shown.differing} = {l \in lines : l.key \notin shown.differing}
    BY <1>5 DEF all
  <2> QED BY <2>1, <2>2, <2>3 DEF SharesSeen, all
<1>6. CASE k \notin shown.differing /\ k \notin Keys(old)
  <2> DEFINE new == Append(old, line)
  <2>1. Share(shown, line) = [lines |-> new, differing |-> shown.differing]
    BY <1>6 DEF Share, old
  <2>2. \A l \in lines : l.key # k
    BY <1>0, <1>2, <1>6, AmongKey
  <2>3. TwoValued(all) = shown.differing
    <3>1. k \notin TwoValued(all)
      BY <2>2 DEF TwoValued, all
    <3> QED BY <3>1, <1>3, <1>4
  <2>4. /\ new \in Seq(Line)
        /\ \A i \in DOMAIN new : new[i] = line \/ \E j \in DOMAIN old : new[i] = old[j]
        /\ \E i \in DOMAIN new : new[i] = line
        /\ \A j \in DOMAIN old : \E i \in DOMAIN new : new[i] = old[j]
    <3>1. /\ Len(old) \in Nat /\ DOMAIN old = 1..Len(old) /\ new \in Seq(Line)
          /\ DOMAIN new = 1..(Len(old) + 1)
          /\ \A i \in 1..Len(old) : new[i] = old[i]
          /\ new[Len(old) + 1] = line
      BY <1>0
    <3> HIDE DEF new
    <3>2. \A i \in DOMAIN new : i \in DOMAIN old \/ i = Len(old) + 1
      BY <3>1
    <3>3. \A i \in DOMAIN old : i \in DOMAIN new
      BY <3>1
    <3>4. Len(old) + 1 \in DOMAIN new
      BY <3>1
    <3> QED BY <3>1, <3>2, <3>3, <3>4
  <2> HIDE DEF new
  <2>5. {new[i] : i \in DOMAIN new} = {l \in all : l.key \notin shown.differing}
    <3>1. \A i \in DOMAIN new : new[i] \in all /\ new[i].key \notin shown.differing
      BY <2>4, <1>2, <1>6 DEF all
    <3>2. \A l \in all : l.key \notin shown.differing => \E i \in DOMAIN new : new[i] = l
      BY <2>4, <1>2 DEF all
    <3> QED BY <3>1, <3>2
  <2> QED BY <2>1, <2>3, <2>4, <2>5, <1>0 DEF SharesSeen, all
<1>7. CASE k \notin shown.differing /\ k \in Keys(old)
  <2>1. /\ LineOf(old, k) \in Line /\ LineOf(old, k).key = k
        /\ \E i \in DOMAIN old : old[i] = LineOf(old, k)
    BY <1>0, <1>7, AmongKey
  <2>2. LineOf(old, k) \in lines
    BY <2>1, <1>2
  <2>3. CASE LineOf(old, k).value = line.value
    <3>1. Share(shown, line) = shown
      BY <1>7, <2>3 DEF Share, old
    <3>2. line = LineOf(old, k)
      BY <2>1, <2>3, SameLine
    <3>3. all = lines
      BY <3>2, <2>2 DEF all
    <3> QED BY <3>1, <3>3 DEF all
  <2>4. CASE LineOf(old, k).value # line.value
    <3> DEFINE new == Among(old, Line \ OfKey(k))
               P == {i \in DOMAIN old : old[i] \in Line \ OfKey(k)}
               locked == shown.differing \cup {k}
    <3>1. Share(shown, line) = [lines |-> new, differing |-> locked]
      BY <1>7, <2>4 DEF Share, old
    <3>2. TwoValued(all) = locked
      <4>1. k \in TwoValued(all)
        BY <2>1, <2>2, <2>4, <1>0 DEF TwoValued, all
      <4> QED BY <4>1, <1>3, <1>4
    <3>3. P \in SUBSET DOMAIN old /\ new = At(old, P)
      BY DEF Among
    <3>4. /\ new \in Seq(Line)
          /\ \A n \in DOMAIN new : \E i \in P : new[n] = old[i]
          /\ \A i \in P : \E n \in DOMAIN new : new[n] = old[i]
      <4>1. /\ At(old, P) \in Seq(Line)
            /\ \A n \in DOMAIN At(old, P) : \E i \in P : At(old, P)[n] = old[i]
            /\ \A i \in P : \E n \in DOMAIN At(old, P) : At(old, P)[n] = old[i]
        <5>1. old \in Seq(Line) /\ P \in SUBSET DOMAIN old
          BY <1>0
        <5> HIDE DEF P
        <5> QED BY ONLY <5>1, AtLines
      <4> HIDE DEF new, P
      <4> QED BY <4>1, <3>3
    <3>5. \A i \in DOMAIN old : i \in P <=> old[i].key # k
      <4>1. \A i \in DOMAIN old : old[i] \in Line
        BY <1>0
      <4> QED BY <4>1 DEF OfKey
    <3> HIDE DEF new, P
    <3>6. {new[i] : i \in DOMAIN new} = {l \in all : l.key \notin locked}
      <4>1. \A n \in DOMAIN new : new[n] \in all /\ new[n].key \notin locked
        BY <3>3, <3>4, <3>5, <1>2 DEF all
      <4>2. ASSUME NEW l \in all, l.key \notin locked
            PROVE  \E n \in DOMAIN new : new[n] = l
        <5>1. l \in lines
          BY <4>2 DEF all
        <5>2. PICK i \in DOMAIN old : old[i] = l
          BY <5>1, <4>2, <1>2
        <5> QED BY <5>2, <4>2, <3>4, <3>5
      <4> QED BY <4>1, <4>2
    <3> HIDE DEF locked
    <3>7. locked \in SUBSET Key
      BY <1>0 DEF locked
    <3> QED BY <3>1, <3>2, <3>4, <3>6, <3>7 DEF SharesSeen, all
  <2> QED BY <2>3, <2>4
<1> QED BY <1>5, <1>6, <1>7

LEMMA SelectedTexts ==
  ASSUME selected \in Seq(Text)
  PROVE  /\ Len(selected) \in Nat /\ DOMAIN selected = 1..Len(selected)
         /\ \A t \in DOMAIN selected :
              /\ selected[t] \in Seq(AnyLine)
              /\ Len(selected[t]) \in Nat /\ DOMAIN selected[t] = 1..Len(selected[t])
              /\ \A i \in DOMAIN selected[t] : selected[t][i] \in AnyLine
<1>1. Len(selected) \in Nat /\ DOMAIN selected = 1..Len(selected)
  OBVIOUS
<1>2. ASSUME NEW t \in DOMAIN selected
      PROVE  /\ selected[t] \in Seq(AnyLine)
             /\ Len(selected[t]) \in Nat /\ DOMAIN selected[t] = 1..Len(selected[t])
             /\ \A i \in DOMAIN selected[t] : selected[t][i] \in AnyLine
  <2>1. selected[t] \in Text
    OBVIOUS
  <2>2. selected[t] \in Seq(AnyLine)
    BY <2>1, TextsAreSequences
  <2> QED BY <2>2
<1> QED BY <1>1, <1>2

LEMMA EmptyText == <<>> \in Seq(AnyLine) /\ <<>> \in Seq(Line) /\ DOMAIN <<>> = {}
OBVIOUS

LEMMA InvInit == Init => Inv
<1> SUFFICES ASSUME Init PROVE Inv
  OBVIOUS
<1>1. BatchType
  <2>1. overrides \in Overrides
    BY DEF Init, NoOverride, Overrides
  <2> QED BY <2>1, EmptyText DEF Init, BatchType
<1>2. Reading
  <2>1. slicer = 1 /\ next = 1
    BY DEF Init
  <2>2. selected \in Seq(Text)
    <3>1. MaxSlicers \in Nat
      BY LinesAssumption
    <3>2. PICK n \in 0..MaxSlicers : selected \in [1..n -> Text]
      BY DEF Init
    <3>3. n \in Nat
      BY <3>1
    <3> QED BY <3>2, <3>3
  <2>3. /\ Len(selected) \in Nat /\ DOMAIN selected = 1..Len(selected)
        /\ \A t \in DOMAIN selected :
             Len(selected[t]) \in Nat /\ DOMAIN selected[t] = 1..Len(selected[t])
    BY <2>2, SelectedTexts
  <2>4. Seen = {}
    <3>1. ASSUME NEW t \in DOMAIN selected, NEW i \in DOMAIN selected[t]
          PROVE  ~Before(t, i)
      BY <2>1, <2>3 DEF Before
    <3> QED BY <3>1 DEF Seen
  <2>5. SharesSeen(box, Seen)
    BY <2>4, EmptyText DEF Init, SharesSeen, TwoValued
  <2>6. slicer \in 1..(Len(selected) + 1) /\ next \in Nat
    BY <2>1, <2>3
  <2>7. slicer \in DOMAIN selected => next \in 1..(Len(selected[slicer]) + 1)
    BY <2>1, <2>3
  <2> QED BY <2>2, <2>5, <2>6, <2>7 DEF Reading
<1>3. SentAsPlanned
  BY DEF Init, SentAsPlanned, Planned
<1> QED BY <1>1, <1>2, <1>3 DEF Inv

LEMMA InvShareLine == Inv /\ ShareLine => Inv'
<1> SUFFICES ASSUME Inv, ShareLine PROVE Inv'
  OBVIOUS
<1> DEFINE text == selected[slicer]
           line == text[next]
<1>1. /\ step = "read" /\ slicer =< Len(selected) /\ next =< Len(text) /\ next' = next + 1
      /\ box' = IF line = BlankLine THEN box ELSE Share(box, line)
      /\ step' = step /\ selected' = selected /\ slicer' = slicer /\ typed' = typed
      /\ overrides' = overrides /\ current' = current /\ wanted' = wanted
  BY DEF ShareLine
<1>2. /\ selected \in Seq(Text) /\ slicer \in 1..(Len(selected) + 1) /\ next \in Nat
      /\ slicer \in DOMAIN selected => next \in 1..(Len(selected[slicer]) + 1)
      /\ SharesSeen(box, Seen)
      /\ box \in [lines : Seq(Line), differing : SUBSET Key]
  BY <1>1 DEF Inv, Reading, BatchType
<1>3. /\ Len(selected) \in Nat /\ DOMAIN selected = 1..Len(selected)
      /\ \A t \in DOMAIN selected :
           /\ Len(selected[t]) \in Nat /\ DOMAIN selected[t] = 1..Len(selected[t])
           /\ \A i \in DOMAIN selected[t] : selected[t][i] \in AnyLine
  BY <1>2, SelectedTexts
<1>4. slicer \in DOMAIN selected /\ next \in 1..(Len(text) + 1)
  BY <1>1, <1>2, <1>3
<1>5. /\ Len(text) \in Nat /\ DOMAIN text = 1..Len(text)
      /\ next \in DOMAIN text /\ next' \in Nat /\ next' \in 1..(Len(text) + 1)
  BY <1>1, <1>3, <1>4
<1>6. line \in AnyLine
  BY <1>3, <1>4, <1>5
<1>7. ASSUME NEW t \in DOMAIN selected, NEW i \in DOMAIN selected[t]
      PROVE  Before(t, i)' <=> Before(t, i) \/ (t = slicer /\ i = next)
  <2>1. t \in Nat /\ i \in Nat /\ slicer \in Nat
    BY <1>2, <1>3
  <2> QED BY <2>1, <1>1, <1>2 DEF Before
<1>8. Seen' = Seen \cup ({line} \cap Line)
  <2>1. Seen' = {l \in Line :
                  \E t \in DOMAIN selected : \E i \in DOMAIN selected[t] :
                    Before(t, i)' /\ selected[t][i] = l}
    BY <1>1 DEF Seen
  <2> QED BY <2>1, <1>4, <1>5, <1>7 DEF Seen
<1> HIDE DEF line, text
<1>9. Seen \in SUBSET Line /\ BlankLine \notin Line
  BY LinesAssumption DEF Seen, Line, BlankLine
<1>10. box' \in [lines : Seq(Line), differing : SUBSET Key] /\ SharesSeen(box', Seen')
  <2>1. CASE line = BlankLine
    <3>1. Seen' = Seen /\ box' = box
      BY <2>1, <1>1, <1>8, <1>9
    <3> QED BY <3>1, <1>2
  <2>2. CASE line # BlankLine
    <3>1. line \in Line /\ Seen' = Seen \cup {line} /\ box' = Share(box, line)
      BY <2>2, <1>1, <1>6, <1>8 DEF AnyLine
    <3> QED BY <3>1, <1>2, <1>9, ShareOne
  <2> QED BY <2>1, <2>2
<1>11. BatchType'
  BY <1>1, <1>10 DEF Inv, BatchType
<1>12. Reading'
  BY <1>1, <1>2, <1>4, <1>5, <1>10 DEF Reading, text
<1>13. SentAsPlanned'
  BY <1>1 DEF SentAsPlanned, Planned
<1> QED BY <1>11, <1>12, <1>13 DEF Inv

LEMMA InvNextText == Inv /\ NextText => Inv'
<1> SUFFICES ASSUME Inv, NextText PROVE Inv'
  OBVIOUS
<1>1. /\ step = "read" /\ slicer =< Len(selected) /\ next > Len(selected[slicer])
      /\ slicer' = slicer + 1 /\ next' = 1 /\ box' = box
      /\ step' = step /\ selected' = selected /\ typed' = typed
      /\ overrides' = overrides /\ current' = current /\ wanted' = wanted
  BY DEF NextText
<1>2. /\ selected \in Seq(Text) /\ slicer \in 1..(Len(selected) + 1) /\ next \in Nat
      /\ SharesSeen(box, Seen)
  BY <1>1 DEF Inv, Reading
<1>3. /\ Len(selected) \in Nat /\ DOMAIN selected = 1..Len(selected)
      /\ \A t \in DOMAIN selected :
           Len(selected[t]) \in Nat /\ DOMAIN selected[t] = 1..Len(selected[t])
  BY <1>2, SelectedTexts
<1>4. ASSUME NEW t \in DOMAIN selected, NEW i \in DOMAIN selected[t]
      PROVE  Before(t, i)' <=> Before(t, i)
  <2>1. t \in Nat /\ i \in 1..Len(selected[t]) /\ slicer \in Nat /\ Len(selected[t]) \in Nat
    BY <1>2, <1>3
  <2>2. CASE t = slicer
    BY <2>1, <2>2, <1>1, <1>2 DEF Before
  <2>3. CASE t # slicer
    BY <2>1, <2>3, <1>1 DEF Before
  <2> QED BY <2>2, <2>3
<1>5. Seen' = Seen
  BY <1>1, <1>4 DEF Seen
<1>6. BatchType'
  BY <1>1 DEF Inv, BatchType
<1>7. slicer' \in 1..(Len(selected) + 1) /\ next' \in Nat
  BY <1>1, <1>2, <1>3
<1>8. slicer' \in DOMAIN selected => next' \in 1..(Len(selected[slicer']) + 1)
  BY <1>1, <1>3
<1>9. Reading'
  BY <1>1, <1>2, <1>5, <1>7, <1>8 DEF Reading
<1>10. SentAsPlanned'
  BY <1>1 DEF SentAsPlanned, Planned
<1> QED BY <1>6, <1>9, <1>10 DEF Inv

LEMMA InvNext == Inv /\ [Next]_vars => Inv'
<1> SUFFICES ASSUME Inv, [Next]_vars PROVE Inv'
  OBVIOUS
<1>1. CASE ShareLine
  BY <1>1, InvShareLine
<1>2. CASE NextText
  BY <1>2, InvNextText
<1>3. CASE ShowBox
  <2>1. BatchType'
    BY <1>3 DEF Inv, BatchType, ShowBox
  <2>2. Reading' /\ SentAsPlanned'
    BY <1>3 DEF ShowBox, BoxMade, Reading, SentAsPlanned, Planned
  <2> QED BY <2>1, <2>2 DEF Inv
<1>4. CASE Plan
  <2>1. /\ step' = "planned" /\ box' = box
        /\ typed' \in Text /\ current' \in Text /\ overrides' \in Overrides
        /\ wanted' = Wanted(current', box.lines, typed', overrides')
    BY <1>4 DEF Plan, Overrides
  <2>2. BatchType'
    BY <2>1, TextsAreSequences DEF Inv, BatchType
  <2>3. Reading' /\ SentAsPlanned'
    BY <2>1 DEF Reading, SentAsPlanned, Planned
  <2> QED BY <2>2, <2>3 DEF Inv
<1>5. CASE UNCHANGED vars
  BY <1>5 DEF vars, Inv, BatchType, Reading, Seen, Before, SentAsPlanned, Planned
<1> QED BY <1>1, <1>2, <1>3, <1>4, <1>5 DEF Next

\* The types of the batch, that the box shares the lines read so far, and that
\* what is sent is what build_plan makes of the plan: what the invariants below
\* rest on.
THEOREM BatchInvariant == Spec => []Inv
<1> QED BY InvInit, InvNext, PTL DEF Spec

-----------------------------------------------------------------------------
(* The properties the run checks.                                          *)

LEMMA PlannedTypes ==
  ASSUME Inv
  PROVE  /\ box.lines \in Seq(AnyLine)
         /\ typed \in Seq(AnyLine) /\ current \in Seq(AnyLine) /\ overrides \in Overrides
         /\ Touched = ChangedKeys(box.lines, typed) \cup Removed(box.lines, typed)
                        \cup SetKeys(overrides)
<1>1. box.lines \in Seq(Line)
  BY DEF Inv, BatchType
<1> QED BY <1>1, LinesAreTexts DEF Inv, BatchType, Touched, Removed, SetKeys

\* The settings sent are what ConfigLines says of the settings of the texts
\* (apply_line_edits, apply_overrides).
THEOREM TextsAgree == Spec => []SettingsAgree
<1>1. Inv => SettingsAgree
  <2> SUFFICES ASSUME Inv, Planned
               PROVE  Settings(wanted) =
                        C!ApplyOverrides(C!ApplyLineEdits(Settings(current), Settings(box.lines),
                                                          Settings(typed)), overrides)
    BY DEF SettingsAgree
  <2> DEFINE e == ApplyLineEdits(current, box.lines, typed)
  <2>1. wanted = ApplyOverrides(e, overrides)
    BY DEF Inv, SentAsPlanned, Wanted
  <2>2. e \in Seq(AnyLine) /\ overrides \in Overrides
    BY PlannedTypes, EditsType
  <2>3. Settings(e) = C!ApplyLineEdits(Settings(current), Settings(box.lines), Settings(typed))
    BY PlannedTypes, EditsOnSettings
  <2> HIDE DEF e
  <2>4. Settings(ApplyOverrides(e, overrides)) = C!ApplyOverrides(Settings(e), overrides)
    BY <2>2, OverridesOnSettings
  <2> QED BY <2>1, <2>3, <2>4
<1> QED BY <1>1, BatchInvariant, PTL

\* build_plan asks again for what it had sent: a retry of an update that did
\* apply sends nothing (explain_no_response).
THEOREM SentOnce == Spec => []AppliedOnce
<1>1. Inv => AppliedOnce
  <2> SUFFICES ASSUME Inv, Planned
               PROVE  Wanted(wanted, box.lines, typed, overrides) = Normalize(wanted)
    BY DEF AppliedOnce
  <2>1. wanted = Wanted(current, box.lines, typed, overrides)
    BY DEF Inv, SentAsPlanned
  <2> QED BY <2>1, PlannedTypes, WantedAgain
<1> QED BY <1>1, BatchInvariant, PTL

\* Lines of settings the request does not touch keep their text, order and
\* repeats (apply_line_edits, apply_overrides).
THEOREM OthersStay == Spec => []OthersInPlace
<1>1. Inv => OthersInPlace
  <2> DEFINE others == {line \in Line : line.key \notin Touched}
             e == ApplyLineEdits(current, box.lines, typed)
  <2> SUFFICES ASSUME Inv, Planned
               PROVE  Among(wanted, others) = Among(current, others)
    BY DEF OthersInPlace
  <2>1. wanted = ApplyOverrides(e, overrides)
    BY DEF Inv, SentAsPlanned, Wanted
  <2>2. /\ box.lines \in Seq(AnyLine) /\ typed \in Seq(AnyLine) /\ current \in Seq(AnyLine)
        /\ overrides \in Overrides /\ e \in Seq(AnyLine)
    BY PlannedTypes, EditsType
  <2>3. /\ others \in SUBSET Line
        /\ \A line \in others :
             /\ line.key \notin ChangedKeys(box.lines, typed) \cup Removed(box.lines, typed)
             /\ line.key \notin SetKeys(overrides)
    BY PlannedTypes
  <2> HIDE DEF others
  <2>4. Among(e, others) = Among(current, others)
    BY <2>2, <2>3, EditsKeep
  <2> HIDE DEF e
  <2>5. Among(ApplyOverrides(e, overrides), others) = Among(e, others)
    BY <2>2, <2>3, OverridesKeep
  <2> QED BY <2>1, <2>4, <2>5
<1> QED BY <1>1, BatchInvariant, PTL

\* A setting the request changes, adds or overrides is sent on one line at most,
\* and one it removes on none, however often the slicer repeated it.
THEOREM TouchedOnce == Spec => []SetOnce
<1>1. Inv => SetOnce
  <2> SUFFICES ASSUME Inv, Planned, NEW i \in DOMAIN wanted, NEW j \in DOMAIN wanted,
                      wanted[i].key = wanted[j].key, wanted[i].key \in Touched
               PROVE  i = j
    BY DEF SetOnce
  <2>1. wanted = Wanted(current, box.lines, typed, overrides)
    BY DEF Inv, SentAsPlanned
  <2>2. AsWanted(wanted, box.lines, typed, overrides)
    BY <2>1, PlannedTypes, WantedLines
  <2> DEFINE k == wanted[i].key
  <2>3. CASE k \in Removed(box.lines, typed)
    <3>1. k \in Key /\ wanted \in Seq(AnyLine) /\ k \notin Keys(wanted)
      BY <2>2, <2>3, PlannedTypes, KeysOfText DEF AsWanted, Removed
    <3> QED BY <3>1, AmongKey
  <2>4. CASE k \in ChangedKeys(box.lines, typed) \cup SetKeys(overrides)
    <3>1. OnOneLine(wanted, k)
      BY <2>2, <2>4 DEF AsWanted
    <3> QED BY <3>1 DEF OnOneLine
  <2> QED BY <2>3, <2>4, PlannedTypes
<1> QED BY <1>1, BatchInvariant, PTL

\* The lines of some texts, without the blank ones, and their settings.
LinesIn(texts) ==
    {line \in Line : \E t \in DOMAIN texts : \E i \in DOMAIN texts[t] : texts[t][i] = line}

SettingsIn(texts) == {Settings(texts[t]) : t \in DOMAIN texts}

\* A text has a key twice, with two values.
TornIn(texts, k) ==
    \E t \in DOMAIN texts : \E i, j \in DOMAIN texts[t] :
      texts[t][i].key = k /\ texts[t][j].key = k /\ texts[t][i].value # texts[t][j].value

\* What the settings of the texts say of a key is what their lines say, and a key
\* that a text repeats with two values has two values among the lines.
LEMMA SettingsOfTexts ==
  ASSUME NEW texts \in Seq(Seq(AnyLine)), NEW k \in Key
  PROVE  LET values == C!Values(SettingsIn(texts), k)
         IN  /\ \A v \in values : \E l \in LinesIn(texts) : l.key = k /\ l.value = v
             /\ \A l \in LinesIn(texts) : l.key = k => l.value \in values \/ TornIn(texts, k)
             /\ values # {} <=> \E l \in LinesIn(texts) : l.key = k
<1> DEFINE lines == LinesIn(texts)
           values == C!Values(SettingsIn(texts), k)
<1>1. \A t \in DOMAIN texts : texts[t] \in Seq(AnyLine)
  OBVIOUS
<1>2. \A v : v \in values <=>
             \E t \in DOMAIN texts : v = Settings(texts[t])[k] /\ v # C!Absent
  BY DEF C!Values, SettingsIn
<1> HIDE DEF lines, values
<1>3. ASSUME NEW t \in DOMAIN texts, k \in Keys(texts[t])
      PROVE  /\ Settings(texts[t])[k] = LineOf(texts[t], k).value
             /\ Settings(texts[t])[k] \in values
             /\ LineOf(texts[t], k) \in lines /\ LineOf(texts[t], k).key = k
             /\ \E i \in DOMAIN texts[t] : texts[t][i] = LineOf(texts[t], k)
  <2>1. /\ Settings(texts[t])[k] = LineOf(texts[t], k).value
        /\ Settings(texts[t])[k] # C!Absent
    BY <1>1, <1>3, SettingOf
  <2>2. /\ LineOf(texts[t], k) \in Line /\ LineOf(texts[t], k).key = k
        /\ \E i \in DOMAIN texts[t] : texts[t][i] = LineOf(texts[t], k)
    BY <1>1, <1>3, AmongKey
  <2> QED BY <2>1, <2>2, <1>2 DEF LinesIn, lines
<1>4. ASSUME NEW v \in values
      PROVE  \E l \in lines : l.key = k /\ l.value = v
  <2>1. PICK t \in DOMAIN texts : v = Settings(texts[t])[k] /\ v # C!Absent
    BY <1>2
  <2>2. k \in Keys(texts[t])
    BY <2>1, <1>1, SettingOf
  <2> QED BY <2>1, <2>2, <1>3
<1>5. ASSUME NEW l \in lines, l.key = k
      PROVE  \E t \in DOMAIN texts : k \in Keys(texts[t]) /\ \E i \in DOMAIN texts[t] : texts[t][i] = l
  <2>1. PICK t \in DOMAIN texts : \E i \in DOMAIN texts[t] : texts[t][i] = l
    BY DEF LinesIn, lines
  <2>2. k \in Keys(texts[t])
    BY <2>1, <1>1, <1>5, AmongKey
  <2> QED BY <2>1, <2>2
<1>6. ASSUME NEW l \in lines, l.key = k, l.value \notin values
      PROVE  TornIn(texts, k)
  <2>1. PICK t \in DOMAIN texts : k \in Keys(texts[t]) /\ \E i \in DOMAIN texts[t] : texts[t][i] = l
    BY <1>5, <1>6
  <2>2. PICK i \in DOMAIN texts[t] : texts[t][i] = l
    BY <2>1
  <2>3. PICK j \in DOMAIN texts[t] : texts[t][j] = LineOf(texts[t], k)
    BY <2>1, <1>3
  <2>4. texts[t][j].key = k /\ texts[t][j].value \in values
    BY <2>1, <2>3, <1>3
  <2>5. texts[t][i].key = k /\ texts[t][i].value # texts[t][j].value
    BY <2>2, <2>4, <1>6
  <2> QED BY <2>4, <2>5 DEF TornIn
<1>7. values # {} => \E l \in lines : l.key = k
  BY <1>4
<1>8. ASSUME NEW l \in lines, l.key = k
      PROVE  values # {}
  <2>1. PICK t \in DOMAIN texts : k \in Keys(texts[t])
    BY <1>5, <1>8
  <2> QED BY <2>1, <1>3
<1> QED BY <1>4, <1>6, <1>7, <1>8 DEF lines, values

\* The box shared_lines makes is the one ConfigLines says, for any number of
\* slicers and whatever order their lines come in: the settings with one value,
\* and the others locked.
THEOREM BoxIsShared == Spec => []BoxAgrees
<1>1. Inv => BoxAgrees
  <2> DEFINE lines == LinesIn(selected)
             confs == SettingsIn(selected)
             shown == box.lines
             agreed == [k \in Key |-> IF k \in Torn THEN C!Absent ELSE C!Shared(confs)[k]]
  <2> SUFFICES ASSUME Inv, BoxMade
               PROVE  Settings(shown) = agreed /\ box.differing = C!Differing(confs) \cup Torn
    BY DEF BoxAgrees, SettingsIn
  <2>1. /\ selected \in Seq(Text) /\ SharesSeen(box, Seen)
        /\ slicer \in 1..(Len(selected) + 1) /\ slicer > Len(selected)
        /\ box \in [lines : Seq(Line), differing : SUBSET Key]
    BY DEF Inv, Reading, BatchType, BoxMade
  <2>2. /\ Len(selected) \in Nat /\ DOMAIN selected = 1..Len(selected)
        /\ \A t \in DOMAIN selected : selected[t] \in Seq(AnyLine)
    BY <2>1, SelectedTexts
  <2>3. lines = Seen
    <3>1. \A t \in DOMAIN selected : t < slicer
      BY <2>1, <2>2
    <3> QED BY <3>1 DEF Seen, Before, LinesIn
  <2>4. selected \in Seq(Seq(AnyLine)) /\ shown \in Seq(AnyLine)
    BY <2>1, <2>2, LinesAreTexts
  <2>5. ASSUME NEW k \in Key
        PROVE  k \in Torn <=> TornIn(selected, k)
    BY DEF Torn, TornIn
  <2> HIDE DEF lines, confs
  <2>6. ASSUME NEW k \in Key
        PROVE  /\ \A v \in C!Values(confs, k) : \E l \in lines : l.key = k /\ l.value = v
               /\ \A l \in lines : l.key = k /\ k \notin Torn => l.value \in C!Values(confs, k)
               /\ C!Values(confs, k) # {} <=> \E l \in lines : l.key = k
    BY <2>4, <2>5, SettingsOfTexts DEF lines, confs
  <2>7. ASSUME NEW k \in Torn
        PROVE  \E l, m \in lines : l.key = k /\ m.key = k /\ l.value # m.value
    <3>0. k \in Key
      BY DEF Torn
    <3>1. PICK t \in DOMAIN selected : \E i, j \in DOMAIN selected[t] :
            selected[t][i].key = k /\ selected[t][j].key = k
              /\ selected[t][i].value # selected[t][j].value
      BY <3>0, <2>5 DEF TornIn
    <3>2. PICK i \in DOMAIN selected[t], j \in DOMAIN selected[t] :
            selected[t][i].key = k /\ selected[t][j].key = k
              /\ selected[t][i].value # selected[t][j].value
      BY <3>1
    <3>3. selected[t][i] \in AnyLine /\ selected[t][j] \in AnyLine
      BY <2>2
    <3>4. selected[t][i] \in Line /\ selected[t][j] \in Line
      BY <3>0, <3>2, <3>3, LineCases
    <3> QED BY <3>2, <3>4 DEF LinesIn, lines
  <2>8. /\ box.differing = TwoValued(lines)
        /\ {shown[i] : i \in DOMAIN shown} = {l \in lines : l.key \notin box.differing}
    BY <2>1, <2>3 DEF SharesSeen
  <2>9. box.differing = C!Differing(confs) \cup Torn
    <3>1. ASSUME NEW k \in Key
          PROVE  k \in TwoValued(lines) <=> k \in C!Differing(confs) \/ k \in Torn
      <4>1. k \in C!Differing(confs) <=>
              \E v \in C!Values(confs, k) : \E w \in C!Values(confs, k) : v # w
        BY DEF C!Differing
      <4>2. k \in TwoValued(lines) <=>
              \E l, m \in lines : l.key = k /\ m.key = k /\ l.value # m.value
        BY DEF TwoValued
      <4>3. k \in C!Differing(confs) => k \in TwoValued(lines)
        BY <4>1, <4>2, <2>6
      <4>4. k \in TwoValued(lines) /\ k \notin Torn => k \in C!Differing(confs)
        BY <4>1, <4>2, <2>6
      <4>5. k \in Torn => k \in TwoValued(lines)
        BY <4>2, <2>7
      <4> QED BY <4>3, <4>4, <4>5
    <3>2. C!Differing(confs) \subseteq Key /\ TwoValued(lines) \subseteq Key /\ Torn \subseteq Key
      BY DEF TwoValued, C!Differing, Torn
    <3> QED BY <3>1, <3>2, <2>8
  <2>10. ASSUME NEW k \in Key
         PROVE  Settings(shown)[k] = agreed[k]
    <3> DEFINE values == C!Values(confs, k)
    <3>1. agreed[k] =
            IF values = {} \/ k \in box.differing THEN C!Absent ELSE CHOOSE v \in values : TRUE
      BY <2>9 DEF C!Shared
    <3>2. CASE k \in Keys(shown)
      <4>1. /\ LineOf(shown, k).key = k
            /\ \E i \in DOMAIN shown : shown[i] = LineOf(shown, k)
        BY <3>2, <2>4, AmongKey
      <4>2. LineOf(shown, k) \in lines /\ k \notin box.differing
        BY <4>1, <2>8
      <4> DEFINE v == LineOf(shown, k).value
      <4>3. k \notin Torn
        BY <4>2, <2>9
      <4>4. v \in values
        BY <4>1, <4>2, <4>3, <2>6
      <4>5. \A u \in values : u = v
        BY <4>1, <4>2, <2>6, <2>8 DEF TwoValued
      <4> HIDE DEF v, values, agreed
      <4>6. (CHOOSE u \in values : TRUE) = v
        BY <4>4, <4>5
      <4>7. Settings(shown)[k] = v
        BY <3>2, <2>4, SettingOf DEF v
      <4> QED BY <4>2, <4>4, <4>6, <4>7, <3>1
    <3>3. CASE k \notin Keys(shown)
      <4>1. \A i \in DOMAIN shown : shown[i].key # k
        BY <3>3, <2>4, AmongKey
      <4>2. values = {} \/ k \in box.differing
        BY <4>1, <2>6, <2>8
      <4>3. Settings(shown)[k] = C!Absent
        BY <3>3, <2>4, SettingOf
      <4> HIDE DEF values, agreed
      <4> QED BY <4>2, <4>3, <3>1
    <3> QED BY <3>2, <3>3
  <2>11. Settings(shown) = [k \in Key |-> Settings(shown)[k]]
    BY DEF Settings
  <2>12. agreed = [k \in Key |-> agreed[k]]
    OBVIOUS
  <2> HIDE DEF agreed
  <2>13. Settings(shown) = agreed
    <3> DEFINE f == Settings(shown)
    <3>1. (\A k \in Key : f[k] = agreed[k]) /\ f = [k \in Key |-> f[k]]
      BY <2>10, <2>11
    <3> HIDE DEF f
    <3>2. f = agreed
      BY <3>1, <2>12
    <3> QED BY <3>2 DEF f
  <2> QED BY <2>9, <2>13
<1> QED BY <1>1, BatchInvariant, PTL

=============================================================================
