------------------------------ MODULE FoldProofs -----------------------------
(***************************************************************************)
(* Facts about folds over finite sets and sequences, which the models use  *)
(* for totals and for lists that are worked off one by one.  A fold is a   *)
(* recursive function on the subsets of a set.  Induction is by a smallest *)
(* set that would be an exception.                                         *)
(***************************************************************************)
EXTENDS Integers, FiniteSetsExt, FiniteSetTheorems, WellFoundedInduction, TLAPS

-----------------------------------------------------------------------------
(* Smallest exceptions.                                                    *)

\* Parts of a finite set are finite, and one less is smaller.
LEMMA FiniteParts ==
  ASSUME NEW U, IsFiniteSet(U), NEW S \in SUBSET U
  PROVE  /\ IsFiniteSet(S) /\ Cardinality(S) \in Nat
         /\ \A t \in S : Cardinality(S \ {t}) < Cardinality(S)
         /\ \A R \in SUBSET S : /\ Cardinality(R) <= Cardinality(S)
                                /\ R # S => Cardinality(R) < Cardinality(S)
<1>1. IsFiniteSet(S)
  BY FS_Subset
<1>2. Cardinality(S) \in Nat
  BY <1>1, FS_CardinalityType
<1>3. ASSUME NEW t \in S PROVE Cardinality(S \ {t}) < Cardinality(S)
  <2>1. Cardinality(S \ {t}) = Cardinality(S) - 1
    BY <1>1, FS_RemoveElement, Zenon
  <2> QED BY <1>2, <2>1
<1>4. ASSUME NEW R \in SUBSET S
      PROVE  Cardinality(R) <= Cardinality(S) /\ (R # S => Cardinality(R) < Cardinality(S))
  <2>1. Cardinality(R) <= Cardinality(S) /\ (Cardinality(S) = Cardinality(R) => S = R)
    BY <1>1, FS_Subset
  <2>2. Cardinality(R) \in Nat
    BY <1>1, FS_Subset, FS_CardinalityType
  <2> QED BY <1>2, <2>1, <2>2
<1> QED BY <1>1, <1>2, <1>3, <1>4

\* Among numbers there is a smallest one.
LEMMA SmallestNumber ==
  ASSUME NEW N \in SUBSET Nat, N # {}
  PROVE  \E n \in N : \A m \in N : ~(m < n)
<1>1. PICK n \in N : \A m \in N : ~(<<m, n>> \in OpToRel(<, Nat))
  BY NatLessThanWellFounded, WFMin
<1> QED BY <1>1 DEF OpToRel

\* Among parts of a finite set there is a smallest one.
LEMMA SmallestSet ==
  ASSUME NEW U, IsFiniteSet(U), NEW B \in SUBSET (SUBSET U), B # {}
  PROVE  \E s \in B : \A r \in SUBSET U : Cardinality(r) < Cardinality(s) => r \notin B
<1> DEFINE sizes == {Cardinality(s) : s \in B}
<1>1. sizes \subseteq Nat /\ sizes # {}
  BY FiniteParts
<1>3. PICK n \in sizes : \A m \in sizes : ~(m < n)
  <2> HIDE DEF sizes
  <2> QED BY <1>1, SmallestNumber
<1>4. PICK s \in B : n = Cardinality(s)
  OBVIOUS
<1>5. \A r \in B : ~(Cardinality(r) < Cardinality(s))
  BY <1>3, <1>4
<1> QED BY <1>5

-----------------------------------------------------------------------------
(* Folds.                                                                  *)

\* f works off the subsets of S, the member pick[s] last: base for the empty
\* set, and g of the result for the rest and of that member.
Folds(f, S, g, pick, base) ==
    f = [s \in SUBSET S |-> IF s = {} THEN base ELSE g[<<f[s \ {pick[s]}], pick[s]>>]]

\* pick takes a member of every non-empty part of U.
Picks(pick, U) == \A s \in SUBSET U : s # {} => pick[s] \in s

\* Two such functions agree where both are defined.
LEMMA FoldsAgree ==
  ASSUME NEW U, IsFiniteSet(U), NEW pick, Picks(pick, U), NEW g, NEW base,
         NEW S \in SUBSET U, NEW R \in SUBSET S, NEW e, NEW f,
         Folds(e, S, g, pick, base), Folds(f, R, g, pick, base)
  PROVE  e[R] = f[R]
<1> DEFINE B == {s \in SUBSET R : e[s] # f[s]}
<1> SUFFICES ASSUME B # {} PROVE FALSE
  OBVIOUS
<1>1. B \in SUBSET (SUBSET U)
  OBVIOUS
<1>2. PICK s \in B : \A r \in SUBSET U : Cardinality(r) < Cardinality(s) => r \notin B
  <2> HIDE DEF B
  <2> QED BY <1>1, SmallestSet
<1>3. s \in SUBSET R /\ s \in SUBSET S /\ s \in SUBSET U /\ e[s] # f[s]
  OBVIOUS
<1>4. /\ e[s] = IF s = {} THEN base ELSE g[<<e[s \ {pick[s]}], pick[s]>>]
      /\ f[s] = IF s = {} THEN base ELSE g[<<f[s \ {pick[s]}], pick[s]>>]
  BY <1>3 DEF Folds
<1>5. s # {}
  BY <1>3, <1>4
<1>6. s \ {pick[s]} \in SUBSET R /\ s \ {pick[s]} \notin B
  BY <1>2, <1>3, <1>5, FiniteParts DEF Picks
<1> QED BY <1>3, <1>4, <1>5, <1>6

\* There is one for every finite set: the recursion comes to its end.
LEMMA FoldsExist ==
  ASSUME NEW U, IsFiniteSet(U), NEW pick, Picks(pick, U), NEW g, NEW base,
         NEW S \in SUBSET U
  PROVE  \E f : Folds(f, S, g, pick, base)
<1> DEFINE F(f, s) == Folds(f, s, g, pick, base)
           B == {s \in SUBSET U : ~\E f : F(f, s)}
           Val(s) == (CHOOSE f : F(f, s))[s]
<1> SUFFICES ASSUME B # {} PROVE FALSE
  OBVIOUS
<1>1. PICK s \in B : \A r \in SUBSET U : Cardinality(r) < Cardinality(s) => r \notin B
  BY SmallestSet
<1>2. s \in SUBSET U /\ ~\E f : F(f, s)
  OBVIOUS
<1>3. ASSUME NEW r \in SUBSET s, r # s
      PROVE  \E f : F(f, r) /\ Val(r) = f[r]
  <2>1. Cardinality(r) < Cardinality(s)
    BY <1>2, <1>3, FiniteParts
  <2>2. \E f : F(f, r)
    BY <1>1, <1>2, <2>1
  <2> HIDE DEF F
  <2> QED BY <2>2
<1>4. ASSUME NEW r \in SUBSET s, r # s
      PROVE  Val(r) = IF r = {} THEN base ELSE g[<<Val(r \ {pick[r]}), pick[r]>>]
  <2>1. PICK f : F(f, r) /\ Val(r) = f[r]
    BY <1>3, <1>4
  <2>2. CASE r = {}
    BY <2>1, <2>2 DEF Folds
  <2>3. CASE r # {}
    <3> DEFINE q == r \ {pick[r]}
    <3>1. q \in SUBSET r /\ q \in SUBSET s /\ q # s /\ r \in SUBSET U
      BY <1>2, <1>4, <2>3 DEF Picks
    <3>2. PICK e : F(e, q) /\ Val(q) = e[q]
      BY <1>3, <3>1
    <3> HIDE DEF Val
    <3>3. f[q] = e[q]
      BY <2>1, <3>1, <3>2, FoldsAgree
    <3>4. f[r] = g[<<f[q], pick[r]>>]
      BY <2>1, <2>3 DEF Folds
    <3> QED BY <2>1, <2>3, <3>2, <3>3, <3>4
  <2> QED BY <2>2, <2>3
<1> HIDE DEF Val
<1> DEFINE h == [r \in SUBSET s |-> IF r = s /\ s # {}
                                    THEN g[<<Val(s \ {pick[s]}), pick[s]>>]
                                    ELSE IF r = {} THEN base ELSE Val(r)]
<1>6. F(h, s)
  <2>1. ASSUME NEW r \in SUBSET s
        PROVE  h[r] = IF r = {} THEN base ELSE g[<<h[r \ {pick[r]}], pick[r]>>]
    <3>1. CASE r = {}
      BY <3>1
    <3>2. CASE r # {}
      <4> DEFINE q == r \ {pick[r]}
      <4>1. pick[r] \in r /\ q \in SUBSET s /\ q # s
        BY <1>2, <3>2 DEF Picks
      <4>2. h[q] = Val(q)
        <5>1. CASE q = {}
          BY <1>4, <4>1, <5>1
        <5>2. CASE q # {}
          BY <4>1, <5>2
        <5> QED BY <5>1, <5>2
      <4>3. h[r] = g[<<Val(q), pick[r]>>]
        <5>1. CASE r = s
          BY <3>2, <5>1
        <5>2. CASE r # s
          BY <1>4, <3>2, <5>2
        <5> QED BY <5>1, <5>2
      <4> QED BY <3>2, <4>2, <4>3
    <3> QED BY <3>1, <3>2
  <2>2. h = [r \in SUBSET s |-> h[r]]
    OBVIOUS
  <2> HIDE DEF h
  <2> QED BY <2>1, <2>2 DEF Folds
<1> QED BY <1>2, <1>6

\* Induction on the parts of a finite set, one member at a time.
LEMMA PartsInduction ==
  ASSUME NEW U, IsFiniteSet(U), NEW pick, Picks(pick, U), NEW Good, {} \in Good,
         \A s \in SUBSET U : s # {} /\ s \ {pick[s]} \in Good => s \in Good
  PROVE  \A s \in SUBSET U : s \in Good
<1> DEFINE B == {s \in SUBSET U : s \notin Good}
<1> SUFFICES ASSUME B # {} PROVE FALSE
  OBVIOUS
<1>1. PICK s \in B : \A r \in SUBSET U : Cardinality(r) < Cardinality(s) => r \notin B
  BY SmallestSet
<1>2. s \in SUBSET U /\ s \notin Good /\ s # {}
  OBVIOUS
<1>3. s \ {pick[s]} \in SUBSET U /\ Cardinality(s \ {pick[s]}) < Cardinality(s)
  BY <1>2, FiniteParts DEF Picks
<1> QED BY <1>1, <1>2, <1>3

-----------------------------------------------------------------------------
(* Totals: the sum of the weights of the members of a set.                 *)

Pick(s) == CHOOSE t \in s : TRUE

\* What MapThenSumSet computes.
Total(w, S) == MapThenSumSet(LAMBDA t : w[t], S)

\* f is the recursive function on the subsets of S that Total(w, S) applies.
Sums(w, f, S) ==
    f = [s \in SUBSET S |-> IF s = {} THEN 0 ELSE w[Pick(s)] + f[s \ {Pick(s)}]]

\* Total unfolded.
LEMMA TotalUnfolds ==
  ASSUME NEW w, NEW S
  PROVE  Total(w, S) = (CHOOSE f : Sums(w, f, S))[S]
  BY DEF Total, MapThenSumSet, MapThenFoldSet, Sums, Pick

\* What Pick takes is there.
LEMMA PickPicks ==
  ASSUME NEW U
  PROVE  Picks([s \in SUBSET U |-> Pick(s)], U)
  BY DEF Picks, Pick

\* There is such a function, and it gives numbers.
LEMMA SumsExist ==
  ASSUME NEW U, IsFiniteSet(U), NEW w \in [U -> Nat], NEW S \in SUBSET U
  PROVE  \E f : Sums(w, f, S) /\ \A s \in SUBSET S : f[s] \in Nat
<1> DEFINE g == [p \in Nat \X U |-> w[p[2]] + p[1]]
           pick == [s \in SUBSET U |-> Pick(s)]
<1>1. Picks(pick, U)
  BY PickPicks
<1>2. PICK f : Folds(f, S, g, pick, 0)
  <2> HIDE DEF g, pick
  <2> QED BY <1>1, FoldsExist
<1>3. /\ f[{}] = 0
      /\ \A s \in SUBSET S : s # {} => /\ f[s] = g[<<f[s \ {Pick(s)}], Pick(s)>>]
                                       /\ Pick(s) \in s
  BY <1>1, <1>2 DEF Folds, Picks
<1>4. \A s \in SUBSET S : f[s] \in Nat
  <2> DEFINE Good == {s \in SUBSET S : f[s] \in Nat}
  <2>1. {} \in Good
    BY <1>3
  <2>2. ASSUME NEW s \in SUBSET S, s # {}, s \ {pick[s]} \in Good PROVE s \in Good
    <3>1. pick[s] = Pick(s) /\ Pick(s) \in U /\ f[s \ {Pick(s)}] \in Nat
      BY <1>3, <2>2
    <3>2. f[s] = w[Pick(s)] + f[s \ {Pick(s)}]
      BY <1>3, <2>2, <3>1
    <3> QED BY <3>1, <3>2
  <2>3. IsFiniteSet(S) /\ Picks(pick, S)
    BY <1>1, FiniteParts DEF Picks
  <2> HIDE DEF Good, pick
  <2>4. \A s \in SUBSET S : s \in Good
    BY <2>1, <2>2, <2>3, PartsInduction
  <2> QED BY <2>4 DEF Good
<1>5. \A s \in SUBSET S : s # {} => f[s] = w[Pick(s)] + f[s \ {Pick(s)}]
  BY <1>3, <1>4
<1>6. f = [s \in SUBSET S |-> f[s]]
  BY <1>2 DEF Folds
<1>7. Sums(w, f, S)
  BY <1>3, <1>5, <1>6 DEF Sums
<1> QED BY <1>4, <1>7

\* Two of them agree where both are defined.
LEMMA SumsAgree ==
  ASSUME NEW U, IsFiniteSet(U), NEW w \in [U -> Nat], NEW S \in SUBSET U, NEW R \in SUBSET S,
         NEW f, NEW g, Sums(w, f, S), Sums(w, g, R)
  PROVE  f[R] = g[R]
<1> DEFINE Good == {s \in SUBSET R : f[s] = g[s]}
           pick == [s \in SUBSET U |-> Pick(s)]
<1>1. IsFiniteSet(R) /\ Picks(pick, R)
  BY PickPicks, FiniteParts DEF Picks
<1>2. {} \in Good
  BY DEF Sums
<1>3. ASSUME NEW s \in SUBSET R, s # {}, s \ {pick[s]} \in Good PROVE s \in Good
  <2>1. /\ f[s] = w[Pick(s)] + f[s \ {Pick(s)}]
        /\ g[s] = w[Pick(s)] + g[s \ {Pick(s)}]
    BY <1>3 DEF Sums
  <2> QED BY <1>3, <2>1
<1> HIDE DEF Good, pick
<1>4. \A s \in SUBSET R : s \in Good
  BY <1>1, <1>2, <1>3, PartsInduction
<1> QED BY <1>4 DEF Good

\* The total of a set is that of one member and the rest.
LEMMA TotalStep ==
  ASSUME NEW U, IsFiniteSet(U), NEW w \in [U -> Nat], NEW S \in SUBSET U
  PROVE  /\ Total(w, {}) = 0
         /\ Total(w, S) \in Nat
         /\ S # {} => Total(w, S) = w[Pick(S)] + Total(w, S \ {Pick(S)})
<1>1. \A R \in SUBSET U : \E f : Sums(w, f, R) /\ Total(w, R) = f[R]
  BY SumsExist, TotalUnfolds
<1>2. Total(w, {}) = 0
  <2>1. PICK f : Sums(w, f, {}) /\ Total(w, {}) = f[{}]
    BY <1>1
  <2> QED BY <2>1 DEF Sums
<1>3. PICK f : Sums(w, f, S) /\ Total(w, S) = f[S]
  BY <1>1
<1>4. Total(w, S) \in Nat
  <2>1. PICK e : Sums(w, e, S) /\ \A s \in SUBSET S : e[s] \in Nat
    BY SumsExist
  <2>2. e[S] = f[S]
    BY <1>3, <2>1, SumsAgree
  <2> QED BY <1>3, <2>1, <2>2
<1>5. ASSUME S # {}
      PROVE  Total(w, S) = w[Pick(S)] + Total(w, S \ {Pick(S)})
  <2> DEFINE q == S \ {Pick(S)}
  <2>1. q \in SUBSET S /\ q \in SUBSET U
    OBVIOUS
  <2>3. PICK g : Sums(w, g, q) /\ Total(w, q) = g[q]
    BY <1>1, <2>1
  <2>4. f[q] = g[q]
    BY <1>3, <2>1, <2>3, SumsAgree
  <2>5. f[S] = w[Pick(S)] + f[q]
    BY <1>3, <1>5 DEF Sums
  <2> QED BY <1>3, <2>3, <2>4, <2>5
<1> QED BY <1>2, <1>4, <1>5

\* A member more adds its weight, whichever one Pick takes first.
LEMMA TotalAdd ==
  ASSUME NEW U, IsFiniteSet(U), NEW w \in [U -> Nat], NEW S \in SUBSET U, NEW t \in U \ S
  PROVE  Total(w, S \cup {t}) = Total(w, S) + w[t]
<1> DEFINE Ok(s) == \A u \in U \ s : Total(w, s \cup {u}) = Total(w, s) + w[u]
           B == {s \in SUBSET U : ~Ok(s)}
<1> SUFFICES ASSUME B # {} PROVE FALSE
  OBVIOUS
<1>1. PICK s \in B : \A r \in SUBSET U : Cardinality(r) < Cardinality(s) => r \notin B
  <2>1. B \in SUBSET (SUBSET U)
    OBVIOUS
  <2> HIDE DEF B
  <2> QED BY <2>1, SmallestSet
<1>2. s \in SUBSET U /\ \E u \in U \ s : Total(w, s \cup {u}) # Total(w, s) + w[u]
  OBVIOUS
<1>3. PICK u \in U \ s : Total(w, s \cup {u}) # Total(w, s) + w[u]
  BY <1>2
<1> DEFINE big == s \cup {u}
           p == Pick(big)
           q == s \ {p}
<1>4. big \in SUBSET U /\ big # {} /\ p \in big
  BY <1>2 DEF Pick
<1>5. Total(w, big) = w[p] + Total(w, big \ {p})
  <2> HIDE DEF big
  <2> QED BY <1>4, TotalStep
<1>6. Total(w, s) \in Nat /\ w[u] \in Nat /\ w[p] \in Nat
  BY <1>2, <1>4, TotalStep
<1> HIDE DEF p
<1>7. CASE p = u
  <2>1. big \ {p} = s
    BY <1>7
  <2>2. Total(w, big) = w[u] + Total(w, s)
    BY <1>5, <1>7, <2>1
  <2> QED BY <1>3, <1>6, <2>2
<1>8. CASE p # u
  <2>1. p \in s /\ q \in SUBSET U /\ u \in U \ q /\ p \in U \ q
        /\ big \ {p} = q \cup {u} /\ s = q \cup {p}
    BY <1>2, <1>4, <1>8
  <2>2. Cardinality(q) < Cardinality(s)
    BY <1>2, <2>1, FiniteParts
  <2>3. Ok(q)
    BY <1>1, <2>1, <2>2
  <2>4. Total(w, q \cup {u}) = Total(w, q) + w[u] /\ Total(w, q \cup {p}) = Total(w, q) + w[p]
    BY <2>1, <2>3
  <2>5. Total(w, q) \in Nat
    BY <2>1, TotalStep
  <2>6. Total(w, big) = w[p] + Total(w, q \cup {u}) /\ Total(w, s) = Total(w, q \cup {p})
    BY <1>5, <2>1
  <2> QED BY <1>3, <1>6, <2>4, <2>5, <2>6
<1> QED BY <1>7, <1>8

\* What leaves takes its weight with it, and a part weighs no more than the
\* whole.
LEMMA TotalRemove ==
  ASSUME NEW U, IsFiniteSet(U), NEW w \in [U -> Nat], NEW S \in SUBSET U, NEW G \in SUBSET S
  PROVE  Total(w, S \ G) = Total(w, S) - Total(w, G) /\ Total(w, G) <= Total(w, S)
<1> DEFINE Good == {r \in SUBSET S : Total(w, S \ r) = Total(w, S) - Total(w, r)}
           pick == [s \in SUBSET S |-> Pick(s)]
<1>1. IsFiniteSet(S) /\ Picks(pick, S)
  BY PickPicks, FiniteParts
<1>2. Total(w, S) \in Nat
  BY TotalStep
<1>3. {} \in Good
  <2>1. S \ {} = S /\ Total(w, {}) = 0
    BY TotalStep
  <2> QED BY <1>2, <2>1
<1>4. ASSUME NEW r \in SUBSET S, r # {}, r \ {pick[r]} \in Good PROVE r \in Good
  <2> DEFINE p == Pick(r)
             q == r \ {p}
  <2>1. p \in r /\ pick[r] = p
    BY <1>4 DEF Pick
  <2>2. Total(w, S \ q) = Total(w, S) - Total(w, q)
    BY <1>4, <2>1
  <2> HIDE DEF p
  <2>3. S \ r \in SUBSET U /\ q \in SUBSET U /\ p \in U \ (S \ r) /\ p \in U \ q
        /\ S \ q = (S \ r) \cup {p} /\ r = q \cup {p}
    BY <2>1
  <2>4. Total(w, S \ q) = Total(w, S \ r) + w[p]
    <3>1. Total(w, (S \ r) \cup {p}) = Total(w, S \ r) + w[p]
      BY <2>3, TotalAdd
    <3> QED BY <2>3, <3>1
  <2>5. Total(w, r) = Total(w, q) + w[p]
    <3>1. Total(w, q \cup {p}) = Total(w, q) + w[p]
      BY <2>3, TotalAdd
    <3> QED BY <2>3, <3>1
  <2>6. Total(w, S \ r) \in Nat /\ Total(w, q) \in Nat /\ w[p] \in Nat
    BY <2>3, TotalStep
  <2>7. Total(w, S \ r) = Total(w, S) - Total(w, r)
    BY <1>2, <2>2, <2>4, <2>5, <2>6
  <2> QED BY <2>7
<1>5. Total(w, S \ G) = Total(w, S) - Total(w, G)
  <2> HIDE DEF Good, pick
  <2>1. \A s \in SUBSET S : s \in Good
    BY <1>1, <1>3, <1>4, PartsInduction
  <2> QED BY <2>1 DEF Good
<1>6. Total(w, S \ G) \in Nat /\ Total(w, G) \in Nat
  BY TotalStep
<1> QED BY <1>2, <1>5, <1>6

-----------------------------------------------------------------------------
(* Sequences that are worked off from the left.                            *)

\* The last place of a set of places.
LEMMA MaxPicks ==
  ASSUME NEW n \in Nat
  PROVE  IsFiniteSet(1..n) /\ Picks([s \in SUBSET (1..n) |-> Max(s)], 1..n)
<1>1. ASSUME NEW s \in SUBSET (1..n), s # {} PROVE Max(s) \in s
  <2> DEFINE N == {n - x : x \in s}
  <2>1. N \in SUBSET Nat /\ N # {}
    <3>1. \A x \in s : n - x \in Nat
      BY <1>1
    <3> QED BY <1>1, <3>1
  <2>2. PICK k \in N : \A m \in N : ~(m < k)
    <3> HIDE DEF N
    <3> QED BY <2>1, SmallestNumber
  <2>3. PICK x \in s : k = n - x
    OBVIOUS
  <2>4. \A y \in s : x >= y
    BY <2>2, <2>3
  <2> QED BY <2>4 DEF Max
<1> QED BY <1>1, FS_Interval DEF Picks

\* f is the function that FoldLeft(op, base, q) applies to the places of q, for
\* an op that is g on the values in A.
WorksOff(f, n, q, A, g, base) ==
    /\ f \in [SUBSET (1..n) -> A]
    /\ f = [s \in SUBSET (1..n) |->
               IF s = {} THEN base ELSE g[<<f[s \ {Max(s)}], q[Max(s)]>>]]

\* A list whose members each take a value of A to one of A ends in A.
LEMMA WorkOff ==
  ASSUME NEW n \in Nat, NEW X, NEW q \in [1..n -> X], NEW A, NEW g \in [A \X X -> A],
         NEW base \in A
  PROVE  \E f : WorksOff(f, n, q, A, g, base)
<1> DEFINE D == 1..n
           pick == [s \in SUBSET D |-> Max(s)]
           e == [p \in A \X D |-> g[<<p[1], q[p[2]]>>]]
<1>1. IsFiniteSet(D) /\ Picks(pick, D)
  BY MaxPicks
<1>2. PICK f : Folds(f, D, e, pick, base)
  <2> HIDE DEF e, pick, D
  <2> QED BY <1>1, FoldsExist
<1>3. f = [s \in SUBSET D |-> f[s]] /\ f[{}] = base
  BY <1>2 DEF Folds
<1>4. ASSUME NEW s \in SUBSET D, s # {}
      PROVE  f[s] = e[<<f[s \ {Max(s)}], Max(s)>>] /\ Max(s) \in D
  BY <1>1, <1>2, <1>4 DEF Folds, Picks
<1>5. ASSUME NEW s \in SUBSET D, s # {}, f[s \ {Max(s)}] \in A
      PROVE  f[s] = g[<<f[s \ {Max(s)}], q[Max(s)]>>] /\ f[s] \in A
  BY <1>4, <1>5
<1>6. \A s \in SUBSET D : f[s] \in A
  <2> DEFINE Good == {s \in SUBSET D : f[s] \in A}
  <2>1. {} \in Good
    BY <1>3
  <2>2. ASSUME NEW s \in SUBSET D, s # {}, s \ {pick[s]} \in Good PROVE s \in Good
    BY <1>5, <2>2
  <2> HIDE DEF Good, pick, D
  <2>4. \A s \in SUBSET D : s \in Good
    BY <1>1, <2>1, <2>2, PartsInduction
  <2> QED BY <2>4 DEF Good
<1>7. \A s \in SUBSET D : s # {} => f[s] = g[<<f[s \ {Max(s)}], q[Max(s)]>>]
  BY <1>5, <1>6
<1> HIDE DEF e, pick
<1> QED BY <1>3, <1>6, <1>7 DEF WorksOff

\* The last place of a list and the places before it.
LEMMA LastPlace ==
  ASSUME NEW n \in Nat, NEW s \in SUBSET (1..n), s # {}
  PROVE  Max(s) \in 1..n /\ s \ {Max(s)} \in SUBSET (1..n)
  BY MaxPicks DEF Picks

\* e follows g as long as it is in A.
Follows(e, n, q, A, g) ==
    /\ e[{}] \in A
    /\ \A s \in SUBSET (1..n) :
          s # {} /\ e[s \ {Max(s)}] \in A => e[s] = g[<<e[s \ {Max(s)}], q[Max(s)]>>]

\* Then it ends in A.
LEMMA EndsIn ==
  ASSUME NEW n \in Nat, NEW X, NEW q \in [1..n -> X], NEW A, NEW g \in [A \X X -> A],
         NEW e, Follows(e, n, q, A, g)
  PROVE  e[1..n] \in A
<1> DEFINE D == 1..n
           Good == {s \in SUBSET D : e[s] \in A}
           pick == [s \in SUBSET D |-> Max(s)]
<1>1. IsFiniteSet(D) /\ Picks(pick, D)
  BY MaxPicks
<1>2. {} \in Good
  BY DEF Follows
<1>3. ASSUME NEW s \in SUBSET D, s # {}, s \ {pick[s]} \in Good PROVE s \in Good
  <2>1. e[s \ {Max(s)}] \in A /\ q[Max(s)] \in X
    BY <1>3, LastPlace
  <2> QED BY <1>3, <2>1 DEF Follows
<1> HIDE DEF Good, pick, D
<1>4. \A s \in SUBSET D : s \in Good
  BY <1>1, <1>2, <1>3, PartsInduction
<1> QED BY <1>4 DEF Good, D
=============================================================================
