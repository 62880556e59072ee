--------------------------- MODULE ReceiptProofs ---------------------------
(***************************************************************************)
(* What becomes of a receipt once it is accepted, for any tariffs above    *)
(* the dust, any fee and batch size, and any number of receipts, failures  *)
(* and restarts:                                                           *)
(*   - the settler pays it once, recovers, and records what is final;      *)
(*   - what is published of its batch verifies, and nothing else does;     *)
(*   - the browser's figures of a period agree with one another and never  *)
(*     go back.                                                            *)
(*                                                                         *)
(* Sums and trees are recursive.  What a recursion computes is proved by   *)
(* taking a smallest set, or a shortest sequence, for which a claim would  *)
(* be false: the induction theorems of the library take the claim as an    *)
(* operator, and this needs none.                                          *)
(***************************************************************************)
EXTENDS PublicRecord, Summary, EscrowAccountProofs, FiniteSetTheorems, SequenceTheorems,
        NaturalsInduction, WellFoundedInduction

\* The element that the sum takes first, and what it makes of a set.
Pick(s) == CHOOSE x \in s : TRUE

Unfolded(h, f, s) == IF s = {} THEN 0 ELSE f[Pick(s)] + h[s \ {Pick(s)}]

Sums(h, f, S) == h = [s \in SUBSET S |-> Unfolded(h, f, s)]

\* Among natural numbers there is a least one.
LEMMA LeastOf ==
  ASSUME NEW S \in SUBSET Nat, S # {}
  PROVE  \E m \in S : \A k \in S : m <= k
<1>1. PICK m \in S : \A k \in S : ~ (<<k, m>> \in OpToRel(<, Nat))
  BY NatLessThanWellFounded, WFMin
<1>2. \A k \in S : ~ (k < m)
  BY <1>1 DEF OpToRel
<1>3. \A k \in S : m <= k
  BY <1>2
<1>4. QED
  BY <1>3

\* Among sets there is a smallest one.
LEMMA SmallestSet ==
  ASSUME NEW S, IsFiniteSet(S), NEW Bad \in SUBSET (SUBSET S), Bad # {}
  PROVE  \E T \in Bad : \A U \in SUBSET T : U # T => U \notin Bad
<1>1. \A T \in Bad : IsFiniteSet(T) /\ Cardinality(T) \in Nat
  BY FS_Subset, FS_CardinalityType
<1>2. PICK C : C = {Cardinality(T) : T \in Bad}
  OBVIOUS
<1>3. C \in SUBSET Nat /\ C # {}
  BY <1>1, <1>2
<1>4. PICK n \in C : \A k \in C : n <= k
  BY <1>3, LeastOf
<1>5. PICK T \in Bad : Cardinality(T) = n
  BY <1>2, <1>4
<1>6. ASSUME NEW U \in SUBSET T, U # T, U \in Bad
      PROVE  FALSE
  <2>1. Cardinality(U) <= Cardinality(T) /\ Cardinality(U) # Cardinality(T)
    BY <1>1, <1>5, <1>6, FS_Subset
  <2>2. Cardinality(T) <= Cardinality(U)
    BY <1>2, <1>4, <1>5, <1>6
  <2> QED BY <1>1, <1>5, <1>6, <2>1, <2>2
<1>7. QED
  BY <1>5, <1>6

\* Two foldings agree where both are defined.
LEMMA SumsAgree ==
  ASSUME NEW f, NEW S, IsFiniteSet(S), NEW A \in SUBSET S, NEW B \in SUBSET S,
         NEW g, NEW h, Sums(g, f, A), Sums(h, f, B), NEW T \in SUBSET (A \cap B)
  PROVE  g[T] = h[T]
<1>1. PICK Bad : Bad = {U \in SUBSET (A \cap B) : g[U] # h[U]}
  OBVIOUS
<1>2. SUFFICES ASSUME Bad # {} PROVE FALSE
  BY <1>1
<1>3. PICK U \in Bad : \A V \in SUBSET U : V # U => V \notin Bad
  <2>1. Bad \in SUBSET (SUBSET S)
    BY <1>1
  <2> QED BY <1>2, <2>1, SmallestSet
<1>4. U \in SUBSET A /\ U \in SUBSET B /\ g[U] # h[U]
  BY <1>1
<1>5. g[U] = Unfolded(g, f, U) /\ h[U] = Unfolded(h, f, U)
  BY <1>4 DEF Sums
<1>6. U # {}
  BY <1>4, <1>5 DEF Unfolded
<1>7. Pick(U) \in U
  BY <1>6 DEF Pick
<1>8. g[U \ {Pick(U)}] = h[U \ {Pick(U)}]
  BY <1>1, <1>3, <1>7
<1>9. QED
  BY <1>4, <1>5, <1>8 DEF Unfolded

\* The recursion of the sum is well-founded.
LEMMA SumsExist ==
  ASSUME NEW f, NEW S, IsFiniteSet(S)
  PROVE  \E h : Sums(h, f, S)
<1>1. PICK Bad : Bad = {U \in SUBSET S : ~ \E h : Sums(h, f, U)}
  OBVIOUS
<1>2. SUFFICES ASSUME Bad # {} PROVE FALSE
  BY <1>1
<1>3. PICK T \in Bad : \A V \in SUBSET T : V # T => V \notin Bad
  <2>1. Bad \in SUBSET (SUBSET S)
    BY <1>1
  <2> QED BY <1>2, <2>1, SmallestSet
<1>4. PICK part : part = [V \in SUBSET S |-> CHOOSE h : Sums(h, f, V)]
  OBVIOUS
<1>5. \A V \in SUBSET T : V # T => Sums(part[V], f, V)
  <2> SUFFICES ASSUME NEW V \in SUBSET T, V # T PROVE Sums(part[V], f, V)
    OBVIOUS
  <2>1. \E h : Sums(h, f, V)
    BY <1>1, <1>3
  <2>2. part[V] = CHOOSE h : Sums(h, f, V)
    BY <1>1, <1>3, <1>4
  <2> QED BY <2>1, <2>2
<1>6. PICK h : h = [U \in SUBSET T |->
                     IF U = {} THEN 0 ELSE f[Pick(U)] + part[U \ {Pick(U)}][U \ {Pick(U)}]]
  OBVIOUS
<1>7. ASSUME NEW V \in SUBSET T, V # T
      PROVE  h[V] = part[V][V]
  <2>1. part[V][V] = Unfolded(part[V], f, V)
    BY <1>5, <1>7 DEF Sums
  <2>2. CASE V = {}
    BY <1>6, <2>1, <2>2 DEF Unfolded
  <2>3. CASE V # {}
    <3>1. PICK W : W = V \ {Pick(V)}
      OBVIOUS
    <3>2. W \in SUBSET V /\ W \in SUBSET T /\ W # T /\ Pick(V) \in V
      BY <2>3, <3>1 DEF Pick
    <3>3. part[V][W] = part[W][W]
      <4>1. PICK a, b : a = part[V] /\ b = part[W]
        OBVIOUS
      <4>2. Sums(a, f, V) /\ Sums(b, f, W) /\ V \in SUBSET S /\ W \in SUBSET S
        BY <1>1, <1>3, <1>5, <1>7, <3>2, <4>1
      <4>3. W \in SUBSET (V \cap W)
        BY <3>2
      <4>4. a[W] = b[W]
        BY <4>2, <4>3, SumsAgree
      <4> QED BY <4>1, <4>4
    <3> QED BY <1>6, <2>1, <2>3, <3>1, <3>3 DEF Unfolded
  <2> QED BY <2>2, <2>3
<1>8. \A U \in SUBSET T : h[U] = Unfolded(h, f, U)
  <2> SUFFICES ASSUME NEW U \in SUBSET T, U # {} PROVE h[U] = Unfolded(h, f, U)
    BY <1>6 DEF Unfolded
  <2>1. PICK W : W = U \ {Pick(U)}
    OBVIOUS
  <2>2. W \in SUBSET T /\ W # T
    BY <2>1 DEF Pick
  <2> QED BY <1>6, <1>7, <2>1, <2>2 DEF Unfolded
<1>9. Sums(h, f, T)
  <2>1. h = [U \in SUBSET T |-> h[U]]
    BY <1>6
  <2> QED BY <1>8, <2>1 DEF Sums
<1>10. QED
  BY <1>1, <1>9

\* What SumFunctionOnSet computes.
LEMMA SumUnfolds ==
  ASSUME NEW f, NEW S, IsFiniteSet(S)
  PROVE  \E h : /\ Sums(h, f, S) 
                /\ \A T \in SUBSET S : SumFunctionOnSet(f, T) = h[T]
<1> DEFINE c(T) == CHOOSE h : h = [s \in SUBSET T |-> IF s = {} THEN 0 ELSE f[Pick(s)] + h[s \ {Pick(s)}]]
<1>1. ASSUME NEW T \in SUBSET S
      PROVE  Sums(c(T), f, T)
  <2>1. IsFiniteSet(T)
    BY FS_Subset
  <2>2. PICK h : Sums(h, f, T)
    BY <2>1, SumsExist
  <2>3. c(T) = [s \in SUBSET T |-> IF s = {} THEN 0 ELSE f[Pick(s)] + c(T)[s \ {Pick(s)}]]
    BY <2>2 DEF Sums, Unfolded
  <2> HIDE DEF c
  <2> QED BY <2>3 DEF Sums, Unfolded
<1>2. \A T \in SUBSET S : SumFunctionOnSet(f, T) = c(T)[T]
  BY DEF SumFunctionOnSet, FoldFunctionOnSet, MapThenFoldSet, Pick
<1> HIDE DEF c
<1>3. \A T \in SUBSET S : c(T)[T] = c(S)[T]
  <2> SUFFICES ASSUME NEW T \in SUBSET S PROVE c(T)[T] = c(S)[T]
    OBVIOUS
  <2>1. Sums(c(T), f, T) /\ Sums(c(S), f, S) /\ T \in SUBSET (T \cap S)
    BY <1>1
  <2> QED BY <2>1, SumsAgree
<1>4. QED
  BY <1>1, <1>2, <1>3

\* A sum is any one of its terms and the sum of the rest, in whatever order they are taken.
LEMMA SumStep ==
  ASSUME NEW f, NEW S, IsFiniteSet(S), \A x \in S : f[x] \in Int
  PROVE  /\ SumFunctionOnSet(f, {}) = 0
         /\ SumFunctionOnSet(f, S) \in Int
         /\ \A x \in S : SumFunctionOnSet(f, S) = f[x] + SumFunctionOnSet(f, S \ {x})
<1>1. PICK h : Sums(h, f, S) /\ \A T \in SUBSET S : SumFunctionOnSet(f, T) = h[T]
  BY SumUnfolds
<1>2. \A T \in SUBSET S : h[T] = Unfolded(h, f, T)
  BY <1>1 DEF Sums
<1>3. h[{}] = 0
  BY <1>2 DEF Unfolded
<1> DEFINE Good(T) == h[T] \in Int /\ \A x \in T : h[T] = f[x] + h[T \ {x}]
<1>4. PICK Bad : Bad = {T \in SUBSET S : ~ Good(T)}
  OBVIOUS
<1>5. ASSUME Bad # {}
      PROVE  FALSE
  <2>1. PICK T \in Bad : \A V \in SUBSET T : V # T => V \notin Bad
    <3>1. Bad \in SUBSET (SUBSET S)
      BY <1>4
    <3> QED BY <1>5, <3>1, SmallestSet
  <2>2. T \in SUBSET S /\ ~ Good(T) /\ \A V \in SUBSET T : V # T => Good(V)
    BY <1>4, <2>1
  <2>3. T # {}
    <3>1. Good({})
      BY <1>3
    <3> HIDE DEF Good
    <3> QED BY <2>2, <3>1
  <2>4. PICK y : y = Pick(T)
    OBVIOUS
  <2>5. y \in T /\ h[T] = f[y] + h[T \ {y}] /\ f[y] \in Int
    BY <1>2, <2>2, <2>3, <2>4 DEF Unfolded, Pick
  <2>6. h[T \ {y}] \in Int
    BY <2>2, <2>5
  <2>7. ASSUME NEW x \in T, x # y
        PROVE  h[T] = f[x] + h[T \ {x}]
    <3>1. PICK A, B, C : A = T \ {x} /\ B = T \ {y} /\ C = T \ {x, y}
      OBVIOUS
    <3>2. Good(A) /\ Good(B) /\ Good(C)
      BY <2>2, <2>5, <2>7, <3>1
    <3>3. y \in A /\ x \in B /\ A \ {y} = C /\ B \ {x} = C /\ f[x] \in Int
      BY <2>2, <2>5, <2>7, <3>1
    <3>4. h[A] = f[y] + h[C] /\ h[B] = f[x] + h[C] /\ h[C] \in Int
      BY <3>2, <3>3
    <3> QED BY <2>5, <3>1, <3>3, <3>4
  <2>8. h[T] \in Int
    BY <2>5, <2>6
  <2>9. \A x \in T : h[T] = f[x] + h[T \ {x}]
    BY <2>5, <2>7
  <2> QED BY <2>2, <2>8, <2>9
<1>6. Good(S)
  BY <1>4, <1>5
<1>7. QED
  BY <1>1, <1>3, <1>6

\* A sum over nothing is 0.
LEMMA SumEmpty ==
  ASSUME NEW f
  PROVE  SumFunctionOnSet(f, {}) = 0
<1>1. IsFiniteSet({}) /\ \A x \in {} : f[x] \in Int
  BY FS_EmptySet
<1>2. QED
  BY <1>1, SumStep

\* A sum of naturals is one, and no less than any of its terms.
LEMMA SumNat ==
  ASSUME NEW f, NEW S, IsFiniteSet(S), \A x \in S : f[x] \in Nat
  PROVE  /\ SumFunctionOnSet(f, S) \in Nat
         /\ \A x \in S : SumFunctionOnSet(f, S) >= f[x]
<1>1. PICK Bad : Bad = {T \in SUBSET S : SumFunctionOnSet(f, T) \notin Nat}
  OBVIOUS
<1>2. ASSUME NEW T \in SUBSET S, NEW x \in T
      PROVE  /\ SumFunctionOnSet(f, T) = f[x] + SumFunctionOnSet(f, T \ {x})
             /\ SumFunctionOnSet(f, {}) = 0
             /\ f[x] \in Nat
  <2>1. IsFiniteSet(T) /\ \A z \in T : f[z] \in Int
    BY FS_Subset
  <2> QED BY <2>1, SumStep
<1>3. ASSUME Bad # {}
      PROVE  FALSE
  <2>1. PICK T \in Bad : \A V \in SUBSET T : V # T => V \notin Bad
    <3>1. Bad \in SUBSET (SUBSET S)
      BY <1>1
    <3> QED BY <1>3, <3>1, SmallestSet
  <2>2. ASSUME T = {} 
        PROVE  FALSE
    <3>1. SumFunctionOnSet(f, T) = 0
      BY <2>2, SumEmpty
    <3>2. SumFunctionOnSet(f, T) \notin Nat
      BY <1>1, <2>1
    <3> QED BY <3>1, <3>2
  <2>3. PICK x : x \in T
    BY <2>2
  <2>4. SumFunctionOnSet(f, T \ {x}) \in Nat
    BY <1>1, <2>1, <2>3
  <2> QED BY <1>1, <1>2, <2>3, <2>4
<1>4. \A T \in SUBSET S : SumFunctionOnSet(f, T) \in Nat
  BY <1>1, <1>3
<1>5. ASSUME NEW x \in S
      PROVE  SumFunctionOnSet(f, S) >= f[x]
  <2>1. SumFunctionOnSet(f, S \ {x}) \in Nat
    BY <1>4
  <2> QED BY <1>2, <2>1
<1>6. QED
  BY <1>4, <1>5

\* Equal terms make equal sums.
LEMMA SumSame ==
  ASSUME NEW f, NEW g, NEW S, IsFiniteSet(S), \A x \in S : f[x] \in Int /\ g[x] = f[x]
  PROVE  SumFunctionOnSet(g, S) = SumFunctionOnSet(f, S)
<1>1. PICK Bad : Bad = {T \in SUBSET S : SumFunctionOnSet(g, T) # SumFunctionOnSet(f, T)}
  OBVIOUS
<1>2. ASSUME NEW T \in SUBSET S, NEW x \in T
      PROVE  /\ SumFunctionOnSet(f, T) = f[x] + SumFunctionOnSet(f, T \ {x})
             /\ SumFunctionOnSet(g, T) = f[x] + SumFunctionOnSet(g, T \ {x})
  <2>1. IsFiniteSet(T) /\ \A z \in T : f[z] \in Int /\ g[z] \in Int
    BY FS_Subset
  <2> QED BY <2>1, SumStep
<1>3. ASSUME Bad # {}
      PROVE  FALSE
  <2>1. PICK T \in Bad : \A V \in SUBSET T : V # T => V \notin Bad
    <3>1. Bad \in SUBSET (SUBSET S)
      BY <1>1
    <3> QED BY <1>3, <3>1, SmallestSet
  <2>2. T # {}
    <3>1. SumFunctionOnSet(f, {}) = 0 /\ SumFunctionOnSet(g, {}) = 0
      BY SumEmpty
    <3> QED BY <1>1, <2>1, <3>1
  <2>3. PICK x : x \in T
    BY <2>2
  <2>4. SumFunctionOnSet(g, T \ {x}) = SumFunctionOnSet(f, T \ {x})
    BY <1>1, <2>1, <2>3
  <2> QED BY <1>1, <1>2, <2>3, <2>4
<1>4. QED
  BY <1>1, <1>3

\* Two sets without a common element.
LEMMA SumUnion ==
  ASSUME NEW f, NEW A, NEW B, IsFiniteSet(A), IsFiniteSet(B), A \cap B = {},
         \A x \in A \cup B : f[x] \in Int
  PROVE  SumFunctionOnSet(f, A \cup B) = SumFunctionOnSet(f, A) + SumFunctionOnSet(f, B)
<1>1. PICK Bad : Bad = {T \in SUBSET B :
                          SumFunctionOnSet(f, A \cup T) # SumFunctionOnSet(f, A) + SumFunctionOnSet(f, T)}
  OBVIOUS
<1>2. ASSUME NEW T \in SUBSET (A \cup B)
      PROVE  /\ SumFunctionOnSet(f, {}) = 0
             /\ SumFunctionOnSet(f, T) \in Int
             /\ \A x \in T : SumFunctionOnSet(f, T) = f[x] + SumFunctionOnSet(f, T \ {x})
  <2>1. IsFiniteSet(T) /\ \A z \in T : f[z] \in Int
    BY FS_Subset, FS_Union
  <2> QED BY <2>1, SumStep
<1>3. ASSUME Bad # {}
      PROVE  FALSE
  <2>1. PICK T \in Bad : \A V \in SUBSET T : V # T => V \notin Bad
    <3>1. Bad \in SUBSET (SUBSET B)
      BY <1>1
    <3> QED BY <1>3, <3>1, SmallestSet
  <2>2. T \in SUBSET B /\ SumFunctionOnSet(f, A \cup T) # SumFunctionOnSet(f, A) + SumFunctionOnSet(f, T)
    BY <1>1
  <2>3. SumFunctionOnSet(f, A) \in Int
    BY <1>2
  <2>4. ASSUME T = {}
        PROVE  FALSE
    <3>1. A \cup T = A
      BY <2>4
    <3>2. SumFunctionOnSet(f, A \cup T) = SumFunctionOnSet(f, A)
      BY ONLY <3>1
    <3>3. SumFunctionOnSet(f, T) = 0
      BY <2>4, SumEmpty
    <3> QED BY <2>2, <2>3, <3>2, <3>3
  <2>5. PICK x : x \in T
    BY <2>4
  <2>6. SumFunctionOnSet(f, A \cup (T \ {x})) = SumFunctionOnSet(f, A) + SumFunctionOnSet(f, T \ {x})
    BY <1>1, <2>1, <2>2, <2>5
  <2>7. (A \cup T) \ {x} = A \cup (T \ {x}) /\ x \in B
    BY <2>2, <2>5
  <2>8. /\ SumFunctionOnSet(f, A \cup T) = f[x] + SumFunctionOnSet(f, A \cup (T \ {x}))
        /\ SumFunctionOnSet(f, T) = f[x] + SumFunctionOnSet(f, T \ {x})
        /\ SumFunctionOnSet(f, T \ {x}) \in Int /\ f[x] \in Int
    <3>1. A \cup T \in SUBSET (A \cup B) /\ T \in SUBSET (A \cup B) /\ T \ {x} \in SUBSET (A \cup B)
          /\ x \in A \cup T
      BY <2>2, <2>5
    <3>2. SumFunctionOnSet(f, A \cup T) = f[x] + SumFunctionOnSet(f, (A \cup T) \ {x})
      BY <1>2, <3>1
    <3>3. SumFunctionOnSet(f, T) = f[x] + SumFunctionOnSet(f, T \ {x}) /\ SumFunctionOnSet(f, T \ {x}) \in Int
      BY <1>2, <2>5, <3>1
    <3> QED BY <2>7, <3>2, <3>3
  <2> QED BY <2>2, <2>3, <2>6, <2>8
<1>4. QED
  BY <1>1, <1>3

\* A bound on each term bounds the sum.
LEMMA SumBound ==
  ASSUME NEW f, NEW g, NEW S, IsFiniteSet(S), NEW rate \in Nat, NEW unit \in Nat, NEW slack \in Nat,
         \A x \in S : f[x] \in Nat /\ g[x] \in Nat /\ g[x] * unit <= f[x] * rate + slack
  PROVE  SumFunctionOnSet(g, S) * unit <= SumFunctionOnSet(f, S) * rate + Cardinality(S) * slack
<1> DEFINE Good(T) == SumFunctionOnSet(g, T) * unit <= SumFunctionOnSet(f, T) * rate + Cardinality(T) * slack
<1>1. PICK Bad : Bad = {T \in SUBSET S : ~ Good(T)}
  OBVIOUS
<1>2. ASSUME Bad # {}
      PROVE  FALSE
  <2>1. PICK T \in Bad : \A V \in SUBSET T : V # T => V \notin Bad
    <3>1. Bad \in SUBSET (SUBSET S)
      BY <1>1
    <3> QED BY <1>2, <3>1, SmallestSet
  <2>2. T \in SUBSET S /\ ~ Good(T) /\ IsFiniteSet(T)
    BY <1>1, FS_Subset
  <2>3. T # {}
    <3>1. SumFunctionOnSet(f, {}) = 0 /\ SumFunctionOnSet(g, {}) = 0 /\ Cardinality({}) = 0
      BY FS_EmptySet, SumStep
    <3>2. Good({})
      BY <3>1
    <3> QED BY <2>2, <3>2
  <2>4. PICK x : x \in T
    BY <2>3
  <2>5. PICK V : V = T \ {x}
    OBVIOUS
  <2>6. Good(V)
    BY <1>1, <2>1, <2>4, <2>5
  <2>7. /\ SumFunctionOnSet(f, T) = f[x] + SumFunctionOnSet(f, V)
        /\ SumFunctionOnSet(g, T) = g[x] + SumFunctionOnSet(g, V)
    <3>1. (\A z \in T : f[z] \in Int) /\ (\A z \in T : g[z] \in Int)
      BY <2>2
    <3>2. SumFunctionOnSet(f, T) = f[x] + SumFunctionOnSet(f, T \ {x})
      BY <2>2, <2>4, <3>1, SumStep
    <3>3. SumFunctionOnSet(g, T) = g[x] + SumFunctionOnSet(g, T \ {x})
      BY <2>2, <2>4, <3>1, SumStep
    <3> QED BY <2>5, <3>2, <3>3
  <2>8. SumFunctionOnSet(f, V) \in Nat /\ SumFunctionOnSet(g, V) \in Nat
    <3>1. IsFiniteSet(V) /\ \A z \in V : f[z] \in Nat /\ g[z] \in Nat
      BY <2>2, <2>5, FS_Subset
    <3> QED BY <3>1, SumNat
  <2>9. Cardinality(T) = Cardinality(V) + 1 /\ Cardinality(V) \in Nat
    <3>1. IsFiniteSet(V) /\ Cardinality(V) = Cardinality(T) - 1
      BY <2>2, <2>4, <2>5, FS_RemoveElement
    <3>2. Cardinality(V) \in Nat /\ Cardinality(T) \in Nat
      BY <2>2, <3>1, FS_CardinalityType
    <3> QED BY <3>1, <3>2
  <2>10. f[x] \in Nat /\ g[x] \in Nat /\ g[x] * unit <= f[x] * rate + slack
    BY <2>2, <2>4
  <2>11. PICK F, G, n, a, b : /\ F = SumFunctionOnSet(f, V) /\ G = SumFunctionOnSet(g, V)
                              /\ n = Cardinality(V) /\ a = f[x] /\ b = g[x]
    OBVIOUS
  <2>12. (b + G) * unit <= (a + F) * rate + (n + 1) * slack
    <3>1. F \in Nat /\ G \in Nat /\ n \in Nat /\ a \in Nat /\ b \in Nat
      BY <2>8, <2>9, <2>10, <2>11
    <3>2. G * unit <= F * rate + n * slack /\ b * unit <= a * rate + slack
      BY <2>6, <2>10, <2>11
    <3>3. /\ (b + G) * unit = b * unit + G * unit
          /\ (a + F) * rate = a * rate + F * rate
          /\ (n + 1) * slack = n * slack + slack
      BY <3>1
    <3>4. /\ b * unit \in Nat /\ G * unit \in Nat /\ a * rate \in Nat /\ F * rate \in Nat
          /\ n * slack \in Nat
      BY <3>1
    <3> QED BY <3>2, <3>3, <3>4
  <2> QED BY <2>2, <2>7, <2>9, <2>11, <2>12
<1>3. Good(S)
  BY <1>1, <1>2
<1>4. QED
  BY <1>3

-----------------------------------------------------------------------------
(* Receipts, and what they come to.                                        *)

TariffsOf(rs) == [n \in DOMAIN rs |-> rs[n].tariff]

PricesOf(rs) == [n \in DOMAIN rs |-> Price(rs[n].tariff)]

\* What receipts 1..n cost, and what those in S owe to a domain.
CostOf(rs, n) == SumFunctionOnSet(PricesOf(rs), 1..n)

OwedBy(rs, S, d) == SumFunctionOnSet(TariffsOf(rs), {n \in S : rs[n].domain = d})

\* A price is the tariff and the fee on it, rounded up.
LEMMA PriceBounds ==
  ASSUME NEW t \in Nat
  PROVE  /\ Price(t) \in Nat
         /\ Price(t) * MAX_BPS <= t * (MAX_BPS + FeeBps) + (MAX_BPS - 1)
<1>1. FeeBps \in Nat /\ t * FeeBps \in Nat
  BY ConfigAssumption DEF MAX_BPS
<1>2. PICK x, c : x = t * FeeBps /\ c = CeilDiv(x, MAX_BPS)
  OBVIOUS
<1>3. c \in Nat /\ c * MAX_BPS < x + MAX_BPS /\ x \in Nat
  BY <1>1, <1>2, CeilDivBounds
<1>4. Price(t) = t + c
  BY <1>2 DEF Price, ReceiptFee
<1>5. t * (MAX_BPS + FeeBps) = t * MAX_BPS + x
  BY <1>1, <1>2 DEF MAX_BPS
<1>6. QED
  BY <1>3, <1>4, <1>5 DEF MAX_BPS

\* What a sequence of receipts is made of, and the types of its two price functions.
LEMMA ReceiptTypes ==
  ASSUME NEW rs \in Seq(Receipt), NEW S \in SUBSET (1..Len(rs))
  PROVE  /\ IsFiniteSet(S)
         /\ \A n \in S : /\ rs[n] \in Receipt /\ rs[n].tariff \in Tariffs
                         /\ TariffsOf(rs)[n] = rs[n].tariff /\ TariffsOf(rs)[n] \in Nat
                         /\ PricesOf(rs)[n] = Price(rs[n].tariff) /\ PricesOf(rs)[n] \in Nat
<1>1. IsFiniteSet(S)
  <2>1. 1 \in Int /\ Len(rs) \in Int
    OBVIOUS
  <2>2. IsFiniteSet(1..Len(rs))
    BY <2>1, FS_Interval
  <2> QED BY <2>2, FS_Subset
<1>2. ASSUME NEW n \in S
      PROVE  /\ rs[n] \in Receipt /\ rs[n].tariff \in Tariffs
             /\ TariffsOf(rs)[n] = rs[n].tariff /\ TariffsOf(rs)[n] \in Nat
             /\ PricesOf(rs)[n] = Price(rs[n].tariff) /\ PricesOf(rs)[n] \in Nat
  <2>1. n \in DOMAIN rs /\ rs[n] \in Receipt
    OBVIOUS
  <2>2. rs[n].tariff \in Tariffs /\ rs[n].tariff \in Nat
    BY <2>1, SettlerAssumption DEF Receipt
  <2> QED BY <2>1, <2>2, PriceBounds DEF TariffsOf, PricesOf
<1>3. QED
  BY <1>1, <1>2

\* More of a history costs more, by what the rest costs; so it is with what is owed.
LEMMA Extended ==
  ASSUME NEW rs \in Seq(Receipt), NEW n \in Nat, NEW m \in n..Len(rs)
  PROVE  /\ CostOf(rs, n) \in Nat
         /\ SumFunctionOnSet(PricesOf(rs), n + 1..m) \in Nat
         /\ CostOf(rs, m) = CostOf(rs, n) + SumFunctionOnSet(PricesOf(rs), n + 1..m)
         /\ \A d : /\ OwedBy(rs, 1..n, d) \in Nat
                   /\ OwedBy(rs, n + 1..m, d) \in Nat
                   /\ OwedBy(rs, 1..m, d) = OwedBy(rs, 1..n, d) + OwedBy(rs, n + 1..m, d)
<1>1. PICK A, B : A = 1..n /\ B = n + 1..m
  OBVIOUS
<1>2. 1..m = A \cup B /\ A \cap B = {} /\ A \in SUBSET (1..Len(rs)) /\ B \in SUBSET (1..Len(rs))
  BY <1>1
<1>3. /\ CostOf(rs, n) \in Nat /\ SumFunctionOnSet(PricesOf(rs), n + 1..m) \in Nat
      /\ CostOf(rs, m) = CostOf(rs, n) + SumFunctionOnSet(PricesOf(rs), n + 1..m)
  <2>1. PICK f : f = PricesOf(rs)
    OBVIOUS
  <2>2. IsFiniteSet(A) /\ IsFiniteSet(B) /\ (\A x \in A : f[x] \in Nat) /\ (\A x \in B : f[x] \in Nat)
    BY <1>2, <2>1, ReceiptTypes
  <2>3. \A x \in A \cup B : f[x] \in Int
    BY <2>2
  <2>4. SumFunctionOnSet(f, A) \in Nat /\ SumFunctionOnSet(f, B) \in Nat
    BY <2>2, SumNat
  <2>5. SumFunctionOnSet(f, A \cup B) = SumFunctionOnSet(f, A) + SumFunctionOnSet(f, B)
    BY <1>2, <2>2, <2>3, SumUnion
  <2> QED BY <1>1, <1>2, <2>1, <2>4, <2>5 DEF CostOf
<1>4. ASSUME NEW d
      PROVE  /\ OwedBy(rs, A, d) \in Nat /\ OwedBy(rs, B, d) \in Nat
             /\ OwedBy(rs, A \cup B, d) = OwedBy(rs, A, d) + OwedBy(rs, B, d)
  <2>1. PICK f, C, D : /\ f = TariffsOf(rs)
                       /\ C = {i \in A : rs[i].domain = d} /\ D = {i \in B : rs[i].domain = d}
    OBVIOUS
  <2>2. {i \in A \cup B : rs[i].domain = d} = C \cup D /\ C \cap D = {}
        /\ C \in SUBSET (1..Len(rs)) /\ D \in SUBSET (1..Len(rs))
    BY <1>2, <2>1
  <2>3. IsFiniteSet(C) /\ IsFiniteSet(D) /\ (\A x \in C : f[x] \in Nat) /\ (\A x \in D : f[x] \in Nat)
    BY <2>1, <2>2, ReceiptTypes
  <2>4. \A x \in C \cup D : f[x] \in Int
    BY <2>3
  <2>5. SumFunctionOnSet(f, C) \in Nat /\ SumFunctionOnSet(f, D) \in Nat
    BY <2>3, SumNat
  <2>6. SumFunctionOnSet(f, C \cup D) = SumFunctionOnSet(f, C) + SumFunctionOnSet(f, D)
    BY <2>2, <2>3, <2>4, SumUnion
  <2> QED BY <2>1, <2>2, <2>5, <2>6 DEF OwedBy
<1>5. QED
  BY <1>1, <1>2, <1>3, <1>4

\* A further receipt changes nothing about those before it.
LEMMA Appended ==
  ASSUME NEW rs \in Seq(Receipt), NEW r \in Receipt, NEW n \in 0..Len(rs)
  PROVE  /\ CostOf(Append(rs, r), n) = CostOf(rs, n)
         /\ \A d : OwedBy(Append(rs, r), 1..n, d) = OwedBy(rs, 1..n, d)
<1>1. PICK qs : qs = Append(rs, r)
  OBVIOUS
<1>2. qs \in Seq(Receipt) /\ Len(qs) = Len(rs) + 1 /\ \A i \in 1..Len(rs) : qs[i] = rs[i]
  BY <1>1
<1>3. PICK A : A = 1..n
  OBVIOUS
<1>4. A \in SUBSET (1..Len(rs)) /\ A \in SUBSET (1..Len(qs))
  BY <1>2, <1>3
<1>5. IsFiniteSet(A) /\ \A i \in A : /\ PricesOf(rs)[i] \in Int /\ PricesOf(qs)[i] = PricesOf(rs)[i]
                                     /\ TariffsOf(rs)[i] \in Int /\ TariffsOf(qs)[i] = TariffsOf(rs)[i]
  <2>1. ASSUME NEW i \in A
        PROVE  /\ PricesOf(rs)[i] \in Int /\ PricesOf(qs)[i] = PricesOf(rs)[i]
               /\ TariffsOf(rs)[i] \in Int /\ TariffsOf(qs)[i] = TariffsOf(rs)[i]
    <3>1. /\ PricesOf(rs)[i] \in Nat /\ PricesOf(rs)[i] = Price(rs[i].tariff)
          /\ TariffsOf(rs)[i] \in Nat /\ TariffsOf(rs)[i] = rs[i].tariff
      BY <1>4, ReceiptTypes
    <3>2. PricesOf(qs)[i] = Price(qs[i].tariff) /\ TariffsOf(qs)[i] = qs[i].tariff
      BY <1>2, <1>4, ReceiptTypes
    <3>3. qs[i] = rs[i]
      BY <1>2, <1>4
    <3> QED BY <3>1, <3>2, <3>3
  <2> QED BY <1>4, <2>1, ReceiptTypes
<1>6. CostOf(qs, n) = CostOf(rs, n)
  BY <1>3, <1>5, SumSame DEF CostOf
<1>7. ASSUME NEW d
      PROVE  OwedBy(qs, A, d) = OwedBy(rs, A, d)
  <2>1. PICK C : C = {i \in A : rs[i].domain = d}
    OBVIOUS
  <2>2. {i \in A : qs[i].domain = d} = C
    BY <1>2, <1>4, <2>1
  <2>3. IsFiniteSet(C) /\ \A i \in C : TariffsOf(rs)[i] \in Int /\ TariffsOf(qs)[i] = TariffsOf(rs)[i]
    BY <1>5, <2>1, FS_Subset
  <2>4. SumFunctionOnSet(TariffsOf(qs), C) = SumFunctionOnSet(TariffsOf(rs), C)
    <3>1. PICK f, g : f = TariffsOf(rs) /\ g = TariffsOf(qs)
      OBVIOUS
    <3>2. \A i \in C : f[i] \in Int /\ g[i] = f[i]
      BY <2>3, <3>1
    <3> QED BY <2>3, <3>1, <3>2, SumSame
  <2> QED BY <2>1, <2>2, <2>4 DEF OwedBy
<1>8. QED
  BY <1>1, <1>3, <1>6, <1>7

(***************************************************************************)
(* The argument batch_fee rests on: a batch that overlaps what is settled  *)
(* carries tariffs that were paid before, and above the dust these are     *)
(* more than rounding up may add to its fees.                              *)
(***************************************************************************)
LEMMA OverlapRefused ==
  ASSUME AboveDust, NEW rs \in Seq(Receipt), NEW last \in Nat, NEW from \in 1..last,
         NEW to \in last + 1..Len(rs), to - from < MaxReceipts
  PROVE  ~ FeeAccepted(CostOf(rs, to) - CostOf(rs, last),
                       SumFunctionOnSet(TariffsOf(rs), from..to), to - last)
<1>1. PICK f, g, A, B : /\ f = TariffsOf(rs) /\ g = PricesOf(rs)
                        /\ A = from..last /\ B = last + 1..to
  OBVIOUS
<1>2. /\ from..to = A \cup B /\ A \cap B = {} /\ from \in A
      /\ A \in SUBSET (1..Len(rs)) /\ B \in SUBSET (1..Len(rs))
  BY <1>1
<1>3. /\ IsFiniteSet(A) /\ IsFiniteSet(B)
      /\ \A x \in A : f[x] \in Nat /\ f[x] = rs[x].tariff /\ rs[x].tariff \in Tariffs
      /\ \A x \in B : f[x] \in Nat /\ f[x] = rs[x].tariff /\ g[x] = Price(rs[x].tariff)
                      /\ rs[x].tariff \in Nat
  BY <1>1, <1>2, ReceiptTypes, SettlerAssumption
<1>4. PICK before, after, cost : /\ before = SumFunctionOnSet(f, A) /\ after = SumFunctionOnSet(f, B)
                                 /\ cost = SumFunctionOnSet(g, B)
  OBVIOUS
<1>5. SumFunctionOnSet(f, from..to) = before + after
  <2>1. \A x \in A \cup B : f[x] \in Int
    BY <1>3
  <2> QED BY <1>2, <1>3, <1>4, <2>1, SumUnion
<1>6. before \in Nat /\ after \in Nat /\ before >= f[from]
  <2>1. (\A x \in A : f[x] \in Nat) /\ (\A x \in B : f[x] \in Nat)
    BY <1>3
  <2> QED BY <1>2, <1>3, <1>4, <2>1, SumNat
<1>7. f[from] >= MaxReceipts - 1 /\ f[from] \in Nat
  BY <1>2, <1>3 DEF AboveDust
<1>8. CostOf(rs, to) - CostOf(rs, last) = cost /\ cost \in Nat
  <2>1. /\ CostOf(rs, last) \in Nat /\ SumFunctionOnSet(PricesOf(rs), last + 1..to) \in Nat
        /\ CostOf(rs, to) = CostOf(rs, last) + SumFunctionOnSet(PricesOf(rs), last + 1..to)
    BY Extended
  <2> QED BY <1>1, <1>4, <2>1
<1>9. FeeBps \in Nat
  BY ConfigAssumption DEF MAX_BPS
<1>10. PICK rate : rate = MAX_BPS + FeeBps
  OBVIOUS
<1>11. rate \in Nat /\ MAX_BPS \in Nat /\ MAX_BPS - 1 \in Nat
  BY <1>9, <1>10 DEF MAX_BPS
<1>12. cost * MAX_BPS <= after * rate + (to - last) * (MAX_BPS - 1)
  <2>1. \A x \in B : f[x] \in Nat /\ g[x] \in Nat /\ g[x] * MAX_BPS <= f[x] * rate + (MAX_BPS - 1)
    <3> SUFFICES ASSUME NEW x \in B
                 PROVE  f[x] \in Nat /\ g[x] \in Nat /\ g[x] * MAX_BPS <= f[x] * rate + (MAX_BPS - 1)
      OBVIOUS
    <3>1. PICK t \in Nat : t = rs[x].tariff
      BY <1>3
    <3>2. Price(t) \in Nat /\ Price(t) * MAX_BPS <= t * rate + (MAX_BPS - 1)
      BY <1>10, PriceBounds
    <3> QED BY <1>3, <3>1, <3>2
  <2>2. Cardinality(B) = to - last
    <3>1. last + 1 \in Int /\ to \in Int /\ ~ (last + 1 > to)
      OBVIOUS
    <3>2. Cardinality(B) = to - (last + 1) + 1
      BY <1>1, <3>1, FS_Interval
    <3> QED BY <3>2
  <2> QED BY <1>3, <1>4, <1>11, <2>1, <2>2, SumBound
<1>13. ASSUME FeeAccepted(cost, before + after, to - last)
       PROVE  FALSE
  <2>1. PICK tariffs, k : tariffs = before + after /\ k = to - last
    OBVIOUS
  <2>2. tariffs \in Nat /\ k \in Nat \ {0} /\ k <= MaxReceipts - 1
    BY <1>6, <2>1, SettlerAssumption
  <2>3. tariffs * FeeBps <= (cost - tariffs) * MAX_BPS
    BY <1>8, <1>13, <2>1, <2>2, FeeAcceptedBounds
  <2>4. before >= k
    BY <1>6, <1>7, <2>2, SettlerAssumption
  <2>5. tariffs * FeeBps = before * FeeBps + after * FeeBps
        /\ before * FeeBps \in Nat /\ after * FeeBps \in Nat
    BY <1>6, <1>9, <2>1
  <2>6. after * rate = after * MAX_BPS + after * FeeBps
    BY <1>6, <1>9, <1>10 DEF MAX_BPS
  <2>7. cost * MAX_BPS <= after * MAX_BPS + after * FeeBps + k * (MAX_BPS - 1)
    BY <1>12, <2>1, <2>6
  <2>8. before * FeeBps + after * FeeBps <= cost * MAX_BPS - (before + after) * MAX_BPS
    BY <1>6, <1>8, <2>1, <2>3, <2>5 DEF MAX_BPS
  <2> QED BY <1>6, <1>8, <2>2, <2>4, <2>5, <2>7, <2>8 DEF MAX_BPS
<1>14. QED
  BY <1>1, <1>5, <1>8, <1>13

-----------------------------------------------------------------------------
(* The inductive invariant.                                                *)

Chains == Nat \cup {ZeroChain}

Transaction == [from : 1..MaxSeq, to : 1..MaxSeq, final : BOOLEAN,
                status : {"sent", "landed", "failed", "expired"}]

Row == [from : 1..MaxSeq, to : 1..MaxSeq, tx : Nat \ {0}]

\* The types of the whole state, transactions and rows of batches with them.
TypeInv ==
  /\ receipts \in Seq(Receipt) /\ Len(receipts) <= MaxSeq
  /\ account \in AccountType(Chains) /\ finalized \in AccountType(Chains)
  /\ txs \in Seq(Transaction) /\ batches \in Seq(Row)
  /\ exits \in 0..MaxExits /\ faults \in 0..MaxFaults
  /\ pc \in {"idle", "looking", "composed", "awaiting", "recording"}
  /\ loaded \in 0..Len(receipts) /\ batch \in Range2 /\ mine \in 0..Len(txs)

\* An escrow's position is one of the history's, and its total is what was signed there.
Stands(a) == a.last_seq <= Len(receipts) /\ a.settled_total = CostOf(receipts, a.last_seq)

\* Everything settled is paid; what is final was settled.
LedgerInv ==
  /\ Stands(account) /\ Stands(finalized) /\ finalized.last_seq <= account.last_seq
  /\ paid = [d \in Domains |-> OwedBy(receipts, 1..account.last_seq, d)]

\* A transaction starts at a seq that was not recorded when it was sent.
Sound(t) ==
  /\ t.from <= t.to /\ t.to <= Len(receipts) /\ t.to - t.from < MaxReceipts
  /\ t.from <= Recorded + 1
  /\ t.final => t.status \in {"landed", "failed"}
  /\ t.status = "landed" => /\ t.to <= account.last_seq
                            /\ t.final => t.to <= finalized.last_seq

\* Those that landed never overlap.
TxInv ==
  /\ \A i \in 1..Len(txs) : Sound(txs[i])
  /\ \A i, j \in 1..Len(txs) :
       txs[i].status = "landed" /\ txs[j].status = "landed" /\ i # j =>
         txs[i].to < txs[j].from \/ txs[j].to < txs[i].from

\* A range as the transaction t anchored it, for good.
Anchored(b, t) == t.status = "landed" /\ t.final /\ t.from = b.from /\ t.to = b.to

\* Each row of batches names the landed transaction that settled the same receipts.
BatchInv ==
  /\ \A k \in 1..Len(batches) :
       /\ batches[k].from <= batches[k].to /\ batches[k].tx \in 1..Len(txs)
       /\ Anchored(batches[k], txs[batches[k].tx])
       /\ batches[k].from = IF k = 1 THEN 1 ELSE batches[k - 1].to + 1
  /\ \A j, k \in 1..Len(batches) : j < k => batches[j].to < batches[k].from

\* A pass works on the seqs after the recorded ones.
PassInv ==
  /\ pc = "looking" => Recorded < loaded
  /\ pc \in {"composed", "awaiting", "recording"} =>
       /\ batch.from = Recorded + 1 /\ batch.from <= batch.to /\ batch.to <= loaded
       /\ batch.to - batch.from < MaxReceipts
  /\ pc \in {"awaiting", "recording"} =>
       mine \in 1..Len(txs) /\ txs[mine].from = batch.from /\ txs[mine].to = batch.to
  /\ pc = "recording" => txs[mine].status = "landed" /\ txs[mine].final

\* The inductive invariant.
IInv == TypeInv /\ LedgerInv /\ TxInv /\ BatchInv /\ PassInv

-----------------------------------------------------------------------------
(* The gateway, the agent and the cluster.                                 *)

\* A transaction's fields.
LEMMA TransactionTypes ==
  ASSUME TypeInv, NEW i \in 1..Len(txs)
  PROVE  /\ txs[i] \in Transaction /\ txs[i].from \in Nat \ {0} /\ txs[i].to \in Nat \ {0}
         /\ txs[i].final \in BOOLEAN
<1>1. PICK t \in Transaction : t = txs[i]
  BY DEF TypeInv
<1>2. t.from \in 1..MaxSeq /\ t.to \in 1..MaxSeq /\ t.final \in BOOLEAN
  BY <1>1 DEF Transaction
<1>3. MaxSeq \in Nat
  BY SettlerAssumption
<1>4. QED
  BY <1>1, <1>2, <1>3

\* What the invariant says of the last recorded seq.
LEMMA RecordedIsFinal ==
  ASSUME TypeInv, LedgerInv, TxInv, BatchInv
  PROVE  /\ Recorded \in Nat /\ Recorded <= finalized.last_seq
         /\ finalized.last_seq \in Nat /\ account.last_seq \in Nat
         /\ Recorded <= account.last_seq /\ Recorded <= Len(receipts)
         /\ Recorded = 0 \/ \E j \in 1..Len(txs) : txs[j].status = "landed" /\ txs[j].to = Recorded
<1>1. /\ finalized.last_seq \in Nat /\ account.last_seq \in Nat
      /\ finalized.last_seq <= account.last_seq /\ account.last_seq <= Len(receipts)
      /\ Len(receipts) \in Nat
  BY DEF TypeInv, LedgerInv, Stands, AccountType
<1>2. CASE batches = << >>
  BY <1>1, <1>2 DEF Recorded
<1>3. CASE batches # << >>
  <2>1. PICK n : n = Len(batches)
    OBVIOUS
  <2>2. n \in 1..Len(batches) /\ Recorded = batches[n].to
    BY <1>3, <2>1 DEF TypeInv, Recorded
  <2>3. batches[n] \in Row
    BY <2>2 DEF TypeInv
  <2>4. PICK j \in 1..Len(txs) : j = batches[n].tx /\ Anchored(batches[n], txs[j])
    BY <2>2 DEF BatchInv
  <2>5. txs[j].status = "landed" /\ txs[j].final /\ txs[j].to = Recorded
    BY <2>2, <2>4 DEF Anchored
  <2>6. txs[j].to <= finalized.last_seq
    BY <2>4, <2>5 DEF TxInv, Sound
  <2> QED BY <1>1, <2>2, <2>3, <2>5, <2>6 DEF Row
<1>4. QED
  BY <1>2, <1>3

\* The order books keep when an escrow's money moves and its position does not.
LEMMA MoneyMoves ==
  ASSUME IInv, account' \in AccountType(Chains),
         account'.last_seq = account.last_seq, account'.settled_total = account.settled_total,
         exits' \in 0..MaxExits,
         UNCHANGED <<receipts, finalized, paid, txs, batches, settlerVars, faults>>
  PROVE  IInv'
<1>1. TypeInv'
  BY DEF IInv, TypeInv, settlerVars
<1>2. LedgerInv'
  BY DEF IInv, LedgerInv, Stands
<1>3. Recorded' = Recorded
  BY DEF Recorded
<1>4. TxInv'
  BY <1>3 DEF IInv, TxInv, Sound
<1>5. BatchInv'
  BY DEF IInv, BatchInv
<1>6. PassInv'
  BY <1>3 DEF IInv, PassInv, settlerVars
<1>7. QED
  BY <1>1, <1>2, <1>4, <1>5, <1>6 DEF IInv

\* deposit: the vault and its supply change, no history does.
LEMMA DepositKeeps ==
  ASSUME IInv, NEW amount \in Amounts, Deposit(amount)
  PROVE  IInv'
<1>1. amount \in Nat /\ account \in AccountType(Chains)
  BY SettlerAssumption DEF IInv, TypeInv
<1>2. PICK b : b = AfterDeposit(account, amount)
  OBVIOUS
<1>3. b \in AccountType(Chains) /\ b.last_seq = account.last_seq /\ b.settled_total = account.settled_total
  BY <1>1, <1>2, DepositStep
<1>4. account' = b /\ UNCHANGED <<receipts, exits, finalized, paid, txs, batches, settlerVars, faults>>
  BY <1>2 DEF Deposit, agentVars
<1>5. exits' \in 0..MaxExits
  BY <1>4 DEF IInv, TypeInv
<1>6. QED
  BY <1>3, <1>4, <1>5, MoneyMoves

\* request_withdraw: only the account's clock is touched.
LEMMA RequestKeeps ==
  ASSUME IInv, RequestWithdraw
  PROVE  IInv'
<1>1. account \in AccountType(Chains) /\ 0 \in Nat
  BY DEF IInv, TypeInv
<1>2. PICK b : b = AfterRequest(account, 0)
  OBVIOUS
<1>3. b \in AccountType(Chains) /\ b.last_seq = account.last_seq /\ b.settled_total = account.settled_total
  BY <1>1, <1>2, RequestStep
<1>4. account' = b /\ UNCHANGED <<receipts, exits, finalized, paid, txs, batches, settlerVars, faults>>
  BY <1>2 DEF RequestWithdraw, agentVars
<1>5. exits' \in 0..MaxExits
  BY <1>4 DEF IInv, TypeInv
<1>6. QED
  BY <1>3, <1>4, <1>5, MoneyMoves

\* withdraw: the vault is emptied, and the position and the chain stay, so nothing settled is lost.
LEMMA WithdrawKeeps ==
  ASSUME IInv, Withdraw
  PROVE  IInv'
<1>1. account \in AccountType(Chains)
  BY DEF IInv, TypeInv
<1>2. PICK b : b = AfterWithdraw(account)
  OBVIOUS
<1>3. b \in AccountType(Chains) /\ b.last_seq = account.last_seq /\ b.settled_total = account.settled_total
  BY <1>1, <1>2, WithdrawStep
<1>4. account' = b /\ UNCHANGED <<receipts, finalized, paid, txs, batches, settlerVars, faults>>
  BY <1>2 DEF Withdraw
<1>5. exits' \in 0..MaxExits
  BY SettlerAssumption DEF Withdraw, IInv, TypeInv
<1>6. QED
  BY <1>3, <1>4, <1>5, MoneyMoves

\* A receipt is appended; the sums over those before it stay what they were.
LEMMA AcceptKeeps ==
  ASSUME IInv, NEW domain \in Domains, NEW tariff \in Tariffs, Accept(domain, tariff)
  PROVE  IInv'
<1>1. PICK r : r = [domain |-> domain, tariff |-> tariff]
  OBVIOUS
<1>2. r \in Receipt
  BY <1>1 DEF Receipt
<1>3. /\ receipts' = Append(receipts, r) /\ Len(receipts) < MaxSeq
      /\ UNCHANGED <<exits, account, finalized, paid, txs, batches, pc, loaded, batch, mine, faults>>
  BY <1>1 DEF Accept, settlerVars
<1>4. receipts \in Seq(Receipt) /\ Len(receipts) \in Nat
  BY DEF IInv, TypeInv
<1>5. receipts' \in Seq(Receipt) /\ Len(receipts') = Len(receipts) + 1
  BY <1>2, <1>3, <1>4
<1>6. TypeInv'
  BY <1>3, <1>4, <1>5, SettlerAssumption DEF IInv, TypeInv
<1>7. LedgerInv'
  <2>1. /\ account.last_seq \in Nat /\ finalized.last_seq \in Nat
        /\ account.last_seq <= Len(receipts) /\ finalized.last_seq <= Len(receipts)
    BY DEF IInv, TypeInv, LedgerInv, Stands, AccountType
  <2>2. ASSUME NEW n \in 0..Len(receipts)
        PROVE  /\ CostOf(receipts', n) = CostOf(receipts, n)
               /\ \A d : OwedBy(receipts', 1..n, d) = OwedBy(receipts, 1..n, d)
    BY <1>2, <1>3, <1>4, Appended
  <2>3. PICK m, k \in 0..Len(receipts) : m = account.last_seq /\ k = finalized.last_seq
    BY <1>4, <2>1
  <2>4. /\ CostOf(receipts', m) = CostOf(receipts, m) /\ CostOf(receipts', k) = CostOf(receipts, k)
        /\ \A d : OwedBy(receipts', 1..m, d) = OwedBy(receipts, 1..m, d)
    BY <2>2
  <2>5. Stands(account)'
    BY <1>3, <1>4, <1>5, <2>3, <2>4 DEF IInv, LedgerInv, Stands
  <2>6. Stands(finalized)'
    BY <1>3, <1>4, <1>5, <2>3, <2>4 DEF IInv, LedgerInv, Stands
  <2>7. paid' = [d \in Domains |-> OwedBy(receipts', 1..m, d)]
    BY <1>3, <2>3, <2>4 DEF IInv, LedgerInv
  <2> QED BY <1>3, <2>3, <2>5, <2>6, <2>7 DEF IInv, LedgerInv
<1>8. Recorded' = Recorded
  BY <1>3 DEF Recorded
<1>9. TxInv'
  <2>1. \A i \in 1..Len(txs) : txs[i].to \in Nat
    BY TransactionTypes DEF IInv
  <2> QED BY <1>3, <1>4, <1>5, <1>8, <2>1 DEF IInv, TxInv, Sound
<1>10. BatchInv' /\ PassInv'
  BY <1>3, <1>8 DEF IInv, BatchInv, PassInv
<1>11. QED
  BY <1>6, <1>7, <1>9, <1>10 DEF IInv

\* What changing a transaction's status leaves of its other fields.
LEMMA StatusSet ==
  ASSUME TypeInv, NEW i \in 1..Len(txs), NEW status \in {"landed", "failed", "expired"},
         txs' = [txs EXCEPT ![i].status = status]
  PROVE  /\ txs' \in Seq(Transaction) /\ Len(txs') = Len(txs)
         /\ txs'[i].status = status /\ txs'[i].final = txs[i].final
         /\ txs'[i].from = txs[i].from /\ txs'[i].to = txs[i].to
         /\ \A j \in 1..Len(txs) : j # i => txs'[j] = txs[j]
<1>1. PICK t : t = [txs[i] EXCEPT !.status = status]
  OBVIOUS
<1>2. txs[i] \in Transaction /\ txs \in Seq(Transaction)
  BY DEF TypeInv
<1>3. t \in Transaction /\ t.status = status /\ t.final = txs[i].final /\ t.from = txs[i].from /\ t.to = txs[i].to
  BY <1>1, <1>2 DEF Transaction
<1>4. txs' = [txs EXCEPT ![i] = t]
  BY <1>1
<1>5. QED
  BY <1>2, <1>3, <1>4

\* A transaction that fails or expires anchors nothing.
LEMMA NotLanded ==
  ASSUME IInv, NEW i \in 1..Len(txs), NEW status \in {"failed", "expired"},
         txs[i].status = "sent", txs' = [txs EXCEPT ![i].status = status],
         faults' \in 0..MaxFaults,
         UNCHANGED <<agentVars, account, finalized, paid, batches, settlerVars>>
  PROVE  IInv'
<1>1. /\ txs' \in Seq(Transaction) /\ Len(txs') = Len(txs)
      /\ txs'[i].status = status /\ txs'[i].from = txs[i].from /\ txs'[i].to = txs[i].to
      /\ \A j \in 1..Len(txs) : j # i => txs'[j] = txs[j]
  BY StatusSet DEF IInv
<1>2. Recorded' = Recorded
  BY DEF Recorded
<1>3. TypeInv'
  BY <1>1 DEF IInv, TypeInv, agentVars, settlerVars
<1>4. LedgerInv'
  BY DEF IInv, LedgerInv, Stands, agentVars
<1>5. TxInv'
  <2>1. \A j \in 1..Len(txs) : Sound(txs[j])'
    BY <1>1, <1>2 DEF IInv, TxInv, Sound, agentVars
  <2>2. \A j, k \in 1..Len(txs) : txs'[j].status = "landed" /\ txs'[k].status = "landed" /\ j # k =>
          txs'[j].to < txs'[k].from \/ txs'[k].to < txs'[j].from
    BY <1>1 DEF IInv, TxInv
  <2> QED BY <1>1, <2>1, <2>2 DEF TxInv
<1>6. BatchInv'
  <2>1. \A k \in 1..Len(batches) : batches[k].tx \in 1..Len(txs) /\ batches[k].tx # i
    BY DEF IInv, BatchInv, Anchored
  <2> QED BY <1>1, <2>1 DEF IInv, BatchInv, Anchored
<1>7. PassInv'
  BY <1>1, <1>2 DEF IInv, PassInv, settlerVars
<1>8. QED
  BY <1>3, <1>4, <1>5, <1>6, <1>7 DEF IInv

\* A transaction that cannot land any more is only forgotten.
LEMMA ExpireKeeps ==
  ASSUME IInv, NEW i \in 1..Len(txs), Expire(i)
  PROVE  IInv'
<1>1. faults' \in 0..MaxFaults
  BY SettlerAssumption DEF Expire, IInv, TypeInv
<1>2. QED
  BY <1>1, NotLanded DEF Expire

(***************************************************************************)
(* settle_batch succeeds only from where the escrow stands: it pays for    *)
(* the receipts up to the voucher, and for none of them a second time.     *)
(***************************************************************************)
LEMMA LandsWhereItStands ==
  ASSUME AboveDust, IInv, NEW i \in 1..Len(txs),
         CanSettle(account, SettleBatch(txs[i]).voucher, SettleBatch(txs[i]).total)
  PROVE  txs[i].from = account.last_seq + 1 /\ account.last_seq < txs[i].to
<1>1. PICK t, last : t = txs[i] /\ last = account.last_seq
  OBVIOUS
<1>2. /\ t.from \in Nat \ {0} /\ t.to \in Nat \ {0} /\ last \in Nat
      /\ t.to <= Len(receipts) /\ t.to - t.from < MaxReceipts /\ t.from <= last + 1
      /\ receipts \in Seq(Receipt) /\ Len(receipts) \in Nat
      /\ account.settled_total = CostOf(receipts, last)
  <2>1. Recorded \in Nat /\ last \in Nat /\ Recorded <= last
    BY <1>1, RecordedIsFinal DEF IInv
  <2>2. Sound(t) /\ t.from \in Nat \ {0} /\ t.to \in Nat \ {0}
    BY <1>1, TransactionTypes DEF IInv, TxInv
  <2>3. t.from <= last + 1
    BY <2>1, <2>2 DEF Sound
  <2> QED BY <1>1, <2>1, <2>2, <2>3 DEF Sound, IInv, TypeInv, LedgerInv, Stands
<1>3. /\ t.to > last
      /\ FeeAccepted(CostOf(receipts, t.to) - CostOf(receipts, last),
                     SumFunctionOnSet(TariffsOf(receipts), t.from..t.to), t.to - last)
  BY <1>1, <1>2 DEF CanSettle, SettleBatch, Voucher, CumulativeTo, TariffTotal, Charged, CostOf,
                    PricesOf, TariffsOf
<1>4. ASSUME t.from <= last
      PROVE  FALSE
  <2>1. PICK from, to : from = t.from /\ to = t.to
    OBVIOUS
  <2>2. from \in 1..last /\ to \in last + 1..Len(receipts) /\ to - from < MaxReceipts
    BY <1>2, <1>3, <1>4, <2>1
  <2> QED BY <1>2, <1>3, <2>1, <2>2, OverlapRefused
<1>5. QED
  BY <1>1, <1>2, <1>3, <1>4

\* settle_batch lands: the one step that pays, and by OverlapRefused it pays from last_seq + 1.
LEMMA LandKeeps ==
  ASSUME AboveDust, IInv, NEW i \in 1..Len(txs), Land(i)
  PROVE  /\ IInv'
         /\ \/ UNCHANGED <<account, paid>>
            \/ /\ account'.last_seq \in account.last_seq + 1..Len(receipts)
               /\ paid' = [d \in Domains |->
                            paid[d] + OwedBy(receipts, account.last_seq + 1..account'.last_seq, d)]
<1>1. PICK ix : ix = SettleBatch(txs[i])
  OBVIOUS
<1>2. CASE ~ CanSettle(account, ix.voucher, ix.total)
  <2>1. /\ txs[i].status = "sent" /\ txs' = [txs EXCEPT ![i].status = "failed"]
        /\ UNCHANGED <<agentVars, account, finalized, paid, batches, settlerVars, faults>>
    BY <1>1, <1>2 DEF Land
  <2>2. faults' \in 0..MaxFaults
    BY <2>1 DEF IInv, TypeInv
  <2>3. IInv'
    BY <2>1, <2>2, NotLanded
  <2> QED BY <2>1, <2>3
<1>3. CASE CanSettle(account, ix.voucher, ix.total)
  <2>1. PICK to, last : to = txs[i].to /\ last = account.last_seq
    OBVIOUS
  <2>2. /\ txs[i].from = last + 1 /\ last < to
        /\ to \in Nat /\ last \in Nat /\ to <= Len(receipts)
        /\ receipts \in Seq(Receipt) /\ Len(receipts) \in Nat
    <3>1. txs[i].from = last + 1 /\ last < to
      BY <1>1, <1>3, <2>1, LandsWhereItStands
    <3>2. TypeInv /\ LedgerInv /\ Sound(txs[i])
      BY DEF IInv, TxInv
    <3>3. to \in Nat /\ to <= Len(receipts)
      BY <2>1, <3>2, TransactionTypes DEF Sound
    <3>4. last \in Nat /\ receipts \in Seq(Receipt)
      BY <2>1, <3>2 DEF TypeInv, AccountType
    <3> QED BY <3>1, <3>3, <3>4
  <2>3. /\ txs[i].status = "sent"
        /\ account' = AfterSettle(account, ix.voucher)
        /\ paid' = [d \in Domains |-> paid[d] + ix.legs[d]]
        /\ txs' = [txs EXCEPT ![i].status = "landed"]
        /\ UNCHANGED <<receipts, exits, finalized, batches, pc, loaded, batch, mine, faults>>
    BY <1>1, <1>3 DEF Land, agentVars, settlerVars
  <2>4. /\ ix.voucher.seq = to /\ ix.voucher.chain = to
        /\ ix.voucher.cumulative = CostOf(receipts, to)
        /\ \A d \in Domains : ix.legs[d] = OwedBy(receipts, last + 1..to, d)
    BY <1>1, <2>1, <2>2 DEF SettleBatch, Voucher, CumulativeTo, CostOf, PricesOf, Leg, OwedBy, TariffsOf
  <2>5. /\ CostOf(receipts, to) \in Nat
        /\ \A d : OwedBy(receipts, 1..to, d) = OwedBy(receipts, 1..last, d) + OwedBy(receipts, last + 1..to, d)
    <3>1. CostOf(receipts, to) \in Nat
      <4>1. to \in to..Len(receipts)
        BY <2>2
      <4> QED BY <2>2, <4>1, Extended
    <3>2. to \in last..Len(receipts)
      BY <2>2
    <3> QED BY <2>2, <3>1, <3>2, Extended
  <2>6. /\ account' \in AccountType(Chains)
        /\ account'.settled_total = CostOf(receipts, to) /\ account'.last_seq = to
    <3>1. account \in AccountType(Chains) /\ to \in Chains
      BY <2>2 DEF IInv, TypeInv, Chains
    <3>2. PICK v, tariffs : v = ix.voucher /\ tariffs = ix.total
      OBVIOUS
    <3>3. v.seq \in Nat /\ v.cumulative \in Nat /\ v.chain \in Chains /\ CanSettle(account, v, tariffs)
      BY <1>3, <2>2, <2>4, <2>5, <3>1, <3>2
    <3>4. PICK b : b = AfterSettle(account, v)
      OBVIOUS
    <3>5. b \in AccountType(Chains) /\ b.settled_total = v.cumulative /\ b.last_seq = v.seq
      BY <3>1, <3>3, <3>4, SettledAccount
    <3> QED BY <2>3, <2>4, <3>2, <3>4, <3>5
  <2>7. /\ txs' \in Seq(Transaction) /\ Len(txs') = Len(txs)
        /\ txs'[i].status = "landed" /\ txs'[i].final = txs[i].final
        /\ txs'[i].from = last + 1 /\ txs'[i].to = to
        /\ \A j \in 1..Len(txs) : j # i => txs'[j] = txs[j]
    BY <2>1, <2>2, <2>3, StatusSet DEF IInv
  <2>8. Recorded' = Recorded
    BY <2>3 DEF Recorded
  <2>9. TypeInv'
    BY <2>3, <2>6, <2>7 DEF IInv, TypeInv
  <2>10. LedgerInv'
    <3>1. Stands(account)' /\ Stands(finalized)'
      BY <2>2, <2>3, <2>6 DEF IInv, LedgerInv, Stands
    <3>2. finalized'.last_seq <= account'.last_seq
      <4>1. finalized.last_seq \in Nat /\ finalized.last_seq <= last
        BY <2>1, RecordedIsFinal DEF IInv, LedgerInv
      <4> QED BY <2>2, <2>3, <2>6, <4>1
    <3>3. paid' = [d \in Domains |-> OwedBy(receipts, 1..to, d)]
      BY <2>1, <2>3, <2>4, <2>5 DEF IInv, LedgerInv
    <3> QED BY <2>3, <2>6, <3>1, <3>2, <3>3 DEF LedgerInv
  <2>11. \A j \in 1..Len(txs) : txs[j].status = "landed" => txs[j].to <= last /\ txs[j].to \in Nat /\ j # i
    BY <2>1, <2>3, TransactionTypes DEF IInv, TxInv, Sound
  <2>12. \A j \in 1..Len(txs) : Sound(txs[j])'
    <3>1. ASSUME NEW j \in 1..Len(txs), j # i
          PROVE  Sound(txs[j])'
      BY <2>2, <2>3, <2>6, <2>7, <2>8, <2>11, <3>1 DEF IInv, TxInv, Sound
    <3>2. Sound(txs[i])'
      <4>1. ~ txs[i].final
        BY <2>3 DEF IInv, TxInv, Sound
      <4> QED BY <2>1, <2>2, <2>3, <2>6, <2>7, <2>8, <4>1 DEF IInv, TxInv, Sound
    <3> QED BY <3>1, <3>2
  <2>13. TxInv'
    <3>1. ASSUME NEW j \in 1..Len(txs), NEW k \in 1..Len(txs), j # k,
                 txs'[j].status = "landed", txs'[k].status = "landed"
          PROVE  txs'[j].to < txs'[k].from \/ txs'[k].to < txs'[j].from
      <4>1. CASE j # i /\ k # i
        BY <2>7, <3>1, <4>1 DEF IInv, TxInv
      <4>2. CASE j = i
        <5>1. txs'[k] = txs[k] /\ txs[k].to <= last /\ txs[k].to \in Nat
          BY <2>7, <2>11, <3>1, <4>2
        <5> QED BY <2>2, <2>7, <4>2, <5>1
      <4>3. CASE k = i
        <5>1. txs'[j] = txs[j] /\ txs[j].to <= last /\ txs[j].to \in Nat
          BY <2>7, <2>11, <3>1, <4>3
        <5> QED BY <2>2, <2>7, <4>3, <5>1
      <4> QED BY <4>1, <4>2, <4>3
    <3> QED BY <2>7, <2>12, <3>1 DEF TxInv
  <2>14. BatchInv'
    <3>1. \A k \in 1..Len(batches) : batches[k].tx \in 1..Len(txs) /\ batches[k].tx # i
      BY <2>3 DEF IInv, BatchInv, Anchored
    <3> QED BY <2>3, <2>7, <3>1 DEF IInv, BatchInv, Anchored
  <2>15. PassInv'
    BY <2>1, <2>2, <2>3, <2>7, <2>8 DEF IInv, PassInv
  <2>16. IInv'
    BY <2>9, <2>10, <2>13, <2>14, <2>15 DEF IInv
  <2>17. account'.last_seq \in last + 1..Len(receipts)
    BY <2>2, <2>6
  <2>18. paid' = [d \in Domains |-> paid[d] + OwedBy(receipts, last + 1..account'.last_seq, d)]
    BY <2>3, <2>4, <2>6
  <2> QED BY <2>1, <2>16, <2>17, <2>18
<1>4. QED
  BY <1>2, <1>3

\* What is final stays so, and a settlement becomes final together with the position it led to.
LEMMA FinalizeKeeps ==
  ASSUME IInv, Finalize
  PROVE  IInv'
<1>1. /\ finalized' = account
      /\ txs' = [i \in 1..Len(txs) |->
                   [txs[i] EXCEPT !.final = @ \/ txs[i].status \in {"landed", "failed"}]]
      /\ UNCHANGED <<receipts, exits, account, paid, batches, pc, loaded, batch, mine, faults>>
  BY DEF Finalize, agentVars, settlerVars
<1>2. \A i \in 1..Len(txs) :
        /\ txs'[i] \in Transaction
        /\ txs'[i].from = txs[i].from /\ txs'[i].to = txs[i].to /\ txs'[i].status = txs[i].status
        /\ txs'[i].final <=> txs[i].final \/ txs[i].status \in {"landed", "failed"}
  <2> SUFFICES ASSUME NEW i \in 1..Len(txs)
               PROVE  /\ txs'[i] \in Transaction
                      /\ txs'[i].from = txs[i].from /\ txs'[i].to = txs[i].to
                      /\ txs'[i].status = txs[i].status
                      /\ txs'[i].final <=> txs[i].final \/ txs[i].status \in {"landed", "failed"}
    OBVIOUS
  <2>1. PICK t, u : t = txs[i] /\ u = [t EXCEPT !.final = @ \/ t.status \in {"landed", "failed"}]
    OBVIOUS
  <2>2. t \in Transaction
    BY <2>1, TransactionTypes DEF IInv
  <2>3. /\ u \in Transaction /\ u.from = t.from /\ u.to = t.to /\ u.status = t.status
        /\ u.final <=> t.final \/ t.status \in {"landed", "failed"}
    BY <2>1, <2>2 DEF Transaction
  <2>4. txs'[i] = u
    BY <1>1, <2>1
  <2> QED BY <2>1, <2>3, <2>4
<1>3. txs' \in Seq(Transaction) /\ Len(txs') = Len(txs)
  <2>1. PICK n \in Nat : n = Len(txs)
    BY DEF IInv, TypeInv
  <2>2. txs' \in [1..n -> Transaction]
    BY <1>1, <1>2, <2>1
  <2> QED BY <2>1, <2>2
<1>4. Recorded' = Recorded
  BY <1>1 DEF Recorded
<1>5. TypeInv'
  BY <1>1, <1>3 DEF IInv, TypeInv
<1>6. LedgerInv'
  <2>1. account.last_seq \in Nat
    BY DEF IInv, TypeInv, AccountType
  <2> QED BY <1>1, <2>1 DEF IInv, LedgerInv, Stands
<1>7. TxInv'
  <2>1. \A i \in 1..Len(txs) : Sound(txs[i])'
    BY <1>1, <1>2, <1>4 DEF IInv, TxInv, Sound
  <2> QED BY <1>2, <1>3, <2>1 DEF IInv, TxInv
<1>8. BatchInv'
  <2>1. \A k \in 1..Len(batches) : batches[k].tx \in 1..Len(txs)
    BY DEF IInv, BatchInv
  <2>2. ASSUME NEW k \in 1..Len(batches)
        PROVE  Anchored(batches[k], txs[batches[k].tx])'
    <3>1. PICK i \in 1..Len(txs) : i = batches[k].tx /\ Anchored(batches[k], txs[i])
      BY <2>1 DEF IInv, BatchInv
    <3>2. /\ txs'[i].from = txs[i].from /\ txs'[i].to = txs[i].to /\ txs'[i].status = txs[i].status
          /\ txs'[i].final <=> txs[i].final \/ txs[i].status \in {"landed", "failed"}
      BY <1>2
    <3> QED BY <1>1, <3>1, <3>2 DEF Anchored
  <2> QED BY <1>1, <1>3, <2>1, <2>2 DEF IInv, BatchInv
<1>9. PassInv'
  <2>1. CASE pc \in {"awaiting", "recording"}
    <3>1. PICK i \in 1..Len(txs) : i = mine
      BY <2>1 DEF IInv, PassInv
    <3>2. /\ txs'[i].from = txs[i].from /\ txs'[i].to = txs[i].to /\ txs'[i].status = txs[i].status
          /\ txs[i].final => txs'[i].final
      BY <1>2
    <3> QED BY <1>1, <1>3, <1>4, <2>1, <3>1, <3>2 DEF IInv, PassInv
  <2>2. CASE pc \notin {"awaiting", "recording"}
    BY <1>1, <1>4, <2>2 DEF IInv, PassInv
  <2> QED BY <2>1, <2>2
<1>10. QED
  BY <1>5, <1>6, <1>7, <1>8, <1>9 DEF IInv

-----------------------------------------------------------------------------
(* The settler's own steps.                                                *)

\* Most of them only move it through its pass.
LEMMA PassMoves ==
  ASSUME IInv,
         pc' \in {"idle", "looking", "composed", "awaiting", "recording"},
         loaded' \in 0..Len(receipts), batch' \in Range2, mine' \in 0..Len(txs),
         faults' \in 0..MaxFaults, PassInv',
         UNCHANGED <<agentVars, account, finalized, paid, txs, batches>>
  PROVE  IInv'
<1>1. TypeInv'
  BY DEF IInv, TypeInv, agentVars
<1>2. LedgerInv'
  BY DEF IInv, LedgerInv, Stands, agentVars
<1>3. Recorded' = Recorded
  BY DEF Recorded
<1>4. TxInv' /\ BatchInv'
  BY <1>3 DEF IInv, TxInv, Sound, BatchInv, Anchored, agentVars
<1>5. QED
  BY <1>1, <1>2, <1>4 DEF IInv

\* However a pass ends, the settler keeps nothing, so PassInv asks nothing.
LEMMA PassEnds ==
  ASSUME IInv, EndPass, faults' \in 0..MaxFaults,
         UNCHANGED <<agentVars, account, finalized, paid, txs, batches>>
  PROVE  IInv'
<1>1. pc' = "idle" /\ loaded' = 0 /\ batch' = NoBatch /\ mine' = 0
  BY DEF EndPass
<1>2. loaded' \in 0..Len(receipts) /\ batch' \in Range2 /\ mine' \in 0..Len(txs)
  BY <1>1, SettlerAssumption DEF IInv, TypeInv, NoBatch, Range2
<1>3. PassInv'
  BY <1>1 DEF PassInv
<1>4. QED
  BY <1>1, <1>2, <1>3, PassMoves

\* A pass begins with what is pending.
LEMMA TickKeeps ==
  ASSUME IInv, Tick
  PROVE  IInv'
<1>1. /\ pc' = "looking" /\ loaded' = Len(receipts) /\ Len(receipts) > Recorded
      /\ UNCHANGED <<batch, mine, agentVars, account, finalized, paid, txs, batches, faults>>
  BY DEF Tick
<1>2. Recorded' = Recorded
  BY <1>1 DEF Recorded
<1>3. PassInv'
  BY <1>1, <1>2 DEF PassInv
<1>4. QED
  BY <1>1, <1>3, PassMoves DEF IInv, TypeInv

\* recover: what it takes up is final, has landed, and starts after the recorded seqs.
LEMMA RecoverKeeps ==
  ASSUME IInv, Recover
  PROVE  IInv'
<1>1. /\ pc = "looking" /\ finalized.last_seq > Recorded
      /\ UNCHANGED <<agentVars, account, finalized, paid, txs, batches, faults>>
  BY DEF Recover
<1>2. PICK covered, found : /\ covered = [Rest EXCEPT !.to = finalized.last_seq]
                            /\ found = Settlements(finalized.last_seq)
  OBVIOUS
<1>3. CASE \E i \in found : txs[i].from = covered.from /\ covered.to <= loaded
  <2>1. /\ pc' = "recording" /\ batch' = covered
        /\ mine' = CHOOSE i \in found : txs[i].from = covered.from
        /\ UNCHANGED loaded
    BY <1>2, <1>3 DEF Recover
  <2>2. mine' \in found /\ txs[mine'].from = covered.from /\ covered.to <= loaded
    BY <1>3, <2>1
  <2>3. PICK m : m = mine'
    OBVIOUS
  <2>4. /\ m \in 1..Len(txs) /\ txs[m].status = "landed" /\ txs[m].final
        /\ txs[m].to = finalized.last_seq
    BY <1>2, <2>2, <2>3 DEF Settlements
  <2>5. Recorded \in Nat /\ finalized.last_seq \in Nat /\ finalized.last_seq <= Len(receipts)
    BY RecordedIsFinal DEF IInv, LedgerInv, Stands
  <2>6. covered = [from |-> Recorded + 1, to |-> finalized.last_seq]
    BY <1>2 DEF Rest
  <2>7. Sound(txs[m])
    BY <2>4 DEF IInv, TxInv
  <2>8. batch' \in Range2
    BY <1>1, <2>1, <2>5, <2>6, SettlerAssumption DEF IInv, TypeInv, Range2
  <2>9. Recorded' = Recorded
    BY <1>1 DEF Recorded
  <2>10. PassInv'
    <3>1. batch'.from = Recorded + 1 /\ batch'.from <= batch'.to /\ batch'.to <= loaded'
          /\ batch'.to - batch'.from < MaxReceipts
      BY <1>1, <2>1, <2>2, <2>3, <2>4, <2>5, <2>6, <2>7 DEF Sound
    <3>2. mine' = m /\ txs' = txs /\ txs[m].from = batch'.from /\ txs[m].to = batch'.to
      BY <1>1, <2>1, <2>2, <2>3, <2>4, <2>6
    <3> QED BY <2>1, <2>4, <2>9, <3>1, <3>2 DEF PassInv
  <2> QED BY <1>1, <2>1, <2>3, <2>4, <2>8, <2>10, PassMoves DEF IInv, TypeInv
<1>4. CASE ~ \E i \in found : txs[i].from = covered.from /\ covered.to <= loaded
  <2>1. EndPass /\ faults' \in 0..MaxFaults
    BY <1>1, <1>2, <1>4 DEF Recover, IInv, TypeInv
  <2> QED BY <1>1, <2>1, PassEnds
<1>5. QED
  BY <1>3, <1>4

\* A pass that finds nothing due ends.
LEMMA SkipKeeps ==
  ASSUME IInv, Skip
  PROVE  IInv'
<1>1. faults' \in 0..MaxFaults
  BY DEF Skip, IInv, TypeInv
<1>2. QED
  BY <1>1, PassEnds DEF Skip

\* A pass cut off at any await: its transaction stays on its way, and nothing else is left.
LEMMA FaultKeeps ==
  ASSUME IInv, Fault
  PROVE  IInv'
<1>1. faults' \in 0..MaxFaults
  BY SettlerAssumption DEF Fault, IInv, TypeInv
<1>2. QED
  BY <1>1, PassEnds DEF Fault

\* Among naturals up to n there is a greatest one.
LEMMA GreatestOf ==
  ASSUME NEW n \in Nat, NEW S \in SUBSET (0..n), S # {}
  PROVE  Max(S) \in S /\ \A k \in S : k <= Max(S)
<1>1. PICK R : R = {n - k : k \in S}
  OBVIOUS
<1>2. R \in SUBSET Nat /\ R # {}
  <2>1. \A k \in S : n - k \in Nat
    OBVIOUS
  <2> QED BY <1>1, <2>1
<1>3. PICK m \in R : \A k \in R : m <= k
  BY <1>2, LeastOf
<1>4. PICK g \in S : m = n - g
  BY <1>1, <1>3
<1>5. \A k \in S : g >= k
  BY <1>1, <1>3, <1>4
<1>6. Max(S) \in S /\ \A k \in S : Max(S) >= k
  BY <1>4, <1>5 DEF Max
<1>7. QED
  BY <1>6

\* One receipt always fits a transaction.
LEMMA OneFits ==
  ASSUME NEW n
  PROVE  n \in Nat => Fits([from |-> n, to |-> n])
<1> SUFFICES ASSUME n \in Nat PROVE Fits([from |-> n, to |-> n])
  OBVIOUS
<1>1. PICK b : b = [from |-> n, to |-> n]
  OBVIOUS
<1>2. b.from = n /\ b.to = n /\ b.to - b.from < MaxReceipts
  BY <1>1, SettlerAssumption
<1>3. DomainsOf(b) \in SUBSET {receipts[n].domain}
  BY <1>2 DEF DomainsOf
<1>4. IsFiniteSet({receipts[n].domain}) /\ Cardinality({receipts[n].domain}) = 1
  BY FS_Singleton
<1>5. Cardinality(DomainsOf(b)) <= 1 /\ Cardinality(DomainsOf(b)) \in Nat
  BY <1>3, <1>4, FS_Subset, FS_CardinalityType
<1>6. QED
  BY <1>1, <1>2, <1>5, SettlerAssumption DEF Fits

\* composeBatch: the batch starts after the recorded seqs and is within its bound.
LEMMA ComposeKeeps ==
  ASSUME IInv, Compose
  PROVE  IInv'
<1>1. /\ pc = "looking" /\ pc' = "composed"
      /\ UNCHANGED <<loaded, mine, agentVars, account, finalized, paid, txs, batches, faults>>
  BY DEF Compose
<1>2. PICK first, cuts : /\ first = Recorded + 1
                         /\ cuts = {n \in Rest.from..Rest.to : Fits([Rest EXCEPT !.to = n])}
  OBVIOUS
<1>3. Rest = [from |-> first, to |-> loaded]
  BY <1>2 DEF Rest
<1>4. first \in Nat \ {0} /\ loaded \in Nat /\ first <= loaded /\ loaded <= MaxSeq
  <2>1. Recorded \in Nat /\ Recorded < loaded
    BY <1>1, RecordedIsFinal DEF IInv, PassInv
  <2> QED BY <1>2, <2>1, SettlerAssumption DEF IInv, TypeInv
<1>5. cuts = {n \in first..loaded : Fits([from |-> first, to |-> n])}
  BY <1>2, <1>3
<1>6. first \in cuts
  BY <1>4, <1>5, OneFits
<1>7. PICK last : last = Max(cuts)
  OBVIOUS
<1>8. last \in cuts
  <2>1. cuts \in SUBSET (0..loaded) /\ cuts # {}
    BY <1>4, <1>5, <1>6
  <2> QED BY <1>4, <1>7, <2>1, GreatestOf
<1>9. batch' = [from |-> first, to |-> last]
  BY <1>2, <1>3, <1>7 DEF Compose
<1>10. /\ batch'.from = first /\ batch'.to = last /\ first <= last /\ last <= loaded
       /\ last - first < MaxReceipts
  BY <1>5, <1>8, <1>9 DEF Fits
<1>11. batch' \in Range2
  BY <1>4, <1>5, <1>8, <1>9, SettlerAssumption DEF Range2
<1>12. Recorded' = Recorded
  BY <1>1 DEF Recorded
<1>13. PassInv'
  BY <1>1, <1>2, <1>10, <1>12 DEF PassInv
<1>14. QED
  BY <1>1, <1>11, <1>13, PassMoves DEF IInv, TypeInv

\* What is sent starts right after the recorded seqs.
LEMMA SubmitKeeps ==
  ASSUME IInv, Submit
  PROVE  IInv'
<1>1. /\ pc = "composed"
      /\ UNCHANGED <<receipts, exits, account, finalized, paid, batches, faults>>
  BY DEF Submit, agentVars
<1>2. PICK ok \in BOOLEAN :
        ok <=> CanSettle(finalized, SettleBatch(batch).voucher, SettleBatch(batch).total)
  OBVIOUS
<1>3. CASE ~ ok
  <2>1. EndPass /\ UNCHANGED txs
    BY <1>2, <1>3 DEF Submit
  <2>2. faults' \in 0..MaxFaults
    BY <1>1 DEF IInv, TypeInv
  <2> QED BY <1>1, <2>1, <2>2, PassEnds DEF agentVars
<1>4. CASE ok
  <2>1. PICK t : t = [from |-> batch.from, to |-> batch.to, status |-> "sent", final |-> FALSE]
    OBVIOUS
  <2>2. /\ txs' = Append(txs, t) /\ mine' = Len(txs) + 1 /\ pc' = "awaiting"
        /\ UNCHANGED <<loaded, batch>>
    BY <1>2, <1>4, <2>1 DEF Submit
  <2>3. /\ Recorded \in Nat /\ Recorded <= Len(receipts) /\ Len(receipts) \in Nat
        /\ Len(receipts) <= MaxSeq /\ loaded \in 0..Len(receipts)
    BY RecordedIsFinal DEF IInv, TypeInv
  <2>4. /\ batch.from = Recorded + 1 /\ batch.from <= batch.to /\ batch.to <= loaded
        /\ batch.to - batch.from < MaxReceipts
    BY <1>1 DEF IInv, PassInv
  <2>5. batch.from \in 1..MaxSeq /\ batch.to \in 1..MaxSeq
    <3>1. PICK a \in 0..MaxSeq, b \in 0..MaxSeq : a = batch.from /\ b = batch.to
      BY DEF IInv, TypeInv, Range2
    <3> QED BY <2>3, <2>4, <3>1, SettlerAssumption
  <2>6. /\ t \in Transaction /\ t.from = batch.from /\ t.to = batch.to
        /\ t.status = "sent" /\ t.final = FALSE
    BY <2>1, <2>5 DEF Transaction
  <2>7. txs \in Seq(Transaction) /\ Len(txs) \in Nat
    BY DEF IInv, TypeInv
  <2>8. PICK n \in Nat : n = Len(txs) + 1
    BY <2>7
  <2>9. /\ txs' \in Seq(Transaction) /\ Len(txs') = n /\ txs'[n] = t
        /\ \A i \in 1..Len(txs) : txs'[i] = txs[i] /\ i \in 1..n /\ i # n
        /\ \A i \in 1..n : i = n \/ i \in 1..Len(txs)
    BY <2>2, <2>6, <2>7, <2>8
  <2>10. Recorded' = Recorded
    BY <1>1 DEF Recorded
  <2>11. TypeInv'
    BY <1>1, <2>2, <2>8, <2>9 DEF IInv, TypeInv
  <2>12. LedgerInv'
    BY <1>1 DEF IInv, LedgerInv, Stands
  <2>13. TxInv'
    <3>1. ASSUME NEW i \in 1..Len(txs)
          PROVE  Sound(txs[i])'
      BY <1>1, <2>9, <2>10 DEF IInv, TxInv, Sound
    <3>2. (t.from <= t.to /\ t.to <= Len(receipts') /\ t.to - t.from < MaxReceipts)
          /\ t.from <= Recorded' + 1
      <4>1. batch.from \in Int /\ batch.to \in Int
        BY <2>5
      <4> QED BY <1>1, <2>3, <2>4, <2>6, <2>10, <4>1
    <3>3. \A i \in 1..Len(txs') : Sound(txs[i])'
      BY <2>6, <2>9, <3>1, <3>2 DEF Sound
    <3>4. \A i, j \in 1..Len(txs') :
            txs'[i].status = "landed" /\ txs'[j].status = "landed" /\ i # j =>
              txs'[i].to < txs'[j].from \/ txs'[j].to < txs'[i].from
      <4>1. \A i \in 1..Len(txs') : txs'[i].status = "landed" => i \in 1..Len(txs)
        BY <2>6, <2>9
      <4> QED BY <2>9, <4>1 DEF IInv, TxInv
    <3> QED BY <3>3, <3>4 DEF TxInv
  <2>14. BatchInv'
    BY <1>1, <2>9 DEF IInv, BatchInv, Anchored
  <2>15. PassInv'
    BY <2>2, <2>4, <2>6, <2>8, <2>9, <2>10 DEF PassInv
  <2> QED BY <2>11, <2>12, <2>13, <2>14, <2>15 DEF IInv
<1>5. QED
  BY <1>3, <1>4

\* Only a settlement that landed and is final goes on to be recorded.
LEMMA AwaitKeeps ==
  ASSUME IInv, Await
  PROVE  IInv'
<1>1. pc = "awaiting" /\ UNCHANGED <<agentVars, account, finalized, paid, txs, batches, faults>>
  BY DEF Await
<1>2. CASE txs[mine].status = "landed" /\ txs[mine].final /\ GoTo("recording")
  <2>1. pc' = "recording" /\ UNCHANGED <<loaded, batch, mine>>
    BY <1>2 DEF GoTo
  <2>2. Recorded' = Recorded
    BY <1>1 DEF Recorded
  <2>3. PassInv'
    BY <1>1, <1>2, <2>1, <2>2 DEF IInv, PassInv
  <2> QED BY <1>1, <2>1, <2>3, PassMoves DEF IInv, TypeInv
<1>3. CASE EndPass
  <2>1. faults' \in 0..MaxFaults
    BY <1>1 DEF IInv, TypeInv
  <2> QED BY <1>1, <1>3, <2>1, PassEnds
<1>4. QED
  BY <1>2, <1>3 DEF Await

\* A row follows on the last one, and names what anchored it.
LEMMA RecordKeeps ==
  ASSUME IInv, Record
  PROVE  IInv' /\ Recorded' = batch.to /\ Recorded < batch.to /\ batch.to <= account.last_seq
<1>1. /\ pc = "recording"
      /\ UNCHANGED <<receipts, exits, account, finalized, paid, txs, faults>>
  BY DEF Record, agentVars
<1>2. PICK row : row = [from |-> batch.from, to |-> batch.to, tx |-> mine]
  OBVIOUS
<1>3. PICK n \in Nat : n = Len(batches) + 1
  BY DEF IInv, TypeInv
<1>4. /\ Recorded \in Nat /\ batch.from = Recorded + 1 /\ batch.from <= batch.to
      /\ batch.to <= loaded /\ mine \in 1..Len(txs)
      /\ Anchored(batch, txs[mine])
  BY <1>1, RecordedIsFinal DEF IInv, PassInv, Anchored
<1>5. /\ loaded \in 0..Len(receipts) /\ Len(receipts) \in Nat /\ Len(receipts) <= MaxSeq
      /\ batch.from \in 0..MaxSeq /\ batch.to \in 0..MaxSeq
  BY DEF IInv, TypeInv, Range2
<1>6. row \in Row /\ row.from = Recorded + 1 /\ row.to = batch.to /\ row.tx = mine
  <2>1. row.from = Recorded + 1 /\ row.to = batch.to /\ row.tx = mine
    BY <1>2, <1>4
  <2>2. batch.from \in 1..MaxSeq /\ batch.to \in 1..MaxSeq /\ mine \in Nat \ {0}
    <3>1. Len(txs) \in Nat
      BY DEF IInv, TypeInv
    <3> QED BY <1>4, <1>5, <3>1, SettlerAssumption
  <2> QED BY <1>2, <2>1, <2>2 DEF Row
<1>7. /\ batches' \in Seq(Row) /\ Len(batches') = n /\ batches'[n] = row
      /\ \A k \in 1..Len(batches) : batches'[k] = batches[k] /\ k \in 1..n /\ k # n /\ k < n
      /\ \A k \in 1..n : k = n \/ k \in 1..Len(batches)
  BY <1>2, <1>3, <1>6 DEF Record, IInv, TypeInv
<1>8. Recorded' = batch.to /\ Recorded < batch.to
  <2>1. Recorded' = row.to
    BY <1>3, <1>7 DEF Recorded
  <2> QED BY <1>4, <1>5, <1>6, <2>1
<1>9. batch.to <= account.last_seq
  BY <1>1, <1>4 DEF Anchored, IInv, TxInv, Sound
<1>10. \/ pc' = "idle" /\ loaded' = 0 /\ batch' = NoBatch /\ mine' = 0
       \/ pc' = "looking" /\ batch.to < loaded /\ loaded' = loaded /\ batch' = NoBatch /\ mine' = 0
  BY DEF Record, EndPass
<1>11. TypeInv'
  <2>1. loaded' \in 0..Len(receipts) /\ batch' \in Range2 /\ mine' \in 0..Len(txs)
    BY <1>10, SettlerAssumption DEF IInv, TypeInv, NoBatch, Range2
  <2> QED BY <1>1, <1>7, <1>10, <2>1 DEF IInv, TypeInv
<1>12. LedgerInv'
  BY <1>1 DEF IInv, LedgerInv, Stands
<1>13. TxInv'
  <2>1. ASSUME NEW i \in 1..Len(txs)
        PROVE  Sound(txs[i])'
    <3>1. txs[i].from <= batch.to + 1
      <4>1. txs[i].from <= Recorded + 1 /\ txs[i].from \in Nat
        BY TransactionTypes DEF IInv, TxInv, Sound
      <4> QED BY <1>4, <1>5, <1>8, <4>1
    <3> QED BY <1>1, <1>8, <3>1 DEF IInv, TxInv, Sound
  <2> QED BY <1>1, <2>1 DEF IInv, TxInv
<1>14. BatchInv'
  <2>1. ASSUME NEW k \in 1..Len(batches)
        PROVE  /\ batches'[k].from <= batches'[k].to /\ batches'[k].tx \in 1..Len(txs')
               /\ Anchored(batches[k], txs[batches[k].tx])'
               /\ batches'[k].from = IF k = 1 THEN 1 ELSE batches'[k - 1].to + 1
    <3>1. k = 1 \/ k - 1 \in 1..Len(batches)
      OBVIOUS
    <3>2. batches'[k] = batches[k] /\ (k # 1 => batches'[k - 1] = batches[k - 1])
      BY <1>7, <3>1
    <3> QED BY <1>1, <3>2 DEF IInv, BatchInv, Anchored
  <2>2. /\ batches'[n].from <= batches'[n].to /\ batches'[n].tx \in 1..Len(txs')
        /\ Anchored(batches[n], txs[batches[n].tx])'
        /\ batches'[n].from = IF n = 1 THEN 1 ELSE batches'[n - 1].to + 1
    <3>1. Recorded = IF n = 1 THEN 0 ELSE batches'[n - 1].to
      <4>1. CASE n = 1
        BY <1>3, <4>1 DEF Recorded, IInv, TypeInv
      <4>2. CASE n # 1
        <5>1. n - 1 = Len(batches) /\ Len(batches) \in 1..Len(batches) /\ batches # << >>
          BY <1>3, <4>2 DEF IInv, TypeInv
        <5> QED BY <1>7, <4>2, <5>1 DEF Recorded
      <4> QED BY <4>1, <4>2
    <3> QED BY <1>1, <1>4, <1>6, <1>7, <3>1 DEF Anchored
  <2>3. \A j, k \in 1..n : j < k => batches'[j].to < batches'[k].from
    <3> SUFFICES ASSUME NEW j \in 1..n, NEW k \in 1..n, j < k
                 PROVE  batches'[j].to < batches'[k].from
      OBVIOUS
    <3>1. j \in 1..Len(batches)
      BY <1>3, <1>7
    <3>2. CASE k # n
      BY <1>7, <3>1, <3>2 DEF IInv, BatchInv
    <3>3. CASE k = n
      <4>1. batches[j].to <= Recorded
        <5>1. PICK m : m = Len(batches)
          OBVIOUS
        <5>2. m \in 1..Len(batches) /\ Recorded = batches[m].to /\ (j = m \/ j < m)
          BY <3>1, <5>1 DEF Recorded, IInv, TypeInv
        <5>3. batches[j] \in Row /\ batches[m] \in Row
          BY <3>1, <5>2 DEF IInv, TypeInv
        <5>4. batches[j].to \in Int /\ batches[m].to \in Int /\ batches[m].from \in Int
          BY <5>3, SettlerAssumption DEF Row
        <5>5. CASE j < m
          <6>1. batches[j].to < batches[m].from
            BY <3>1, <5>2, <5>5 DEF IInv, BatchInv
          <6>2. batches[m].from <= batches[m].to
            BY <5>2 DEF IInv, BatchInv
          <6> QED BY <5>2, <5>4, <6>1, <6>2
        <5> QED BY <5>2, <5>4, <5>5
      <4>2. batches[j].to \in Int
        <5>1. batches[j] \in Row
          BY <3>1 DEF IInv, TypeInv
        <5> QED BY <5>1 DEF Row
      <4> QED BY <1>4, <1>6, <1>7, <3>1, <3>3, <4>1, <4>2
    <3> QED BY <3>2, <3>3
  <2> QED BY <1>7, <2>1, <2>2, <2>3 DEF BatchInv
<1>15. PassInv'
  BY <1>8, <1>10 DEF PassInv
<1>16. QED
  BY <1>8, <1>9, <1>11, <1>12, <1>13, <1>14, <1>15 DEF IInv

-----------------------------------------------------------------------------
(* What every behaviour keeps.                                             *)

\* An agent starts with nothing: an empty history, and books to match.
LEMMA Begins == Init => IInv
<1> SUFFICES ASSUME Init PROVE IInv
  OBVIOUS
<1>1. /\ receipts = << >> /\ account = Opened /\ finalized = Opened
      /\ paid = [d \in Domains |-> 0] /\ txs = << >> /\ batches = << >> /\ exits = 0
      /\ pc = "idle" /\ loaded = 0 /\ batch = NoBatch /\ mine = 0 /\ faults = 0
  BY DEF Init
<1>2. Opened \in AccountType(Chains) /\ Opened.last_seq = 0 /\ Opened.settled_total = 0
  BY DEF Opened, AccountType, Chains
<1>3. TypeInv
  BY <1>1, <1>2, SettlerAssumption DEF TypeInv, NoBatch, Range2
<1>4. LedgerInv
  <2>1. 1..0 = {} /\ \A d : {n \in 1..0 : receipts[n].domain = d} = {}
    OBVIOUS
  <2>2. CostOf(receipts, 0) = 0 /\ \A d : OwedBy(receipts, 1..0, d) = 0
    BY <2>1, SumEmpty DEF CostOf, OwedBy
  <2> QED BY <1>1, <1>2, <2>2 DEF LedgerInv, Stands
<1>5. TxInv /\ BatchInv /\ PassInv
  BY <1>1 DEF TxInv, BatchInv, PassInv
<1>6. QED
  BY <1>3, <1>4, <1>5 DEF IInv

\* Every step keeps the invariant.
LEMMA StepKeeps ==
  ASSUME AboveDust, IInv, [Next]_vars
  PROVE  IInv'
<1>1. CASE UNCHANGED vars
  <2>1. Recorded' = Recorded
    BY <1>1 DEF vars, Recorded
  <2> QED BY <1>1, <2>1 DEF vars, agentVars, settlerVars, IInv, TypeInv, LedgerInv, Stands, TxInv,
                            Sound, BatchInv, Anchored, PassInv
<1>2. ASSUME NEW domain \in Domains, NEW tariff \in Tariffs, Accept(domain, tariff)
      PROVE  IInv'
  BY <1>2, AcceptKeeps
<1>3. ASSUME NEW amount \in Amounts, Deposit(amount)
      PROVE  IInv'
  BY <1>3, DepositKeeps
<1>4. CASE RequestWithdraw
  BY <1>4, RequestKeeps
<1>5. CASE Withdraw
  BY <1>5, WithdrawKeeps
<1>6. ASSUME NEW i \in 1..Len(txs), Land(i)
      PROVE  IInv'
  BY <1>6, LandKeeps
<1>7. CASE Finalize
  BY <1>7, FinalizeKeeps
<1>8. ASSUME NEW i \in 1..Len(txs), Expire(i)
      PROVE  IInv'
  BY <1>8, ExpireKeeps
<1>9. CASE SettlerStep
  BY <1>9, TickKeeps, RecoverKeeps, SkipKeeps, ComposeKeeps, SubmitKeeps, AwaitKeeps, RecordKeeps
     DEF SettlerStep
<1>10. CASE Fault
  BY <1>10, FaultKeeps
<1>11. QED
  BY <1>1, <1>2, <1>3, <1>4, <1>5, <1>6, <1>7, <1>8, <1>9, <1>10 DEF Next

\* The invariant holds in every state an agent's settlement can reach.
LEMMA Invariant ==
  ASSUME AboveDust
  PROVE  Spec => []IInv
<1>1. Init => IInv
  BY Begins
<1>2. IInv /\ [Next]_vars => IInv'
  BY StepKeeps
<1>3. QED
  BY <1>1, <1>2, PTL DEF Spec

-----------------------------------------------------------------------------
(* What it is for.                                                         *)

\* The settler's state has the types the tables, the escrow and the pass give it, and no
\* two batches of an agent end at one seq (the primary key of batches, batch.ts).
THEOREM TypeCorrect ==
  ASSUME AboveDust
  PROVE  Spec => []TypeOK
<1>1. IInv => TypeOK
  <2> SUFFICES ASSUME IInv PROVE TypeOK
    OBVIOUS
  <2>1. paid \in [Domains -> Nat]
    <3>1. receipts \in Seq(Receipt) /\ account.last_seq \in 0..Len(receipts) /\ Len(receipts) \in Nat
      BY RecordedIsFinal DEF IInv, TypeInv, LedgerInv, Stands
    <3>2. PICK n \in Nat : n = account.last_seq
      BY <3>1
    <3>3. n \in n..Len(receipts)
      BY <3>1, <3>2
    <3>4. \A d : OwedBy(receipts, 1..n, d) \in Nat
      BY <3>1, <3>3, Extended
    <3> QED BY <3>2, <3>4 DEF IInv, LedgerInv
  <2>2. batches \in Seq(BatchRow)
    <3>1. ASSUME NEW k \in 1..Len(batches)
          PROVE  batches[k] \in BatchRow
      <4>1. PICK row \in Row : row = batches[k]
        BY DEF IInv, TypeInv
      <4>2. row.tx \in 1..Len(txs) /\ row.to >= row.from
        BY <4>1 DEF IInv, BatchInv, Row
      <4>3. row \in [from : 1..MaxSeq, to : 1..MaxSeq, tx : 1..Len(txs)]
        BY <4>1, <4>2 DEF Row
      <4> QED BY <4>1, <4>2, <4>3 DEF BatchRow
    <3>2. PICK n \in Nat : n = Len(batches) /\ DOMAIN batches = 1..n /\ batches = [k \in 1..n |-> batches[k]]
      BY DEF IInv, TypeInv
    <3>3. batches \in [1..n -> BatchRow]
      BY <3>1, <3>2
    <3> QED BY <3>2, <3>3
  <2>3. ASSUME NEW i \in DOMAIN batches, NEW j \in DOMAIN batches, batches[i].to = batches[j].to
        PROVE  i = j
    <3>1. i \in 1..Len(batches) /\ j \in 1..Len(batches)
      BY DEF IInv, TypeInv
    <3>2. /\ batches[i].from \in Int /\ batches[j].from \in Int /\ batches[i].to \in Int
          /\ batches[i].from <= batches[i].to /\ batches[j].from <= batches[j].to
      <4>1. batches[i] \in Row /\ batches[j] \in Row
        BY <3>1 DEF IInv, TypeInv
      <4> QED BY <3>1, <4>1 DEF IInv, BatchInv, Row
    <3>3. ~ (i < j) /\ ~ (j < i)
      BY <2>3, <3>1, <3>2 DEF IInv, BatchInv
    <3> QED BY <3>1, <3>3
  <2>4. txs \in Seq([from : 1..MaxSeq, to : 1..MaxSeq, final : BOOLEAN,
                     status : {"sent", "landed", "failed", "expired"}])
    BY DEF IInv, TypeInv, Transaction
  <2> QED BY <2>1, <2>2, <2>3, <2>4 DEF IInv, TypeInv, TypeOK, Chains
<1>2. QED
  BY <1>1, Invariant, PTL

(***************************************************************************)
(* settle_batch pays a receipt once: whatever was submitted again after a  *)
(* failure, each domain holds exactly the tariffs up to the settled seq.   *)
(***************************************************************************)
THEOREM PaidOnce ==
  ASSUME AboveDust
  PROVE  Spec => []PayoutsEqualPayments
<1>1. IInv => PayoutsEqualPayments
  <2> SUFFICES ASSUME IInv, NEW d \in Domains
               PROVE  paid[d] = Leg([from |-> 1, to |-> account.last_seq], d)
    BY DEF PayoutsEqualPayments
  <2>1. PICK b : b = [from |-> 1, to |-> account.last_seq]
    OBVIOUS
  <2>2. Leg(b, d) = OwedBy(receipts, 1..account.last_seq, d)
    BY <2>1 DEF Leg, OwedBy, TariffsOf
  <2> QED BY <2>1, <2>2 DEF IInv, LedgerInv
<1>2. QED
  BY <1>1, Invariant, PTL

(***************************************************************************)
(* recordBatch writes what is final and nothing else, in order and without *)
(* a gap, after any number of crashes between a settlement and its row.    *)
(***************************************************************************)
THEOREM RecordIsAnchored ==
  ASSUME AboveDust
  PROVE  Spec => []BatchesAreAnchored
<1>1. IInv => BatchesAreAnchored
  BY DEF IInv, BatchInv, Anchored, BatchesAreAnchored
<1>2. QED
  BY <1>1, Invariant, PTL

(***************************************************************************)
(* findSettlement and settleAgent: whenever the settler comes back, there  *)
(* is at most one settlement it has not recorded, and it follows on the    *)
(* recorded ones, so reading `last_seq` is enough to find it.              *)
(***************************************************************************)
THEOREM RecoveryFindsIt ==
  ASSUME AboveDust
  PROVE  Spec => []Recoverable
<1>1. IInv => Recoverable
  <2> SUFFICES ASSUME IInv PROVE Recoverable
    OBVIOUS
  <2>1. PICK U : U = {i \in 1..Len(txs) : txs[i].status = "landed" /\ txs[i].to > Recorded}
    OBVIOUS
  <2>2. PICK last \in Nat : last = Recorded /\ last <= finalized.last_seq /\ finalized.last_seq \in Nat
    BY RecordedIsFinal DEF IInv
  <2>3. \A i \in 1..Len(txs) : /\ txs[i].from \in Nat /\ txs[i].to \in Nat
                               /\ txs[i].from <= txs[i].to /\ txs[i].from <= last + 1
    BY <2>2, TransactionTypes DEF IInv, TxInv, Sound
  <2>4. ASSUME NEW i \in U
        PROVE  txs[i].from = last + 1
    <3>1. SUFFICES ASSUME txs[i].from <= last PROVE FALSE
      BY <2>1, <2>2, <2>3
    <3>2. i \in 1..Len(txs) /\ txs[i].status = "landed" /\ txs[i].to > last
      BY <2>1, <2>2
    <3>3. last # 0 \/ txs[i].from = 0
      BY <2>3, <3>1, <3>2
    <3>4. txs[i].from # 0
      BY <3>2, TransactionTypes DEF IInv
    <3>5. PICK j \in 1..Len(txs) : txs[j].status = "landed" /\ txs[j].to = last
      BY <2>2, <3>3, <3>4, RecordedIsFinal DEF IInv
    <3>6. txs[i].to < txs[j].from \/ txs[j].to < txs[i].from
      BY <2>2, <2>3, <3>2, <3>5 DEF IInv, TxInv
    <3> QED BY <2>3, <3>1, <3>2, <3>5, <3>6
  <2>5. ASSUME NEW i \in U, NEW j \in U
        PROVE  i = j
    <3>1. i \in 1..Len(txs) /\ j \in 1..Len(txs) /\ txs[i].status = "landed" /\ txs[j].status = "landed"
      BY <2>1
    <3>2. txs[i].from = txs[j].from
      BY <2>4
    <3>3. i # j => txs[i].to < txs[j].from \/ txs[j].to < txs[i].from
      BY <3>1 DEF IInv, TxInv
    <3> QED BY <2>3, <3>1, <3>2, <3>3
  <2>6. Cardinality(U) <= 1
    <3>1. CASE U = {}
      BY <3>1, FS_EmptySet
    <3>2. CASE U # {}
      <4>1. PICK i \in U : TRUE
        BY <3>2
      <4>2. U = {i}
        BY <2>5
      <4>3. Cardinality({i}) = 1
        BY FS_Singleton
      <4> QED BY <4>2, <4>3
    <3> QED BY <3>1, <3>2
  <2> QED BY <2>1, <2>2, <2>4, <2>6 DEF Recoverable
<1>2. QED
  BY <1>1, Invariant, PTL

-----------------------------------------------------------------------------
(* Seen from outside.                                                      *)

\* What the ledger says is owed is what the escrow owes.
LEMMA OwedAlike ==
  ASSUME NEW rs, NEW from, NEW to, NEW d
  PROVE  Ledger!Owed(rs, from, to, d) = OwedBy(rs, from..to, d)
<1>1. ASSUME NEW f, NEW S
      PROVE  Ledger!SumFunctionOnSet(f, S) = SumFunctionOnSet(f, S)
  BY DEF SumFunctionOnSet, Ledger!SumFunctionOnSet, FoldFunctionOnSet, Ledger!FoldFunctionOnSet,
         MapThenFoldSet, Ledger!MapThenFoldSet
<1>2. QED
  BY <1>1 DEF OwedBy, TariffsOf, Ledger!Owed

\* A step that neither accepts, settles nor records is none of the ledger's.
LEMMA LedgerStays ==
  ASSUME UNCHANGED <<receipts, batches, paid>>, account'.last_seq = account.last_seq
  PROVE  UNCHANGED Ledger!ledger
<1>1. Recorded' = Recorded
  BY DEF Recorded
<1>2. QED
  BY <1>1 DEF Ledger!ledger

\* Each step of the settler, the cluster or the agent is one of the ledger, or none.
LEMMA LedgerSteps ==
  ASSUME AboveDust, IInv, [Next]_vars
  PROVE  [Ledger!LedgerNext]_Ledger!ledger
<1>1. CASE UNCHANGED vars
  BY <1>1, LedgerStays DEF vars, agentVars
<1>2. ASSUME NEW domain \in Domains, NEW tariff \in Tariffs, Accept(domain, tariff)
      PROVE  Ledger!LedgerNext
  <2>1. PICK r : r = [domain |-> domain, tariff |-> tariff]
    OBVIOUS
  <2>2. r \in Ledger!Receipt
    BY <2>1 DEF Ledger!Receipt
  <2>3. receipts' = Append(receipts, r) /\ UNCHANGED <<account, paid, batches>>
    BY <1>2, <2>1 DEF Accept
  <2>4. Recorded' = Recorded
    BY <2>3 DEF Recorded
  <2>5. Ledger!Accept(r)
    BY <2>3, <2>4 DEF Ledger!Accept
  <2> QED BY <2>2, <2>5 DEF Ledger!LedgerNext
<1>3. ASSUME NEW i \in 1..Len(txs), Land(i)
      PROVE  [Ledger!LedgerNext]_Ledger!ledger
  <2>1. UNCHANGED <<receipts, batches>>
    BY <1>3 DEF Land, agentVars
  <2>2. CASE UNCHANGED <<account, paid>>
    BY <2>1, <2>2, LedgerStays
  <2>3. CASE ~ UNCHANGED <<account, paid>>
    <3>1. PICK n : n = account'.last_seq
      OBVIOUS
    <3>2. /\ n \in account.last_seq + 1..Len(receipts)
          /\ paid' = [d \in Domains |-> paid[d] + OwedBy(receipts, account.last_seq + 1..n, d)]
      BY <1>3, <2>3, <3>1, LandKeeps
    <3>3. Recorded' = Recorded
      BY <2>1 DEF Recorded
    <3>4. Ledger!SettleTo(n)
      BY <2>1, <3>1, <3>2, <3>3, OwedAlike DEF Ledger!SettleTo
    <3> QED BY <3>2, <3>4 DEF Ledger!LedgerNext
  <2> QED BY <2>2, <2>3
<1>4. CASE Record
  <2>1. UNCHANGED <<receipts, account, paid>>
    BY <1>4 DEF Record, agentVars
  <2>2. PICK n : n = Recorded'
    OBVIOUS
  <2>3. n \in Recorded + 1..account.last_seq
    <3>1. n = batch.to /\ Recorded < batch.to /\ batch.to <= account.last_seq
      BY <1>4, <2>2, RecordKeeps
    <3>2. Recorded \in Nat /\ account.last_seq \in Nat /\ batch.to \in 0..MaxSeq /\ MaxSeq \in Nat
      BY RecordedIsFinal, SettlerAssumption DEF IInv, TypeInv, Range2
    <3> QED BY <3>1, <3>2
  <2>4. Ledger!PublishTo(n)
    BY <2>1, <2>2 DEF Ledger!PublishTo
  <2> QED BY <2>3, <2>4 DEF Ledger!LedgerNext
<1>5. ASSUME NEW amount \in Amounts, Deposit(amount)
      PROVE  UNCHANGED Ledger!ledger
  BY <1>5, LedgerStays, DepositStep, SettlerAssumption DEF Deposit, agentVars, IInv, TypeInv
<1>6. CASE RequestWithdraw
  <2>1. 0 \in Nat /\ account \in AccountType(Chains)
    BY DEF IInv, TypeInv
  <2>2. AfterRequest(account, 0).last_seq = account.last_seq
    BY <2>1, RequestStep
  <2> QED BY <1>6, <2>2, LedgerStays DEF RequestWithdraw, agentVars
<1>7. CASE Withdraw
  BY <1>7, LedgerStays, WithdrawStep DEF Withdraw, agentVars, IInv, TypeInv
<1>8. CASE Finalize
  BY <1>8, LedgerStays DEF Finalize, agentVars
<1>9. ASSUME NEW i \in 1..Len(txs), Expire(i)
      PROVE  UNCHANGED Ledger!ledger
  BY <1>9, LedgerStays DEF Expire, agentVars
<1>10. CASE Tick \/ Recover \/ Skip \/ Compose \/ Submit \/ Await \/ Fault
  BY <1>10, LedgerStays DEF Tick, Recover, Skip, Compose, Submit, Await, Fault, agentVars
<1>11. QED
  BY <1>1, <1>2, <1>3, <1>4, <1>5, <1>6, <1>7, <1>8, <1>9, <1>10 DEF Next, SettlerStep

(***************************************************************************)
(* The settler, the cluster and the agent together do nothing but what the *)
(* ledger allows: a settlement pays the next receipts their tariffs, and a *)
(* record publishes only what is settled, through any failure and restart. *)
(***************************************************************************)
THEOREM KeepsTheLedger ==
  ASSUME AboveDust
  PROVE  Spec => ImplementsLedger
<1>1. Init => Ledger!LedgerInit
  <2>1. Opened.last_seq = 0
    BY DEF Opened
  <2> QED BY <2>1 DEF Init, Ledger!LedgerInit, Recorded
<1>2. IInv /\ [Next]_vars => [Ledger!LedgerNext]_Ledger!ledger
  BY LedgerSteps
<1>3. QED
  BY <1>1, <1>2, Invariant, PTL DEF Spec, ImplementsLedger, Ledger!LedgerSpec

-----------------------------------------------------------------------------
(* More about sums.                                                        *)

\* For each key, what the terms with that key come to.
Parts(part, K, key, f, S) ==
  /\ \A x \in S : key[x] \in K
  /\ \A k \in K : part[k] = SumFunctionOnSet(f, {x \in S : key[x] = k})

\* A sum taken part by part.
LEMMA SumByParts ==
  ASSUME NEW f, NEW S, IsFiniteSet(S), \A x \in S : f[x] \in Int,
         NEW K, IsFiniteSet(K), NEW key, NEW part, Parts(part, K, key, f, S)
  PROVE  SumFunctionOnSet(part, K) = SumFunctionOnSet(f, S)
<1> DEFINE Of(U) == {x \in S : key[x] \in U}
<1>0. (\A x \in S : key[x] \in K) /\ \A k \in K : part[k] = SumFunctionOnSet(f, {x \in S : key[x] = k})
  BY DEF Parts
<1>1. \A U \in SUBSET K : IsFiniteSet(U)
  BY FS_Subset
<1>2. ASSUME NEW T \in SUBSET S
      PROVE  IsFiniteSet(T) /\ SumFunctionOnSet(f, T) \in Int
  <2>1. IsFiniteSet(T) /\ \A x \in T : f[x] \in Int
    BY FS_Subset
  <2> QED BY <2>1, SumStep
<1>3. \A k \in K : part[k] \in Int
  <2> SUFFICES ASSUME NEW k \in K PROVE part[k] \in Int
    OBVIOUS
  <2>1. PICK T : T = {x \in S : key[x] = k}
    OBVIOUS
  <2> QED BY <1>0, <1>2, <2>1
<1>4. PICK Bad : Bad = {U \in SUBSET K : SumFunctionOnSet(part, U) # SumFunctionOnSet(f, Of(U))}
  OBVIOUS
<1>5. ASSUME Bad # {}
      PROVE  FALSE
  <2>1. PICK U \in Bad : \A V \in SUBSET U : V # U => V \notin Bad
    <3>1. Bad \in SUBSET (SUBSET K)
      BY <1>4
    <3> QED BY <1>5, <3>1, SmallestSet
  <2>2. U \in SUBSET K /\ SumFunctionOnSet(part, U) # SumFunctionOnSet(f, Of(U))
    BY <1>4
  <2>3. U # {}
    <3>1. ASSUME U = {}
          PROVE  FALSE
      <4>1. Of(U) = {}
        BY <3>1
      <4>2. SumFunctionOnSet(part, U) = 0
        BY <3>1, SumEmpty
      <4>3. SumFunctionOnSet(f, Of(U)) = 0
        BY <4>1, SumEmpty
      <4> QED BY <2>2, <4>2, <4>3
    <3> QED BY <3>1
  <2>4. PICK k : k \in U
    BY <2>3
  <2>5. PICK V, A, B : V = U \ {k} /\ A = {x \in S : key[x] = k} /\ B = Of(V)
    OBVIOUS
  <2>6. SumFunctionOnSet(part, V) = SumFunctionOnSet(f, B)
    BY <1>4, <2>1, <2>2, <2>4, <2>5
  <2>7. SumFunctionOnSet(part, U) = part[k] + SumFunctionOnSet(part, V)
    <3>1. IsFiniteSet(U) /\ \A u \in U : part[u] \in Int
      BY <1>1, <1>3, <2>2
    <3> QED BY <2>4, <2>5, <3>1, SumStep
  <2>8. part[k] = SumFunctionOnSet(f, A)
    BY <1>0, <2>2, <2>4, <2>5
  <2>9. Of(U) = A \cup B /\ A \cap B = {} /\ A \in SUBSET S /\ B \in SUBSET S
    BY <2>2, <2>4, <2>5
  <2>10. SumFunctionOnSet(f, A \cup B) = SumFunctionOnSet(f, A) + SumFunctionOnSet(f, B)
    <3>1. IsFiniteSet(A) /\ IsFiniteSet(B) /\ \A x \in A \cup B : f[x] \in Int
      BY <1>2, <2>9
    <3> QED BY <2>9, <3>1, SumUnion
  <2>11. SumFunctionOnSet(f, Of(U)) = SumFunctionOnSet(f, A) + SumFunctionOnSet(f, B)
    BY ONLY <2>9, <2>10
  <2> QED BY <2>2, <2>6, <2>7, <2>8, <2>11
<1>6. K \in SUBSET K /\ Of(K) = S
  BY <1>0
<1>7. SumFunctionOnSet(part, K) = SumFunctionOnSet(f, Of(K))
  BY <1>4, <1>5, <1>6
<1>8. QED
  BY ONLY <1>6, <1>7

\* Counting is summing ones.
LEMMA SumOnes ==
  ASSUME NEW f, NEW S, IsFiniteSet(S), \A x \in S : f[x] = 1
  PROVE  SumFunctionOnSet(f, S) = Cardinality(S)
<1>1. PICK Bad : Bad = {T \in SUBSET S : SumFunctionOnSet(f, T) # Cardinality(T)}
  OBVIOUS
<1>2. ASSUME Bad # {}
      PROVE  FALSE
  <2>1. PICK T \in Bad : \A V \in SUBSET T : V # T => V \notin Bad
    <3>1. Bad \in SUBSET (SUBSET S)
      BY <1>1
    <3> QED BY <1>2, <3>1, SmallestSet
  <2>2. T \in SUBSET S /\ SumFunctionOnSet(f, T) # Cardinality(T) /\ IsFiniteSet(T)
    BY <1>1, FS_Subset
  <2>3. T # {}
    BY <2>2, SumEmpty, FS_EmptySet
  <2>4. PICK x : x \in T
    BY <2>3
  <2>5. SumFunctionOnSet(f, T \ {x}) = Cardinality(T \ {x})
    BY <1>1, <2>1, <2>2, <2>4
  <2>6. SumFunctionOnSet(f, T) = 1 + SumFunctionOnSet(f, T \ {x})
    <3>1. \A z \in T : f[z] \in Int
      BY <2>2
    <3>2. SumFunctionOnSet(f, T) = f[x] + SumFunctionOnSet(f, T \ {x})
      BY <2>2, <2>4, <3>1, SumStep
    <3> QED BY <2>2, <2>4, <3>2
  <2>7. Cardinality(T \ {x}) = Cardinality(T) - 1 /\ Cardinality(T) \in Nat
    BY <2>2, <2>4, FS_RemoveElement, FS_CardinalityType
  <2> QED BY <2>2, <2>5, <2>6, <2>7
<1>3. QED
  BY <1>1, <1>2

-----------------------------------------------------------------------------
(* The figures of a period: what a browser holds of the ledger, and when   *)
(* it was read.                                                            *)

Standings == {"accrued", "settled"}

RowSets == UNION {[S -> Standings] : S \in SUBSET Receipts}

Readings == [latest : BOOLEAN, period : Periods, to : Nat,
             answer : {"none", "limited", "unauthorized", "rows"}, rows : RowSets \cup {<< >>}]

Screens == [to : Nat, period : Periods, rows : RowSets]

SummaryTypes ==
  /\ ledger \in [Receipts -> {"none", "accrued", "settled"}] /\ accepted \in [Receipts -> Nat]
  /\ clock \in Nat /\ period \in Periods
  /\ reads \in SUBSET Readings
  /\ \A read \in reads : read.answer = "rows" => read.rows \in RowSets
  /\ shown \in {Nothing} \cup Screens

\* The browser's now.
Instant == IF clock > Behind THEN clock - Behind ELSE 0

\* What was read was so, and of what is settled nothing changes.
StillSo(rows, to) ==
  \A r \in DOMAIN rows :
    /\ r \in Receipts /\ ledger[r] # "none" /\ accepted[r] < to
    /\ rows[r] = "settled" => ledger[r] = "settled"

OfThePeriod ==
  /\ \A read \in reads :
       /\ read.period = period /\ read.to <= Instant
       /\ read.answer = "rows" => StillSo(read.rows, read.to)
  /\ shown # Nothing =>
       shown.period = period /\ shown.to <= Instant /\ StillSo(shown.rows, shown.to)

OneLatest == \A a, b \in reads : a.latest /\ b.latest => a = b

\* Of a receipt that is still inside the window.
Keeps(old, new, to) ==
  \A r \in DOMAIN old :
    to <= accepted[r] + Length[period] =>
      r \in DOMAIN new /\ (old[r] = "settled" => new[r] = "settled")

LatestIsLater ==
  shown # Nothing =>
    \A read \in reads :
      read.latest =>
        /\ shown.to <= read.to
        /\ read.answer = "rows" => Keeps(shown.rows, read.rows, read.to)

SummaryInv == SummaryTypes /\ OfThePeriod /\ OneLatest /\ LatestIsLater

\* Figures on the screen are not the absence of figures.
LEMMA ScreenIsSomething ==
  ASSUME NEW s \in Screens
  PROVE  s # Nothing
<1>1. DOMAIN s = {"to", "period", "rows"}
  BY DEF Screens
<1>2. DOMAIN Nothing = {"to"}
  BY DEF Nothing
<1>3. QED
  BY ONLY <1>1, <1>2

\* What a read finds is so, and leaves out no receipt of the period.
LEMMA RowsAreSo ==
  ASSUME SummaryTypes, SummaryAssumption, NEW p \in Periods, NEW to \in Nat
  PROVE  /\ Rows(p, to) \in RowSets
         /\ StillSo(Rows(p, to), to)
         /\ \A r \in Receipts : 
              ledger[r] # "none" /\ accepted[r] < to /\ to <= accepted[r] + Length[p] =>
                r \in DOMAIN Rows(p, to) /\ Rows(p, to)[r] = ledger[r]
<1>1. PICK S : S = {s \in Issued : InWindow(s, periodWindow(p, to))}
  OBVIOUS
<1>2. Rows(p, to) = [r \in S |-> ledger[r]]
  BY <1>1 DEF Rows
<1>3. /\ periodWindow(p, to).to = to
      /\ periodWindow(p, to).from = to - Length[p]
  BY DEF periodWindow
<1>4. S \in SUBSET Receipts /\ \A r \in S : ledger[r] \in Standings /\ ledger[r] # "none" /\ accepted[r] < to
  BY <1>1, <1>3 DEF Issued, InWindow, SummaryTypes, Standings
<1>5. Rows(p, to) \in RowSets
  <2>1. Rows(p, to) \in [S -> Standings]
    BY <1>2, <1>4
  <2> QED BY <1>4, <2>1 DEF RowSets
<1>6. StillSo(Rows(p, to), to)
  BY <1>2, <1>4 DEF StillSo
<1>7. ASSUME NEW r \in Receipts, ledger[r] # "none", accepted[r] < to, to <= accepted[r] + Length[p]
      PROVE  r \in S
  <2>1. to - Length[p] <= accepted[r]
    <3>1. PICK n : n = Length[p]
      OBVIOUS
    <3>2. n \in Nat /\ accepted[r] \in Nat
      BY <3>1 DEF SummaryTypes, SummaryAssumption
    <3> QED BY <1>7, <3>1, <3>2
  <2> QED BY <1>1, <1>3, <1>7, <2>1 DEF Issued, InWindow
<1>8. QED
  BY <1>2, <1>5, <1>6, <1>7

\* A step that leaves the ledger, the clock and the screen alone, and the reads or their end.
LEMMA SummaryKept ==
  ASSUME SummaryInv, UNCHANGED <<ledgerVars, period, shown>>, reads' = reads \/ reads' = {}
  PROVE  SummaryInv'
<1> USE DEF SummaryInv, SummaryTypes, ledgerVars
<1>1. reads' \in SUBSET reads
  OBVIOUS
<1>2. SummaryTypes'
  BY <1>1 DEF Readings, Screens, Nothing
<1>3. OfThePeriod'
  BY <1>1 DEF OfThePeriod, Instant, StillSo, Nothing
<1>4. OneLatest'
  BY <1>1 DEF OneLatest
<1>5. LatestIsLater'
  BY <1>1 DEF LatestIsLater, Keeps, Nothing
<1>6. QED
  BY <1>2, <1>3, <1>4, <1>5

\* What is issued or settled changes nothing that was read.
LEMMA LedgerChanges ==
  ASSUME SummaryInv, SummaryAssumption, NEW q \in Receipts, Issue(q) \/ Settle(q)
  PROVE  SummaryInv'
<1> USE DEF SummaryInv
<1>1. /\ UNCHANGED <<clock, period, reads, shown>>
      /\ ledger' \in [Receipts -> {"none", "accrued", "settled"}] /\ accepted' \in [Receipts -> Nat]
      /\ \A r \in Receipts : ledger[r] # "none" =>
           accepted'[r] = accepted[r] /\ ledger'[r] # "none" /\ (ledger[r] = "settled" => ledger'[r] = "settled")
  BY DEF Issue, Settle, SummaryTypes
<1>2. SummaryTypes'
  BY <1>1 DEF SummaryTypes, Nothing
<1>3. \A rows, to : StillSo(rows, to) => StillSo(rows, to)'
  BY <1>1 DEF StillSo
<1>4. Instant' = Instant
  BY <1>1 DEF Instant
<1>5. OfThePeriod'
  BY <1>1, <1>3, <1>4 DEF OfThePeriod, Nothing, StillSo
<1>6. OneLatest'
  BY <1>1 DEF OneLatest
<1>7. ASSUME shown # Nothing, NEW read \in reads, Keeps(shown.rows, read.rows, read.to)
      PROVE  Keeps(shown.rows, read.rows, read.to)'
  <2>1. \A r \in DOMAIN shown.rows : r \in Receipts /\ ledger[r] # "none"
    BY <1>7 DEF OfThePeriod, StillSo
  <2> QED BY <1>1, <1>7, <2>1 DEF Keeps
<1>8. LatestIsLater'
  BY <1>1, <1>7 DEF LatestIsLater, Nothing
<1>9. QED
  BY <1>2, <1>5, <1>6, <1>8

\* Time makes a read older, and no two of them another order.
LEMMA ClockStep ==
  ASSUME SummaryInv, SummaryAssumption, TimePasses
  PROVE  SummaryInv'
<1> USE DEF SummaryInv
<1>1. UNCHANGED <<ledger, accepted, period, reads, shown>> /\ clock' = clock + 1 /\ clock \in Nat /\ Behind \in Nat
  BY DEF TimePasses, attemptVars, SummaryTypes, SummaryAssumption
<1>2. SummaryTypes'
  BY <1>1 DEF SummaryTypes, Nothing
<1>3. Instant \in Nat /\ Instant' \in Nat /\ Instant <= Instant'
  BY <1>1 DEF Instant
<1>4. OfThePeriod'
  <2>1. ASSUME NEW read \in reads
        PROVE  read.period = period /\ read.to <= Instant' /\ (read.answer = "rows" => StillSo(read.rows, read.to))
    BY <1>3, <2>1 DEF OfThePeriod, SummaryTypes, Readings
  <2>2. ASSUME shown # Nothing
        PROVE  shown.period = period /\ shown.to <= Instant' /\ StillSo(shown.rows, shown.to)
    BY <1>3, <2>2 DEF OfThePeriod, SummaryTypes, Screens
  <2> QED BY <1>1, <2>1, <2>2 DEF OfThePeriod, Nothing, StillSo
<1>5. OneLatest'
  BY <1>1 DEF OneLatest
<1>6. LatestIsLater'
  BY <1>1 DEF LatestIsLater, Keeps, Nothing
<1>7. QED
  BY <1>2, <1>4, <1>5, <1>6

\* A new read is asked for later than any other, and for the period now chosen.
LEMMA AskStep ==
  ASSUME SummaryInv, SummaryAssumption, Ask, UNCHANGED <<ledgerVars, period, shown>>
  PROVE  SummaryInv'
<1> USE DEF SummaryInv
<1>1. PICK new : new = [latest |-> TRUE, period |-> period, to |-> Instant, answer |-> "none", rows |-> << >>]
  OBVIOUS
<1>2. PICK older : older = {[read EXCEPT !.latest = FALSE] : read \in reads}
  OBVIOUS
<1>3. reads' = older \cup {new}
  BY <1>1, <1>2 DEF Ask, Instant
<1>4. Instant \in Nat /\ Instant' = Instant
  BY DEF Instant, SummaryTypes, SummaryAssumption, ledgerVars
<1>5. new \in Readings
  BY <1>1, <1>4 DEF SummaryTypes, Readings
<1>6. ASSUME NEW read \in older
      PROVE  /\ read \in Readings /\ read.latest = FALSE
             /\ read.period = period /\ read.to <= Instant
             /\ read.answer = "rows" => read.rows \in RowSets /\ StillSo(read.rows, read.to)
  <2>1. PICK was \in reads : read = [was EXCEPT !.latest = FALSE]
    BY <1>2
  <2>2. was \in Readings
    BY DEF SummaryTypes
  <2>3. read \in Readings /\ read.latest = FALSE /\ read.period = was.period /\ read.to = was.to
        /\ read.answer = was.answer /\ read.rows = was.rows
    BY <2>1, <2>2 DEF Readings
  <2> QED BY <2>3 DEF OfThePeriod, SummaryTypes
<1>7. new.latest = TRUE /\ new.period = period /\ new.to = Instant /\ new.answer = "none"
  BY <1>1
<1>8. SummaryTypes'
  <2>1. reads' \in SUBSET Readings
    BY <1>3, <1>5, <1>6
  <2>2. ASSUME NEW read \in reads'
        PROVE  read.answer = "rows" => read.rows \in RowSets
    <3>1. CASE read = new
      BY <1>7, <3>1
    <3>2. CASE read \in older
      BY <1>6, <3>2
    <3> QED BY <1>3, <3>1, <3>2
  <2> QED BY <2>1, <2>2 DEF SummaryTypes, ledgerVars, Nothing
<1>9. OfThePeriod'
  <2>1. \A rows, to : StillSo(rows, to)' = StillSo(rows, to)
    BY DEF StillSo, ledgerVars
  <2>2. ASSUME NEW read \in reads'
        PROVE  /\ read.period = period /\ read.to <= Instant
               /\ read.answer = "rows" => StillSo(read.rows, read.to)
    <3>1. CASE read = new
      BY <1>4, <1>7, <3>1
    <3>2. CASE read \in older
      BY <1>6, <3>2
    <3> QED BY <1>3, <3>1, <3>2
  <2>3. shown # Nothing => shown.period = period /\ shown.to <= Instant /\ StillSo(shown.rows, shown.to)
    BY DEF OfThePeriod
  <2> QED BY <1>4, <2>1, <2>2, <2>3 DEF OfThePeriod, Nothing, StillSo, ledgerVars
<1>10. OneLatest'
  BY <1>3, <1>6 DEF OneLatest
<1>11. LatestIsLater'
  <2>1. ASSUME shown # Nothing, NEW read \in reads', read.latest
        PROVE  shown.to <= read.to /\ read.answer # "rows"
    <3>1. read = new
      BY <1>3, <1>6, <2>1
    <3> QED BY <1>7, <2>1, <3>1 DEF OfThePeriod
  <2> QED BY <2>1 DEF LatestIsLater, Nothing
<1>12. QED
  BY <1>8, <1>9, <1>10, <1>11

\* The gateway answers with the ledger as it is, which is no older than anything shown.
LEMMA AnswerStep ==
  ASSUME SummaryInv, SummaryAssumption, NEW read \in reads, Answer(read)
  PROVE  SummaryInv'
<1> USE DEF SummaryInv
<1>1. PICK new : new = Answered(read)
  OBVIOUS
<1>2. reads' = (reads \ {read}) \cup {new} /\ UNCHANGED <<ledger, accepted, clock, period, shown>>
  BY <1>1 DEF Answer, ledgerVars
<1>3. read \in Readings /\ read.period = period /\ read.to <= Instant /\ read.answer = "none"
  BY DEF SummaryTypes, OfThePeriod, Answer
<1>4. /\ Rows(read.period, read.to) \in RowSets /\ StillSo(Rows(read.period, read.to), read.to)
      /\ \A r \in Receipts : 
           ledger[r] # "none" /\ accepted[r] < read.to /\ read.to <= accepted[r] + Length[read.period] =>
             r \in DOMAIN Rows(read.period, read.to) /\ Rows(read.period, read.to)[r] = ledger[r]
  <2>1. read.to \in Nat /\ read.period \in Periods
    BY <1>3 DEF Readings
  <2> QED BY <2>1, RowsAreSo
<1>5. /\ new \in Readings /\ new.latest = read.latest /\ new.period = read.period /\ new.to = read.to
      /\ new.answer = "rows" => new.rows = Rows(read.period, read.to)
  <2>1. \/ new = [read EXCEPT !.answer = "limited"]
        \/ new = [read EXCEPT !.answer = "unauthorized"]
        \/ new = [read EXCEPT !.answer = "rows", !.rows = Rows(read.period, read.to)]
    BY <1>1 DEF Answered
  <2>2. PICK rows : rows = Rows(read.period, read.to)
    OBVIOUS
  <2> QED BY <1>3, <1>4, <2>1, <2>2 DEF Readings
<1>6. SummaryTypes'
  BY <1>2, <1>4, <1>5 DEF SummaryTypes, Nothing
<1>7. OfThePeriod'
  <2>1. \A rows, to : StillSo(rows, to)' = StillSo(rows, to)
    BY <1>2 DEF StillSo
  <2>2. ASSUME NEW other \in reads'
        PROVE  /\ other.period = period /\ other.to <= Instant
               /\ other.answer = "rows" => StillSo(other.rows, other.to)
    BY <1>2, <1>3, <1>4, <1>5 DEF OfThePeriod
  <2>3. shown # Nothing => shown.period = period /\ shown.to <= Instant /\ StillSo(shown.rows, shown.to)
    BY DEF OfThePeriod
  <2>4. Instant' = Instant
    BY <1>2 DEF Instant
  <2> QED BY <1>2, <2>1, <2>2, <2>3, <2>4 DEF OfThePeriod, Nothing, StillSo
<1>8. OneLatest'
  BY <1>2, <1>5 DEF OneLatest
<1>9. ASSUME shown # Nothing, new.latest, new.answer = "rows"
      PROVE  Keeps(shown.rows, new.rows, new.to)
  <2>1. shown.to <= read.to /\ shown.to \in Nat /\ read.to \in Nat
    <3>1. shown \in Screens
      BY <1>9 DEF SummaryTypes
    <3> QED BY <1>3, <1>5, <1>9, <3>1 DEF LatestIsLater, Readings, Screens
  <2>2. SUFFICES ASSUME NEW r \in DOMAIN shown.rows, new.to <= accepted[r] + Length[period]
                 PROVE  r \in DOMAIN new.rows /\ (shown.rows[r] = "settled" => new.rows[r] = "settled")
    BY DEF Keeps
  <2>3. /\ r \in Receipts /\ ledger[r] # "none" /\ accepted[r] < shown.to
        /\ shown.rows[r] = "settled" => ledger[r] = "settled"
    BY <1>9 DEF OfThePeriod, StillSo
  <2>4. accepted[r] < read.to
    BY <2>1, <2>3 DEF SummaryTypes
  <2> QED BY <1>3, <1>4, <1>5, <1>9, <2>2, <2>3, <2>4
<1>10. LatestIsLater'
  <2>1. ASSUME shown # Nothing, NEW other \in reads', other.latest
        PROVE  shown.to <= other.to /\ (other.answer = "rows" => Keeps(shown.rows, other.rows, other.to))
    <3>1. CASE other = new
      BY <1>5, <1>9, <2>1, <3>1 DEF LatestIsLater
    <3>2. CASE other # new
      BY <1>2, <2>1, <3>2 DEF LatestIsLater
    <3> QED BY <3>1, <3>2
  <2> QED BY <1>2, <2>1 DEF LatestIsLater, Keeps, Nothing
<1>11. QED
  BY <1>6, <1>7, <1>8, <1>10

\* Of an answer that is shown no other is the latest, so that nothing earlier follows it.
LEMMA ShowStep ==
  ASSUME SummaryInv, SummaryAssumption, NEW read \in reads, read.answer = "rows",
         Show(read), reads' = reads \ {read}, UNCHANGED <<ledgerVars, period>>
  PROVE  SummaryInv'
<1>1. CASE ~ read.latest
  <2>1. shown' = shown /\ reads' \in SUBSET reads
    BY <1>1 DEF Show
  <2> USE DEF SummaryInv, SummaryTypes, ledgerVars
  <2>2. SummaryTypes'
    BY <2>1 DEF Readings, Screens, Nothing
  <2>3. OfThePeriod'
    BY <2>1 DEF OfThePeriod, Instant, StillSo, Nothing
  <2>4. OneLatest'
    BY <2>1 DEF OneLatest
  <2>5. LatestIsLater'
    BY <2>1 DEF LatestIsLater, Keeps, Nothing
  <2>6. QED
    BY <2>2, <2>3, <2>4, <2>5
<1>2. CASE read.latest
  <2> USE DEF SummaryInv
  <2>1. PICK new : new = [to |-> read.to, period |-> read.period, rows |-> read.rows]
    OBVIOUS
  <2>2. shown' = new
    BY <1>2, <2>1 DEF Show
  <2>3. /\ read \in Readings /\ read.rows \in RowSets /\ read.period = period /\ read.to <= Instant
        /\ StillSo(read.rows, read.to)
    BY DEF SummaryTypes, OfThePeriod
  <2>4. new \in Screens
    BY <2>1, <2>3 DEF Screens, Readings
  <2>5. SummaryTypes'
    BY <2>2, <2>4 DEF SummaryTypes, ledgerVars
  <2>6. OfThePeriod'
    <3>1. \A rows, to : StillSo(rows, to)' = StillSo(rows, to)
      BY DEF StillSo, ledgerVars
    <3>2. ASSUME NEW other \in reads'
          PROVE  /\ other.period = period /\ other.to <= Instant
                 /\ other.answer = "rows" => StillSo(other.rows, other.to)
      BY DEF OfThePeriod
    <3>3. Instant' = Instant
      BY DEF Instant, ledgerVars
    <3>4. new.period = period /\ new.to <= Instant /\ StillSo(new.rows, new.to)
      BY <2>1, <2>3
    <3> QED BY <2>2, <3>1, <3>2, <3>3, <3>4 DEF OfThePeriod, StillSo, ledgerVars
  <2>7. OneLatest'
    BY DEF OneLatest
  <2>8. \A other \in reads' : ~ other.latest
    BY <1>2 DEF OneLatest
  <2>9. LatestIsLater'
    BY <2>8 DEF LatestIsLater
  <2> QED BY <2>5, <2>6, <2>7, <2>9
<1>3. QED
  BY <1>1, <1>2

\* With another period there are no figures and no reads.
LEMMA ChooseStep ==
  ASSUME SummaryInv, NEW p \in Periods, Choose(p)
  PROVE  SummaryInv'
<1> USE DEF SummaryInv
<1>1. UNCHANGED <<ledger, accepted, clock>> /\ period' = p /\ reads' = {} /\ shown' = Nothing
  BY DEF Choose, Ends, ledgerVars
<1>2. SummaryTypes' /\ OfThePeriod' /\ OneLatest' /\ LatestIsLater'
  BY <1>1 DEF SummaryTypes, OfThePeriod, OneLatest, LatestIsLater, Nothing
<1>3. QED
  BY <1>2

\* The summary starts in a state that the invariant holds in.
LEMMA FiguresInit ==
  ASSUME SummaryAssumption, SummaryInit
  PROVE  SummaryInv
<1>1. SummaryTypes
  BY DEF SummaryAssumption, SummaryInit, SummaryTypes
<1>2. OfThePeriod /\ OneLatest /\ LatestIsLater
  BY DEF SummaryInit, OfThePeriod, OneLatest, LatestIsLater
<1>3. QED
  BY <1>1, <1>2 DEF SummaryInv

\* Every step of the summary keeps it.
LEMMA FiguresStep ==
  ASSUME SummaryAssumption, SummaryInv, [SummaryNext]_summaryVars
  PROVE  SummaryInv'
<1>1. CASE UNCHANGED summaryVars
  BY <1>1, SummaryKept DEF summaryVars, attemptVars, ledgerVars
<1>2. ASSUME NEW q \in Receipts, Issue(q) \/ Settle(q)
      PROVE  SummaryInv'
  BY <1>2, LedgerChanges
<1>3. CASE TimePasses
  BY <1>3, ClockStep
<1>4. CASE Second \/ Rival \/ SessionEnds
  BY <1>4, SummaryKept DEF Second, Rival, SessionEnds, attemptVars, ledgerVars
<1>5. ASSUME NEW answer, Fails(answer)
      PROVE  reads' = {}
  BY <1>5 DEF Fails, Ends
<1>6. CASE Open
  <2>1. UNCHANGED <<ledgerVars, period, shown>>
    BY <1>6 DEF Open
  <2>2. reads' = reads \/ reads' = {}
    <3>1. CASE tokens = 0
      BY <1>5, <1>6, <3>1 DEF Open
    <3>2. CASE tokens > 0 /\ ~ session /\ ~ tokens = 0
      BY <1>5, <1>6, <3>2 DEF Open
    <3>3. CASE ~ tokens = 0 /\ ~ (tokens > 0 /\ ~ session)
      BY <1>6, <3>3 DEF Open
    <3> QED BY <3>1, <3>2, <3>3
  <2> QED BY <2>1, <2>2, SummaryKept
<1>7. CASE Drop
  <2>1. UNCHANGED <<ledgerVars, period, shown>> /\ reads' = {}
    BY <1>5, <1>7 DEF Drop, Ends
  <2> QED BY <2>1, SummaryKept
<1>8. CASE Hear
  <2>1. UNCHANGED <<ledgerVars, period, shown>> /\ (Ask \/ reads' = reads)
    BY <1>8 DEF Hear
  <2> QED BY <2>1, SummaryKept, AskStep
<1>9. CASE TimerFires
  BY <1>9, AskStep DEF TimerFires
<1>10. ASSUME NEW read \in reads, Answer(read)
       PROVE  SummaryInv'
  BY <1>10, AnswerStep
<1>11. ASSUME NEW read \in reads, Arrive(read)
       PROVE  SummaryInv'
  <2>1. UNCHANGED <<ledgerVars, period>>
    BY <1>11 DEF Arrive
  <2>2. CASE read.answer = "rows"
    BY <1>11, <2>1, <2>2, ShowStep DEF Arrive
  <2>3. CASE read.answer # "rows"
    BY <1>5, <1>11, <2>1, <2>3, SummaryKept DEF Arrive
  <2> QED BY <2>2, <2>3
<1>12. ASSUME NEW p \in Periods, Choose(p)
       PROVE  SummaryInv'
  BY <1>12, ChooseStep
<1>13. QED
  BY <1>1, <1>2, <1>3, <1>4, <1>6, <1>7, <1>8, <1>9, <1>10, <1>11, <1>12 DEF SummaryNext

\* The figures are at all times those of the latest answer asked for.
LEMMA FiguresInvariant == SummarySpec => []SummaryInv
<1>1. SummaryInit => SummaryInv
  BY FiguresInit, SummaryAssumption
<1>2. SummaryInv /\ [SummaryNext]_summaryVars => SummaryInv'
  BY FiguresStep, SummaryAssumption
<1>3. QED
  BY <1>1, <1>2, PTL DEF SummarySpec

\* What a step shows in place of figures.
LEMMA ShownLater ==
  ASSUME SummaryInv, [SummaryNext]_summaryVars, shown' \notin {shown, Nothing}
  PROVE  /\ shown'.period = period'
         /\ shown # Nothing => shown'.to >= shown.to
         /\ shown # Nothing =>
              \A r \in DOMAIN shown.rows :
                shown'.to <= accepted[r] + Length[period] =>
                  /\ r \in DOMAIN shown'.rows
                  /\ shown.rows[r] = "settled" => shown'.rows[r] = "settled"
<1>1. PICK read \in reads : Arrive(read) /\ read.answer = "rows"
  BY DEF SummaryNext, summaryVars, attemptVars, Issue, Settle, TimePasses, Second, Rival, SessionEnds,
         Open, Drop, Hear, TimerFires, Answer, Arrive, Choose
<1>2. Show(read) /\ period' = period
  BY <1>1 DEF Arrive
<1>3. read.latest /\ shown' = [to |-> read.to, period |-> read.period, rows |-> read.rows]
  BY <1>2 DEF Show
<1>4. shown'.to = read.to /\ shown'.period = read.period /\ shown'.rows = read.rows
  BY <1>3
<1>5. read.period = period
  BY DEF SummaryInv, OfThePeriod
<1>6. ASSUME shown # Nothing
      PROVE  shown'.to >= shown.to /\ Keeps(shown.rows, read.rows, read.to)
  <2>1. shown.to <= read.to /\ Keeps(shown.rows, read.rows, read.to)
    BY <1>1, <1>3, <1>6 DEF SummaryInv, LatestIsLater
  <2>2. shown.to \in Nat /\ read.to \in Nat
    BY <1>6 DEF SummaryInv, SummaryTypes, Screens, Readings
  <2> QED BY <1>4, <2>1, <2>2
<1>7. QED
  BY <1>2, <1>4, <1>5, <1>6 DEF Keeps

\* The dashboard never goes back: figures that replace others are of the period chosen, are
\* read no earlier, and show as settled all that was shown settled and is still in the
\* window; whatever the order in which requests are answered and answers arrive.
THEOREM NeverGoesBack == SummarySpec => NeverOlder
<1>1. SummaryInv /\ [SummaryNext]_summaryVars =>
        [shown' \notin {shown, Nothing} =>
           /\ shown'.period = period'
           /\ shown # Nothing => shown'.to >= shown.to
           /\ shown # Nothing =>
                \A r \in DOMAIN shown.rows :
                  shown'.to <= accepted[r] + Length[period] =>
                    /\ r \in DOMAIN shown'.rows
                    /\ shown.rows[r] = "settled" => shown'.rows[r] = "settled"]_summaryVars
  BY ShownLater
<1>2. QED
  BY <1>1, FiguresInvariant, PTL DEF SummarySpec, NeverOlder

-----------------------------------------------------------------------------
(* What summaryOf makes of the rows.                                       *)

\* The image of a finite set is finite.
LEMMA ImageFinite ==
  ASSUME NEW S, IsFiniteSet(S), NEW f
  PROVE  IsFiniteSet({f[x] : x \in S})
<1>1. PICK T : T = {f[x] : x \in S}
  OBVIOUS
<1>2. PICK g : g = [x \in S |-> f[x]]
  OBVIOUS
<1>3. g \in Surjection(S, T)
  BY <1>1, <1>2 DEF Surjection
<1>4. QED
  BY <1>1, <1>3, FS_Surjection

KeyOf(rows, r) == [work |-> Sale[r].work, consumer |-> Sale[r].consumer,
                   method |-> Sale[r].method, settled |-> rows[r] = "settled"]

AtKey(rows, key) == {r \in DOMAIN rows : KeyOf(rows, r) = key}

CellAt(rows, key) ==
  [key   |-> key,
   count |-> Cardinality(AtKey(rows, key)),
   total |-> SumFunction([r \in AtKey(rows, key) |-> Sale[r].tariff]),
   fee   |-> SumFunction([r \in AtKey(rows, key) |-> Sale[r].fee])]

CellOf(rows, r) == CellAt(rows, KeyOf(rows, r))

TariffOfSale == [r \in Receipts |-> Sale[r].tariff]

\* A cell is what its key makes of the receipts that have it.
LEMMA CellsOfReceipts ==
  ASSUME SummaryAssumption, NEW rows \in RowSets
  PROVE  /\ DOMAIN rows \in SUBSET Receipts /\ IsFiniteSet(DOMAIN rows)
         /\ \A r \in DOMAIN rows : rows[r] \in Standings
         /\ Cells(rows) = {CellOf(rows, r) : r \in DOMAIN rows}
         /\ IsFiniteSet(Cells(rows))
<1>1. DOMAIN rows \in SUBSET Receipts /\ \A r \in DOMAIN rows : rows[r] \in Standings
  BY DEF RowSets
<1>2. IsFiniteSet(DOMAIN rows)
  BY <1>1, FS_Subset DEF SummaryAssumption
<1>3. Cells(rows) = {CellAt(rows, key) : key \in {KeyOf(rows, r) : r \in DOMAIN rows}}
  BY DEF Cells, CellAt, AtKey, KeyOf
<1>4. Cells(rows) = {CellOf(rows, r) : r \in DOMAIN rows}
  BY <1>3 DEF CellOf
<1>5. IsFiniteSet(Cells(rows))
  <2>1. PICK f : f = [r \in DOMAIN rows |-> CellOf(rows, r)]
    OBVIOUS
  <2>2. IsFiniteSet({f[r] : r \in DOMAIN rows})
    BY <1>2, ImageFinite
  <2>3. {f[r] : r \in DOMAIN rows} = Cells(rows)
    BY <1>4, <2>1
  <2> QED BY <2>2, <2>3
<1>6. QED
  BY <1>1, <1>2, <1>4, <1>5

\* Whatever is added up for each cell adds up over cells to what it does over their receipts.
LEMMA SumOverCells ==
  ASSUME SummaryAssumption, NEW rows \in RowSets, NEW C \in SUBSET Cells(rows),
         NEW f, \A r \in DOMAIN rows : f[r] \in Int,
         NEW part,
         \A r \in DOMAIN rows : CellOf(rows, r) \in C =>
           part[CellOf(rows, r)] = SumFunctionOnSet(f, AtKey(rows, KeyOf(rows, r)))
  PROVE  SumFunctionOnSet(part, C) = SumFunctionOnSet(f, {r \in DOMAIN rows : CellOf(rows, r) \in C})
<1>1. PICK S : S = {r \in DOMAIN rows : CellOf(rows, r) \in C}
  OBVIOUS
<1>2. PICK key : key = [r \in S |-> CellOf(rows, r)]
  OBVIOUS
<1>3. IsFiniteSet(S) /\ IsFiniteSet(C) /\ \A r \in S : f[r] \in Int /\ key[r] \in C
  <2>1. IsFiniteSet(DOMAIN rows) /\ IsFiniteSet(Cells(rows))
    BY CellsOfReceipts
  <2> QED BY <1>1, <1>2, <2>1, FS_Subset
<1>4. ASSUME NEW c \in C
      PROVE  part[c] = SumFunctionOnSet(f, {r \in S : key[r] = c})
  <2>1. PICK q \in DOMAIN rows : c = CellOf(rows, q)
    BY CellsOfReceipts
  <2>2. PICK k : k = KeyOf(rows, q)
    OBVIOUS
  <2>3. ASSUME NEW r \in DOMAIN rows
        PROVE  CellOf(rows, r) = c <=> KeyOf(rows, r) = k
    <3>1. CellOf(rows, r).key = KeyOf(rows, r) /\ c.key = k
      BY <2>1, <2>2 DEF CellOf, CellAt
    <3> QED BY <2>1, <2>2, <3>1 DEF CellOf
  <2>4. {r \in S : key[r] = c} = AtKey(rows, k)
    BY <1>1, <1>2, <2>3 DEF AtKey
  <2> QED BY <2>1, <2>2, <2>4
<1>5. SumFunctionOnSet(part, C) = SumFunctionOnSet(f, S)
  <2>1. IsFiniteSet(S) /\ IsFiniteSet(C)
    BY <1>3
  <2>2. \A r \in S : f[r] \in Int
    BY <1>3
  <2>3. Parts(part, C, key, f, S)
    BY <1>3, <1>4 DEF Parts
  <2> QED BY ONLY <2>1, <2>2, <2>3, SumByParts
<1>6. QED
  BY <1>1, <1>5

\* The total of some cells is what their receipts were charged.
LEMMA CellTotals ==
  ASSUME SummaryAssumption, NEW rows \in RowSets, NEW C \in SUBSET Cells(rows)
  PROVE  /\ IsFiniteSet(C) /\ \A cell \in C : cell.total \in Nat
         /\ Total(C) = SumFunctionOnSet(TariffOfSale, {r \in DOMAIN rows : CellOf(rows, r) \in C})
<1>1. /\ DOMAIN rows \in SUBSET Receipts /\ IsFiniteSet(DOMAIN rows)
      /\ Cells(rows) = {CellOf(rows, r) : r \in DOMAIN rows} /\ IsFiniteSet(Cells(rows))
  BY CellsOfReceipts
<1>2. \A r \in DOMAIN rows : Sale[r].tariff \in Nat /\ TariffOfSale[r] = Sale[r].tariff
  BY <1>1 DEF SummaryAssumption, ReceiptRow, TariffOfSale
<1>3. ASSUME NEW r \in DOMAIN rows
      PROVE  /\ CellOf(rows, r).total = SumFunctionOnSet(TariffOfSale, AtKey(rows, KeyOf(rows, r)))
             /\ CellOf(rows, r).total \in Nat
  <2>1. PICK A, g, h : /\ A = AtKey(rows, KeyOf(rows, r))
                       /\ g = [q \in A |-> Sale[q].tariff] /\ h = TariffOfSale
    OBVIOUS
  <2>2. A \in SUBSET (DOMAIN rows) /\ IsFiniteSet(A)
    BY <1>1, <2>1, FS_Subset DEF AtKey
  <2>3. \A q \in A : g[q] \in Nat /\ g[q] = h[q] /\ h[q] \in Int
    BY <1>2, <2>1, <2>2
  <2>4. SumFunctionOnSet(g, A) = SumFunctionOnSet(h, A)
    BY <2>2, <2>3, SumSame
  <2>5. SumFunctionOnSet(g, A) \in Nat
    BY <2>2, <2>3, SumNat
  <2>6. CellOf(rows, r).total = SumFunction(g)
    BY <2>1 DEF CellOf, CellAt
  <2>7. SumFunction(g) = SumFunctionOnSet(g, A)
    BY <2>1 DEF SumFunction
  <2> QED BY <2>1, <2>4, <2>5, <2>6, <2>7
<1>4. IsFiniteSet(C) /\ \A cell \in C : cell.total \in Nat
  BY <1>1, <1>3, FS_Subset
<1>5. PICK part, f : part = [cell \in C |-> cell.total] /\ f = TariffOfSale
  OBVIOUS
<1>6. SumFunctionOnSet(part, C) = SumFunctionOnSet(f, {r \in DOMAIN rows : CellOf(rows, r) \in C})
  <2>1. \A r \in DOMAIN rows : f[r] \in Int
    BY <1>2, <1>5
  <2>2. \A r \in DOMAIN rows : CellOf(rows, r) \in C =>
          part[CellOf(rows, r)] = SumFunctionOnSet(f, AtKey(rows, KeyOf(rows, r)))
    BY <1>3, <1>5
  <2> QED BY <2>1, <2>2, SumOverCells
<1>7. Total(C) = SumFunctionOnSet(part, C)
  BY <1>5 DEF Total, SumFunction
<1>8. QED
  BY <1>4, <1>5, <1>6, <1>7

\* A table of tallies comes to the total of the cells, by whatever name they are told apart.
LEMMA TablesAgree ==
  ASSUME NEW cells, IsFiniteSet(cells), \A cell \in cells : cell.total \in Nat,
         NEW K, IsFiniteSet(K), NEW name, \A cell \in cells : name[cell] \in K,
         NEW table, DOMAIN table = K, \A k \in K : table[k] = Total({cell \in cells : name[cell] = k})
  PROVE  SumFunction(table) = Total(cells)
<1>1. PICK f : f = [cell \in cells |-> cell.total]
  OBVIOUS
<1>2. \A cell \in cells : f[cell] \in Int
  BY <1>1
<1>3. ASSUME NEW k \in K
      PROVE  table[k] = SumFunctionOnSet(f, {cell \in cells : name[cell] = k})
  <2>1. PICK S, g : S = {cell \in cells : name[cell] = k} /\ g = [cell \in S |-> cell.total]
    OBVIOUS
  <2>2. IsFiniteSet(S) /\ \A cell \in S : f[cell] \in Int /\ g[cell] = f[cell]
    BY <1>1, <1>2, <2>1, FS_Subset
  <2>3. SumFunctionOnSet(g, S) = SumFunctionOnSet(f, S)
    BY <2>2, SumSame
  <2>4. Total(S) = SumFunctionOnSet(g, S)
    BY <2>1 DEF Total, SumFunction
  <2> QED BY <2>1, <2>3, <2>4
<1>4. SumFunctionOnSet(table, K) = SumFunctionOnSet(f, cells)
  <2>1. Parts(table, K, name, f, cells)
    BY <1>3 DEF Parts
  <2> QED BY <1>2, <2>1, SumByParts
<1>5. Total(cells) = SumFunctionOnSet(f, cells)
  BY <1>1 DEF Total, SumFunction
<1>6. QED
  BY <1>4, <1>5 DEF SumFunction

\* Each table that add fills.
LEMMA TalliesAgree ==
  ASSUME NEW cells, IsFiniteSet(cells), \A cell \in cells : cell.total \in Nat, NEW fields
  PROVE  SumFunction(Tallied(cells, fields)) = Total(cells)
<1>1. PICK name : name = [cell \in cells |-> [f \in fields |-> cell.key[f]]]
  OBVIOUS
<1>2. PICK K : K = {name[cell] : cell \in cells}
  OBVIOUS
<1>3. IsFiniteSet(K) /\ \A cell \in cells : name[cell] \in K
  BY <1>2, ImageFinite
<1>4. K = {[f \in fields |-> cell.key[f]] : cell \in cells}
  BY <1>1, <1>2
<1>5. PICK table : table = Tallied(cells, fields)
  OBVIOUS
<1>6. table = [k \in K |-> Total({cell \in cells : [f \in fields |-> cell.key[f]] = k})]
  BY <1>4, <1>5 DEF Tallied
<1>7. ASSUME NEW k \in K
      PROVE  table[k] = Total({cell \in cells : name[cell] = k})
  <2>1. {cell \in cells : name[cell] = k} = {cell \in cells : [f \in fields |-> cell.key[f]] = k}
    BY <1>1
  <2> QED BY <1>6, <2>1
<1>8. DOMAIN table = K
  BY <1>6
<1>9. SumFunction(table) = Total(cells)
  BY <1>3, <1>7, <1>8, TablesAgree
<1>10. QED
  BY <1>5, <1>9

\* The number of receipts in a set of cells.
LEMMA CellCounts ==
  ASSUME SummaryAssumption, NEW rows \in RowSets
  PROVE  SumFunction([cell \in Cells(rows) |-> cell.count]) = Cardinality(DOMAIN rows)
<1>1. PICK C, part : C = Cells(rows) /\ part = [cell \in C |-> cell.count]
  OBVIOUS
<1>2. PICK f : f = [r \in DOMAIN rows |-> 1]
  OBVIOUS
<1>3. IsFiniteSet(DOMAIN rows) /\ C = {CellOf(rows, r) : r \in DOMAIN rows}
  BY <1>1, CellsOfReceipts
<1>4. \A r \in DOMAIN rows : f[r] \in Int
  BY <1>2
<1>5. ASSUME NEW r \in DOMAIN rows, CellOf(rows, r) \in C
      PROVE  part[CellOf(rows, r)] = SumFunctionOnSet(f, AtKey(rows, KeyOf(rows, r)))
  <2>1. PICK A : A = AtKey(rows, KeyOf(rows, r))
    OBVIOUS
  <2>2. A \in SUBSET (DOMAIN rows)
    BY <2>1 DEF AtKey
  <2>3. IsFiniteSet(A) /\ \A q \in A : f[q] = 1
    BY <1>2, <1>3, <2>2, FS_Subset
  <2>4. SumFunctionOnSet(f, A) = Cardinality(A)
    BY <2>3, SumOnes
  <2>5. CellOf(rows, r).count = Cardinality(A)
    BY <2>1 DEF CellOf, CellAt
  <2> QED BY <1>1, <1>5, <2>1, <2>4, <2>5
<1>6. SumFunctionOnSet(part, C) = SumFunctionOnSet(f, {r \in DOMAIN rows : CellOf(rows, r) \in C})
  <2>1. C \in SUBSET Cells(rows)
    BY <1>1
  <2> QED BY <1>4, <1>5, <2>1, SumOverCells
<1>7. {r \in DOMAIN rows : CellOf(rows, r) \in C} = DOMAIN rows
  BY <1>3
<1>8. SumFunctionOnSet(f, DOMAIN rows) = Cardinality(DOMAIN rows)
  BY <1>2, <1>3, SumOnes
<1>9. SumFunction(part) = SumFunctionOnSet(part, C)
  BY <1>1 DEF SumFunction
<1>10. SumFunction(part) = Cardinality(DOMAIN rows)
  BY ONLY <1>6, <1>7, <1>8, <1>9
<1>11. QED
  BY <1>1, <1>10

\* The cells of a standing hold the escrow receipts of it, and no payment per request.
LEMMA StandingOfEscrow ==
  ASSUME SummaryAssumption, NEW rows \in RowSets, NEW standing \in Standings
  PROVE  Total({cell \in Cells(rows) :
                  Standing(cell.key) = IF standing = "settled" THEN "inBatch" ELSE "accrued"})
           = SumFunctionOnSet(TariffOfSale,
                              {r \in DOMAIN rows : Sale[r].method = "escrow" /\ rows[r] = standing})
<1>1. PICK place : place = IF standing = "settled" THEN "inBatch" ELSE "accrued"
  OBVIOUS
<1>2. PICK C : C = {cell \in Cells(rows) : Standing(cell.key) = place}
  OBVIOUS
<1>3. /\ DOMAIN rows \in SUBSET Receipts /\ Cells(rows) = {CellOf(rows, r) : r \in DOMAIN rows}
      /\ \A r \in DOMAIN rows : rows[r] \in Standings
  BY CellsOfReceipts
<1>4. ASSUME NEW r \in DOMAIN rows
      PROVE  CellOf(rows, r) \in C <=> Sale[r].method = "escrow" /\ rows[r] = standing
  <2>1. CellOf(rows, r) \in Cells(rows) /\ CellOf(rows, r).key = KeyOf(rows, r)
    BY <1>3 DEF CellOf, CellAt
  <2>2. KeyOf(rows, r).method = Sale[r].method /\ KeyOf(rows, r).settled = (rows[r] = "settled")
    BY DEF KeyOf
  <2>3. Sale[r].method \in {"escrow", "x402"} /\ rows[r] \in {"accrued", "settled"}
    BY <1>3 DEF SummaryAssumption, ReceiptRow, Methods, Standings
  <2>4. Standing(KeyOf(rows, r)) = IF Sale[r].method = "x402" THEN "perRequest"
                                   ELSE IF rows[r] = "settled" THEN "inBatch" ELSE "accrued"
    BY <2>2 DEF Standing
  <2>5. CellOf(rows, r) \in C <=> Standing(KeyOf(rows, r)) = place
    BY <1>2, <2>1
  <2> QED BY <1>1, <2>3, <2>4, <2>5 DEF Standings
<1>5. {r \in DOMAIN rows : CellOf(rows, r) \in C}
        = {r \in DOMAIN rows : Sale[r].method = "escrow" /\ rows[r] = standing}
  BY <1>4
<1>6. Total(C) = SumFunctionOnSet(TariffOfSale, {r \in DOMAIN rows : CellOf(rows, r) \in C})
  <2>1. C \in SUBSET Cells(rows)
    BY <1>2
  <2> QED BY <2>1, CellTotals
<1>7. Total(C) = SumFunctionOnSet(TariffOfSale,
                                  {r \in DOMAIN rows : Sale[r].method = "escrow" /\ rows[r] = standing})
  BY ONLY <1>5, <1>6
<1>8. QED
  BY <1>1, <1>2, <1>7

\* Every table of a screen comes to what its receipts were charged.
LEMMA ScreenAgrees ==
  ASSUME SummaryAssumption, NEW rows \in RowSets
  PROVE  LET figures == summaryOf(Cells(rows))
             Taken(S) == SumFunction([r \in S |-> Sale[r].tariff])
             Escrow(standing) == {r \in DOMAIN rows : Sale[r].method = "escrow" /\ rows[r] = standing}
         IN  /\ figures.total = Taken(DOMAIN rows)
             /\ \A table \in {figures.byWork, figures.byConsumer, figures.flows, figures.settlement} :
                  SumFunction(table) = figures.total
             /\ figures.count = Cardinality(DOMAIN rows)
             /\ figures.settlement.accrued = Taken(Escrow("accrued"))
             /\ figures.settlement.inBatch = Taken(Escrow("settled"))
<1> DEFINE figures == summaryOf(Cells(rows))
           Taken(S) == SumFunction([r \in S |-> Sale[r].tariff])
           Escrow(standing) == {r \in DOMAIN rows : Sale[r].method = "escrow" /\ rows[r] = standing}
<1>1. PICK cells : cells = Cells(rows)
  OBVIOUS
<1>2. /\ DOMAIN rows \in SUBSET Receipts /\ IsFiniteSet(DOMAIN rows)
      /\ cells = {CellOf(rows, r) : r \in DOMAIN rows}
  BY <1>1, CellsOfReceipts
<1>3. /\ IsFiniteSet(cells) /\ \A cell \in cells : cell.total \in Nat
      /\ Total(cells) = SumFunctionOnSet(TariffOfSale, DOMAIN rows)
  <2>1. cells \in SUBSET Cells(rows)
    BY <1>1
  <2>2. {r \in DOMAIN rows : CellOf(rows, r) \in cells} = DOMAIN rows
    BY <1>2
  <2>3. /\ IsFiniteSet(cells) /\ \A cell \in cells : cell.total \in Nat
        /\ Total(cells) = SumFunctionOnSet(TariffOfSale, {r \in DOMAIN rows : CellOf(rows, r) \in cells})
    BY <2>1, CellTotals
  <2> QED BY ONLY <2>2, <2>3
<1>4. ASSUME NEW S \in SUBSET (DOMAIN rows)
      PROVE  Taken(S) = SumFunctionOnSet(TariffOfSale, S)
  <2>1. PICK f, g : f = [r \in S |-> Sale[r].tariff] /\ g = TariffOfSale
    OBVIOUS
  <2>2. IsFiniteSet(S) /\ \A r \in S : f[r] \in Int /\ g[r] = f[r]
    BY <1>2, <2>1, FS_Subset DEF SummaryAssumption, ReceiptRow, TariffOfSale
  <2>3. SumFunctionOnSet(g, S) = SumFunctionOnSet(f, S)
    BY <2>2, SumSame
  <2>4. SumFunction(f) = SumFunctionOnSet(f, S)
    BY <2>1 DEF SumFunction
  <2> QED BY <2>1, <2>3, <2>4
<1>5. PICK place : place = [standing \in {"inBatch", "accrued", "perRequest"} |->
                              Total({cell \in cells : Standing(cell.key) = standing})]
  OBVIOUS
<1>6. /\ figures.total = SumFunction(Tallied(cells, {"work"}))
      /\ figures.count = SumFunction([cell \in cells |-> cell.count])
      /\ figures.byWork = Tallied(cells, {"work"}) /\ figures.byConsumer = Tallied(cells, {"consumer"})
      /\ figures.flows = Tallied(cells, {"consumer", "work"}) /\ figures.settlement = place
  BY <1>1, <1>5 DEF summaryOf
<1>7. SumFunction(place) = Total(cells)
  <2>1. PICK name : name = [cell \in cells |-> Standing(cell.key)]
    OBVIOUS
  <2>2. PICK K : K = {"inBatch", "accrued", "perRequest"}
    OBVIOUS
  <2>3. IsFiniteSet(K)
    <3>1. IsFiniteSet({}) /\ K = (({} \cup {"inBatch"}) \cup {"accrued"}) \cup {"perRequest"}
      BY <2>2, FS_EmptySet
    <3>2. IsFiniteSet({} \cup {"inBatch"})
      BY <3>1, FS_AddElement
    <3>3. IsFiniteSet(({} \cup {"inBatch"}) \cup {"accrued"})
      BY <3>2, FS_AddElement
    <3>4. IsFiniteSet((({} \cup {"inBatch"}) \cup {"accrued"}) \cup {"perRequest"})
      BY <3>3, FS_AddElement
    <3> QED BY <3>1, <3>4
  <2>4. \A cell \in cells : name[cell] \in K
    BY <2>1, <2>2 DEF Standing
  <2>5. ASSUME NEW k \in K
        PROVE  place[k] = Total({cell \in cells : name[cell] = k})
    <3>1. {cell \in cells : name[cell] = k} = {cell \in cells : Standing(cell.key) = k}
      BY <2>1
    <3> QED BY <1>5, <2>2, <3>1
  <2>6. DOMAIN place = K
    BY <1>5, <2>2
  <2> QED BY <1>3, <2>3, <2>4, <2>5, <2>6, TablesAgree
<1>8. \A fields : SumFunction(Tallied(cells, fields)) = Total(cells)
  BY <1>3, TalliesAgree
<1>9. place.accrued = Taken(Escrow("accrued")) /\ place.inBatch = Taken(Escrow("settled"))
  <2>1. /\ place.accrued = Total({cell \in cells : Standing(cell.key) = "accrued"})
        /\ place.inBatch = Total({cell \in cells : Standing(cell.key) = "inBatch"})
    BY <1>5
  <2>2. /\ Total({cell \in Cells(rows) : Standing(cell.key) = "accrued"})
             = SumFunctionOnSet(TariffOfSale, Escrow("accrued"))
        /\ Total({cell \in Cells(rows) : Standing(cell.key) = "inBatch"})
             = SumFunctionOnSet(TariffOfSale, Escrow("settled"))
    <3>1. "accrued" \in Standings /\ "settled" \in Standings
      BY DEF Standings
    <3> QED BY <3>1, StandingOfEscrow
  <2>3. Escrow("accrued") \in SUBSET (DOMAIN rows) /\ Escrow("settled") \in SUBSET (DOMAIN rows)
    OBVIOUS
  <2> HIDE DEF Escrow, Taken
  <2> QED BY <1>1, <1>4, <2>1, <2>2, <2>3
<1>10. Taken(DOMAIN rows) = Total(cells)
  <2> HIDE DEF Taken
  <2> QED BY <1>3, <1>4
<1>11. figures.count = Cardinality(DOMAIN rows)
  BY <1>1, <1>6, CellCounts
<1> HIDE DEF figures, Taken, Escrow
<1>12. /\ figures.total = Taken(DOMAIN rows)
       /\ \A table \in {figures.byWork, figures.byConsumer, figures.flows, figures.settlement} :
            SumFunction(table) = figures.total
       /\ figures.count = Cardinality(DOMAIN rows)
       /\ figures.settlement.accrued = Taken(Escrow("accrued"))
       /\ figures.settlement.inBatch = Taken(Escrow("settled"))
  BY <1>6, <1>7, <1>8, <1>9, <1>10, <1>11
<1>13. QED
  BY <1>12 DEF figures, Taken, Escrow

\* The figures agree with one another and with the receipts behind them, for any receipts,
\* works, consumers and tariffs a period may hold.
THEOREM FiguresHold == SummarySpec => []FiguresAgree
<1>1. SummaryInv => FiguresAgree
  <2> SUFFICES ASSUME SummaryInv, shown # Nothing PROVE FiguresAgree
    BY DEF FiguresAgree
  <2>1. shown.rows \in RowSets
    BY DEF SummaryInv, SummaryTypes, Screens
  <2> QED BY <2>1, ScreenAgrees, SummaryAssumption DEF FiguresAgree
<1>2. QED
  BY <1>1, FiguresInvariant, PTL

-----------------------------------------------------------------------------
(* The Merkle tree.  Its recursion is on the length of a range of leaves,  *)
(* and what is shown of it is shown by way of a shortest counterexample.   *)

\* The split leaves something on either side.
LEMMA SplitWithin ==
  ASSUME NEW n \in Nat, n >= 2
  PROVE  splitPoint(n) \in 1..(n - 1)
<1>1. PICK power : power = [i \in 0..n |-> 2 ^ i]
  OBVIOUS
<1>2. power[0] = 2 ^ 0 /\ 0 \in 0..n
  BY <1>1
<1>3. 2 ^ 0 = 1
  OBVIOUS
<1>4. power[0] = 1
  BY ONLY <1>2, <1>3
<1>5. PICK P : P = {2 ^ i : i \in 0..n}
  OBVIOUS
<1>6. \A i \in 0..n : power[i] \in P
  BY <1>1, <1>5
<1>7. 1 \in P
  BY <1>2, <1>4, <1>6
<1>8. PICK S : S = P \cap 1..(n - 1)
  OBVIOUS
<1>9. S \in SUBSET (0..n)
  BY <1>8
<1>10. 1 \in S
  BY <1>7, <1>8
<1>11. Max(S) \in S
  BY <1>9, <1>10, GreatestOf
<1>12. splitPoint(n) = Max(S)
  BY <1>5, <1>8 DEF splitPoint
<1>13. QED
  BY <1>8, <1>11, <1>12

\* The two sides of the split.
LEMMA Halves ==
  ASSUME NEW S, NEW s \in Seq(S), Len(s) > 1
  PROVE  LET k == splitPoint(Len(s))
         IN  /\ k \in 1..(Len(s) - 1)
             /\ LeftOf(s) \in Seq(S) /\ Len(LeftOf(s)) = k
             /\ \A i \in 1..k : LeftOf(s)[i] = s[i]
             /\ RightOf(s) \in Seq(S) /\ Len(RightOf(s)) = Len(s) - k
             /\ \A i \in 1..(Len(s) - k) : RightOf(s)[i] = s[k + i]
<1>1. PICK n, k : n = Len(s) /\ k = splitPoint(n)
  OBVIOUS
<1>2. n \in Nat /\ n >= 2
  BY <1>1
<1>3. k \in 1..(n - 1)
  BY <1>1, <1>2, SplitWithin
<1>4. \A i \in 1..n : s[i] \in S
  BY <1>1
<1>5. /\ SubSeq(s, 1, k) \in Seq(S) /\ Len(SubSeq(s, 1, k)) = k
      /\ \A i \in 1..k : SubSeq(s, 1, k)[i] = s[i]
  BY <1>2, <1>3, <1>4, SubSeqProperties
<1>6. /\ SubSeq(s, k + 1, n) \in Seq(S) /\ Len(SubSeq(s, k + 1, n)) = n - k
      /\ \A i \in 1..(n - k) : SubSeq(s, k + 1, n)[i] = s[k + i]
  BY <1>2, <1>3, <1>4, SubSeqProperties
<1>7. QED
  BY <1>1, <1>3, <1>5, <1>6 DEF LeftOf, RightOf

\* One step of the recursion of merkleRoot.
RootStep(h, s) == IF Len(s) <= 1 THEN Leaf(s[1]) ELSE Node(h[LeftOf(s)], h[RightOf(s)])

\* It is obeyed up to a length.
RootUpTo(h, S, n) == \A s \in Seq(S) : Len(s) <= n => h[s] = RootStep(h, s)

\* Two functions that obey the recursion agree on every sequence they both cover.
LEMMA RootsAgree ==
  ASSUME NEW A, NEW B, NEW n \in Nat, NEW g, NEW h, RootUpTo(g, A, n), RootUpTo(h, B, n),
         NEW t \in Seq(A), t \in Seq(B), Len(t) <= n
  PROVE  g[t] = h[t]
<1>1. PICK Bad : Bad = {s \in Seq(A) \cap Seq(B) : Len(s) <= n /\ g[s] # h[s]}
  OBVIOUS
<1>2. PICK L : L = {Len(s) : s \in Bad}
  OBVIOUS
<1>3. SUFFICES ASSUME Bad # {} PROVE FALSE
  BY <1>1
<1>4. L \in SUBSET Nat /\ L # {}
  BY <1>1, <1>2, <1>3
<1>5. PICK m \in L : \A k \in L : m <= k
  BY <1>4, LeastOf
<1>6. PICK s \in Bad : Len(s) = m
  BY <1>2
<1>7. s \in Seq(A) /\ s \in Seq(B) /\ Len(s) <= n /\ g[s] # h[s] /\ Len(s) \in Nat
  BY <1>1
<1>8. g[s] = RootStep(g, s) /\ h[s] = RootStep(h, s)
  BY <1>7 DEF RootUpTo
<1>9. Len(s) > 1
  BY <1>7, <1>8 DEF RootStep
<1>10. ASSUME NEW u \in Seq(A), u \in Seq(B), Len(u) < Len(s)
       PROVE  g[u] = h[u]
  <2>1. u \notin Bad
    <3>1. ASSUME u \in Bad
          PROVE  FALSE
      <4>1. m <= Len(u)
        BY <1>2, <1>5, <3>1
      <4> QED BY <1>6, <1>7, <1>10, <4>1
    <3> QED BY <3>1
  <2> QED BY <1>1, <1>7, <1>10, <2>1
<1>11. /\ LeftOf(s) \in Seq(A) /\ LeftOf(s) \in Seq(B) /\ Len(LeftOf(s)) < Len(s)
       /\ RightOf(s) \in Seq(A) /\ RightOf(s) \in Seq(B) /\ Len(RightOf(s)) < Len(s)
  BY <1>7, <1>9, Halves
<1>12. g[LeftOf(s)] = h[LeftOf(s)] /\ g[RightOf(s)] = h[RightOf(s)]
  BY <1>10, <1>11
<1>13. QED
  BY <1>7, <1>8, <1>9, <1>12 DEF RootStep

\* The recursion of merkleRoot is well-founded.
LEMMA RootExists ==
  ASSUME NEW S
  PROVE  \E h : h = [s \in Seq(S) |-> RootStep(h, s)]
<1>1. ASSUME NEW n \in Nat
      PROVE  \E h : RootUpTo(h, S, n)
  <2>1. PICK Bad : Bad = {k \in Nat : ~ \E h : RootUpTo(h, S, k)}
    OBVIOUS
  <2>2. SUFFICES ASSUME Bad # {} PROVE FALSE
    BY <2>1
  <2>3. PICK m \in Bad : \A k \in Bad : m <= k
    BY <2>1, <2>2, LeastOf
  <2>4. m \in Nat /\ ~ \E h : RootUpTo(h, S, m)
    BY <2>1
  <2>5. CASE m = 0
    <3>1. PICK h : h = [s \in Seq(S) |-> Leaf(s[1])]
      OBVIOUS
    <3>2. RootUpTo(h, S, m)
      BY <2>5, <3>1 DEF RootUpTo, RootStep
    <3> QED BY <2>4, <3>2
  <2>6. CASE m # 0
    <3>1. m - 1 \in Nat /\ m - 1 \notin Bad
      BY <2>3, <2>4, <2>6
    <3>2. PICK h : RootUpTo(h, S, m - 1)
      BY <2>1, <3>1
    <3>3. PICK next : next = [s \in Seq(S) |-> RootStep(h, s)]
      OBVIOUS
    <3>4. ASSUME NEW s \in Seq(S), Len(s) <= m
          PROVE  next[s] = RootStep(next, s)
      <4>1. next[s] = RootStep(h, s) /\ Len(s) \in Nat
        BY <3>3
      <4>2. CASE Len(s) <= 1
        BY <4>1, <4>2 DEF RootStep
      <4>3. CASE Len(s) > 1
        <5>1. /\ LeftOf(s) \in Seq(S) /\ Len(LeftOf(s)) <= m - 1
              /\ RightOf(s) \in Seq(S) /\ Len(RightOf(s)) <= m - 1
          BY <2>4, <3>4, <4>1, <4>3, Halves
        <5>2. next[LeftOf(s)] = h[LeftOf(s)] /\ next[RightOf(s)] = h[RightOf(s)]
          BY <3>2, <3>3, <5>1 DEF RootUpTo
        <5> QED BY <4>1, <5>2 DEF RootStep
      <4> QED BY <4>1, <4>2, <4>3
    <3>5. RootUpTo(next, S, m)
      BY <3>4 DEF RootUpTo
    <3> QED BY <2>4, <3>5
  <2> QED BY <2>5, <2>6
<1>2. PICK part : part = [n \in Nat |-> CHOOSE h : RootUpTo(h, S, n)]
  OBVIOUS
<1>3. ASSUME NEW n \in Nat
      PROVE  RootUpTo(part[n], S, n)
  <2>1. part[n] = CHOOSE h : RootUpTo(h, S, n)
    BY <1>2
  <2> QED BY <1>1, <2>1
<1>4. PICK root : root = [s \in Seq(S) |-> part[Len(s)][s]]
  OBVIOUS
<1>5. ASSUME NEW s \in Seq(S), NEW t \in Seq(S), Len(t) < Len(s)
      PROVE  part[Len(s)][t] = root[t]
  <2>1. PICK m, n, g, h : m = Len(t) /\ n = Len(s) /\ g = part[n] /\ h = part[m]
    OBVIOUS
  <2>2. m \in Nat /\ n \in Nat /\ m < n
    BY <1>5, <2>1
  <2>3. RootUpTo(g, S, n) /\ RootUpTo(h, S, m)
    BY <1>3, <2>1, <2>2
  <2>4. RootUpTo(g, S, m)
    BY <2>2, <2>3 DEF RootUpTo
  <2>5. g[t] = h[t]
    BY <2>1, <2>2, <2>3, <2>4, RootsAgree
  <2> QED BY <1>4, <2>1, <2>5
<1>6. ASSUME NEW s \in Seq(S)
      PROVE  root[s] = RootStep(root, s)
  <2>1. PICK n, g : n = Len(s) /\ g = part[n]
    OBVIOUS
  <2>2. n \in Nat /\ RootUpTo(g, S, n)
    BY <1>3, <2>1
  <2>3. root[s] = RootStep(g, s)
    BY <1>4, <2>1, <2>2 DEF RootUpTo
  <2>4. CASE Len(s) <= 1
    BY <2>3, <2>4 DEF RootStep
  <2>5. CASE Len(s) > 1
    <3>1. /\ LeftOf(s) \in Seq(S) /\ Len(LeftOf(s)) < Len(s)
          /\ RightOf(s) \in Seq(S) /\ Len(RightOf(s)) < Len(s)
      BY <2>5, Halves
    <3>2. g[LeftOf(s)] = root[LeftOf(s)] /\ g[RightOf(s)] = root[RightOf(s)]
      BY <1>5, <2>1, <3>1
    <3> QED BY <2>3, <3>2 DEF RootStep
  <2> QED BY <2>1, <2>2, <2>4, <2>5
<1>7. root = [s \in Seq(S) |-> RootStep(root, s)]
  <2>1. root = [s \in Seq(S) |-> root[s]]
    BY <1>4
  <2> QED BY <1>6, <2>1
<1>8. QED
  BY <1>7

\* What merkleRoot computes: a leaf, or the node over the roots of the two halves.
LEMMA RootUnfolds ==
  ASSUME NEW S, NEW s \in Seq(S)
  PROVE  merkleRoot(s) = IF Len(s) <= 1 THEN Leaf(s[1])
                                        ELSE Node(merkleRoot(LeftOf(s)), merkleRoot(RightOf(s)))
<1> DEFINE c(A) == CHOOSE root : root = [t \in Seq(A) |-> IF Len(t) <= 1 THEN Leaf(t[1])
                                                        ELSE Node(root[LeftOf(t)], root[RightOf(t)])]
<1>1. \A t : merkleRoot(t) = c(Range(t))[t]
  BY DEF merkleRoot
<1>2. ASSUME NEW A
      PROVE  c(A) = [t \in Seq(A) |-> RootStep(c(A), t)]
  <2>1. \E h : h = [t \in Seq(A) |-> IF Len(t) <= 1 THEN Leaf(t[1])
                                                        ELSE Node(h[LeftOf(t)], h[RightOf(t)])]
    BY RootExists DEF RootStep
  <2>2. c(A) = [t \in Seq(A) |-> IF Len(t) <= 1 THEN Leaf(t[1])
                                                        ELSE Node(c(A)[LeftOf(t)], c(A)[RightOf(t)])]
    BY <2>1
  <2> HIDE DEF c
  <2> QED BY <2>2 DEF RootStep
<1> HIDE DEF c
<1>3. ASSUME NEW t \in Seq(S)
      PROVE  merkleRoot(t) = c(S)[t]
  <2>1. PICK A, g, h, n : A = Range(t) /\ g = c(A) /\ h = c(S) /\ n = Len(t)
    OBVIOUS
  <2>2. t \in Seq(A) /\ n \in Nat
    BY <2>1 DEF Range
  <2>3. g = [u \in Seq(A) |-> RootStep(g, u)] /\ h = [u \in Seq(S) |-> RootStep(h, u)]
    BY <1>2, <2>1
  <2>4. RootUpTo(g, A, n) /\ RootUpTo(h, S, n)
    BY <2>3 DEF RootUpTo
  <2>5. g[t] = h[t]
    BY <2>1, <2>2, <2>4, RootsAgree
  <2> QED BY <1>1, <2>1, <2>5
<1>4. c(S)[s] = RootStep(c(S), s)
  <2>1. PICK h : h = c(S)
    OBVIOUS
  <2>2. h = [u \in Seq(S) |-> RootStep(h, u)]
    BY <1>2, <2>1
  <2>3. h[s] = RootStep(h, s)
    BY <2>2
  <2> QED BY <2>1, <2>3
<1>5. CASE Len(s) <= 1
  BY <1>3, <1>4, <1>5 DEF RootStep
<1>6. CASE Len(s) > 1
  <2>1. LeftOf(s) \in Seq(S) /\ RightOf(s) \in Seq(S)
    BY <1>6, Halves
  <2> QED BY <1>3, <1>4, <1>6, <2>1 DEF RootStep
<1>7. Len(s) \in Nat
  OBVIOUS
<1>8. QED
  BY <1>5, <1>6, <1>7

(***************************************************************************)
(* merkleRoot: other leaves, or another number of them, have another root. *)
(***************************************************************************)
THEOREM RootsCommit ==
  ASSUME NEW S, NEW s \in Seq(S), Len(s) >= 1, NEW t \in Seq(S), Len(t) >= 1,
         merkleRoot(s) = merkleRoot(t)
  PROVE  s = t
<1>1. PICK Bad : Bad = {u \in Seq(S) : /\ Len(u) >= 1
                                       /\ \E v \in Seq(S) : /\ Len(v) >= 1 /\ u # v
                                                            /\ merkleRoot(u) = merkleRoot(v)}
  OBVIOUS
<1>2. SUFFICES ASSUME Bad # {} PROVE FALSE
  BY <1>1
<1>3. PICK L : L = {Len(u) : u \in Bad}
  OBVIOUS
<1>4. L \in SUBSET Nat /\ L # {}
  <2>1. \A u \in Bad : u \in Seq(S)
    BY <1>1
  <2>2. \A u \in Bad : Len(u) \in Nat
    BY <2>1
  <2> QED BY <1>2, <1>3, <2>2
<1>5. PICK m \in L : \A k \in L : m <= k
  BY <1>4, LeastOf
<1>6. PICK u \in Bad : Len(u) = m
  BY <1>3
<1>7. PICK v \in Seq(S) : Len(v) >= 1 /\ u # v /\ merkleRoot(u) = merkleRoot(v)
  BY <1>1
<1>8. u \in Seq(S) /\ Len(u) >= 1 /\ Len(u) \in Nat /\ Len(v) \in Nat
  BY <1>1
<1>9. ASSUME NEW w \in Seq(S)
      PROVE  /\ Len(w) <= 1 => merkleRoot(w) = Leaf(w[1])
             /\ ~ Len(w) <= 1 => merkleRoot(w) = Node(merkleRoot(LeftOf(w)), merkleRoot(RightOf(w)))
  BY RootUnfolds
<1>10. ASSUME NEW x, NEW l, NEW r
       PROVE  Leaf(x) # Node(l, r)
  <2>1. DOMAIN Leaf(x) = {"leaf"} /\ DOMAIN Node(l, r) = {"left", "right"}
    BY DEF Leaf, Node
  <2> QED BY ONLY <2>1
<1>11. Len(u) > 1 /\ Len(v) > 1
  <2>1. CASE Len(u) <= 1 /\ Len(v) <= 1
    <3>1. Leaf(u[1]) = Leaf(v[1])
      <4>1. merkleRoot(u) = Leaf(u[1]) /\ merkleRoot(v) = Leaf(v[1])
        BY <1>8, <1>9, <2>1
      <4> QED BY ONLY <1>7, <4>1
    <3>2. u[1] = v[1]
      <4>1. Leaf(u[1]).leaf = u[1] /\ Leaf(v[1]).leaf = v[1]
        BY DEF Leaf
      <4> QED BY <3>1, <4>1
    <3>3. Len(u) = Len(v) /\ \A x \in 1..Len(u) : u[x] = v[x]
      <4>1. \A x \in 1..Len(u) : x = 1
        BY <1>8, <2>1
      <4>2. Len(u) = Len(v)
        BY <1>7, <1>8, <2>1
      <4> QED BY <3>2, <4>1, <4>2
    <3>4. u = v
      BY <1>8, <3>3, SeqEqual
    <3> QED BY <1>7, <3>4
  <2>2. CASE Len(u) <= 1 /\ ~ Len(v) <= 1
    <3>1. merkleRoot(u) = Leaf(u[1]) /\ merkleRoot(v) = Node(merkleRoot(LeftOf(v)), merkleRoot(RightOf(v)))
      BY <1>8, <1>9, <2>2
    <3> QED BY ONLY <1>7, <1>10, <3>1
  <2>3. CASE ~ Len(u) <= 1 /\ Len(v) <= 1
    <3>1. merkleRoot(v) = Leaf(v[1]) /\ merkleRoot(u) = Node(merkleRoot(LeftOf(u)), merkleRoot(RightOf(u)))
      BY <1>8, <1>9, <2>3
    <3> QED BY ONLY <1>7, <1>10, <3>1
  <2> QED BY <1>8, <2>1, <2>2, <2>3
<1>12. /\ merkleRoot(LeftOf(u)) = merkleRoot(LeftOf(v))
       /\ merkleRoot(RightOf(u)) = merkleRoot(RightOf(v))
  <2>1. PICK a, b, c, d : /\ a = merkleRoot(LeftOf(u)) /\ b = merkleRoot(RightOf(u))
                          /\ c = merkleRoot(LeftOf(v)) /\ d = merkleRoot(RightOf(v))
    OBVIOUS
  <2>2. Node(a, b) = Node(c, d)
    <3>1. ~ Len(u) <= 1 /\ ~ Len(v) <= 1
      BY <1>8, <1>11
    <3>2. merkleRoot(u) = Node(a, b) /\ merkleRoot(v) = Node(c, d)
      BY <1>8, <1>9, <2>1, <3>1
    <3> QED BY ONLY <1>7, <3>2
  <2>3. /\ Node(a, b).left = a /\ Node(c, d).left = c
        /\ Node(a, b).right = b /\ Node(c, d).right = d
    BY DEF Node
  <2> QED BY <2>1, <2>2, <2>3
<1>13. PICK g, h : g = splitPoint(Len(u)) /\ h = splitPoint(Len(v))
  OBVIOUS
<1>14. /\ g \in 1..(Len(u) - 1)
       /\ LeftOf(u) \in Seq(S) /\ Len(LeftOf(u)) = g /\ \A x \in 1..g : LeftOf(u)[x] = u[x]
       /\ RightOf(u) \in Seq(S) /\ Len(RightOf(u)) = Len(u) - g
       /\ \A x \in 1..(Len(u) - g) : RightOf(u)[x] = u[g + x]
  BY <1>8, <1>11, <1>13, Halves
<1>15. /\ h \in 1..(Len(v) - 1)
       /\ LeftOf(v) \in Seq(S) /\ Len(LeftOf(v)) = h /\ \A x \in 1..h : LeftOf(v)[x] = v[x]
       /\ RightOf(v) \in Seq(S) /\ Len(RightOf(v)) = Len(v) - h
       /\ \A x \in 1..(Len(v) - h) : RightOf(v)[x] = v[h + x]
  BY <1>7, <1>8, <1>11, <1>13, Halves
<1>16. ASSUME NEW w \in Seq(S), Len(w) < Len(u), w \in Bad
       PROVE  FALSE
  <2>1. m <= Len(w)
    BY <1>3, <1>5, <1>16
  <2> QED BY <1>6, <1>8, <1>16, <2>1
<1>17. LeftOf(u) = LeftOf(v)
  <2>1. Len(LeftOf(u)) >= 1 /\ Len(LeftOf(v)) >= 1 /\ Len(LeftOf(u)) < Len(u)
    BY <1>8, <1>14, <1>15
  <2>2. LeftOf(u) # LeftOf(v) => LeftOf(u) \in Bad
    BY <1>1, <1>12, <1>14, <1>15, <2>1
  <2> QED BY <1>14, <1>16, <2>1, <2>2
<1>18. RightOf(u) = RightOf(v)
  <2>1. Len(RightOf(u)) >= 1 /\ Len(RightOf(v)) >= 1 /\ Len(RightOf(u)) < Len(u)
    BY <1>8, <1>14, <1>15
  <2>2. RightOf(u) # RightOf(v) => RightOf(u) \in Bad
    BY <1>1, <1>12, <1>14, <1>15, <2>1
  <2> QED BY <1>14, <1>16, <2>1, <2>2
<1>19. g = h /\ Len(u) = Len(v)
  <2>1. g = h /\ Len(u) - g = Len(v) - h
    BY <1>14, <1>15, <1>17, <1>18
  <2> QED BY <1>8, <1>14, <2>1
<1>20. \A x \in 1..Len(u) : u[x] = v[x]
  <2> SUFFICES ASSUME NEW x \in 1..Len(u) PROVE u[x] = v[x]
    OBVIOUS
  <2>1. CASE x <= g
    <3>1. x \in 1..g
      BY <1>14, <2>1
    <3>2. u[x] = LeftOf(u)[x] /\ v[x] = LeftOf(v)[x]
      BY <1>14, <1>15, <1>19, <3>1
    <3> QED BY <1>17, <3>2
  <2>2. CASE ~ x <= g
    <3>1. PICK y : y = x - g
      OBVIOUS
    <3>2. y \in 1..(Len(u) - g) /\ g + y = x
      BY <1>8, <1>14, <2>2, <3>1
    <3>3. u[x] = RightOf(u)[y] /\ v[x] = RightOf(v)[y]
      BY <1>14, <1>15, <1>19, <3>2
    <3> QED BY <1>18, <3>3
  <2> QED BY <2>1, <2>2
<1>21. u = v
  BY <1>7, <1>8, <1>19, <1>20, SeqEqual
<1>22. QED
  BY <1>7, <1>21

\* One step of the recursion of pathTo.
PathStep(h, s) ==
  [i \in DOMAIN s |->
     IF Len(s) = 1 THEN << >>
     ELSE IF i <= splitPoint(Len(s))
     THEN Append(h[LeftOf(s)][i], [hash |-> merkleRoot(RightOf(s)), side |-> "right"])
     ELSE Append(h[RightOf(s)][i - splitPoint(Len(s))], [hash |-> merkleRoot(LeftOf(s)), side |-> "left"])]

\* It is obeyed up to a length.
PathUpTo(h, S, n) == \A s \in Seq(S) : Len(s) <= n => h[s] = PathStep(h, s)

\* Two functions with the same halves take the same step.
LEMMA PathSame ==
  ASSUME NEW S, NEW s \in Seq(S), NEW g, NEW h,
         Len(s) > 1 => g[LeftOf(s)] = h[LeftOf(s)] /\ g[RightOf(s)] = h[RightOf(s)]
  PROVE  PathStep(g, s) = PathStep(h, s)
<1>1. CASE Len(s) > 1
  BY <1>1 DEF PathStep
<1>2. CASE ~ Len(s) > 1
  <2>1. DOMAIN s = 1..Len(s) /\ Len(s) \in Nat
    OBVIOUS
  <2>2. \A i \in DOMAIN s : Len(s) = 1
    BY <1>2, <2>1
  <2> QED BY <2>2 DEF PathStep
<1>3. QED
  BY <1>1, <1>2

\* Two functions that obey the recursion of pathTo agree.
LEMMA PathsAgree ==
  ASSUME NEW A, NEW B, NEW n \in Nat, NEW g, NEW h, PathUpTo(g, A, n), PathUpTo(h, B, n),
         NEW t \in Seq(A), t \in Seq(B), Len(t) <= n
  PROVE  g[t] = h[t]
<1>1. PICK Bad : Bad = {s \in Seq(A) \cap Seq(B) : Len(s) <= n /\ g[s] # h[s]}
  OBVIOUS
<1>2. PICK L : L = {Len(s) : s \in Bad}
  OBVIOUS
<1>3. SUFFICES ASSUME Bad # {} PROVE FALSE
  BY <1>1
<1>4. L \in SUBSET Nat /\ L # {}
  BY <1>1, <1>2, <1>3
<1>5. PICK m \in L : \A k \in L : m <= k
  BY <1>4, LeastOf
<1>6. PICK s \in Bad : Len(s) = m
  BY <1>2
<1>7. s \in Seq(A) /\ s \in Seq(B) /\ Len(s) <= n /\ g[s] # h[s] /\ Len(s) \in Nat
  BY <1>1
<1>8. g[s] = PathStep(g, s) /\ h[s] = PathStep(h, s)
  BY <1>7 DEF PathUpTo
<1>9. ASSUME NEW u \in Seq(A), u \in Seq(B), Len(u) < Len(s)
      PROVE  g[u] = h[u]
  <2>1. u \notin Bad
    <3>1. ASSUME u \in Bad
          PROVE  FALSE
      <4>1. m <= Len(u)
        BY <1>2, <1>5, <3>1
      <4> QED BY <1>6, <1>7, <1>9, <4>1
    <3> QED BY <3>1
  <2> QED BY <1>1, <1>7, <1>9, <2>1
<1>10. ASSUME Len(s) > 1
       PROVE  g[LeftOf(s)] = h[LeftOf(s)] /\ g[RightOf(s)] = h[RightOf(s)]
  <2>1. /\ LeftOf(s) \in Seq(A) /\ LeftOf(s) \in Seq(B) /\ Len(LeftOf(s)) < Len(s)
        /\ RightOf(s) \in Seq(A) /\ RightOf(s) \in Seq(B) /\ Len(RightOf(s)) < Len(s)
    BY <1>7, <1>10, Halves
  <2> QED BY <1>9, <2>1
<1>11. PathStep(g, s) = PathStep(h, s)
  BY <1>7, <1>10, PathSame
<1>12. QED
  BY <1>7, <1>8, <1>11

\* The recursion of pathTo is well-founded.
LEMMA PathExists ==
  ASSUME NEW S
  PROVE  \E h : h = [s \in Seq(S) |-> PathStep(h, s)]
<1>1. ASSUME NEW n \in Nat
      PROVE  \E h : PathUpTo(h, S, n)
  <2>1. PICK Bad : Bad = {k \in Nat : ~ \E h : PathUpTo(h, S, k)}
    OBVIOUS
  <2>2. SUFFICES ASSUME Bad # {} PROVE FALSE
    BY <2>1
  <2>3. PICK m \in Bad : \A k \in Bad : m <= k
    BY <2>1, <2>2, LeastOf
  <2>4. m \in Nat /\ ~ \E h : PathUpTo(h, S, m)
    BY <2>1
  <2>5. PICK h : m # 0 => PathUpTo(h, S, m - 1)
    <3>1. m # 0 => m - 1 \in Nat /\ m - 1 \notin Bad
      BY <2>3, <2>4
    <3> QED BY <2>1, <3>1
  <2>6. PICK next : next = [s \in Seq(S) |-> PathStep(h, s)]
    OBVIOUS
  <2>7. ASSUME NEW s \in Seq(S), Len(s) <= m
        PROVE  next[s] = PathStep(next, s)
    <3>1. next[s] = PathStep(h, s) /\ Len(s) \in Nat
      BY <2>6
    <3>2. ASSUME Len(s) > 1
          PROVE  next[LeftOf(s)] = h[LeftOf(s)] /\ next[RightOf(s)] = h[RightOf(s)]
      <4>1. /\ LeftOf(s) \in Seq(S) /\ Len(LeftOf(s)) <= m - 1
            /\ RightOf(s) \in Seq(S) /\ Len(RightOf(s)) <= m - 1 /\ m # 0
        BY <2>4, <2>7, <3>1, <3>2, Halves
      <4> QED BY <2>5, <2>6, <4>1 DEF PathUpTo
    <3>3. PathStep(next, s) = PathStep(h, s)
      BY <3>2, PathSame
    <3> QED BY <3>1, <3>3
  <2>8. PathUpTo(next, S, m)
    BY <2>7 DEF PathUpTo
  <2> QED BY <2>4, <2>8
<1>2. PICK part : part = [n \in Nat |-> CHOOSE h : PathUpTo(h, S, n)]
  OBVIOUS
<1>3. ASSUME NEW n \in Nat
      PROVE  PathUpTo(part[n], S, n)
  <2>1. part[n] = CHOOSE h : PathUpTo(h, S, n)
    BY <1>2
  <2> QED BY <1>1, <2>1
<1>4. PICK path : path = [s \in Seq(S) |-> part[Len(s)][s]]
  OBVIOUS
<1>5. ASSUME NEW s \in Seq(S), NEW t \in Seq(S), Len(t) < Len(s)
      PROVE  part[Len(s)][t] = path[t]
  <2>1. PICK m, n, g, h : m = Len(t) /\ n = Len(s) /\ g = part[n] /\ h = part[m]
    OBVIOUS
  <2>2. m \in Nat /\ n \in Nat /\ m < n
    BY <1>5, <2>1
  <2>3. PathUpTo(g, S, n) /\ PathUpTo(h, S, m)
    BY <1>3, <2>1, <2>2
  <2>4. PathUpTo(g, S, m)
    BY <2>2, <2>3 DEF PathUpTo
  <2>5. g[t] = h[t]
    BY <2>1, <2>2, <2>3, <2>4, PathsAgree
  <2> QED BY <1>4, <2>1, <2>5
<1>6. ASSUME NEW s \in Seq(S)
      PROVE  path[s] = PathStep(path, s)
  <2>1. PICK n, g : n = Len(s) /\ g = part[n]
    OBVIOUS
  <2>2. n \in Nat /\ PathUpTo(g, S, n)
    BY <1>3, <2>1
  <2>3. path[s] = PathStep(g, s)
    BY <1>4, <2>1, <2>2 DEF PathUpTo
  <2>4. ASSUME Len(s) > 1
        PROVE  g[LeftOf(s)] = path[LeftOf(s)] /\ g[RightOf(s)] = path[RightOf(s)]
    <3>1. /\ LeftOf(s) \in Seq(S) /\ Len(LeftOf(s)) < Len(s)
          /\ RightOf(s) \in Seq(S) /\ Len(RightOf(s)) < Len(s)
      BY <2>4, Halves
    <3> QED BY <1>5, <2>1, <3>1
  <2> QED BY <2>3, <2>4, PathSame
<1>7. path = [s \in Seq(S) |-> PathStep(path, s)]
  <2>1. path = [s \in Seq(S) |-> path[s]]
    BY <1>4
  <2> QED BY <1>6, <2>1
<1>8. QED
  BY <1>7

\* What merkleProof computes: nothing for a single leaf, or the path in a half and the other half.
LEMMA PathUnfolds ==
  ASSUME NEW S, NEW s \in Seq(S), NEW i \in DOMAIN s
  PROVE  LET k == splitPoint(Len(s))
         IN  /\ Len(s) = 1 => merkleProof(s, i) = << >>
             /\ ~ Len(s) = 1 /\ i <= k =>
                  merkleProof(s, i) = Append(merkleProof(LeftOf(s), i),
                                             [hash |-> merkleRoot(RightOf(s)), side |-> "right"])
             /\ ~ Len(s) = 1 /\ ~ i <= k =>
                  merkleProof(s, i) = Append(merkleProof(RightOf(s), i - k),
                                             [hash |-> merkleRoot(LeftOf(s)), side |-> "left"])
<1> DEFINE c(A) == CHOOSE path : path = [t \in Seq(A) |->
                     [j \in DOMAIN t |->
                        IF Len(t) = 1 THEN << >>
                        ELSE IF j <= splitPoint(Len(t))
                        THEN Append(path[LeftOf(t)][j], [hash |-> merkleRoot(RightOf(t)), side |-> "right"])
                        ELSE Append(path[RightOf(t)][j - splitPoint(Len(t))],
                                    [hash |-> merkleRoot(LeftOf(t)), side |-> "left"])]]
<1>1. \A t, j : merkleProof(t, j) = c(Range(t))[t][j]
  BY DEF merkleProof
<1>2. ASSUME NEW A
      PROVE  c(A) = [t \in Seq(A) |-> PathStep(c(A), t)]
  <2>1. \E h : h = [t \in Seq(A) |-> PathStep(h, t)]
    BY PathExists
  <2>2. c(A) = CHOOSE path : path = [t \in Seq(A) |-> PathStep(path, t)]
    BY DEF PathStep
  <2> HIDE DEF c
  <2> QED BY <2>1, <2>2
<1> HIDE DEF c
<1>3. ASSUME NEW t \in Seq(S), NEW j
      PROVE  merkleProof(t, j) = c(S)[t][j]
  <2>1. PICK A, g, h, n : A = Range(t) /\ g = c(A) /\ h = c(S) /\ n = Len(t)
    OBVIOUS
  <2>2. t \in Seq(A) /\ n \in Nat
    BY <2>1 DEF Range
  <2>3. g = [u \in Seq(A) |-> PathStep(g, u)] /\ h = [u \in Seq(S) |-> PathStep(h, u)]
    BY <1>2, <2>1
  <2>4. PathUpTo(g, A, n) /\ PathUpTo(h, S, n)
    BY <2>3 DEF PathUpTo
  <2>5. g[t] = h[t]
    BY <2>1, <2>2, <2>4, PathsAgree
  <2> QED BY <1>1, <2>1, <2>5
<1>4. PICK h : h = c(S)
  OBVIOUS
<1>5. h[s] = PathStep(h, s)
  <2>1. h = [u \in Seq(S) |-> PathStep(h, u)]
    BY <1>2, <1>4
  <2> QED BY <2>1
<1>6. merkleProof(s, i) =
        IF Len(s) = 1 THEN << >>
        ELSE IF i <= splitPoint(Len(s))
        THEN Append(h[LeftOf(s)][i], [hash |-> merkleRoot(RightOf(s)), side |-> "right"])
        ELSE Append(h[RightOf(s)][i - splitPoint(Len(s))], [hash |-> merkleRoot(LeftOf(s)), side |-> "left"])
  BY <1>3, <1>4, <1>5 DEF PathStep
<1>7. CASE Len(s) = 1
  BY <1>6, <1>7
<1>8. CASE Len(s) > 1
  <2>1. LeftOf(s) \in Seq(S) /\ RightOf(s) \in Seq(S)
    BY <1>8, Halves
  <2>2. \A j : merkleProof(LeftOf(s), j) = h[LeftOf(s)][j] /\ merkleProof(RightOf(s), j) = h[RightOf(s)][j]
    BY <1>3, <1>4, <2>1
  <2> QED BY <1>6, <2>2
<1>9. Len(s) = 1 \/ Len(s) > 1
  <2>1. DOMAIN s = 1..Len(s) /\ Len(s) \in Nat
    OBVIOUS
  <2> QED BY <2>1
<1>10. QED
  BY <1>7, <1>8, <1>9

\* What a path makes of a leaf: its steps are folded from the first to the last.
ClimbStep(acc, step) == IF step.side = "left" THEN Node(step.hash, acc) ELSE Node(acc, step.hash)

Top(leaf, path) == FoldLeft(LAMBDA acc, step : IF step.side = "left" THEN Node(step.hash, acc)
                                                                     ELSE Node(acc, step.hash),
                            Leaf(leaf), path)

\* The fold's recursion, over the positions of the path.
Climbed(h, base, path, s) == IF s = {} THEN base ELSE ClimbStep(h[s \ {Max(s)}], path[Max(s)])

Climbs(h, base, path, S) == h = [s \in SUBSET S |-> Climbed(h, base, path, s)]

Alike(p, q, T) == \A i \in T : p[i] = q[i]

Indices(S) == \E n \in Nat : S \in SUBSET (0..n)

\* Two climbs along paths with the same steps agree.
LEMMA ClimbsAgree ==
  ASSUME NEW A, NEW B, NEW T \in SUBSET A, T \in SUBSET B, Indices(A), NEW base, NEW p, NEW q, Alike(p, q, T),
         NEW g, NEW h, Climbs(g, base, p, A), Climbs(h, base, q, B)
  PROVE  g[T] = h[T]
<1>1. PICK Bad : Bad = {U \in SUBSET T : g[U] # h[U]}
  OBVIOUS
<1>2. SUFFICES ASSUME Bad # {} PROVE FALSE
  BY <1>1
<1> PICK n \in Nat : A \in SUBSET (0..n)
  BY DEF Indices
<1>3. IsFiniteSet(T)
  <2>1. 0 \in Int /\ n \in Int /\ T \in SUBSET (0..n)
    OBVIOUS
  <2>2. IsFiniteSet(0..n)
    BY <2>1, FS_Interval
  <2> QED BY <2>1, <2>2, FS_Subset
<1>4. PICK U \in Bad : \A V \in SUBSET U : V # U => V \notin Bad
  <2>1. Bad \in SUBSET (SUBSET T)
    BY <1>1
  <2> QED BY <1>2, <1>3, <2>1, SmallestSet
<1>5. U \in SUBSET T /\ U \in SUBSET A /\ U \in SUBSET B /\ U \in SUBSET (0..n) /\ g[U] # h[U]
  BY <1>1
<1>6. g[U] = Climbed(g, base, p, U) /\ h[U] = Climbed(h, base, q, U)
  BY <1>5 DEF Climbs
<1>7. U # {}
  BY <1>5, <1>6 DEF Climbed
<1>8. Max(U) \in U
  BY <1>5, <1>7, GreatestOf
<1>9. g[U \ {Max(U)}] = h[U \ {Max(U)}]
  BY <1>1, <1>4, <1>5, <1>8
<1>10. p[Max(U)] = q[Max(U)]
  BY <1>5, <1>8 DEF Alike
<1>11. QED
  BY <1>5, <1>6, <1>7, <1>9, <1>10 DEF Climbed

\* Every path can be climbed.
LEMMA ClimbsExist ==
  ASSUME NEW n \in Nat, NEW S \in SUBSET (0..n), NEW base, NEW path
  PROVE  \E h : Climbs(h, base, path, S)
<1>1. PICK Bad : Bad = {U \in SUBSET S : ~ \E h : Climbs(h, base, path, U)}
  OBVIOUS
<1>2. SUFFICES ASSUME Bad # {} PROVE FALSE
  BY <1>1
<1>3. IsFiniteSet(S)
  <2>1. 0 \in Int /\ n \in Int
    OBVIOUS
  <2>2. IsFiniteSet(0..n)
    BY <2>1, FS_Interval
  <2> QED BY <2>2, FS_Subset
<1>4. PICK T \in Bad : \A V \in SUBSET T : V # T => V \notin Bad
  <2>1. Bad \in SUBSET (SUBSET S)
    BY <1>1
  <2> QED BY <1>2, <1>3, <2>1, SmallestSet
<1>5. T \in SUBSET S /\ T \in SUBSET (0..n) /\ ~ \E h : Climbs(h, base, path, T)
  BY <1>1
<1>6. PICK part : part = [V \in SUBSET S |-> CHOOSE h : Climbs(h, base, path, V)]
  OBVIOUS
<1>7. ASSUME NEW V \in SUBSET T, V # T
      PROVE  Climbs(part[V], base, path, V)
  <2>1. \E h : Climbs(h, base, path, V)
    BY <1>1, <1>4, <1>5, <1>7
  <2>2. part[V] = CHOOSE h : Climbs(h, base, path, V)
    BY <1>5, <1>6
  <2> QED BY <2>1, <2>2
<1>8. PICK h : h = [U \in SUBSET T |->
                     IF U = {} THEN base
                     ELSE ClimbStep(part[U \ {Max(U)}][U \ {Max(U)}], path[Max(U)])]
  OBVIOUS
<1>9. ASSUME NEW V \in SUBSET T, V # T
      PROVE  h[V] = part[V][V]
  <2>1. PICK a : a = part[V]
    OBVIOUS
  <2>2. Climbs(a, base, path, V)
    BY <1>7, <1>9, <2>1
  <2>3. a[V] = Climbed(a, base, path, V)
    BY <2>2 DEF Climbs
  <2>4. CASE V = {}
    BY <1>8, <2>1, <2>3, <2>4 DEF Climbed
  <2>5. CASE V # {}
    <3>1. PICK W, m : m = Max(V) /\ W = V \ {m}
      OBVIOUS
    <3>2. m \in V
      BY <1>5, <2>5, <3>1, GreatestOf
    <3>3. W \in SUBSET V /\ W \in SUBSET T /\ W # T
      BY <3>1, <3>2
    <3>4. PICK b : b = part[W]
      OBVIOUS
    <3>5. Climbs(b, base, path, W)
      BY <1>7, <3>3, <3>4
    <3>6. a[W] = b[W]
      <4>1. Indices(V) /\ W \in SUBSET V /\ W \in SUBSET W /\ Alike(path, path, W)
        BY <1>5, <3>3 DEF Alike, Indices
      <4> QED BY <2>2, <3>5, <4>1, ClimbsAgree
    <3>7. h[V] = ClimbStep(b[W], path[m])
      BY <1>8, <2>5, <3>1, <3>4
    <3>8. a[V] = ClimbStep(a[W], path[m])
      BY <2>3, <2>5, <3>1 DEF Climbed
    <3> QED BY <2>1, <3>6, <3>7, <3>8
  <2> QED BY <2>4, <2>5
<1>10. ASSUME NEW U \in SUBSET T
       PROVE  h[U] = Climbed(h, base, path, U)
  <2>1. CASE U = {}
    BY <1>8, <2>1 DEF Climbed
  <2>2. CASE U # {}
    <3>1. PICK W, m : m = Max(U) /\ W = U \ {m}
      OBVIOUS
    <3>2. m \in U
      BY <1>5, <2>2, <3>1, GreatestOf
    <3>3. W \in SUBSET T /\ W # T
      BY <3>1, <3>2
    <3>4. h[U] = ClimbStep(part[W][W], path[m])
      BY <1>8, <2>2, <3>1
    <3>5. h[W] = part[W][W]
      BY <1>9, <3>3
    <3> QED BY <2>2, <3>1, <3>4, <3>5 DEF Climbed
  <2> QED BY <2>1, <2>2
<1>11. Climbs(h, base, path, T)
  <2>1. h = [U \in SUBSET T |-> h[U]]
    BY <1>8
  <2> QED BY <1>10, <2>1 DEF Climbs
<1>12. QED
  BY <1>5, <1>11

\* What FoldLeft computes of a path.
LEMMA TopUnfolds ==
  ASSUME NEW leaf
  PROVE  /\ Top(leaf, << >>) = Leaf(leaf)
         /\ \A Q : \A path \in Seq(Q) : \A step \in Q :
              Top(leaf, Append(path, step)) = ClimbStep(Top(leaf, path), step)
<1> DEFINE c(path) == CHOOSE h : h = [s \in SUBSET DOMAIN path |->
                        IF s = {} THEN Leaf(leaf)
                        ELSE IF path[Max(s)].side = "left" THEN Node(path[Max(s)].hash, h[s \ {Max(s)}])
                                                           ELSE Node(h[s \ {Max(s)}], path[Max(s)].hash)]
<1>1. \A path : Top(leaf, path) = c(path)[DOMAIN path]
  BY DEF Top, FoldLeft, MapThenFoldSet
<1>2. ASSUME NEW Q, NEW path \in Seq(Q)
      PROVE  Climbs(c(path), Leaf(leaf), path, DOMAIN path)
  <2>1. DOMAIN path \in SUBSET (0..Len(path)) /\ Len(path) \in Nat
    OBVIOUS
  <2>2. \E h : Climbs(h, Leaf(leaf), path, DOMAIN path)
    BY <2>1, ClimbsExist
  <2>3. c(path) = CHOOSE h : Climbs(h, Leaf(leaf), path, DOMAIN path)
    BY DEF Climbs, Climbed, ClimbStep
  <2> HIDE DEF c
  <2> QED BY <2>2, <2>3
<1> HIDE DEF c
<1>3. Top(leaf, << >>) = Leaf(leaf)
  <2>1. << >> \in Seq({}) /\ DOMAIN << >> = {}
    OBVIOUS
  <2>2. PICK h : h = c(<< >>)
    OBVIOUS
  <2>3. Climbs(h, Leaf(leaf), << >>, {})
    BY <1>2, <2>1, <2>2
  <2>4. h[{}] = Leaf(leaf)
    BY <2>3 DEF Climbs, Climbed
  <2> QED BY <1>1, <2>1, <2>2, <2>4
<1>4. ASSUME NEW Q, NEW path \in Seq(Q), NEW step \in Q
      PROVE  Top(leaf, Append(path, step)) = ClimbStep(Top(leaf, path), step)
  <2>1. PICK long, n : long = Append(path, step) /\ n = Len(path)
    OBVIOUS
  <2>2. /\ long \in Seq(Q) /\ n \in Nat /\ DOMAIN path = 1..n /\ DOMAIN long = 1..(n + 1)
        /\ long[n + 1] = step /\ \A i \in 1..n : path[i] = long[i]
    BY <2>1
  <2>3. PICK g, h : g = c(path) /\ h = c(long)
    OBVIOUS
  <2>4. Climbs(g, Leaf(leaf), path, 1..n) /\ Climbs(h, Leaf(leaf), long, 1..(n + 1))
    <3>1. Climbs(c(path), Leaf(leaf), path, DOMAIN path) /\ Climbs(c(long), Leaf(leaf), long, DOMAIN long)
      BY <1>2, <2>2
    <3> QED BY <2>2, <2>3, <3>1
  <2>5. g[1..n] = h[1..n]
    <3>1. PICK A, B, base : A = 1..n /\ B = 1..(n + 1) /\ base = Leaf(leaf)
      OBVIOUS
    <3>2. A \in SUBSET A /\ A \in SUBSET B
      BY <2>2, <3>1
    <3>3. Indices(A)
      <4>1. A \in SUBSET (0..n) /\ n \in Nat
        BY <2>2, <3>1
      <4> QED BY ONLY <4>1 DEF Indices
    <3>4. Alike(path, long, A)
      BY <2>2, <3>1 DEF Alike
    <3>5. Climbs(g, base, path, A) /\ Climbs(h, base, long, B)
      BY <2>4, <3>1
    <3>6. g[A] = h[A]
      BY <3>2, <3>3, <3>4, <3>5, ClimbsAgree
    <3> QED BY <3>1, <3>6
  <2>6. h[1..(n + 1)] = ClimbStep(h[1..n], step)
    <3>1. PICK B : B = 1..(n + 1)
      OBVIOUS
    <3>2. Max(B) = n + 1
      <4>1. B \in SUBSET (0..n + 1) /\ n + 1 \in Nat /\ n + 1 \in B
        BY <2>2, <3>1
      <4>2. Max(B) \in B /\ \A k \in B : k <= Max(B)
        BY <4>1, GreatestOf
      <4> QED BY <2>2, <3>1, <4>1, <4>2
    <3>3. B \ {n + 1} = 1..n /\ B # {}
      <4>1. \A k : k \in 1..n <=> k \in B /\ k # n + 1
        BY <2>2, <3>1
      <4>2. n + 1 \in B
        BY <2>2, <3>1
      <4> QED BY <4>1, <4>2
    <3>4. h[B] = Climbed(h, Leaf(leaf), long, B)
      BY <2>4, <3>1 DEF Climbs
    <3>5. h[B] = ClimbStep(h[1..n], long[n + 1])
      BY <3>2, <3>3, <3>4 DEF Climbed
    <3> QED BY <2>2, <3>1, <3>5
  <2>7. Top(leaf, path) = g[1..n] /\ Top(leaf, long) = h[1..(n + 1)]
    BY <1>1, <2>2, <2>3
  <2> QED BY <2>1, <2>5, <2>6, <2>7
<1>5. QED
  BY <1>3, <1>4

\* A further step of a path, whatever its steps are taken from.
LEMMA TopAppend ==
  ASSUME NEW leaf, NEW Q, NEW path \in Seq(Q), NEW step
  PROVE  /\ \E R : Append(path, step) \in Seq(R)
         /\ Top(leaf, Append(path, step)) = ClimbStep(Top(leaf, path), step)
<1>1. PICK R : R = Q \cup {step}
  OBVIOUS
<1>2. path \in Seq(R) /\ step \in R
  BY <1>1
<1>3. Top(leaf, Append(path, step)) = ClimbStep(Top(leaf, path), step)
  BY <1>2, TopUnfolds
<1>4. Append(path, step) \in Seq(R)
  BY <1>2
<1>5. QED
  BY <1>1, <1>3, <1>4

\* A path leads from different leaves to different tops.
LEMMA TopsDiffer ==
  ASSUME NEW a, NEW b, NEW Q, NEW path \in Seq(Q), Top(a, path) = Top(b, path)
  PROVE  a = b
<1>1. PICK Bad : Bad = {q \in Seq(Q) : Top(a, q) = Top(b, q)}
  OBVIOUS
<1>2. PICK L : L = {Len(q) : q \in Bad}
  OBVIOUS
<1>3. L \in SUBSET Nat /\ L # {}
  <2>1. \A q \in Bad : Len(q) \in Nat
    BY <1>1, LenProperties
  <2>2. path \in Bad
    BY <1>1
  <2> QED BY <1>2, <2>1, <2>2
<1>4. PICK m \in L : \A k \in L : m <= k
  BY <1>3, LeastOf
<1>5. PICK q \in Bad : Len(q) = m
  BY <1>2
<1>6. q \in Seq(Q) /\ Top(a, q) = Top(b, q) /\ m \in Nat
  BY <1>1, <1>3, <1>4
<1>7. CASE m = 0
  <2>1. q = << >>
    BY <1>5, <1>6, <1>7, EmptySeq
  <2>2. Leaf(a) = Leaf(b)
    BY <1>6, <2>1, TopUnfolds
  <2>3. Leaf(a).leaf = a /\ Leaf(b).leaf = b
    BY DEF Leaf
  <2> QED BY <2>2, <2>3
<1>8. CASE m # 0
  <2>1. PICK n, front, step : n = m - 1 /\ front = [i \in 1..n |-> q[i]] /\ step = q[m]
    OBVIOUS
  <2>2. n \in Nat /\ m = n + 1
    BY <1>6, <1>8, <2>1
  <2>3. front \in Seq(Q) /\ Len(front) = n /\ step \in Q
    <3>1. q \in [1..m -> Q]
      BY <1>5, <1>6, LenProperties
    <3>2. front \in [1..n -> Q] /\ step \in Q
      BY <2>1, <2>2, <3>1
    <3> QED BY <2>1, <2>2, <3>2
  <2>4. q = Append(front, step)
    <3>1. Append(front, step) \in Seq(Q) /\ Len(Append(front, step)) = m
      BY <2>2, <2>3
    <3>2. \A i \in 1..m : q[i] = Append(front, step)[i]
      BY <2>1, <2>2, <2>3
    <3> QED BY <1>5, <1>6, <3>1, <3>2, SeqEqual
  <2>5. /\ Top(a, q) = ClimbStep(Top(a, front), step)
        /\ Top(b, q) = ClimbStep(Top(b, front), step)
    BY ONLY <2>3, <2>4, TopAppend
  <2>6. Top(a, front) = Top(b, front)
    <3>1. PICK x, y : x = Top(a, front) /\ y = Top(b, front)
      OBVIOUS
    <3>2. ClimbStep(x, step) = ClimbStep(y, step)
      BY <1>6, <2>5, <3>1
    <3>3. CASE step.side = "left"
      <4>1. Node(step.hash, x) = Node(step.hash, y)
        BY <3>2, <3>3 DEF ClimbStep
      <4>2. Node(step.hash, x).right = x /\ Node(step.hash, y).right = y
        BY DEF Node
      <4> QED BY <3>1, <4>1, <4>2
    <3>4. CASE step.side # "left"
      <4>1. Node(x, step.hash) = Node(y, step.hash)
        BY <3>2, <3>4 DEF ClimbStep
      <4>2. Node(x, step.hash).left = x /\ Node(y, step.hash).left = y
        BY DEF Node
      <4> QED BY <3>1, <4>1, <4>2
    <3> QED BY <3>3, <3>4
  <2>7. n \in L
    BY <1>1, <1>2, <2>3, <2>6
  <2> QED BY <1>4, <2>2, <2>7
<1>9. QED
  BY <1>7, <1>8

\* The proof of every leaf leads to the root, in a tree of any size.
LEMMA Included ==
  ASSUME NEW S, NEW s \in Seq(S), NEW i \in DOMAIN s
  PROVE  /\ verifyInclusion(s[i], merkleProof(s, i), merkleRoot(s))
         /\ \E Q : merkleProof(s, i) \in Seq(Q)
<1> DEFINE Good(t) == \A j \in DOMAIN t : /\ \E Q : merkleProof(t, j) \in Seq(Q)
                                          /\ Top(t[j], merkleProof(t, j)) = merkleRoot(t)
<1>1. PICK Bad : Bad = {t \in Seq(S) : ~ Good(t)}
  OBVIOUS
<1>2. ASSUME Bad # {}
      PROVE  FALSE
  <2>1. PICK L : L = {Len(t) : t \in Bad}
    OBVIOUS
  <2>2. L \in SUBSET Nat /\ L # {}
    <3>1. \A t \in Bad : t \in Seq(S)
      BY <1>1
    <3>2. \A t \in Bad : Len(t) \in Nat
      BY <3>1
    <3> HIDE DEF Good
    <3> QED BY <1>2, <2>1, <3>2
  <2>3. PICK m \in L : \A k \in L : m <= k
    BY <2>2, LeastOf
  <2>4. PICK t \in Bad : Len(t) = m
    BY <2>1
  <2>5. t \in Seq(S) /\ ~ Good(t) /\ Len(t) \in Nat
    BY <1>1
  <2>6. ASSUME NEW u \in Seq(S), Len(u) < Len(t)
        PROVE  Good(u)
    <3>1. ASSUME u \in Bad
          PROVE  FALSE
      <4>1. m <= Len(u)
        BY <2>1, <2>3, <3>1
      <4> QED BY <2>4, <2>5, <2>6, <4>1
    <3> HIDE DEF Good
    <3> QED BY <1>1, <3>1
  <2>7. PICK j \in DOMAIN t : ~ (/\ \E Q : merkleProof(t, j) \in Seq(Q)
                                 /\ Top(t[j], merkleProof(t, j)) = merkleRoot(t))
    BY <2>5
  <2>8. j \in 1..Len(t) /\ Len(t) >= 1
    BY <2>5, <2>7
  <2>9. CASE Len(t) = 1
    <3>1. merkleProof(t, j) = << >>
      BY <2>5, <2>9, PathUnfolds
    <3>2. merkleRoot(t) = Leaf(t[1])
      BY <2>5, <2>9, RootUnfolds
    <3>3. j = 1
      BY <2>8, <2>9
    <3>4. Top(t[j], << >>) = Leaf(t[j])
      BY TopUnfolds
    <3>5. << >> \in Seq({})
      OBVIOUS
    <3> QED BY <2>7, <3>1, <3>2, <3>3, <3>4, <3>5
  <2>10. CASE Len(t) > 1
    <3>1. PICK k, l, r : k = splitPoint(Len(t)) /\ l = LeftOf(t) /\ r = RightOf(t)
      OBVIOUS
    <3>2. /\ k \in 1..(Len(t) - 1)
          /\ l \in Seq(S) /\ Len(l) = k /\ \A i_1 \in 1..k : l[i_1] = t[i_1]
          /\ r \in Seq(S) /\ Len(r) = Len(t) - k /\ \A i_1 \in 1..(Len(t) - k) : r[i_1] = t[k + i_1]
      BY <2>5, <2>10, <3>1, Halves
    <3>3. merkleRoot(t) = Node(merkleRoot(l), merkleRoot(r))
      BY <2>5, <2>10, <3>1, RootUnfolds
    <3>4. Good(l) /\ Good(r)
      <4>1. Len(l) < Len(t) /\ Len(r) < Len(t)
        BY <2>5, <3>2
      <4> HIDE DEF Good
      <4> QED BY <2>6, <3>2, <4>1
    <3>5. CASE j <= k
      <4>1. PICK step, q : step = [hash |-> merkleRoot(r), side |-> "right"] /\ q = merkleProof(l, j)
        OBVIOUS
      <4>2. merkleProof(t, j) = Append(q, step)
        <5>1. ~ Len(t) = 1
          BY <2>5, <2>10
        <5> QED BY <2>5, <3>1, <3>5, <4>1, <5>1, PathUnfolds
      <4>3. j \in DOMAIN l /\ l[j] = t[j]
        BY <2>8, <3>2, <3>5
      <4>4. PICK Q : q \in Seq(Q)
        BY <3>4, <4>1, <4>3
      <4>5. Top(t[j], q) = merkleRoot(l)
        BY <3>4, <4>1, <4>3
      <4>6. /\ \E R : Append(q, step) \in Seq(R)
            /\ Top(t[j], Append(q, step)) = ClimbStep(Top(t[j], q), step)
        BY ONLY <4>4, TopAppend
      <4>7. ClimbStep(merkleRoot(l), step) = Node(merkleRoot(l), merkleRoot(r))
        BY <4>1 DEF ClimbStep
      <4>8. Top(t[j], merkleProof(t, j)) = merkleRoot(t)
        BY ONLY <3>3, <4>2, <4>5, <4>6, <4>7
      <4> QED BY <2>7, <4>2, <4>6, <4>8
    <3>6. CASE ~ j <= k
      <4>1. PICK step, q : step = [hash |-> merkleRoot(l), side |-> "left"] /\ q = merkleProof(r, j - k)
        OBVIOUS
      <4>2. merkleProof(t, j) = Append(q, step)
        <5>1. ~ Len(t) = 1
          BY <2>5, <2>10
        <5> QED BY <2>5, <3>1, <3>6, <4>1, <5>1, PathUnfolds
      <4>3. j - k \in DOMAIN r /\ r[j - k] = t[j]
        <5>1. j - k \in 1..(Len(t) - k) /\ k + (j - k) = j
          BY <2>5, <2>8, <3>2, <3>6
        <5>2. r[j - k] = t[k + (j - k)]
          BY <3>2, <5>1
        <5>3. DOMAIN r = 1..(Len(t) - k)
          BY <3>2
        <5> QED BY <5>1, <5>2, <5>3
      <4>4. PICK Q : q \in Seq(Q)
        BY <3>4, <4>1, <4>3
      <4>5. Top(t[j], q) = merkleRoot(r)
        BY <3>4, <4>1, <4>3
      <4>6. /\ \E R : Append(q, step) \in Seq(R)
            /\ Top(t[j], Append(q, step)) = ClimbStep(Top(t[j], q), step)
        BY ONLY <4>4, TopAppend
      <4>7. ClimbStep(merkleRoot(r), step) = Node(merkleRoot(l), merkleRoot(r))
        BY <4>1 DEF ClimbStep
      <4>8. Top(t[j], merkleProof(t, j)) = merkleRoot(t)
        BY ONLY <3>3, <4>2, <4>5, <4>6, <4>7
      <4> QED BY <2>7, <4>2, <4>6, <4>8
    <3> QED BY <3>5, <3>6
  <2>11. Len(t) = 1 \/ Len(t) > 1
    <3>1. PICK n : n = Len(t)
      OBVIOUS
    <3>2. n \in Nat /\ n >= 1
      <4> HIDE DEF Good
      <4> QED BY <2>5, <2>8, <3>1
    <3>3. n = 1 \/ n > 1
      BY <3>2
    <3> QED BY <3>1, <3>3
  <2> QED BY <2>9, <2>10, <2>11
<1>3. Good(s)
  <2>1. s \notin Bad
    BY <1>2
  <2> HIDE DEF Good
  <2> QED BY <1>1, <2>1
<1>4. Top(s[i], merkleProof(s, i)) = merkleRoot(s) /\ \E Q : merkleProof(s, i) \in Seq(Q)
  BY <1>3
<1>5. QED
  BY <1>4 DEF verifyInclusion, Top

(***************************************************************************)
(* merkleProof and verifyInclusion: in a tree of any size the proof that   *)
(* is served for a receipt verifies that receipt and no other.             *)
(***************************************************************************)
THEOREM ProofFitsItsLeaf ==
  ASSUME NEW S, NEW s \in Seq(S), NEW i \in DOMAIN s, NEW x
  PROVE  verifyInclusion(x, merkleProof(s, i), merkleRoot(s)) <=> x = s[i]
<1>1. PICK path, root : path = merkleProof(s, i) /\ root = merkleRoot(s)
  OBVIOUS
<1>2. verifyInclusion(s[i], path, root) /\ \E Q : path \in Seq(Q)
  BY <1>1, Included
<1>3. \A y : verifyInclusion(y, path, root) => root = Top(y, path)
  BY DEF verifyInclusion, Top
<1>4. ASSUME verifyInclusion(x, path, root)
      PROVE  x = s[i]
  <2>1. Top(x, path) = Top(s[i], path)
    BY <1>2, <1>3, <1>4
  <2> QED BY <1>2, <2>1, TopsDiffer
<1>5. QED
  BY <1>1, <1>2, <1>4

-----------------------------------------------------------------------------
(* The amounts of a batch.                                                 *)

\* A sum of one term.
LEMMA SumOne ==
  ASSUME NEW f, NEW x, f[x] \in Int
  PROVE  SumFunctionOnSet(f, {x}) = f[x]
<1>1. IsFiniteSet({x}) /\ \A y \in {x} : f[y] \in Int
  BY FS_Singleton
<1>2. SumFunctionOnSet(f, {x}) = f[x] + SumFunctionOnSet(f, {x} \ {x})
  BY <1>1, SumStep
<1>3. {x} \ {x} = {}
  OBVIOUS
<1>4. SumFunctionOnSet(f, {x} \ {x}) = 0
  BY <1>3, SumEmpty
<1>5. QED
  BY <1>2, <1>4

\* The sum of terms that are sums.
LEMMA SumPlus ==
  ASSUME NEW f, NEW g, NEW h, NEW S, IsFiniteSet(S),
         \A x \in S : f[x] \in Int /\ g[x] \in Int /\ h[x] = f[x] + g[x]
  PROVE  SumFunctionOnSet(h, S) = SumFunctionOnSet(f, S) + SumFunctionOnSet(g, S)
<1>1. PICK Bad : Bad = {T \in SUBSET S :
                          SumFunctionOnSet(h, T) # SumFunctionOnSet(f, T) + SumFunctionOnSet(g, T)}
  OBVIOUS
<1>2. ASSUME Bad # {}
      PROVE  FALSE
  <2>1. PICK T \in Bad : \A V \in SUBSET T : V # T => V \notin Bad
    <3>1. Bad \in SUBSET (SUBSET S)
      BY <1>1
    <3> QED BY <1>2, <3>1, SmallestSet
  <2>2. T \in SUBSET S /\ IsFiniteSet(T)
    BY <1>1, FS_Subset
  <2>3. T # {}
    <3>1. ASSUME T = {}
          PROVE  FALSE
      <4>1. SumFunctionOnSet(f, T) = 0 /\ SumFunctionOnSet(g, T) = 0 /\ SumFunctionOnSet(h, T) = 0
        BY <3>1, SumEmpty
      <4>2. SumFunctionOnSet(h, T) # SumFunctionOnSet(f, T) + SumFunctionOnSet(g, T)
        BY <1>1, <2>1
      <4> QED BY ONLY <4>1, <4>2
    <3> QED BY <3>1
  <2>4. PICK x : x \in T
    BY <2>3
  <2>5. PICK V : V = T \ {x}
    OBVIOUS
  <2>6. f[x] \in Int /\ g[x] \in Int /\ h[x] = f[x] + g[x]
    BY <2>2, <2>4
  <2>7. V \in SUBSET S /\ IsFiniteSet(V) /\ V # T
    BY <2>2, <2>4, <2>5, FS_Subset
  <2>8. SumFunctionOnSet(f, T) = f[x] + SumFunctionOnSet(f, V) /\ SumFunctionOnSet(f, V) \in Int
    <3>1. (\A y \in T : f[y] \in Int) /\ \A y \in V : f[y] \in Int
      BY <2>2, <2>7
    <3> QED BY <2>2, <2>4, <2>5, <2>7, <3>1, SumStep
  <2>9. SumFunctionOnSet(g, T) = g[x] + SumFunctionOnSet(g, V) /\ SumFunctionOnSet(g, V) \in Int
    <3>1. (\A y \in T : g[y] \in Int) /\ \A y \in V : g[y] \in Int
      BY <2>2, <2>7
    <3> QED BY <2>2, <2>4, <2>5, <2>7, <3>1, SumStep
  <2>10. SumFunctionOnSet(h, T) = h[x] + SumFunctionOnSet(h, V)
    <3>1. \A y \in T : h[y] \in Int
      BY <2>2
    <3> QED BY <2>2, <2>4, <2>5, <3>1, SumStep
  <2>11. SumFunctionOnSet(h, V) = SumFunctionOnSet(f, V) + SumFunctionOnSet(g, V)
    BY <1>1, <2>1, <2>5, <2>7
  <2>12. SumFunctionOnSet(h, T) # SumFunctionOnSet(f, T) + SumFunctionOnSet(g, T)
    BY <1>1, <2>1
  <2> QED BY ONLY <2>6, <2>8, <2>9, <2>10, <2>11, <2>12
<1>3. QED
  BY <1>1, <1>2

\* The terms f has on T, which g has n places before.
Moved(f, g, n, T, K) ==
  /\ T \subseteq Int /\ K = {x - n : x \in T}
  /\ \A x \in T : f[x] \in Int /\ g[x - n] = f[x]

\* They have the same sum.
LEMMA SumShift ==
  ASSUME NEW f, NEW g, NEW n \in Int, NEW T, IsFiniteSet(T), NEW K, Moved(f, g, n, T, K)
  PROVE  SumFunctionOnSet(g, K) = SumFunctionOnSet(f, T)
<1>1. PICK key : key = [x \in T |-> x - n]
  OBVIOUS
<1>2. IsFiniteSet(K)
  <2>1. K = {key[x] : x \in T}
    BY <1>1 DEF Moved
  <2> QED BY <2>1, ImageFinite
<1>3. \A x \in T : key[x] \in K
  BY <1>1 DEF Moved
<1>4. ASSUME NEW k \in K
      PROVE  g[k] = SumFunctionOnSet(f, {x \in T : key[x] = k})
  <2>1. PICK y \in T : k = y - n
    BY DEF Moved
  <2>2. {x \in T : key[x] = k} = {y}
    <3>1. \A x \in T : x \in Int /\ key[x] = x - n
      BY <1>1 DEF Moved
    <3>2. \A x \in T : key[x] = k <=> x = y
      BY <2>1, <3>1
    <3> QED BY <3>2
  <2>3. f[y] \in Int /\ g[k] = f[y]
    BY <2>1 DEF Moved
  <2>4. SumFunctionOnSet(f, {y}) = f[y]
    BY <2>3, SumOne
  <2> QED BY <2>2, <2>3, <2>4
<1>5. \A x \in T : f[x] \in Int
  BY DEF Moved
<1>6. Parts(g, K, key, f, T)
  BY <1>3, <1>4 DEF Parts
<1>7. QED
  BY ONLY IsFiniteSet(T), <1>2, <1>5, <1>6, SumByParts

FeesOf(rs) == [n \in DOMAIN rs |-> ReceiptFee(rs[n].tariff)]

\* What a receipt says, and what a range of them is as a sequence.
LEMMA BodiesAre ==
  ASSUME NEW n \in Nat, NEW m \in Nat, n <= m
  PROVE  /\ Bodies(n + 1, m) \in Seq({Body(x) : x \in Nat})
         /\ Len(Bodies(n + 1, m)) = m - n /\ DOMAIN Bodies(n + 1, m) = 1..(m - n)
         /\ \A i \in 1..(m - n) : Bodies(n + 1, m)[i] = Body(n + i)
<1>1. PICK w \in Nat : w = m - n
  OBVIOUS
<1>2. m - (n + 1) + 1 = w
  BY <1>1
<1>3. PICK S : S = {Body(x) : x \in Nat}
  OBVIOUS
<1>4. PICK bodies : bodies = [i \in 1..w |-> Body(n + i)]
  OBVIOUS
<1>5. Bodies(n + 1, m) = bodies
  <2>1. \A i \in 1..w : n + 1 + i - 1 = n + i
    BY <1>1
  <2> QED BY <1>2, <1>4, <2>1 DEF Bodies
<1>6. bodies \in [1..w -> S]
  <2>1. \A i \in 1..w : n + i \in Nat
    OBVIOUS
  <2> QED BY <1>3, <1>4, <2>1
<1>7. bodies \in Seq(S) /\ Len(bodies) = w /\ DOMAIN bodies = 1..w
  BY <1>4, <1>6
<1>8. QED
  BY <1>1, <1>3, <1>4, <1>5, <1>7

\* A fee is an amount.
LEMMA FeeNat ==
  ASSUME NEW t \in Nat
  PROVE  ReceiptFee(t) \in Nat /\ Price(t) = t + ReceiptFee(t)
<1>1. t * FeeBps \in Nat
  BY ConfigAssumption DEF MAX_BPS
<1>2. QED
  BY <1>1, CeilDivBounds DEF Price, ReceiptFee

\* What the receipts of a batch come to is what the history from n + 1 to m does.
LEMMA BatchTotals ==
  ASSUME receipts \in Seq(Receipt), NEW n \in Nat, NEW m \in n..Len(receipts)
  PROVE  /\ TotalOf(Bodies(n + 1, m), "tariff") = SumFunctionOnSet(TariffsOf(receipts), n + 1..m)
         /\ TotalOf(Bodies(n + 1, m), "fee") = SumFunctionOnSet(FeesOf(receipts), n + 1..m)
         /\ \A d : OwedTo(Bodies(n + 1, m), d) = OwedBy(receipts, n + 1..m, d)
<1>1. PICK bodies, T : bodies = Bodies(n + 1, m) /\ T = n + 1..m
  OBVIOUS
<1>2. m \in Nat /\ n <= m
  OBVIOUS
<1>3. DOMAIN bodies = 1..(m - n) /\ \A i \in 1..(m - n) : bodies[i] = Body(n + i)
  BY <1>1, <1>2, BodiesAre
<1>4. DOMAIN bodies = {x - n : x \in T}
  <2>1. ASSUME NEW i \in 1..(m - n)
        PROVE  i \in {x - n : x \in T}
    <3>1. n + i \in T /\ i = n + i - n
      BY <1>1, <1>2
    <3> QED BY <3>1
  <2>2. \A x \in T : x - n \in 1..(m - n)
    BY <1>1, <1>2
  <2> QED BY <1>3, <2>1, <2>2
<1>5. \A x \in T : x \in DOMAIN receipts /\ x \in 1..Len(receipts) /\ x - n \in 1..(m - n) /\ n + (x - n) = x
  BY <1>1, <1>2
<1>6. ASSUME NEW x \in T
      PROVE  /\ x - n \in DOMAIN bodies /\ bodies[x - n] = Body(x)
             /\ TariffsOf(receipts)[x] = receipts[x].tariff /\ TariffsOf(receipts)[x] \in Int
             /\ FeesOf(receipts)[x] = ReceiptFee(receipts[x].tariff) /\ FeesOf(receipts)[x] \in Int
             /\ bodies[x - n].tariff = receipts[x].tariff /\ bodies[x - n].domain = receipts[x].domain
             /\ bodies[x - n].fee = ReceiptFee(receipts[x].tariff)
  <2>1. x - n \in DOMAIN bodies /\ bodies[x - n] = Body(x)
    BY <1>3, <1>5
  <2>2. receipts[x].tariff \in Nat /\ TariffsOf(receipts)[x] = receipts[x].tariff
    <3>1. {x} \in SUBSET (1..Len(receipts))
      BY <1>5
    <3> QED BY <3>1, ReceiptTypes
  <2>3. ReceiptFee(receipts[x].tariff) \in Nat
    <3>1. PICK t \in Nat : t = receipts[x].tariff
      BY <2>2
    <3> QED BY <3>1, FeeNat
  <2>4. FeesOf(receipts)[x] = ReceiptFee(receipts[x].tariff)
    BY <1>5 DEF FeesOf
  <2>5. /\ Body(x).tariff = receipts[x].tariff /\ Body(x).domain = receipts[x].domain
        /\ Body(x).fee = ReceiptFee(receipts[x].tariff)
    BY DEF Body
  <2> QED BY <2>1, <2>2, <2>3, <2>4, <2>5
<1>7. TotalOf(bodies, "tariff") = SumFunctionOnSet(TariffsOf(receipts), T)
  <2>1. PICK f, g : f = TariffsOf(receipts) /\ g = [i \in DOMAIN bodies |-> bodies[i].tariff]
    OBVIOUS
  <2>2. Moved(f, g, n, T, DOMAIN bodies)
    BY <1>1, <1>4, <1>6, <2>1 DEF Moved
  <2>3. n \in Int /\ IsFiniteSet(T)
    BY <1>1, <1>2, FS_Interval
  <2>4. SumFunctionOnSet(g, DOMAIN bodies) = SumFunctionOnSet(f, T)
    BY <2>2, <2>3, SumShift
  <2>5. DOMAIN g = DOMAIN bodies
    BY <2>1
  <2>6. TotalOf(bodies, "tariff") = SumFunctionOnSet(g, DOMAIN g)
    BY <2>1 DEF TotalOf, SumFunction
  <2> QED BY <2>1, <2>4, <2>5, <2>6
<1>8. TotalOf(bodies, "fee") = SumFunctionOnSet(FeesOf(receipts), T)
  <2>1. PICK f, g : f = FeesOf(receipts) /\ g = [i \in DOMAIN bodies |-> bodies[i].fee]
    OBVIOUS
  <2>2. Moved(f, g, n, T, DOMAIN bodies)
    BY <1>1, <1>4, <1>6, <2>1 DEF Moved
  <2>3. n \in Int /\ IsFiniteSet(T)
    BY <1>1, <1>2, FS_Interval
  <2>4. SumFunctionOnSet(g, DOMAIN bodies) = SumFunctionOnSet(f, T)
    BY <2>2, <2>3, SumShift
  <2>5. DOMAIN g = DOMAIN bodies
    BY <2>1
  <2>6. TotalOf(bodies, "fee") = SumFunctionOnSet(g, DOMAIN g)
    BY <2>1 DEF TotalOf, SumFunction
  <2> QED BY <2>1, <2>4, <2>5, <2>6
<1>9. ASSUME NEW d
      PROVE  OwedTo(bodies, d) = OwedBy(receipts, T, d)
  <2>1. PICK f, g, U : /\ f = TariffsOf(receipts) /\ g = [i \in DOMAIN bodies |-> bodies[i].tariff]
                       /\ U = {x \in T : receipts[x].domain = d}
    OBVIOUS
  <2>2. \A x \in U : f[x] \in Int /\ g[x - n] = f[x]
    BY <1>6, <2>1
  <2>3. IsFiniteSet(U) /\ U \subseteq Int
    <3>1. IsFiniteSet(T) /\ T \subseteq Int
      BY <1>1, <1>2, FS_Interval
    <3> QED BY <2>1, <3>1, FS_Subset
  <2>4. {i \in DOMAIN bodies : bodies[i].domain = d} = {x - n : x \in U}
    <3>1. \A x \in T : x - n \in DOMAIN bodies /\ bodies[x - n].domain = receipts[x].domain
      BY <1>6
    <3>2. ASSUME NEW i \in DOMAIN bodies, bodies[i].domain = d
          PROVE  \E x \in U : i = x - n
      <4>1. PICK x \in T : i = x - n
        BY <1>4
      <4> QED BY <2>1, <3>1, <3>2, <4>1
    <3> QED BY <2>1, <3>1, <3>2
  <2>5. SumFunctionOnSet(g, {i \in DOMAIN bodies : bodies[i].domain = d}) = SumFunctionOnSet(f, U)
    <3>1. Moved(f, g, n, U, {i \in DOMAIN bodies : bodies[i].domain = d})
      BY <2>2, <2>3, <2>4 DEF Moved
    <3> QED BY <2>3, <3>1, SumShift
  <2> QED BY <2>1, <2>5 DEF OwedTo, OwedBy
<1>10. QED
  BY <1>1, <1>7, <1>8, <1>9

\* Prices are tariffs and fees.
LEMMA PricesSplit ==
  ASSUME receipts \in Seq(Receipt), NEW n \in Nat, NEW m \in n..Len(receipts)
  PROVE  /\ CumulativeTo(m) - CumulativeTo(n) = SumFunctionOnSet(TariffsOf(receipts), n + 1..m)
                                                + SumFunctionOnSet(FeesOf(receipts), n + 1..m)
         /\ SumFunctionOnSet(TariffsOf(receipts), n + 1..m) \in Int
         /\ SumFunctionOnSet(FeesOf(receipts), n + 1..m) \in Int
<1>1. PICK T, f, g, h : /\ T = n + 1..m /\ f = TariffsOf(receipts) /\ g = FeesOf(receipts)
                        /\ h = PricesOf(receipts)
  OBVIOUS
<1>2. T \in SUBSET (1..Len(receipts)) /\ T \in SUBSET DOMAIN receipts
  BY <1>1
<1>3. ASSUME NEW x \in T
      PROVE  f[x] \in Int /\ g[x] \in Int /\ h[x] = f[x] + g[x]
  <2>1. receipts[x].tariff \in Nat /\ f[x] = receipts[x].tariff /\ h[x] = Price(receipts[x].tariff)
    BY <1>1, <1>2, ReceiptTypes
  <2>2. g[x] = ReceiptFee(receipts[x].tariff)
    BY <1>1, <1>2 DEF FeesOf
  <2>3. PICK t \in Nat : t = receipts[x].tariff
    BY <2>1
  <2>4. ReceiptFee(t) \in Nat /\ Price(t) = t + ReceiptFee(t)
    BY FeeNat
  <2> QED BY <2>1, <2>2, <2>3, <2>4
<1>4. IsFiniteSet(T)
  BY <1>2, ReceiptTypes
<1>5. SumFunctionOnSet(h, T) = SumFunctionOnSet(f, T) + SumFunctionOnSet(g, T)
  BY <1>3, <1>4, SumPlus
<1>6. SumFunctionOnSet(f, T) \in Int /\ SumFunctionOnSet(g, T) \in Int
  <2>1. (\A x \in T : f[x] \in Int) /\ \A x \in T : g[x] \in Int
    BY <1>3
  <2> QED BY <1>4, <2>1, SumStep
<1>7. CumulativeTo(m) = CostOf(receipts, m) /\ CumulativeTo(n) = CostOf(receipts, n)
  BY DEF CumulativeTo, CostOf, PricesOf
<1>8. CostOf(receipts, m) = CostOf(receipts, n) + SumFunctionOnSet(h, T) /\ CostOf(receipts, n) \in Nat
  BY <1>1, Extended
<1>9. QED
  BY <1>1, <1>5, <1>6, <1>7, <1>8

\* A history is what was settled before a range, and the range.
LEMMA ChainGoesOn ==
  ASSUME NEW n \in Nat, NEW m \in Nat, n <= m
  PROVE  Bodies(1, n) \o Bodies(n + 1, m) = Bodies(1, m)
<1>1. PICK S : S = {Body(x) : x \in Nat}
  OBVIOUS
<1>2. PICK a, b, c : a = Bodies(1, n) /\ b = Bodies(n + 1, m) /\ c = Bodies(1, m)
  OBVIOUS
<1>3. ASSUME NEW x \in Nat
      PROVE  Bodies(1, x) \in Seq(S) /\ Len(Bodies(1, x)) = x /\ \A i \in 1..x : Bodies(1, x)[i] = Body(i)
  <2>1. PICK z : z = 0
    OBVIOUS
  <2>2. /\ Bodies(z + 1, x) \in Seq(S) /\ Len(Bodies(z + 1, x)) = x - z
        /\ \A i \in 1..(x - z) : Bodies(z + 1, x)[i] = Body(z + i)
    <3>1. z \in Nat /\ z <= x
      BY <2>1
    <3> QED BY ONLY <1>1, <3>1, x \in Nat, BodiesAre
  <2>3. z + 1 = 1 /\ x - z = x /\ \A i \in 1..x : z + i = i
    BY <2>1
  <2> QED BY <2>2, <2>3
<1>4. /\ a \in Seq(S) /\ Len(a) = n /\ \A i \in 1..n : a[i] = Body(i)
      /\ c \in Seq(S) /\ Len(c) = m /\ \A i \in 1..m : c[i] = Body(i)
  BY <1>2, <1>3
<1>5. b \in Seq(S) /\ Len(b) = m - n /\ \A i \in 1..(m - n) : b[i] = Body(n + i)
  BY <1>1, <1>2, BodiesAre
<1>6. /\ a \o b \in Seq(S) /\ Len(a \o b) = m
      /\ \A i \in 1..m : (a \o b)[i] = IF i <= n THEN a[i] ELSE b[i - n]
  <2>1. /\ a \o b \in Seq(S) /\ Len(a \o b) = Len(a) + Len(b)
        /\ \A i \in 1..Len(a) + Len(b) : (a \o b)[i] = IF i <= Len(a) THEN a[i] ELSE b[i - Len(a)]
    BY <1>4, <1>5, ConcatProperties
  <2>2. Len(a) + Len(b) = m
    BY <1>4, <1>5
  <2> QED BY <1>4, <2>1, <2>2
<1>7. ASSUME NEW i \in 1..m
      PROVE  (a \o b)[i] = c[i]
  <2>1. CASE i <= n
    BY <1>4, <1>6, <2>1
  <2>2. CASE ~ i <= n
    <3>1. i - n \in 1..(m - n) /\ n + (i - n) = i
      BY <2>2
    <3>2. b[i - n] = Body(n + (i - n))
      BY <1>5, <3>1
    <3> QED BY <1>4, <1>6, <2>2, <3>1, <3>2
  <2> QED BY <2>1, <2>2
<1>8. a \o b = c
  BY <1>4, <1>6, <1>7, SeqEqual
<1>9. QED
  BY <1>2, <1>8

-----------------------------------------------------------------------------
(* What is published of a batch.                                           *)

\* A batch, and the transaction that is recorded with it.
LEMMA BatchFacts ==
  ASSUME IInv, NEW k \in 1..Len(batches)
  PROVE  /\ batches[k].tx \in 1..Len(txs) /\ OnNetwork(batches[k].tx)
         /\ txs[batches[k].tx].status = "landed"
         /\ txs[batches[k].tx].from = batches[k].from /\ txs[batches[k].tx].to = batches[k].to
         /\ batches[k].from \in Nat \ {0} /\ batches[k].to \in Nat
         /\ batches[k].from <= batches[k].to /\ batches[k].to <= Len(receipts)
         /\ k = 1 => batches[k].from = 1
         /\ k # 1 => k - 1 \in 1..Len(batches) /\ batches[k].from = batches[k - 1].to + 1
<1>1. /\ batches[k].tx \in 1..Len(txs) /\ Anchored(batches[k], txs[batches[k].tx])
      /\ batches[k].from <= batches[k].to
      /\ batches[k].from = IF k = 1 THEN 1 ELSE batches[k - 1].to + 1
  BY DEF IInv, BatchInv
<1>2. batches[k] \in Row
  BY DEF IInv, TypeInv
<1>3. batches[k].from \in Nat \ {0} /\ batches[k].to \in Nat
  BY <1>2, SettlerAssumption DEF Row
<1>4. txs[batches[k].tx].to <= Len(receipts)
  BY <1>1 DEF IInv, TxInv, Sound
<1>5. k # 1 => k - 1 \in 1..Len(batches)
  BY DEF IInv, TypeInv
<1>6. QED
  BY <1>1, <1>3, <1>4, <1>5 DEF Anchored, OnNetwork

\* Before the transaction of a batch landed, the escrow stood where the batch starts.
LEMMA StoodBefore ==
  ASSUME IInv, NEW k \in 1..Len(batches)
  PROVE  PositionBefore(batches[k].tx) = batches[k].from - 1
<1>1. PICK i, from, to : i = batches[k].tx /\ from = batches[k].from /\ to = batches[k].to
  OBVIOUS
<1>2. /\ i \in 1..Len(txs) /\ txs[i].status = "landed" /\ txs[i].from = from /\ txs[i].to = to
      /\ from \in Nat \ {0} /\ to \in Nat /\ from <= to
  BY <1>1, BatchFacts
<1>3. PICK S : S = {0} \cup {txs[j].to : j \in {j \in 1..Len(txs) : /\ txs[j].status = "landed"
                                                                     /\ txs[j].to < txs[i].to}}
  OBVIOUS
<1>4. \A j \in 1..Len(txs) : /\ txs[j].from \in Nat /\ txs[j].to \in Nat /\ txs[j].from <= txs[j].to
  <2>1. \A j \in 1..Len(txs) : txs[j] \in Transaction
    BY DEF IInv, TypeInv
  <2> QED BY <2>1, SettlerAssumption DEF Transaction, IInv, TxInv, Sound
<1>5. ASSUME NEW n \in S
      PROVE  n \in Nat /\ n <= from - 1
  <2>1. CASE n = 0
    BY <1>2, <2>1
  <2>2. CASE n # 0
    <3>1. PICK j \in 1..Len(txs) : txs[j].status = "landed" /\ txs[j].to < txs[i].to /\ n = txs[j].to
      BY <1>3, <2>2
    <3>2. j # i
      BY <1>2, <3>1
    <3>3. txs[j].to < txs[i].from \/ txs[i].to < txs[j].from
      BY <1>2, <3>1, <3>2 DEF IInv, TxInv
    <3> QED BY <1>2, <1>4, <3>1, <3>3
  <2> QED BY <2>1, <2>2
<1>6. from - 1 \in S
  <2>1. CASE k = 1
    BY <1>1, <1>3, <2>1, BatchFacts
  <2>2. CASE k # 1
    <3>1. k - 1 \in 1..Len(batches) /\ from = batches[k - 1].to + 1
      BY <1>1, <2>2, BatchFacts
    <3>2. PICK h \in 1..Len(batches) : h = k - 1
      BY <3>1
    <3>3. PICK j : j = batches[h].tx
      OBVIOUS
    <3>4. /\ j \in 1..Len(txs) /\ txs[j].status = "landed" /\ txs[j].to = batches[h].to
          /\ batches[h].to \in Nat
      BY <3>3, BatchFacts
    <3>5. from - 1 = txs[j].to /\ txs[j].to < txs[i].to
      BY <1>2, <3>1, <3>2, <3>4
    <3> QED BY <1>3, <3>4, <3>5
  <2> QED BY <2>1, <2>2
<1>7. Max(S) = from - 1
  <2>1. PICK n \in Nat : n = from - 1
    BY <1>2
  <2>2. S \in SUBSET (0..n) /\ S # {}
    BY <1>2, <1>5, <1>6, <2>1
  <2>3. Max(S) \in S /\ \A x \in S : x <= Max(S)
    BY <2>2, GreatestOf
  <2> QED BY <1>2, <1>5, <1>6, <2>3
<1>8. PositionBefore(i) = Max(S)
  BY <1>3 DEF PositionBefore
<1>9. QED
  BY <1>1, <1>7, <1>8

Contents == {Body(x) : x \in Nat}

\* What is published of a batch: its own range, anchored, after what was settled before.
LEMMA PublishedIs ==
  ASSUME IInv, NEW k \in 1..Len(batches), NEW p, p = Published(k)
  PROVE  /\ p = [from |-> p.from, to |-> p.to, tx |-> p.tx, receipts |-> p.receipts,
                 previous |-> p.previous, paths |-> p.paths]
         /\ p.tx = batches[k].tx /\ p.from = batches[k].from /\ p.to = batches[k].to
         /\ p.receipts = Bodies(p.from, p.to) /\ p.receipts \in Seq(Contents)
         /\ Len(p.receipts) = p.to - p.from + 1
         /\ \A i \in DOMAIN p.receipts : /\ p.receipts[i].seq = p.from + i - 1
                                         /\ p.paths[i] = merkleProof(p.receipts, i)
         /\ Anchors(p.tx, p.to) /\ StartsWhereSettled(p)
         /\ StartingChain(p) \in Seq(Contents)
         /\ StartingChain(p) \o p.receipts = AnchoredChain(p.tx)
         /\ merkleRoot(p.receipts) = AnchoredRoot(p.tx)
<1>1. PICK tx, from, to : tx = batches[k].tx /\ from = batches[k].from /\ to = batches[k].to
  OBVIOUS
<1>2. PICK bodies : bodies = Bodies(from, to)
  OBVIOUS
<1>3. /\ p = [from |-> p.from, to |-> p.to, tx |-> p.tx, receipts |-> p.receipts,
              previous |-> p.previous, paths |-> p.paths]
      /\ p.tx = tx /\ p.from = from /\ p.to = to /\ p.receipts = bodies
      /\ p.previous = IF k = 1 THEN 0 ELSE batches[k - 1].tx
      /\ p.paths = [i \in DOMAIN bodies |-> merkleProof(bodies, i)]
  BY <1>1, <1>2 DEF Published
<1>4. /\ OnNetwork(tx) /\ txs[tx].status = "landed" /\ txs[tx].from = from /\ txs[tx].to = to
      /\ from \in Nat \ {0} /\ to \in Nat /\ from <= to
      /\ k = 1 => from = 1
      /\ k # 1 => k - 1 \in 1..Len(batches) /\ from = batches[k - 1].to + 1
  BY <1>1, BatchFacts
<1>5. PICK n : n = from - 1
  OBVIOUS
<1>6. n \in Nat /\ n + 1 = from /\ n <= to /\ to - n = to - from + 1
  BY <1>4, <1>5
<1>7. /\ bodies \in Seq(Contents) /\ Len(bodies) = to - n /\ DOMAIN bodies = 1..(to - n)
      /\ \A i \in 1..(to - n) : bodies[i] = Body(n + i)
  <2>1. bodies = Bodies(n + 1, to)
    BY <1>2, <1>6
  <2> QED BY <1>4, <1>6, <2>1, BodiesAre DEF Contents
<1>8. ASSUME NEW i \in DOMAIN bodies
      PROVE  bodies[i].seq = from + i - 1 /\ p.paths[i] = merkleProof(bodies, i)
  <2>1. bodies[i] = Body(n + i) /\ i \in Int
    BY <1>7
  <2>2. Body(n + i).seq = n + i
    BY DEF Body
  <2>3. n + i = from + i - 1
    BY <1>4, <1>5, <2>1
  <2> QED BY <1>3, <2>1, <2>2, <2>3
<1>9. Anchors(tx, to)
  BY <1>4 DEF Anchors
<1>10. merkleRoot(bodies) = AnchoredRoot(tx)
  BY <1>2, <1>4 DEF AnchoredRoot
<1>11. AnchoredChain(tx) = Bodies(1, to)
  BY <1>4 DEF AnchoredChain
<1>12. CASE from = 1
  <2>1. StartingChain(p) = << >> /\ StartsWhereSettled(p)
    BY <1>3, <1>12 DEF StartingChain, StartsWhereSettled
  <2>2. << >> \in Seq(Contents) /\ << >> \o bodies = bodies
    BY <1>7, EmptySeq, ConcatEmptySeq
  <2>3. bodies = Bodies(1, to)
    BY <1>2, <1>12
  <2> QED BY <1>1, <1>2, <1>3, <1>6, <1>7, <1>8, <1>9, <1>10, <1>11, <2>1, <2>2, <2>3
<1>13. CASE from # 1
  <2>1. k # 1 /\ k - 1 \in 1..Len(batches) /\ n = batches[k - 1].to
    <3>1. k # 1 /\ k - 1 \in 1..Len(batches) /\ from = batches[k - 1].to + 1
      BY <1>4, <1>13
    <3>2. batches[k - 1].to \in Nat
      BY <3>1, BatchFacts
    <3> QED BY <1>4, <1>5, <3>1, <3>2
  <2>2. PICK h \in 1..Len(batches) : h = k - 1
    BY <2>1
  <2>3. p.previous = batches[h].tx
    BY <1>3, <2>1, <2>2
  <2>4. OnNetwork(p.previous) /\ txs[p.previous].status = "landed" /\ txs[p.previous].to = n
    <3>1. /\ OnNetwork(batches[h].tx) /\ txs[batches[h].tx].status = "landed"
          /\ txs[batches[h].tx].to = batches[h].to
      BY BatchFacts
    <3> QED BY <2>1, <2>2, <2>3, <3>1
  <2>5. StartsWhereSettled(p)
    BY <1>3, <1>5, <2>4 DEF StartsWhereSettled, Anchors
  <2>6. StartingChain(p) = Bodies(1, n)
    BY <1>3, <1>13, <2>4 DEF StartingChain, AnchoredChain
  <2>7. Bodies(1, n) \in Seq(Contents)
    <3>1. PICK z : z = 0
      OBVIOUS
    <3>2. Bodies(z + 1, n) \in Seq(Contents)
      <4>1. z \in Nat /\ z <= n
        BY <1>6, <3>1
      <4> QED BY ONLY <1>6, <4>1, BodiesAre DEF Contents
    <3>3. z + 1 = 1
      BY <3>1
    <3> QED BY <3>2, <3>3
  <2>8. Bodies(1, n) \o bodies = Bodies(1, to)
    <3>1. Bodies(1, n) \o Bodies(n + 1, to) = Bodies(1, to)
      BY <1>4, <1>6, ChainGoesOn
    <3>2. bodies = Bodies(n + 1, to)
      BY <1>2, <1>6
    <3> QED BY ONLY <3>1, <3>2
  <2> QED BY <1>1, <1>2, <1>3, <1>6, <1>7, <1>8, <1>9, <1>10, <1>11, <2>5, <2>6, <2>7, <2>8
<1>14. QED
  BY <1>12, <1>13

\* What is reported of the amounts is what moved.
LEMMA AmountsReconcile ==
  ASSUME IInv, NEW k \in 1..Len(batches), NEW p, p = Published(k)
  PROVE  /\ ReconcileAmounts(p, Legs(p.tx))
         /\ Legs(p.tx) = [d \in Domains |-> OwedTo(p.receipts, d)]
<1>1. PICK tx, from, to, n : /\ tx = batches[k].tx /\ from = batches[k].from /\ to = batches[k].to
                             /\ n = from - 1
  OBVIOUS
<1>2. /\ txs[tx].from = from /\ txs[tx].to = to /\ PositionBefore(tx) = n
      /\ from \in Nat \ {0} /\ to \in Nat /\ from <= to /\ to <= Len(receipts)
  BY <1>1, BatchFacts, StoodBefore
<1>3. receipts \in Seq(Receipt) /\ n \in Nat /\ n + 1 = from /\ to \in n..Len(receipts)
  <2>1. receipts \in Seq(Receipt)
    BY DEF IInv, TypeInv
  <2>2. Len(receipts) \in Nat
    BY <2>1
  <2>3. n \in Nat /\ n + 1 = from /\ n <= to
    BY <1>1, <1>2
  <2>4. to \in n..Len(receipts)
    BY <1>2, <2>2, <2>3
  <2> QED BY <2>1, <2>3, <2>4
<1>4. p.tx = tx /\ p.receipts = Bodies(n + 1, to)
  BY <1>1, <1>3, PublishedIs
<1>5. PICK tariffs, fees : /\ tariffs = SumFunctionOnSet(TariffsOf(receipts), n + 1..to)
                           /\ fees = SumFunctionOnSet(FeesOf(receipts), n + 1..to)
  OBVIOUS
<1>6. /\ TotalOf(p.receipts, "tariff") = tariffs /\ TotalOf(p.receipts, "fee") = fees
      /\ \A d : OwedTo(p.receipts, d) = OwedBy(receipts, n + 1..to, d)
  BY <1>3, <1>4, <1>5, BatchTotals
<1>7. CumulativeTo(to) - CumulativeTo(n) = tariffs + fees /\ tariffs \in Int /\ fees \in Int
  BY <1>3, <1>5, PricesSplit
<1>8. VaultDebit(tx) = tariffs + fees
  BY <1>2, <1>7 DEF VaultDebit
<1>9. TariffTotal(txs[tx]) = tariffs
  BY <1>2, <1>3, <1>5 DEF TariffTotal, TariffsOf
<1>10. TreasuryCredit(tx) = fees
  BY <1>7, <1>8, <1>9 DEF TreasuryCredit
<1>11. \A d \in Domains : Leg(txs[tx], d) = OwedTo(p.receipts, d)
  BY <1>2, <1>3, <1>6 DEF Leg, OwedBy, TariffsOf
<1>12. Legs(tx) = [d \in Domains |-> OwedTo(p.receipts, d)]
  BY <1>11 DEF Legs
<1>13. QED
  BY <1>4, <1>6, <1>8, <1>10, <1>12 DEF ReconcileAmounts

\* Every receipt of a batch verifies.
LEMMA TruthVerifies ==
  ASSUME IInv, NEW k \in 1..Len(batches), NEW p, p = Published(k), NEW i \in DOMAIN p.receipts
  PROVE  Verified(p.receipts[i], p, p.paths[i], Legs(p.tx))
<1>1. /\ p.receipts \in Seq(Contents) /\ p.receipts[i].seq = p.from + i - 1
      /\ p.paths[i] = merkleProof(p.receipts, i)
      /\ WellFormed(p) /\ Anchors(p.tx, p.to) /\ StartsWhereSettled(p)
      /\ StartingChain(p) \o p.receipts = AnchoredChain(p.tx)
      /\ merkleRoot(p.receipts) = AnchoredRoot(p.tx)
  BY PublishedIs DEF WellFormed
<1>2. p.receipts[i].seq - p.from + 1 = i
  <2>1. p.from \in Nat /\ i \in Nat
    <3>1. p.from = batches[k].from /\ batches[k].from \in Nat
      BY PublishedIs, BatchFacts
    <3>2. DOMAIN p.receipts = 1..Len(p.receipts) /\ Len(p.receipts) \in Nat
      BY <1>1, LenProperties
    <3> QED BY <3>1, <3>2
  <2> QED BY <1>1, <2>1
<1>3. RecomputeChain(p.receipts[i], p)
  BY <1>1, <1>2 DEF RecomputeChain
<1>4. verifyInclusion(p.receipts[i], p.paths[i], AnchoredRoot(p.tx))
  <2>1. verifyInclusion(p.receipts[i], merkleProof(p.receipts, i), merkleRoot(p.receipts))
    BY <1>1, Included
  <2> QED BY <1>1, <2>1
<1>5. ReconcileAmounts(p, Legs(p.tx))
  BY AmountsReconcile
<1>6. QED
  BY <1>1, <1>3, <1>4, <1>5 DEF Verified

\* The chain commits to the receipts: on one starting value no others verify.
LEMMA ChainCommits ==
  ASSUME IInv, NEW k \in 1..Len(batches), NEW p, p = Published(k),
         NEW q, q.from = p.from, q.previous = p.previous, q.tx = p.tx, \E W : q.receipts \in Seq(W),
         NEW body, RecomputeChain(body, q)
  PROVE  q.receipts = p.receipts
<1> PICK W : q.receipts \in Seq(W)
  OBVIOUS
<1>1. PICK S : S = Contents \cup W
  OBVIOUS
<1>2. PICK a, b, c : a = StartingChain(p) /\ b = p.receipts /\ c = q.receipts
  OBVIOUS
<1>3. a \in Seq(Contents) /\ b \in Seq(Contents) /\ a \o b = AnchoredChain(p.tx)
  BY <1>2, PublishedIs
<1>4. a \in Seq(S) /\ b \in Seq(S) /\ c \in Seq(S)
  <2>1. Contents \subseteq S /\ W \subseteq S
    BY <1>1
  <2> QED BY <1>2, <1>3, <2>1, SeqMonotonic
<1>5. StartingChain(q) = a
  BY <1>2 DEF StartingChain
<1>6. a \o c = AnchoredChain(p.tx)
  BY <1>2, <1>5 DEF RecomputeChain
<1>7. b = c
  <2>1. a \o b = a \o c
    BY <1>3, <1>6
  <2> QED BY ONLY <1>4, <2>1, ConcatSimplifications
<1>8. QED
  BY <1>2, <1>7

\* One receipt that was changed.
LEMMA ChangeShows ==
  ASSUME IInv, NEW k \in 1..Len(batches), NEW p, p = Published(k),
         NEW i \in DOMAIN p.receipts, NEW changed,
         NEW q, q = WithReceipt(p, i, changed),
         NEW body, RecomputeChain(body, q)
  PROVE  q = p
<1>1. p = [from |-> p.from, to |-> p.to, tx |-> p.tx, receipts |-> p.receipts,
           previous |-> p.previous, paths |-> p.paths]
      /\ p.receipts \in Seq(Contents)
  BY PublishedIs
<1>2. /\ q = [from |-> p.from, to |-> p.to, tx |-> p.tx, receipts |-> q.receipts,
              previous |-> p.previous, paths |-> p.paths]
      /\ q.receipts = [p.receipts EXCEPT ![i] = changed]
      /\ q.from = p.from /\ q.previous = p.previous /\ q.tx = p.tx
  BY <1>1 DEF WithReceipt
<1>3. PICK W : W = Contents \cup {changed}
  OBVIOUS
<1>4. q.receipts \in Seq(W)
  <2>1. p.receipts \in Seq(W) /\ changed \in W
    BY <1>1, <1>3, SeqMonotonic
  <2>2. i \in 1..Len(p.receipts)
    BY <1>1, LenProperties
  <2> QED BY <1>2, <2>1, <2>2, ExceptSeq
<1>5. q.receipts = p.receipts
  <2>1. q.from = p.from /\ q.previous = p.previous /\ q.tx = p.tx
    BY <1>2
  <2>2. \E V : q.receipts \in Seq(V)
    BY <1>4
  <2> QED BY ONLY IInv, k \in 1..Len(batches), p = Published(k), RecomputeChain(body, q),
                  <2>1, <2>2, ChainCommits
<1>6. QED
  BY <1>1, <1>2, <1>5

\* The root commits to where the batch starts.
LEMMA CutShows ==
  ASSUME IInv, NEW k \in 1..Len(batches), NEW p, p = Published(k),
         NEW from \in 1..p.to, NEW j,
         NEW q, q = CutAt(p, from, j),
         NEW body, RecomputeChain(body, q)
  PROVE  [q EXCEPT !.previous = p.previous] = p
<1>1. /\ p = [from |-> p.from, to |-> p.to, tx |-> p.tx, receipts |-> p.receipts,
              previous |-> p.previous, paths |-> p.paths]
      /\ p.receipts = Bodies(p.from, p.to) /\ merkleRoot(p.receipts) = AnchoredRoot(p.tx)
      /\ p.from = batches[k].from /\ p.to = batches[k].to
  BY PublishedIs
<1>2. q = [from |-> from, to |-> p.to, tx |-> p.tx, receipts |-> Bodies(from, p.to),
           previous |-> j, paths |-> p.paths]
  BY <1>1 DEF CutAt
<1>3. merkleRoot(Bodies(from, p.to)) = merkleRoot(Bodies(p.from, p.to))
  <2>1. q.receipts = Bodies(from, p.to) /\ q.tx = p.tx
    BY <1>2
  <2>2. merkleRoot(q.receipts) = AnchoredRoot(q.tx)
    BY DEF RecomputeChain
  <2> QED BY <1>1, <2>1, <2>2
<1>4. p.from \in Nat \ {0} /\ p.to \in Nat /\ p.from <= p.to
  BY <1>1, BatchFacts
<1>5. ASSUME NEW x \in 1..p.to
      PROVE  /\ Bodies(x, p.to) \in Seq(Contents) /\ Len(Bodies(x, p.to)) >= 1
             /\ Bodies(x, p.to)[1].seq = x
  <2>1. PICK n, to : n = x - 1 /\ to = p.to
    OBVIOUS
  <2>2. n \in Nat /\ to \in Nat /\ n <= to /\ n + 1 = x /\ to - n >= 1
    BY <1>4, <2>1
  <2>3. /\ Bodies(n + 1, to) \in Seq(Contents) /\ Len(Bodies(n + 1, to)) = to - n
        /\ \A i \in 1..(to - n) : Bodies(n + 1, to)[i] = Body(n + i)
    BY ONLY <2>2, BodiesAre DEF Contents
  <2>4. Bodies(x, to)[1] = Body(n + 1)
    BY <2>2, <2>3
  <2>5. Body(n + 1).seq = x
    BY <2>2 DEF Body
  <2> QED BY <2>1, <2>2, <2>3, <2>4, <2>5
<1>6. Bodies(from, p.to) = Bodies(p.from, p.to)
  <2>1. p.from \in 1..p.to
    BY <1>4
  <2> QED BY <1>3, <1>5, <2>1, RootsCommit
<1>7. from = p.from
  <2>1. p.from \in 1..p.to
    BY <1>4
  <2> QED BY <1>5, <1>6, <2>1
<1>8. [q EXCEPT !.previous = p.previous]
      = [from |-> p.from, to |-> p.to, tx |-> p.tx, receipts |-> p.receipts,
         previous |-> p.previous, paths |-> p.paths]
  BY <1>1, <1>2, <1>7
<1>9. QED
  BY <1>1, <1>8

\* One transaction took the escrow to the end of a batch.
LEMMA TransactionShows ==
  ASSUME IInv, NEW k \in 1..Len(batches), NEW p, p = Published(k),
         NEW i, NEW q, q = OnTheWordOf(p, i), Anchors(q.tx, q.to)
  PROVE  q = p
<1>1. /\ p = [from |-> p.from, to |-> p.to, tx |-> p.tx, receipts |-> p.receipts,
              previous |-> p.previous, paths |-> p.paths]
      /\ Anchors(p.tx, p.to)
  BY PublishedIs
<1>2. q = [from |-> p.from, to |-> p.to, tx |-> i, receipts |-> p.receipts,
           previous |-> p.previous, paths |-> p.paths]
  BY <1>1 DEF OnTheWordOf
<1>3. PICK j : j = p.tx
  OBVIOUS
<1>4. /\ i \in 1..Len(txs) /\ txs[i].status = "landed" /\ txs[i].to = p.to
      /\ j \in 1..Len(txs) /\ txs[j].status = "landed" /\ txs[j].to = p.to
  BY <1>1, <1>2, <1>3 DEF Anchors, OnNetwork
<1>5. /\ txs[i].from \in Nat /\ txs[i].to \in Nat /\ txs[i].from <= txs[i].to
      /\ txs[j].from \in Nat /\ txs[j].to \in Nat /\ txs[j].from <= txs[j].to
  <2>1. txs[i] \in Transaction /\ txs[j] \in Transaction
    BY <1>4 DEF IInv, TypeInv
  <2>2. txs[i].from <= txs[i].to /\ txs[j].from <= txs[j].to
    BY <1>4 DEF IInv, TxInv, Sound
  <2> QED BY <2>1, <2>2, SettlerAssumption DEF Transaction
<1>6. i = j
  <2>1. i # j => txs[i].to < txs[j].from \/ txs[j].to < txs[i].from
    BY <1>4 DEF IInv, TxInv
  <2> QED BY <1>4, <1>5, <2>1
<1>7. QED
  BY <1>1, <1>2, <1>3, <1>6

\* Nothing else verifies on the word of the batch's transaction, whatever path and legs
\* are shown.
LEMMA ForgeriesFail ==
  ASSUME IInv, NEW k \in 1..Len(batches), NEW p, p = Published(k), NEW q \in Forgeries(p),
         NEW body, NEW path, NEW legs, Verified(body, q, path, legs)
  PROVE  [q EXCEPT !.previous = p.previous] = p
<1>1. /\ p = [from |-> p.from, to |-> p.to, tx |-> p.tx, receipts |-> p.receipts,
              previous |-> p.previous, paths |-> p.paths]
      /\ [p EXCEPT !.previous = p.previous] = p
  <2>1. p = [from |-> p.from, to |-> p.to, tx |-> p.tx, receipts |-> p.receipts,
             previous |-> p.previous, paths |-> p.paths]
    BY PublishedIs
  <2> QED BY <2>1
<1>2. RecomputeChain(body, q) /\ Anchors(q.tx, q.to)
  BY DEF Verified
<1>3. ASSUME NEW i \in DOMAIN p.receipts, NEW changed,
             q = WithReceipt(p, i, changed)
      PROVE  q = p
  BY ONLY IInv, k \in 1..Len(batches), p = Published(k), i \in DOMAIN p.receipts, <1>2, <1>3, ChangeShows
<1>4. CASE \E i \in DOMAIN p.receipts : \E changed : q = WithReceipt(p, i, changed)
  <2>1. q = p
    BY <1>3, <1>4
  <2> QED BY <1>1, <2>1
<1>5. CASE \E from \in 1..p.to, j \in 0..Len(txs) : q = CutAt(p, from, j)
  BY <1>2, <1>5, CutShows
<1>6. CASE \E i \in 1..Len(txs) : q = OnTheWordOf(p, i)
  <2>1. q = p
    BY <1>2, <1>6, TransactionShows
  <2> QED BY <1>1, <2>1
<1>7. \/ \E i \in DOMAIN p.receipts : \E changed : q = WithReceipt(p, i, changed)
      \/ \E from \in 1..p.to, j \in 0..Len(txs) : q = CutAt(p, from, j)
      \/ \E i \in 1..Len(txs) : q = OnTheWordOf(p, i)
  <2> DEFINE A == {WithReceipt(p, i, [p.receipts[i] EXCEPT !.domain = d]) : i \in DOMAIN p.receipts, d \in Domains}
             B == {WithReceipt(p, i, [p.receipts[i] EXCEPT !.tariff = @ + 1]) : i \in DOMAIN p.receipts}
             C == {WithReceipt(p, i, [p.receipts[i] EXCEPT !.fee = @ + 1]) : i \in DOMAIN p.receipts}
             F == 1..p.to
             J == 0..Len(txs)
             D == {CutAt(p, from, j) : from \in F, j \in J}
             E == {OnTheWordOf(p, i) : i \in 1..Len(txs)}
  <2>1. Forgeries(p) = A \cup B \cup C \cup D \cup E
    BY DEF Forgeries
  <2>2. q \in A => \E i \in DOMAIN p.receipts : \E changed : q = WithReceipt(p, i, changed)
    <3>1. q \in A => \E i \in DOMAIN p.receipts, d \in Domains :
                       q = WithReceipt(p, i, [p.receipts[i] EXCEPT !.domain = d])
      OBVIOUS
    <3> HIDE DEF A
    <3> QED BY <3>1
  <2>3. q \in B => \E i \in DOMAIN p.receipts : \E changed : q = WithReceipt(p, i, changed)
    <3>1. q \in B => \E i \in DOMAIN p.receipts :
                       q = WithReceipt(p, i, [p.receipts[i] EXCEPT !.tariff = @ + 1])
      OBVIOUS
    <3> HIDE DEF B
    <3> QED BY <3>1
  <2>4. q \in C => \E i \in DOMAIN p.receipts : \E changed : q = WithReceipt(p, i, changed)
    <3>1. q \in C => \E i \in DOMAIN p.receipts :
                       q = WithReceipt(p, i, [p.receipts[i] EXCEPT !.fee = @ + 1])
      OBVIOUS
    <3> HIDE DEF C
    <3> QED BY <3>1
  <2>5. q \in D => \E from \in F, j \in J : q = CutAt(p, from, j)
    <3> HIDE DEF F, J
    <3> QED OBVIOUS
  <2>6. q \in E => \E i \in 1..Len(txs) : q = OnTheWordOf(p, i)
    OBVIOUS
  <2> HIDE DEF A, B, C, D, E
  <2> QED BY <2>1, <2>2, <2>3, <2>4, <2>5, <2>6
<1>8. QED
  BY <1>4, <1>5, <1>6, <1>7

\* A payment to another domain shows in the legs.
LEMMA LegsShow ==
  ASSUME IInv, NEW k \in 1..Len(batches), NEW p, p = Published(k),
         NEW wrong \in Misdirected(k), ReconcileAmounts(p, wrong)
  PROVE  wrong = Legs(p.tx)
<1>1. PICK legs : legs = Legs(p.tx)
  OBVIOUS
<1>2. p.tx = batches[k].tx
  BY PublishedIs
<1>3. legs = [d \in Domains |-> OwedTo(p.receipts, d)]
  BY <1>1, AmountsReconcile
<1>4. PICK d \in Domains, e \in Domains : wrong = [legs EXCEPT ![d] = @ - 1, ![e] = @ + 1]
  BY <1>1, <1>2 DEF Misdirected
<1>5. wrong = [c \in Domains |-> wrong[c]]
  BY <1>3, <1>4
<1>6. \A c \in Domains : wrong[c] = OwedTo(p.receipts, c)
  BY DEF ReconcileAmounts
<1>7. QED
  BY <1>1, <1>3, <1>5, <1>6

(***************************************************************************)
(* What the gateway publishes of a batch verifies (apps/gateway's anchor   *)
(* and composition, packages/core's verifyReceipt), receipt by receipt and *)
(* whenever it is asked, however large the batch and its tree: against the *)
(* transaction recorded with it, and as nothing but what it is.            *)
(***************************************************************************)
THEOREM EveryBatchVerifies ==
  ASSUME AboveDust
  PROVE  Spec => [](PublishedIsVerifiable /\ \A k \in 1..Len(batches) : OnlyTheTruthVerifies(k))
<1>1. ASSUME IInv, NEW k \in 1..Len(batches)
      PROVE  OnlyTheTruthVerifies(k)
  <2>1. PICK p : p = Published(k)
    OBVIOUS
  <2>2. ASSUME NEW i \in DOMAIN p.receipts
        PROVE  /\ Verified(p.receipts[i], p, p.paths[i], Legs(p.tx))
               /\ \A q \in Forgeries(p) : Verified(p.receipts[i], q, p.paths[i], Legs(p.tx))
                                            => [q EXCEPT !.previous = p.previous] = p
               /\ \A wrong \in Misdirected(k) \ {Legs(p.tx)} :
                    ~ Verified(p.receipts[i], p, p.paths[i], wrong)
    <3>1. Verified(p.receipts[i], p, p.paths[i], Legs(p.tx))
      BY <1>1, <2>1, TruthVerifies
    <3>2. ASSUME NEW q \in Forgeries(p), Verified(p.receipts[i], q, p.paths[i], Legs(p.tx))
          PROVE  [q EXCEPT !.previous = p.previous] = p
      BY <1>1, <2>1, <3>2, ForgeriesFail
    <3>3. ASSUME NEW wrong \in Misdirected(k) \ {Legs(p.tx)},
                 Verified(p.receipts[i], p, p.paths[i], wrong)
          PROVE  FALSE
      <4>1. ReconcileAmounts(p, wrong)
        BY <3>3 DEF Verified
      <4> QED BY <1>1, <2>1, <4>1, LegsShow
    <3> QED BY <3>1, <3>2, <3>3
  <2> QED BY <2>1, <2>2 DEF OnlyTheTruthVerifies
<1>2. IInv => PublishedIsVerifiable /\ \A k \in 1..Len(batches) : OnlyTheTruthVerifies(k)
  <2> SUFFICES ASSUME IInv
               PROVE  PublishedIsVerifiable /\ \A k \in 1..Len(batches) : OnlyTheTruthVerifies(k)
    OBVIOUS
  <2>1. \A k \in 1..Len(batches) : OnlyTheTruthVerifies(k)
    BY <1>1
  <2>2. batches # << >> => Len(batches) \in 1..Len(batches)
    BY EmptySeq DEF IInv, TypeInv
  <2> QED BY <2>1, <2>2 DEF PublishedIsVerifiable
<1>3. QED
  BY <1>2, Invariant, PTL

=============================================================================
