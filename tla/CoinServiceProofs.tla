------------------------- MODULE CoinServiceProofs -------------------------
(***************************************************************************)
(* No interleaving of the coin operations, their failures and retries      *)
(* overdraws an account, breaks the ledger or pays a hold twice: proved    *)
(* for any number of accounts, holds and sessions, and any inputs.         *)
(***************************************************************************)
EXTENDS CoinService, FiniteSetTheorems, TLAPS
-----------------------------------------------------------------------------
(* Sums over finite sets, and what a distribution gives out.               *)

Pick(s) == CHOOSE x \in s : TRUE

\* g computes the sums of f over the subsets of S.
Sums(g, f, S) == g = [s \in SUBSET S |->
    IF s = {} THEN 0
    ELSE f[Pick(s)] + g[s \ {Pick(s)}]]

\* Induction over a finite set: a family of subsets has a smallest member.
LEMMA SmallestSubset ==
    ASSUME NEW S, IsFiniteSet(S), NEW B, B \subseteq SUBSET S, B # {}
    PROVE  \E T \in B : \A U \in B : U \subseteq T => U = T
<1>1. IsWellFoundedOn(StrictSubsetOrdering(S), FiniteSubsetsOf(S))
  BY FS_StrictSubsetOrderingWellFounded
<1>2. B \subseteq FiniteSubsetsOf(S)
  BY FS_Subset DEF FiniteSubsetsOf
<1>3. PICK T \in B : \A U \in B : ~ (<<U, T>> \in StrictSubsetOrdering(S))
  <2> HIDE DEF FiniteSubsetsOf, StrictSubsetOrdering
  <2> QED BY <1>1, <1>2, WFMin
<1>4. \A U \in B : U \subseteq T => U = T
  BY <1>3 DEF StrictSubsetOrdering
<1> QED  BY <1>4

LEMMA SumIsSums ==
    ASSUME NEW f, NEW S
    PROVE  SumFunctionOnSet(f, S) = (CHOOSE g : Sums(g, f, S))[S]
BY DEF SumFunctionOnSet, FoldFunctionOnSet, MapThenFoldSet, Sums, Pick

LEMMA Picked == ASSUME NEW s, s # {} PROVE Pick(s) \in s
BY DEF Pick

LEMMA SumsUnique ==
    ASSUME NEW f, NEW g, NEW h, NEW S, NEW T, IsFiniteSet(S),
           Sums(g, f, S), Sums(h, f, T)
    PROVE  \A U \in SUBSET (S \cap T) : g[U] = h[U]
<1> DEFINE B == {U \in SUBSET S : U \subseteq T /\ g[U] # h[U]}
<1> SUFFICES ASSUME B # {} PROVE FALSE
  OBVIOUS
<1>0. B \subseteq SUBSET S
  OBVIOUS
<1> HIDE DEF B
<1>1. PICK U \in B : \A V \in B : V \subseteq U => V = U
  BY <1>0, SmallestSubset
<1> USE DEF B
<1>2. U # {}
  BY <1>1 DEF Sums
<1> DEFINE x == Pick(U)  V == U \ {x}
<1>3. x \in U
  BY <1>2, Picked
<1>4. g[V] = h[V]
  BY <1>1, <1>3
<1>5. g[U] = f[x] + g[V] /\ h[U] = f[x] + h[V]
  BY <1>1, <1>2 DEF Sums
<1> QED  BY <1>1, <1>4, <1>5

LEMMA SumsExist ==
    ASSUME NEW f, NEW S, IsFiniteSet(S)
    PROVE  \E g : Sums(g, f, S)
<1> DEFINE B == {T \in SUBSET S : ~ \E g : Sums(g, f, T)}
<1> SUFFICES ASSUME B # {} PROVE FALSE
  OBVIOUS
<1>0. B \subseteq SUBSET S
  OBVIOUS
<1> HIDE DEF B
<1>1. PICK T \in B : \A U \in B : U \subseteq T => U = T
  BY <1>0, SmallestSubset
<1> USE DEF B
<1> DEFINE Sum(U) == SumFunctionOnSet(f, U)
<1>2. \A U \in SUBSET T : IsFiniteSet(U)
  BY <1>1, FS_Subset
<1>3. ASSUME NEW U \in SUBSET T, U # T
      PROVE  Sum(U) = IF U = {} THEN 0 ELSE f[Pick(U)] + Sum(U \ {Pick(U)})
  <2>1. \A V \in SUBSET U : (\E g : Sums(g, f, V)) /\ Sum(V) = (CHOOSE g : Sums(g, f, V))[V]
    BY <1>1, <1>3, SumIsSums
  <2> HIDE DEF Sum
  <2>2. PICK g : Sums(g, f, U) /\ Sum(U) = g[U]
    BY <2>1
  <2>3. CASE U = {}
    BY <2>2, <2>3 DEF Sums
  <2>4. CASE U # {}
    <3> DEFINE V == U \ {Pick(U)}
    <3>1. PICK h : Sums(h, f, V) /\ Sum(V) = h[V]
      BY <2>1
    <3>2. g[U] = f[Pick(U)] + g[V]
      BY <2>2, <2>4 DEF Sums
    <3>3. h[V] = g[V]
      <4>1. \A W \in SUBSET (U \cap V) : g[W] = h[W]
        BY <1>2, <2>2, <3>1, SumsUnique
      <4> QED  BY <4>1
    <3> QED  BY <2>2, <2>4, <3>1, <3>2, <3>3
  <2> QED  BY <2>3, <2>4
<1> DEFINE g == [s \in SUBSET T |-> IF s = {} THEN 0 ELSE f[Pick(s)] + Sum(s \ {Pick(s)})]
<1> HIDE DEF Sum
<1>4. \A s \in SUBSET T : s # {} => g[s \ {Pick(s)}] = Sum(s \ {Pick(s)})
  <2> SUFFICES ASSUME NEW s \in SUBSET T, s # {} PROVE g[s \ {Pick(s)}] = Sum(s \ {Pick(s)})
    OBVIOUS
  <2> DEFINE V == s \ {Pick(s)}
  <2>1. V \in SUBSET T /\ V # T
    BY Picked
  <2> HIDE DEF V
  <2>2. g[V] = IF V = {} THEN 0 ELSE f[Pick(V)] + Sum(V \ {Pick(V)})
    BY <2>1
  <2> HIDE DEF g
  <2>3. g[V] = Sum(V)
    BY <1>3, <2>1, <2>2
  <2> QED  BY <2>3 DEF V
<1>5. Sums(g, f, T)
  BY <1>4 DEF Sums
<1> QED  BY <1>1, <1>5

\* The sum over a finite set, one element at a time.
LEMMA SumUnfolds ==
    ASSUME NEW f, NEW S, IsFiniteSet(S)
    PROVE  SumFunctionOnSet(f, S) =
             IF S = {} THEN 0 ELSE f[Pick(S)] + SumFunctionOnSet(f, S \ {Pick(S)})
<1> DEFINE V == S \ {Pick(S)}
<1>1. PICK g : Sums(g, f, S) /\ SumFunctionOnSet(f, S) = g[S]
  BY SumsExist, SumIsSums
<1>2. IsFiniteSet(V)
  BY FS_Subset
<1>3. PICK h : Sums(h, f, V) /\ SumFunctionOnSet(f, V) = h[V]
  BY <1>2, SumsExist, SumIsSums
<1>4. \A U \in SUBSET (S \cap V) : g[U] = h[U]
  BY <1>1, <1>3, SumsUnique
<1>5. g[V] = h[V]
  BY <1>4
<1>6. g[S] = IF S = {} THEN 0 ELSE f[Pick(S)] + g[V]
  BY <1>1 DEF Sums
<1> QED  BY <1>1, <1>3, <1>5, <1>6

\* Any element may be taken out first.
LEMMA SumWithout ==
    ASSUME NEW S, IsFiniteSet(S), NEW f, \A x \in S : f[x] \in Int
    PROVE  /\ SumFunctionOnSet(f, S) \in Int
           /\ \A x \in S : SumFunctionOnSet(f, S) = f[x] + SumFunctionOnSet(f, S \ {x})
<1> DEFINE Sum(T) == SumFunctionOnSet(f, T)
           Fine(T) == /\ Sum(T) \in Int
                      /\ \A x \in T : Sum(T) = f[x] + Sum(T \ {x})
           B == {T \in SUBSET S : ~ Fine(T)}
<1> SUFFICES ASSUME B # {} PROVE FALSE
  OBVIOUS
<1>0. B \subseteq SUBSET S
  OBVIOUS
<1> HIDE DEF B
<1>1. PICK T \in B : \A U \in B : U \subseteq T => U = T
  BY <1>0, SmallestSubset
<1> USE DEF B
<1>2. \A U \in SUBSET T : U # T => Fine(U)
  BY <1>1
<1>3. \A U \in SUBSET S : Sum(U) = IF U = {} THEN 0 ELSE f[Pick(U)] + Sum(U \ {Pick(U)})
  BY SumUnfolds, FS_Subset
<1> HIDE DEF Sum
<1>4. CASE T = {}
  <2>1. Sum(T) = 0
    BY <1>1, <1>3, <1>4
  <2> QED  BY <1>1, <1>4, <2>1
<1>5. CASE T # {}
  <2> DEFINE y == Pick(T)  V == T \ {y}
  <2>1. y \in T /\ f[y] \in Int /\ Sum(T) = f[y] + Sum(V)
    BY <1>1, <1>3, <1>5, Picked
  <2> HIDE DEF y
  <2>2. Sum(V) \in Int
    BY <1>2, <2>1
  <2>3. ASSUME NEW x \in T PROVE Sum(T) = f[x] + Sum(T \ {x})
    <3>1. CASE x = y
      BY <2>1, <3>1
    <3>2. CASE x # y
      <4> DEFINE W == V \ {x}
      <4>1. Sum(V) = f[x] + Sum(W)
        BY <1>2, <2>1, <3>2
      <4>2. Sum(T \ {x}) = f[y] + Sum((T \ {x}) \ {y})
        BY <1>2, <2>1, <3>2
      <4>3. (T \ {x}) \ {y} = W
        OBVIOUS
      <4>4. f[x] \in Int /\ Sum(W) \in Int
        BY <1>1, <1>2, <2>1
      <4>5. Sum(T) = f[y] + Sum(V) /\ f[y] \in Int
        BY <2>1
      <4>6. Sum(T \ {x}) = f[y] + Sum(W)
        BY <4>2, <4>3
      <4> HIDE DEF W, V
      <4> QED  BY <4>1, <4>4, <4>5, <4>6
    <3> QED  BY <3>1, <3>2
  <2>4. Fine(T)
    BY <2>1, <2>2, <2>3
  <2> QED  BY <1>1, <2>4
<1> QED  BY <1>4, <1>5

\* The function that is a at r and 0 elsewhere.
At(S, r, a) == [x \in S |-> IF x = r THEN a ELSE 0]

\* Functions that agree have the same sum, and sums add up.
LEMMA SumAdds ==
    ASSUME NEW S, IsFiniteSet(S), NEW f, NEW g, NEW h,
           \A x \in S : f[x] \in Int /\ g[x] \in Int /\ h[x] = f[x] + g[x]
    PROVE  SumFunctionOnSet(h, S) = SumFunctionOnSet(f, S) + SumFunctionOnSet(g, S)
<1> DEFINE F(T) == SumFunctionOnSet(f, T)
           G(T) == SumFunctionOnSet(g, T)
           H(T) == SumFunctionOnSet(h, T)
           B == {T \in SUBSET S : H(T) # F(T) + G(T)}
<1> SUFFICES ASSUME B # {} PROVE FALSE
  BY FS_Subset
<1>0. B \subseteq SUBSET S
  OBVIOUS
<1> HIDE DEF B
<1>1. PICK T \in B : \A U \in B : U \subseteq T => U = T
  BY <1>0, SmallestSubset
<1> USE DEF B
<1>2. IsFiniteSet(T) /\ \A x \in T : f[x] \in Int /\ g[x] \in Int /\ h[x] \in Int
  BY <1>1, FS_Subset
<1>3. CASE T = {}
  <2>1. F(T) = 0 /\ G(T) = 0 /\ H(T) = 0
    BY <1>2, <1>3, SumUnfolds
  <2> HIDE DEF F, G, H
  <2> QED  BY <1>1, <2>1
<1>4. CASE T # {}
  <2>1. PICK x \in T : TRUE
    BY <1>4
  <2> DEFINE U == T \ {x}
  <2>2. F(T) = f[x] + F(U) /\ G(T) = g[x] + G(U) /\ H(T) = h[x] + H(U)
    BY <1>2, SumWithout
  <2>3. F(U) \in Int /\ G(U) \in Int
    BY <1>2, FS_Subset, SumWithout
  <2> HIDE DEF F, G, H
  <2>4. H(U) = F(U) + G(U)
    BY <1>1, <2>1
  <2>5. h[x] = f[x] + g[x] /\ f[x] \in Int /\ g[x] \in Int
    BY <1>1, <2>1
  <2>6. H(T) = F(T) + G(T)
    <3> HIDE DEF U
    <3> QED  BY <2>2, <2>3, <2>4, <2>5
  <2> QED  BY <1>1, <2>6
<1> QED  BY <1>3, <1>4

LEMMA SumOfZeros ==
    ASSUME NEW S, IsFiniteSet(S), NEW f, \A x \in S : f[x] = 0
    PROVE  SumFunctionOnSet(f, S) = 0
<1> DEFINE n == SumFunctionOnSet(f, S)
<1>1. n \in Int
  BY SumWithout
<1>2. n = n + n
  BY SumAdds
<1> HIDE DEF n
<1>3. n = 0
  BY <1>1, <1>2
<1> QED  BY <1>3 DEF n

LEMMA SumOfEqual ==
    ASSUME NEW S, IsFiniteSet(S), NEW f, NEW g, \A x \in S : f[x] \in Int /\ g[x] = f[x]
    PROVE  SumFunctionOnSet(g, S) = SumFunctionOnSet(f, S)
<1> DEFINE z == [x \in S |-> 0]
<1>1. SumFunctionOnSet(z, S) = 0
  BY SumOfZeros
<1>2. SumFunctionOnSet(f, S) \in Int
  BY SumWithout
<1>3. SumFunctionOnSet(g, S) = SumFunctionOnSet(f, S) + SumFunctionOnSet(z, S)
  BY SumAdds
<1> QED  BY <1>1, <1>2, <1>3

LEMMA SumAt ==
    ASSUME NEW S, IsFiniteSet(S), NEW r, NEW a \in Int
    PROVE  /\ r \in S => SumFunctionOnSet(At(S, r, a), S) = a
           /\ r \notin S => SumFunctionOnSet(At(S, r, a), S) = 0
<1>1. CASE r \notin S
  BY <1>1, SumOfZeros DEF At
<1>2. CASE r \in S
  <2>1. SumFunctionOnSet(At(S, r, a), S \ {r}) = 0
    BY FS_Subset, SumOfZeros DEF At
  <2>2. \A x \in S : At(S, r, a)[x] \in Int
    BY DEF At
  <2>3. SumFunctionOnSet(At(S, r, a), S) = At(S, r, a)[r] + 0
    BY <1>2, <2>1, <2>2, SumWithout
  <2> QED  BY <1>2, <2>3 DEF At
<1> QED  BY <1>1, <1>2

LEMMA SumPlusAt ==
    ASSUME NEW S, IsFiniteSet(S), NEW r, NEW a \in Int, NEW f, NEW h,
           \A x \in S : f[x] \in Int /\ h[x] = f[x] + (IF x = r THEN a ELSE 0)
    PROVE  /\ SumFunctionOnSet(f, S) \in Int
           /\ r \in S => SumFunctionOnSet(h, S) = SumFunctionOnSet(f, S) + a
           /\ r \notin S => SumFunctionOnSet(h, S) = SumFunctionOnSet(f, S)
<1>1. SumFunctionOnSet(f, S) \in Int
  BY SumWithout
<1>2. SumFunctionOnSet(h, S) = SumFunctionOnSet(f, S) + SumFunctionOnSet(At(S, r, a), S)
  <2>1. \A x \in S : At(S, r, a)[x] \in Int /\ h[x] = f[x] + At(S, r, a)[x]
    BY DEF At
  <2> QED  BY <2>1, SumAdds
<1> QED  BY <1>1, <1>2, SumAt
-----------------------------------------------------------------------------
LEMMA SeqElement ==
    ASSUME NEW S, NEW q \in Seq(S), NEW i \in DOMAIN q
    PROVE  q[i] \in S
OBVIOUS

LEMMA SplitFields ==
    ASSUME NEW splits \in Seq([to : Nat, amt : Int])
    PROVE  /\ IsFiniteSet(DOMAIN splits)
           /\ \A i \in DOMAIN splits : splits[i].to \in Nat /\ splits[i].amt \in Int
<1>1. DOMAIN splits = 1 .. Len(splits) /\ Len(splits) \in Nat
  OBVIOUS
<1>2. \A i \in DOMAIN splits : splits[i] \in [to : Nat, amt : Int]
  BY SeqElement
<1>3. \A i \in DOMAIN splits : splits[i].to \in Nat /\ splits[i].amt \in Int
  BY <1>2
<1> QED  BY <1>1, <1>3, FS_Interval

\* gets[D] is what the amounts in D give each of A.
Parted(gets, to, amt, N, A) ==
    /\ \A i \in N : amt[i] \in Int /\ to[i] \in A
    /\ \A q \in A :
          /\ gets[{}][q] = 0
          /\ \A D \in SUBSET N :
                /\ gets[D][q] \in Int
                /\ \A i \in D : gets[D][q] = gets[D \ {i}][q] + (IF q = to[i] THEN amt[i] ELSE 0)

\* Amounts that each go to a user, a purse or the sink are what these get together.
LEMMA PartedSum ==
    ASSUME NEW U, NEW P, NEW z, IsFiniteSet(U), IsFiniteSet(P),
           U \cap P = {}, z \notin U, z \notin P,
           NEW N, IsFiniteSet(N), NEW to, NEW amt, NEW gets,
           Parted(gets, to, amt, N, U \cup P \cup {z})
    PROVE  SumFunctionOnSet(amt, N) =
             SumFunctionOnSet(gets[N], U) + SumFunctionOnSet(gets[N], P) + gets[N][z]
<1> DEFINE Fine(D) == SumFunctionOnSet(amt, D) =
                        SumFunctionOnSet(gets[D], U) + SumFunctionOnSet(gets[D], P) + gets[D][z]
           B == {D \in SUBSET N : ~ Fine(D)}
<1> USE DEF Parted
<1> SUFFICES ASSUME B # {} PROVE FALSE
  OBVIOUS
<1>0. B \subseteq SUBSET N
  OBVIOUS
<1> HIDE DEF B
<1>1. PICK D \in B : \A E \in B : E \subseteq D => E = D
  BY <1>0, SmallestSubset
<1>2. D \in SUBSET N /\ ~ Fine(D) /\ \A E \in SUBSET D : E # D => Fine(E)
  BY <1>1 DEF B
<1>3. CASE D = {}
  <2>1. SumFunctionOnSet(gets[D], U) = 0 /\ SumFunctionOnSet(gets[D], P) = 0
    BY <1>3, SumOfZeros
  <2>2. SumFunctionOnSet(amt, D) = 0
    BY <1>3, FS_EmptySet, SumOfZeros
  <2> QED  BY <1>2, <1>3, <2>1, <2>2
<1>4. CASE D # {}
  <2>1. PICK i \in D : TRUE
    BY <1>4
  <2> DEFINE E == D \ {i}
             u == SumFunctionOnSet(gets[E], U)
             p == SumFunctionOnSet(gets[E], P)
             s == gets[E][z]
             t == SumFunctionOnSet(amt, E)
             r == to[i]
             a == amt[i]
  <2>2. r \in U \cup P \cup {z} /\ a \in Int /\ E \in SUBSET N /\ t = u + p + s
    BY <1>2, <2>1
  <2>3. IsFiniteSet(D) /\ IsFiniteSet(E) /\ \A x \in D : amt[x] \in Int
    BY <1>2, FS_Subset
  <2>4. SumFunctionOnSet(amt, D) = a + t /\ t \in Int
    BY <2>1, <2>3, SumWithout
  <2>5. \A q \in U \cup P \cup {z} :
          /\ gets[E][q] \in Int
          /\ gets[D][q] = gets[E][q] + (IF q = r THEN a ELSE 0)
    BY <1>2, <2>1, <2>2
  <2>6. /\ u \in Int
        /\ r \in U => SumFunctionOnSet(gets[D], U) = u + a
        /\ r \notin U => SumFunctionOnSet(gets[D], U) = u
    <3> DEFINE f == gets[E]  h == gets[D]
    <3> HIDE DEF r, a, E
    <3>1. \A x \in U : f[x] \in Int /\ h[x] = f[x] + (IF x = r THEN a ELSE 0)
      BY <2>5
    <3> HIDE DEF f, h
    <3>2. /\ SumFunctionOnSet(f, U) \in Int
          /\ r \in U => SumFunctionOnSet(h, U) = SumFunctionOnSet(f, U) + a
          /\ r \notin U => SumFunctionOnSet(h, U) = SumFunctionOnSet(f, U)
      BY <2>2, <3>1, SumPlusAt
    <3> QED  BY <3>2 DEF f, h
  <2>7. /\ p \in Int
        /\ r \in P => SumFunctionOnSet(gets[D], P) = p + a
        /\ r \notin P => SumFunctionOnSet(gets[D], P) = p
    <3> DEFINE f == gets[E]  h == gets[D]
    <3> HIDE DEF r, a, E
    <3>1. \A x \in P : f[x] \in Int /\ h[x] = f[x] + (IF x = r THEN a ELSE 0)
      BY <2>5
    <3> HIDE DEF f, h
    <3>2. /\ SumFunctionOnSet(f, P) \in Int
          /\ r \in P => SumFunctionOnSet(h, P) = SumFunctionOnSet(f, P) + a
          /\ r \notin P => SumFunctionOnSet(h, P) = SumFunctionOnSet(f, P)
      BY <2>2, <3>1, SumPlusAt
    <3> QED  BY <3>2 DEF f, h
  <2>8. s \in Int /\ gets[D][z] = s + (IF z = r THEN a ELSE 0)
    BY <2>5
  <2> HIDE DEF u, p, s, t, r, a, E
  <2>9. Fine(D)
    <3> DEFINE du == SumFunctionOnSet(gets[D], U)
               dp == SumFunctionOnSet(gets[D], P)
               ds == gets[D][z]
               dt == SumFunctionOnSet(amt, D)
    <3>1. dt = a + t /\ t = u + p + s
      BY <2>2, <2>4
    <3>2. \/ du = u + a /\ dp = p /\ ds = s
          \/ du = u /\ dp = p + a /\ ds = s
          \/ du = u /\ dp = p /\ ds = s + a
      BY <2>2, <2>6, <2>7, <2>8
    <3> HIDE DEF du, dp, ds, dt
    <3>3. dt = du + dp + ds
      BY <2>2, <2>4, <2>6, <2>7, <2>8, <3>1, <3>2
    <3> QED  BY <3>3 DEF du, dp, ds, dt
  <2> QED  BY <1>2, <2>9
<1> QED  BY <1>3, <1>4

Gives(gets, paid, to, N, A) ==
    \A D \in SUBSET N, q \in A :
        gets[D][q] = IF \E i \in D : to[i] = q THEN paid[q] ELSE 0

LEMMA EachParted ==
    ASSUME NEW N, NEW A, NEW to, NEW amt, NEW gets, NEW paid,
           \A i \in N : amt[i] \in Int /\ to[i] \in A /\ paid[to[i]] = amt[i],
           \A i, j \in N : to[i] = to[j] => i = j,
           Gives(gets, paid, to, N, A)
    PROVE  Parted(gets, to, amt, N, A)
<1>2. ASSUME NEW q \in A PROVE gets[{}][q] = 0
  BY DEF Gives
<1>3. ASSUME NEW q \in A, NEW D \in SUBSET N PROVE gets[D][q] \in Int
  BY DEF Gives
<1>4. ASSUME NEW q \in A, NEW D \in SUBSET N, NEW i \in D
      PROVE  gets[D][q] = gets[D \ {i}][q] + (IF q = to[i] THEN amt[i] ELSE 0)
  <2>1. CASE q = to[i]
    <3>1. gets[D \ {i}][q] = 0 /\ gets[D][q] = amt[i]
      BY <2>1 DEF Gives
    <3> QED  BY <2>1, <3>1
  <2>2. CASE q # to[i]
    <3>1. gets[D \ {i}][q] = gets[D][q]
      BY <2>2 DEF Gives
    <3> QED  BY <1>3, <2>2, <3>1
  <2> QED  BY <2>1, <2>2
<1> QED  BY <1>2, <1>3, <1>4 DEF Parted

\* What users, purses and the sink get of a distribution is what it gives out.
LEMMA SharesGiveAll ==
    ASSUME NEW splits \in Seq([to : Nat, amt : Int]),
           NEW U, NEW P, NEW z, IsFiniteSet(U), IsFiniteSet(P),
           U \cap P = {}, z \notin U, z \notin P,
           Recipients(splits) \subseteq U \cup P \cup {z},
           \A i, j \in DOMAIN splits : splits[i].to = splits[j].to => i = j,
           NEW f, NEW g, \A u \in U : f[u] = Share(splits, u), \A p \in P : g[p] = Share(splits, p)
    PROVE  Total(splits) = SumFunctionOnSet(f, U) + SumFunctionOnSet(g, P) + Share(splits, z)
<1> DEFINE N == DOMAIN splits
           A == U \cup P \cup {z}
           amt == [i \in N |-> splits[i].amt]
           to == [i \in N |-> splits[i].to]
           paid == [q \in A |-> splits[CHOOSE i \in N : splits[i].to = q].amt]
           gets == [D \in SUBSET N |-> [q \in A |-> IF \E i \in D : to[i] = q THEN paid[q] ELSE 0]]
<1>1. /\ IsFiniteSet(N)
      /\ \A i \in N : amt[i] \in Int /\ to[i] \in A
      /\ \A i, j \in N : to[i] = to[j] => i = j
  BY SplitFields DEF Recipients
<1>2. \A i \in N : paid[to[i]] = amt[i]
  <2> SUFFICES ASSUME NEW j \in N PROVE paid[to[j]] = amt[j]
    OBVIOUS
  <2>1. to[j] \in A /\ to[j] = splits[j].to
    BY <1>1
  <2>2. (CHOOSE i \in N : splits[i].to = splits[j].to) = j
    OBVIOUS
  <2>3. paid[splits[j].to] = splits[CHOOSE i \in N : splits[i].to = splits[j].to].amt
    BY <2>1
  <2> QED  BY <2>1, <2>2, <2>3
<1>3. \A q \in A : Share(splits, q) = IF \E i \in N : to[i] = q THEN paid[q] ELSE 0
  BY DEF Share, Recipients
<1>4. Gives(gets, paid, to, N, A)
  <2> HIDE DEF to, paid, A, N
  <2> QED  BY DEF Gives
<1>5. \A q \in A : Share(splits, q) = gets[N][q]
  <2> HIDE DEF to, paid, A, N
  <2> QED  BY <1>3
<1>6. Total(splits) = SumFunctionOnSet(amt, N)
  BY DEF Total, SumFunction
<1> HIDE DEF gets, to, amt, N, paid
<1>7. Parted(gets, to, amt, N, A)
  BY <1>1, <1>2, <1>4, EachParted
<1>8. \A q \in A : gets[N][q] \in Int
  BY <1>7 DEF Parted
<1>9. SumFunctionOnSet(amt, N) =
         SumFunctionOnSet(gets[N], U) + SumFunctionOnSet(gets[N], P) + gets[N][z]
  BY <1>1, <1>7, PartedSum
<1>10. /\ SumFunctionOnSet(f, U) = SumFunctionOnSet(gets[N], U)
       /\ SumFunctionOnSet(g, P) = SumFunctionOnSet(gets[N], P)
  BY <1>5, <1>8, SumOfEqual
<1> QED  BY <1>5, <1>6, <1>9, <1>10
-----------------------------------------------------------------------------
(* Each session keeps what the others rely on.                              *)

USE DEF Rows, Sink, MaxTransferAttempts

\* What a session relies on survives the steps of the others, which neither
\* touch its variables nor take its locks.
LEMMA OtherSessionKeepsOK ==
    ASSUME NEW q \in Sessions, TypeOK, SessionOK(q),
           UNCHANGED tables,
           call'[q] = call[q], pc'[q] = pc[q], need'[q] = need[q], pend'[q] = pend[q],
           \A r \in Rows : lock[r] = q => lock'[r] = q
    PROVE  SessionOK(q)'
<1>1. WritesUnderLock(q)'
  BY DEF SessionOK, WritesUnderLock, Seen, tables
<1>2. \A accounts : Covered(q, accounts) => Covered(q, accounts)'
  BY DEF Covered
<1>3. InTransfer(q) => InTransfer(q)'
  BY <1>2 DEF InTransfer
<1>4. InTerminal(q) => InTerminal(q)'
  BY <1>2 DEF InTerminal, tables
<1>5. InCommit(q) => InCommit(q)'
  BY <1>4 DEF InCommit, tables
<1> QED
  BY <1>1, <1>3, <1>4, <1>5 DEF SessionOK

\* A step that leaves the tables alone keeps the invariants of the tables.
LEMMA TablesUnchanged ==
    ASSUME UNCHANGED tables
    PROVE  /\ NoOverdraft => NoOverdraft'
           /\ LedgerReconciles => LedgerReconciles'
           /\ HoldPaidOnce => HoldPaidOnce'
BY DEF tables, NoOverdraft, LedgerReconciles, HoldPaidOnce

\* The empty write set and the idle call.
LEMMA NoWritesType ==
    /\ NoWrites \in WriteSets
    /\ \A u \in Users : NoWrites.bal[u] = 0 /\ NoWrites.ledger[u] = 0
    /\ \A t \in Slugs : NoWrites.purse[t] = 0
    /\ NoWrites.st = "none"
BY DEF NoWrites, WriteSets, States

LEMMA CallType ==
    ASSUME NEW op \in Ops, NEW src \in Nat, NEW dst \in Nat, NEW amt \in Int, NEW h \in Nat,
           NEW splits \in SplitList
    PROVE  Call(op, src, dst, amt, h, splits) \in Calls
BY DEF Call, Calls

LEMMA EmptySplits == <<>> \in SplitList
BY DEF SplitList

LEMMA NoCallType == NoCall \in Calls
BY CallType, EmptySplits DEF NoCall, Ops

\* The write set after one more pending statement.
LEMMA CreditedType ==
    ASSUME NEW w \in WriteSets, NEW u \in Users, NEW a \in Int
    PROVE  /\ Credited(w, u, a) \in WriteSets
           /\ Recorded(w, u, a) \in WriteSets
BY DEF Credited, Recorded, WriteSets

LEMMA PurseCreditedType ==
    ASSUME NEW w \in WriteSets, NEW t \in Slugs, NEW a \in Int
    PROVE  PurseCredited(w, t, a) \in WriteSets
BY DEF PurseCredited, WriteSets

LEMMA InitInductive == Init => Inductive
<1> SUFFICES ASSUME Init PROVE Inductive
  OBVIOUS
<1>1. TypeOK
  BY RowAssumption, InputAssumption, NoWritesType, NoCallType DEF Init, TypeOK, EmptyHold, HoldRows, Entries, States, Labels
<1>2. NoOverdraft /\ LedgerReconciles /\ HoldPaidOnce
  BY InputAssumption DEF Init, NoOverdraft, LedgerReconciles, HoldPaidOnce, EmptyHold
<1>3. \A s \in Sessions : SessionOK(s)
  BY InputAssumption, NoWritesType DEF Init, SessionOK, WritesUnderLock, Seen
<1> QED
  BY <1>1, <1>2, <1>3 DEF Inductive

\* Ending a call, by failure or after a commit, leaves the session idle with
\* nothing pending and takes no other session's lock.
LEMMA AbortKeeps ==
    ASSUME NEW s \in Sessions, Inductive, Abort(s)
    PROVE  Inductive'
<1> USE DEF Inductive
<1>1. TypeOK'
  BY NoWritesType, NoCallType DEF TypeOK, Labels, Abort, EndOfCall, ReleaseAll, Goto, tables
<1>2. SessionOK(s)'
  <2>1. pend'[s] = NoWrites /\ pc'[s] = "idle"
    BY DEF TypeOK, Abort, EndOfCall, Goto
  <2>2. bal' \in [Users -> Int] /\ purse' \in [Slugs -> Int] /\ NoOverdraft'
    BY <1>1, TablesUnchanged DEF Abort, TypeOK
  <2> QED
    BY <2>1, <2>2, NoWritesType DEF SessionOK, WritesUnderLock, Seen, NoOverdraft
<1>3. \A q \in Sessions \ {s} : SessionOK(q)'
  <2> SUFFICES ASSUME NEW q \in Sessions, q # s PROVE SessionOK(q)'
    OBVIOUS
  <2>1. /\ call'[q] = call[q] /\ pc'[q] = pc[q] /\ need'[q] = need[q] /\ pend'[q] = pend[q]
        /\ \A r \in Rows : lock[r] = q => lock'[r] = q
    BY DEF TypeOK, Abort, EndOfCall, ReleaseAll, Goto
  <2> QED
    BY <2>1, OtherSessionKeepsOK DEF Abort
<1> QED
  BY <1>1, <1>2, <1>3, TablesUnchanged DEF Abort

\* Every step but Commit writes no table: the stepping session must be found in
\* order, the others are by OtherSessionKeepsOK.
Local(s) == /\ UNCHANGED tables
            /\ \A q \in Sessions \ {s} :
                  /\ call'[q] = call[q] /\ pc'[q] = pc[q]
                  /\ need'[q] = need[q] /\ pend'[q] = pend[q]
                  /\ \A r \in Rows : lock[r] = q => lock'[r] = q

LEMMA LocalStep ==
    ASSUME NEW s \in Sessions, Inductive, Local(s), TypeOK', SessionOK(s)'
    PROVE  Inductive'
<1>1. \A q \in Sessions \ {s} : SessionOK(q)'
  BY OtherSessionKeepsOK DEF Local, Inductive
<1> QED
  BY <1>1, TablesUnchanged DEF Local, Inductive

\* The single-account operations: one guarded statement under the row lock,
\* then the commit.
LEMMA OneStatement ==
    ASSUME NEW s \in Sessions, Inductive, NEW c \in Calls, NEW w \in WriteSets,
           Begin(s, c, "commit"), pend' = [pend EXCEPT ![s] = w],
           UNCHANGED <<tables, need>>,
           lock' \in [Rows -> Sessions \cup {NoSession}],
           \A r \in Rows : lock[r] \in Sessions => lock'[r] = lock[r],
           \A u \in Users : /\ w.bal[u] # 0 => lock'[u] = s
                            /\ bal[u] + w.bal[u] >= 0
                            /\ w.bal[u] = w.ledger[u],
           \A t \in Slugs : /\ w.purse[t] # 0 => lock'[t] = s
                            /\ purse[t] + w.purse[t] >= 0,
           w.st \in {"none", "held"},
           w.st = "held" => c.hold \in Holds /\ lock'[c.hold] = s /\ hold[c.hold].st = "none"
    PROVE  Inductive'
<1> USE DEF Inductive, Begin, Goto
<1>1. TypeOK'
  BY DEF TypeOK, tables, Labels
<1>2. Local(s)
  BY DEF Local, TypeOK
<1>3. SessionOK(s)'
  <2>1. pc'[s] = "commit" /\ pend'[s] = w /\ call'[s] = c
    BY DEF TypeOK
  <2>2. w.bal = w.ledger
    BY DEF WriteSets
  <2>3. InCommit(s)'
    BY <2>1, <2>2 DEF InCommit, tables
  <2>4. WritesUnderLock(s)'
    BY <2>1 DEF WritesUnderLock, Seen, tables
  <2> QED
    BY <2>1, <2>3, <2>4 DEF SessionOK
<1> QED
  BY <1>1, <1>2, <1>3, LocalStep

LEMMA ChargeKeeps ==
    ASSUME NEW s \in Sessions, NEW u \in Users, NEW a \in Amounts,
           Inductive, Charge(s, u, a)
    PROVE  Inductive'
<1> DEFINE w == Recorded(Credited(NoWrites, u, -a), u, -a)
           c == Call("charge", u, Sink, a, Sink, <<>>)
<1>1. a \in Int /\ -a \in Int /\ u \in Nat
  BY RowAssumption, InputAssumption
<1>2. c \in Calls
  BY <1>1, CallType, EmptySplits DEF Ops
<1>3. w \in WriteSets
  BY <1>1, CreditedType, NoWritesType
<1>4. pend' = [pend EXCEPT ![s] = w] /\ Begin(s, c, "commit") /\ UNCHANGED <<tables, need>>
  BY DEF Charge, Begin, Inductive, SessionOK, TypeOK
<1>5. /\ \A v \in Users : /\ w.bal[v] = IF v = u THEN -a ELSE 0
                          /\ w.ledger[v] = w.bal[v]
      /\ \A v \in Slugs : w.purse[v] = 0
      /\ w.st = "none"
  BY <1>1, NoWritesType DEF Recorded, Credited, WriteSets
<1> HIDE DEF c, w
<1>6. /\ lock' \in [Rows -> Sessions \cup {NoSession}]
      /\ \A r \in Rows : lock[r] \in Sessions => lock'[r] = lock[r]
      /\ lock'[u] = s
  BY RowAssumption DEF Charge, Take, Free, Inductive, TypeOK
<1>7. /\ \A v \in Users : /\ w.bal[v] # 0 => lock'[v] = s
                          /\ bal[v] + w.bal[v] >= 0
      /\ \A v \in Slugs : /\ w.purse[v] # 0 => lock'[v] = s
                          /\ purse[v] + w.purse[v] >= 0
  BY <1>1, <1>5, <1>6 DEF Charge, Inductive, NoOverdraft, TypeOK
<1> QED
  BY <1>2, <1>3, <1>4, <1>5, <1>6, <1>7, OneStatement

LEMMA RewardKeeps ==
    ASSUME NEW s \in Sessions, NEW u \in Users, NEW a \in Amounts,
           Inductive, Reward(s, u, a)
    PROVE  Inductive'
<1> DEFINE w == Recorded(Credited(NoWrites, u, a), u, a)
           c == Call("reward", Sink, u, a, Sink, <<>>)
<1>1. a \in Int /\ -a \in Int /\ u \in Nat
  BY RowAssumption, InputAssumption
<1>2. c \in Calls
  BY <1>1, CallType, EmptySplits DEF Ops
<1>3. w \in WriteSets
  BY <1>1, CreditedType, NoWritesType
<1>4. pend' = [pend EXCEPT ![s] = w] /\ Begin(s, c, "commit") /\ UNCHANGED <<tables, need>>
  BY DEF Reward, Begin, Inductive, SessionOK, TypeOK
<1>5. /\ \A v \in Users : /\ w.bal[v] = IF v = u THEN a ELSE 0
                          /\ w.ledger[v] = w.bal[v]
      /\ \A v \in Slugs : w.purse[v] = 0
      /\ w.st = "none"
  BY <1>1, NoWritesType DEF Recorded, Credited, WriteSets
<1> HIDE DEF c, w
<1>6. /\ lock' \in [Rows -> Sessions \cup {NoSession}]
      /\ \A r \in Rows : lock[r] \in Sessions => lock'[r] = lock[r]
      /\ lock'[u] = s
  BY RowAssumption DEF Reward, Take, Free, Inductive, TypeOK
<1>7. /\ \A v \in Users : /\ w.bal[v] # 0 => lock'[v] = s
                          /\ bal[v] + w.bal[v] >= 0
      /\ \A v \in Slugs : /\ w.purse[v] # 0 => lock'[v] = s
                          /\ purse[v] + w.purse[v] >= 0
  BY <1>1, <1>5, <1>6 DEF Reward, Inductive, NoOverdraft, TypeOK
<1> QED
  BY <1>2, <1>3, <1>4, <1>5, <1>6, <1>7, OneStatement

LEMMA HoldKeeps ==
    ASSUME NEW s \in Sessions, NEW u \in Users, NEW h \in Holds, NEW a \in Amounts,
           Inductive, Hold(s, u, a, h)
    PROVE  Inductive'
<1> DEFINE w == Stamped(Recorded(Credited(NoWrites, u, -a), u, -a), "held")
           c == Call("hold", u, Sink, a, h, <<>>)
<1>1. a \in Int /\ -a \in Int /\ u \in Nat
  BY RowAssumption, InputAssumption
<1>2. c \in Calls /\ c.hold = h
  BY <1>1, CallType, EmptySplits, RowAssumption DEF Ops, Call
<1>3. w \in WriteSets
  BY <1>1, CreditedType, NoWritesType DEF Stamped, WriteSets, States
<1>4. pend' = [pend EXCEPT ![s] = w] /\ Begin(s, c, "commit") /\ UNCHANGED <<tables, need>>
  BY DEF Hold, Begin, Inductive, SessionOK, TypeOK
<1>5. /\ w.bal[u] = -a /\ w.ledger[u] = -a
      /\ \A v \in Users \ {u} : w.bal[v] = 0 /\ w.ledger[v] = 0
      /\ \A v \in Slugs : w.purse[v] = 0
      /\ w.st = "held"
  BY <1>1, NoWritesType DEF Stamped, Recorded, Credited, WriteSets
<1> HIDE DEF c, w
<1>6. /\ lock' \in [Rows -> Sessions \cup {NoSession}]
      /\ \A r \in Rows : lock[r] \in Sessions => lock'[r] = lock[r]
      /\ lock'[u] = s
  BY RowAssumption DEF Hold, Take, Free, Inductive, TypeOK
<1>7. /\ \A v \in Users : /\ w.bal[v] # 0 => lock'[v] = s
                          /\ bal[v] + w.bal[v] >= 0
      /\ \A v \in Slugs : /\ w.purse[v] # 0 => lock'[v] = s
                          /\ purse[v] + w.purse[v] >= 0
  <2>1. \A v \in Users : bal[v] \in Int /\ bal[v] >= 0
    BY DEF Inductive, NoOverdraft, TypeOK
  <2>2. \A v \in Slugs : purse[v] \in Int /\ purse[v] >= 0
    BY DEF Inductive, NoOverdraft, TypeOK
  <2>3. bal[u] >= a
    BY DEF Hold
  <2>4. bal[u] + w.bal[u] >= 0
    BY <1>1, <1>5, <2>1, <2>3
  <2> QED
    BY <1>5, <1>6, <2>1, <2>2, <2>4
<1>8. lock'[h] = s /\ hold[h].st = "none"
  BY DEF Hold, Inductive, TypeOK
<1>9. \A v \in Users : /\ w.bal[v] # 0 => lock'[v] = s
                       /\ bal[v] + w.bal[v] >= 0
                       /\ w.bal[v] = w.ledger[v]
  BY <1>5, <1>7
<1>10. c.hold \in Holds /\ lock'[c.hold] = s /\ hold[c.hold].st = "none"
  BY <1>2, <1>8
<1>11. w.st \in {"none", "held"}
  BY <1>5
<1> QED
  BY <1>2, <1>3, <1>4, <1>6, <1>7, <1>9, <1>10, <1>11, OneStatement

LEMMA TreasuryCreditKeeps ==
    ASSUME NEW s \in Sessions, NEW t \in Slugs, NEW a \in Amounts,
           Inductive, TreasuryCredit(s, t, a)
    PROVE  Inductive'
<1> DEFINE w == PurseCredited(NoWrites, t, a)
           c == Call("treasury_credit", Sink, t, a, Sink, <<>>)
<1>1. a \in Int /\ -a \in Int /\ t \in Nat
  BY RowAssumption, InputAssumption
<1>2. c \in Calls
  BY <1>1, CallType, EmptySplits DEF Ops
<1>3. w \in WriteSets
  BY <1>1, PurseCreditedType, NoWritesType
<1>4. pend' = [pend EXCEPT ![s] = w] /\ Begin(s, c, "commit") /\ UNCHANGED <<tables, need>>
  BY DEF TreasuryCredit, Begin, Inductive, SessionOK, TypeOK
<1>5. /\ \A v \in Users : /\ w.bal[v] = 0
                          /\ w.ledger[v] = w.bal[v]
      /\ w.purse[t] = a
      /\ \A v \in Slugs \ {t} : w.purse[v] = 0
      /\ w.st = "none"
  BY <1>1, NoWritesType DEF PurseCredited, WriteSets
<1> HIDE DEF c, w
<1>6. /\ lock' \in [Rows -> Sessions \cup {NoSession}]
      /\ \A r \in Rows : lock[r] \in Sessions => lock'[r] = lock[r]
      /\ lock'[t] = s
  BY RowAssumption DEF TreasuryCredit, Take, Free, Inductive, TypeOK
<1>6a. a > 0
  BY <1>1 DEF TreasuryCredit, Inductive, TypeOK
<1>7. /\ \A v \in Users : /\ w.bal[v] # 0 => lock'[v] = s
                          /\ bal[v] + w.bal[v] >= 0
      /\ \A v \in Slugs : /\ w.purse[v] # 0 => lock'[v] = s
                          /\ purse[v] + w.purse[v] >= 0
  <2>1. \A v \in Users : bal[v] \in Int /\ bal[v] >= 0
    BY DEF Inductive, NoOverdraft, TypeOK
  <2>2. \A v \in Slugs : purse[v] \in Int /\ purse[v] >= 0
    BY DEF Inductive, NoOverdraft, TypeOK
  <2>3. purse[t] + w.purse[t] >= 0
    BY <1>1, <1>5, <1>6a, <2>2
  <2> QED
    BY <1>5, <1>6, <2>1, <2>2, <2>3
<1> QED
  BY <1>2, <1>3, <1>4, <1>5, <1>6, <1>7, OneStatement

LEMMA TreasuryDebitKeeps ==
    ASSUME NEW s \in Sessions, NEW t \in Slugs, NEW reserve \in {0, 1}, NEW a \in Amounts,
           Inductive, TreasuryDebit(s, t, a, reserve)
    PROVE  Inductive'
<1> DEFINE w == PurseCredited(NoWrites, t, -a)
           c == Call("treasury_debit", t, Sink, a, Sink, <<>>)
<1>1. a \in Int /\ -a \in Int /\ t \in Nat
  BY RowAssumption, InputAssumption
<1>2. c \in Calls
  BY <1>1, CallType, EmptySplits DEF Ops
<1>3. w \in WriteSets
  BY <1>1, PurseCreditedType, NoWritesType
<1>4. pend' = [pend EXCEPT ![s] = w] /\ Begin(s, c, "commit") /\ UNCHANGED <<tables, need>>
  BY DEF TreasuryDebit, Begin, Inductive, SessionOK, TypeOK
<1>5. /\ \A v \in Users : /\ w.bal[v] = 0
                          /\ w.ledger[v] = w.bal[v]
      /\ w.purse[t] = -a
      /\ \A v \in Slugs \ {t} : w.purse[v] = 0
      /\ w.st = "none"
  BY <1>1, NoWritesType DEF PurseCredited, WriteSets
<1> HIDE DEF c, w
<1>6. /\ lock' \in [Rows -> Sessions \cup {NoSession}]
      /\ \A r \in Rows : lock[r] \in Sessions => lock'[r] = lock[r]
      /\ lock'[t] = s
  BY RowAssumption DEF TreasuryDebit, Take, Free, Inductive, TypeOK
<1>6a. a > 0 /\ purse[t] >= a
  BY <1>1 DEF TreasuryDebit, Inductive, TypeOK
<1>7. /\ \A v \in Users : /\ w.bal[v] # 0 => lock'[v] = s
                          /\ bal[v] + w.bal[v] >= 0
      /\ \A v \in Slugs : /\ w.purse[v] # 0 => lock'[v] = s
                          /\ purse[v] + w.purse[v] >= 0
  <2>1. \A v \in Users : bal[v] \in Int /\ bal[v] >= 0
    BY DEF Inductive, NoOverdraft, TypeOK
  <2>2. \A v \in Slugs : purse[v] \in Int /\ purse[v] >= 0
    BY DEF Inductive, NoOverdraft, TypeOK
  <2>3. purse[t] + w.purse[t] >= 0
    BY <1>1, <1>5, <1>6a, <2>2
  <2> QED
    BY <1>5, <1>6, <2>1, <2>2, <2>3
<1> QED
  BY <1>2, <1>3, <1>4, <1>5, <1>6, <1>7, OneStatement

\* treasury_transfer: the debit, then the credit under the second row lock.
LEMMA TreasuryTransferKeeps ==
    ASSUME NEW s \in Sessions, NEW t \in Slugs, NEW v \in Slugs, NEW a \in Amounts,
           Inductive, TreasuryTransfer(s, t, v, a)
    PROVE  Inductive'
<1> DEFINE w == PurseCredited(NoWrites, t, -a)
           c == Call("treasury_transfer", t, v, a, Sink, <<>>)
<1>1. a \in Int /\ -a \in Int /\ t \in Nat /\ v \in Nat /\ a > 0 /\ purse[t] >= a
  BY RowAssumption, InputAssumption DEF TreasuryTransfer
<1>2. c \in Calls /\ c.dst = v /\ c.amt = a
  BY <1>1, CallType, EmptySplits DEF Ops, Call
<1>3. w \in WriteSets
  BY <1>1, PurseCreditedType, NoWritesType
<1>4. /\ pend' = [pend EXCEPT ![s] = w] /\ call' = [call EXCEPT ![s] = c]
      /\ pc' = [pc EXCEPT ![s] = "purseCredit"] /\ UNCHANGED <<tables, need>>
  BY DEF TreasuryTransfer, Begin, Goto, Inductive, SessionOK, TypeOK
<1>5. /\ w.bal = NoWrites.bal /\ w.ledger = NoWrites.ledger /\ w.st = "none"
      /\ w.purse[t] = -a
      /\ \A q \in Slugs \ {t} : w.purse[q] = 0
  BY <1>1, NoWritesType DEF PurseCredited, WriteSets
<1>6. /\ lock' \in [Rows -> Sessions \cup {NoSession}]
      /\ \A r \in Rows : lock[r] \in Sessions => lock'[r] = lock[r]
      /\ lock'[t] = s
  BY RowAssumption DEF TreasuryTransfer, Take, Free, Inductive, TypeOK
<1> HIDE DEF c, w
<1>7. TypeOK'
  BY <1>2, <1>3, <1>4, <1>6 DEF Inductive, TypeOK, tables, Labels
<1>8. Local(s)
  BY <1>4, <1>6 DEF Local, Inductive, TypeOK
<1>9. SessionOK(s)'
  <2>1. pc'[s] = "purseCredit" /\ pend'[s] = w /\ call'[s] = c
    BY <1>4 DEF Inductive, TypeOK
  <2>2. \A q \in Slugs : purse[q] \in Int /\ purse[q] >= 0
    BY DEF Inductive, NoOverdraft, TypeOK
  <2>3. \A u \in Users : bal[u] \in Int /\ bal[u] >= 0
    BY DEF Inductive, NoOverdraft, TypeOK
  <2>4. purse[t] + w.purse[t] >= 0
    BY <1>1, <1>5, <2>2
  <2>5. WritesUnderLock(s)'
    BY <1>4, <1>5, <1>6, <2>1, <2>2, <2>3, <2>4, NoWritesType DEF WritesUnderLock, Seen, tables
  <2> QED
    BY <1>1, <1>2, <1>5, <2>1, <2>5 DEF SessionOK
<1> QED
  BY <1>7, <1>8, <1>9, LocalStep

LEMMA TreasuryTransferCreditKeeps ==
    ASSUME NEW s \in Sessions, Inductive, TreasuryTransferCredit(s)
    PROVE  Inductive'
<1> DEFINE v == call[s].dst
           a == call[s].amt
           w == PurseCredited(pend[s], v, a)
<1>1. v \in Slugs /\ a \in Int /\ a > 0 /\ pend[s] \in WriteSets
  BY DEF TreasuryTransferCredit, Inductive, SessionOK, TypeOK, Calls
<1>2. w \in WriteSets
  BY <1>1, PurseCreditedType
<1>3. /\ w.bal = NoWrites.bal /\ w.ledger = NoWrites.ledger /\ w.st = "none"
      /\ w.purse[v] = pend[s].purse[v] + a
      /\ \A q \in Slugs \ {v} : w.purse[q] = pend[s].purse[q]
  BY <1>1 DEF TreasuryTransferCredit, Inductive, SessionOK, PurseCredited, WriteSets
<1>4. /\ pend' = [pend EXCEPT ![s] = w] /\ pc' = [pc EXCEPT ![s] = "commit"]
      /\ UNCHANGED <<tables, call, need>>
  BY DEF TreasuryTransferCredit, Goto
<1>5. /\ lock' \in [Rows -> Sessions \cup {NoSession}]
      /\ \A r \in Rows : lock[r] \in Sessions => lock'[r] = lock[r]
      /\ lock'[v] = s
  BY <1>1, RowAssumption DEF TreasuryTransferCredit, Take, Free, Inductive, TypeOK
<1> HIDE DEF w, v, a
<1>6. TypeOK'
  BY <1>2, <1>4, <1>5 DEF Inductive, TypeOK, tables, Labels
<1>7. Local(s)
  BY <1>4, <1>5 DEF Local, Inductive, TypeOK
<1>8. SessionOK(s)'
  <2>1. pc'[s] = "commit" /\ pend'[s] = w
    BY <1>4 DEF Inductive, TypeOK
  <2>2. \A q \in Slugs : /\ purse[q] \in Int /\ pend[s].purse[q] \in Int
                         /\ purse[q] + pend[s].purse[q] >= 0
                         /\ pend[s].purse[q] # 0 => lock[q] = s
    BY <1>1 DEF Inductive, SessionOK, WritesUnderLock, TypeOK, WriteSets
  <2>3. \A u \in Users : bal[u] \in Int /\ bal[u] >= 0
    BY DEF Inductive, NoOverdraft, TypeOK
  <2>4. purse[v] + w.purse[v] >= 0
    <3>1. /\ purse[v] \in Int /\ pend[s].purse[v] \in Int /\ a \in Int /\ a > 0
          /\ purse[v] + pend[s].purse[v] >= 0
      BY <1>1, <2>2
    <3>2. w.purse[v] = pend[s].purse[v] + a
      BY <1>3
    <3> QED
      BY <3>1, <3>2
  <2>5. \A q \in Slugs : /\ w.purse[q] # 0 => lock'[q] = s
                         /\ purse[q] + w.purse[q] >= 0
    BY <1>3, <1>5, <2>2, <2>4
  <2>6. \A u \in Users : w.bal[u] = 0
    BY <1>3, NoWritesType
  <2>7. WritesUnderLock(s)'
    BY <1>4, <2>1, <2>3, <2>5, <2>6 DEF WritesUnderLock, Seen, tables
  <2>8. w.bal = w.ledger
    BY <1>3 DEF NoWrites
  <2>9. InCommit(s)'
    BY <1>3, <2>1, <2>8 DEF InCommit
  <2> QED
    BY <2>1, <2>7, <2>9 DEF SessionOK
<1> QED
  BY <1>6, <1>7, <1>8, LocalStep

\* transfer: begin, lock the accounts in order, debit, credit.
LEMMA TransferKeeps ==
    ASSUME NEW s \in Sessions, NEW u \in Users, NEW v \in Users \cup {Ghost},
           NEW a \in Amounts, Inductive, Transfer(s, u, v, a)
    PROVE  Inductive'
<1> DEFINE c == Call("transfer", u, v, a, Sink, <<>>)
<1>1. a \in Int /\ a > 0 /\ u \in Nat /\ v \in Nat /\ u # v
  BY RowAssumption, InputAssumption DEF Transfer
<1>2. c \in Calls /\ c.op = "transfer" /\ c.src = u /\ c.dst = v /\ c.amt = a
  BY <1>1, CallType, EmptySplits DEF Ops, Call
<1>3. /\ pc[s] = "idle" /\ call' = [call EXCEPT ![s] = c] /\ pc' = [pc EXCEPT ![s] = "lock"]
      /\ need' = [need EXCEPT ![s] = {u, v} \ {Ghost}]
      /\ UNCHANGED <<tables, lock, pend>>
  BY DEF Transfer, Begin, Goto
<1> HIDE DEF c
<1>4. TypeOK'
  BY <1>2, <1>3 DEF Inductive, TypeOK, tables, Labels
<1>5. Local(s)
  BY <1>3 DEF Local, Inductive, TypeOK
<1>6. SessionOK(s)'
  <2>1. pc'[s] = "lock" /\ call'[s] = c /\ need'[s] = {u, v} \ {Ghost} /\ pend'[s] = NoWrites
    BY <1>3 DEF Inductive, TypeOK, SessionOK
  <2>2. InTransfer(s)'
    BY <1>1, <1>2, <2>1, RowAssumption DEF InTransfer, Covered
  <2>3. WritesUnderLock(s)'
    BY <1>3, <2>1 DEF Inductive, SessionOK, WritesUnderLock, Seen, tables
  <2> QED
    BY <2>1, <2>2, <2>3 DEF SessionOK
<1> QED
  BY <1>4, <1>5, <1>6, LocalStep

LEMMA LockAccountKeeps ==
    ASSUME NEW s \in Sessions, NEW r \in Users \cup Slugs, Inductive, LockAccount(s, r)
    PROVE  Inductive'
<1>1. /\ pc[s] = "lock" /\ need' = [need EXCEPT ![s] = need[s] \ {r}]
      /\ UNCHANGED <<tables, call, pc, pend>>
  BY DEF LockAccount
<1>2. /\ lock' \in [Rows -> Sessions \cup {NoSession}]
      /\ \A q \in Rows : lock[q] \in Sessions => lock'[q] = lock[q]
      /\ lock'[r] = s
  BY RowAssumption DEF LockAccount, Take, Free, Inductive, TypeOK
<1>3. TypeOK'
  BY <1>1, <1>2 DEF Inductive, TypeOK, tables
<1>4. Local(s)
  BY <1>1, <1>2 DEF Local, Inductive, TypeOK
<1>5. SessionOK(s)'
  <2>1. need'[s] = need[s] \ {r}
    BY <1>1 DEF Inductive, TypeOK
  <2>2. \A accounts : Covered(s, accounts) => Covered(s, accounts)'
    BY <1>2, <2>1 DEF Covered
  <2>3. InTransfer(s) => InTransfer(s)'
    BY <1>1, <2>2 DEF InTransfer
  <2>4. InTerminal(s) => InTerminal(s)'
    BY <1>1, <1>2, <2>2 DEF InTerminal, tables
  <2>5. pend[s] = NoWrites /\ pend'[s] = NoWrites /\ WritesUnderLock(s)'
    BY <1>1, NoWritesType DEF Inductive, SessionOK, WritesUnderLock, Seen, tables
  <2> QED
    BY <1>1, <2>3, <2>4, <2>5 DEF Inductive, SessionOK
<1> QED
  BY <1>3, <1>4, <1>5, LocalStep

LEMMA TransferDebitKeeps ==
    ASSUME NEW s \in Sessions, Inductive, TransferDebit(s)
    PROVE  Inductive'
<1>1. CASE Abort(s)
  BY <1>1, AbortKeeps
<1>2. CASE ~Abort(s)
  <2> DEFINE u == call[s].src
             v == call[s].dst
             a == call[s].amt
             w == Credited(NoWrites, u, -a)
  <2>1. /\ pend[s] = NoWrites /\ InTransfer(s) /\ need[s] = {} /\ WritesUnderLock(s)
        /\ u # Ghost /\ v # Ghost /\ Seen(s, u) >= a
        /\ pend' = [pend EXCEPT ![s] = w] /\ pc' = [pc EXCEPT ![s] = "credit"]
        /\ UNCHANGED <<tables, lock, call, need>>
    BY <1>2 DEF TransferDebit, LocksHeld, AllExist, Goto, Inductive, SessionOK, InTerminal
  <2>2. u \in Users /\ v \in Users /\ a \in Int /\ -a \in Int /\ lock[u] = s
    BY <2>1 DEF InTransfer, Covered, Inductive, TypeOK, Calls
  <2>3. bal[u] >= a
    BY <2>1, <2>2, NoWritesType DEF Seen, Inductive, TypeOK
  <2>4. w \in WriteSets
    BY <2>2, CreditedType, NoWritesType
  <2>5. /\ w.bal[u] = -a /\ \A x \in Users \ {u} : w.bal[x] = 0
        /\ \A x \in Slugs : w.purse[x] = 0
    BY <2>2, NoWritesType DEF Credited, WriteSets
  <2>6. TypeOK'
    BY <2>1, <2>4 DEF Inductive, TypeOK, tables, Labels
  <2>7. Local(s)
    BY <2>1 DEF Local, Inductive, TypeOK
  <2>8. pend'[s] = w /\ pc'[s] = "credit"
    BY <2>1 DEF Inductive, TypeOK
  <2>9. InTransfer(s)'
    BY <2>1 DEF InTransfer, Covered
  <2>10. WritesUnderLock(s)'
    <3> HIDE DEF w, u, v, a
    <3>1. \A x \in Users : bal[x] \in Int /\ bal[x] >= 0
      BY DEF Inductive, NoOverdraft, TypeOK
    <3>2. \A x \in Slugs : purse[x] \in Int /\ purse[x] >= 0
      BY DEF Inductive, NoOverdraft, TypeOK
    <3>3. \A x \in Users : /\ w.bal[x] # 0 => lock[x] = s
                           /\ bal[x] + w.bal[x] >= 0
      BY <2>2, <2>3, <2>5, <3>1
    <3> QED
      BY <2>1, <2>5, <2>8, <3>2, <3>3 DEF WritesUnderLock, Seen, tables
  <2>11. SessionOK(s)'
    BY <2>1, <2>2, <2>8, <2>9, <2>10 DEF SessionOK
  <2> QED
    BY <2>6, <2>7, <2>11, LocalStep
<1> QED
  BY <1>1, <1>2

LEMMA TransferCreditKeeps ==
    ASSUME NEW s \in Sessions, Inductive, TransferCredit(s)
    PROVE  Inductive'
<1> DEFINE u == call[s].src
           v == call[s].dst
           a == call[s].amt
           b == Credited(NoWrites, u, -a)
           b2 == Credited(b, v, a)
           b3 == Recorded(b2, u, -a)
           w == Recorded(b3, v, a)
<1>1. /\ pend[s] = b /\ InTransfer(s) /\ need[s] = {} /\ WritesUnderLock(s) /\ v \in Users
      /\ pend' = [pend EXCEPT ![s] = w] /\ pc' = [pc EXCEPT ![s] = "commit"]
      /\ UNCHANGED <<tables, lock, call, need>>
  BY DEF TransferCredit, Goto, Inductive, SessionOK
<1>2. u \in Users /\ u # v /\ a \in Int /\ -a \in Int /\ a > 0 /\ lock[u] = s /\ lock[v] = s
  BY <1>1 DEF InTransfer, Covered, Inductive, TypeOK, Calls
<1>3. b \in WriteSets /\ b2 \in WriteSets /\ b3 \in WriteSets /\ w \in WriteSets
  BY <1>1, <1>2, CreditedType, NoWritesType
<1>4. /\ w.bal[u] = -a /\ w.bal[v] = a /\ \A x \in Users \ {u, v} : w.bal[x] = 0
      /\ w.ledger[u] = -a /\ w.ledger[v] = a /\ \A x \in Users \ {u, v} : w.ledger[x] = 0
      /\ \A x \in Slugs : w.purse[x] = 0
      /\ w.st = "none"
  <2>1. /\ b.bal[u] = -a /\ \A x \in Users \ {u} : b.bal[x] = 0
        /\ b.ledger = NoWrites.ledger /\ b.purse = NoWrites.purse /\ b.st = "none"
    BY <1>2, NoWritesType DEF Credited, WriteSets
  <2>2. /\ b2.bal[u] = -a /\ b2.bal[v] = a /\ \A x \in Users \ {u, v} : b2.bal[x] = 0
        /\ b2.ledger = NoWrites.ledger /\ b2.purse = NoWrites.purse /\ b2.st = "none"
    <3>1. /\ b2.bal = [b.bal EXCEPT ![v] = b.bal[v] + a]
          /\ b2.ledger = b.ledger /\ b2.purse = b.purse /\ b2.st = b.st
      BY Zenon DEF Credited
    <3> HIDE DEF b, b2, u, v, a
    <3>2. b.bal \in [Users -> Int]
      BY <1>3 DEF WriteSets
    <3>3. b2.bal[v] = b.bal[v] + a /\ \A x \in Users \ {v} : b2.bal[x] = b.bal[x]
      BY <1>1, <3>1, <3>2
    <3>4. u \in Users /\ v \in Users /\ u # v /\ a \in Int /\ b.bal[v] = 0 /\ 0 + a = a
      BY <1>1, <1>2, <2>1
    <3>5. b2.bal[u] = -a /\ b2.bal[v] = a
      BY <2>1, <3>3, <3>4
    <3> QED
      BY <2>1, <3>1, <3>3, <3>5, <3>4
  <2>3. /\ b3.ledger[u] = -a /\ \A x \in Users \ {u} : b3.ledger[x] = 0
        /\ b3.bal = b2.bal /\ b3.purse = NoWrites.purse /\ b3.st = "none"
    <3> HIDE DEF b2
    <3> QED
      BY <1>1, <1>2, <1>3, <2>2, NoWritesType DEF Recorded, WriteSets
  <2> HIDE DEF b3
  <2>4. /\ w.ledger[u] = -a /\ w.ledger[v] = a /\ \A x \in Users \ {u, v} : w.ledger[x] = 0
        /\ w.bal = b2.bal /\ w.purse = NoWrites.purse /\ w.st = "none"
    BY <1>1, <1>2, <1>3, <2>3 DEF Recorded, WriteSets
  <2> HIDE DEF b2, w
  <2> QED
    BY <2>2, <2>4, NoWritesType
<1>5. bal[u] >= a
  <2>1. b.bal[u] = -a
    BY <1>2, NoWritesType DEF Credited, WriteSets
  <2>2. bal[u] + b.bal[u] >= 0 /\ bal[u] \in Int
    BY <1>1, <1>2 DEF WritesUnderLock, Seen, Inductive, TypeOK
  <2> HIDE DEF b, a, u
  <2> QED
    BY <1>2, <2>1, <2>2
<1> HIDE DEF w, u, v, a, b, b2, b3
<1>6. TypeOK'
  BY <1>1, <1>3 DEF Inductive, TypeOK, tables, Labels
<1>7. Local(s)
  BY <1>1 DEF Local, Inductive, TypeOK
<1>8. SessionOK(s)'
  <2>1. pend'[s] = w /\ pc'[s] = "commit"
    BY <1>1 DEF Inductive, TypeOK
  <2>2. \A x \in Users : bal[x] \in Int /\ bal[x] >= 0
    BY DEF Inductive, NoOverdraft, TypeOK
  <2>3. \A x \in Slugs : purse[x] \in Int /\ purse[x] >= 0
    BY DEF Inductive, NoOverdraft, TypeOK
  <2>4. \A x \in Users : /\ w.bal[x] # 0 => lock[x] = s
                         /\ bal[x] + w.bal[x] >= 0
                         /\ w.bal[x] = w.ledger[x]
    BY <1>1, <1>2, <1>4, <1>5, <2>2
  <2>5. w.bal = w.ledger
    BY <1>3, <2>4 DEF WriteSets
  <2>6. WritesUnderLock(s)'
    BY <1>1, <1>4, <2>1, <2>3, <2>4 DEF WritesUnderLock, Seen, tables
  <2>7. InCommit(s)'
    BY <1>4, <2>1, <2>5 DEF InCommit
  <2> QED
    BY <2>1, <2>6, <2>7 DEF SessionOK
<1> QED
  BY <1>6, <1>7, <1>8, LocalStep

\* settle and refund: lock a held row and check the distribution, then claim.
LEMMA TerminalizeKeeps ==
    ASSUME NEW s \in Sessions, NEW op \in {"settle", "refund"}, NEW h \in Holds,
           NEW splits \in SplitList, Inductive, Terminalize(s, op, h, splits)
    PROVE  Inductive'
<1> DEFINE c == Call(op, Sink, Sink, hold[h].amt, h, splits)
<1>1. hold[h].amt \in Int /\ h \in Nat
  BY RowAssumption DEF Inductive, TypeOK, HoldRows
<1>2. c \in Calls /\ c.op = op /\ c.hold = h /\ c.splits = splits
  BY <1>1, CallType DEF Ops, Call
<1>3. /\ hold[h].st = "held" /\ ValidDistribution(splits, hold[h].amt)
      /\ pc[s] = "idle" /\ call' = [call EXCEPT ![s] = c] /\ pc' = [pc EXCEPT ![s] = "lock"]
      /\ need' = [need EXCEPT ![s] = Recipients(splits) \cap (Users \cup Slugs)]
      /\ UNCHANGED <<tables, pend>>
  BY DEF Terminalize, Begin, Goto
<1>4. /\ lock' \in [Rows -> Sessions \cup {NoSession}]
      /\ \A q \in Rows : lock[q] \in Sessions => lock'[q] = lock[q]
      /\ lock'[h] = s
  BY RowAssumption DEF Terminalize, Take, Free, Inductive, TypeOK
<1> HIDE DEF c
<1>5. TypeOK'
  BY <1>2, <1>3, <1>4 DEF Inductive, TypeOK, tables, Labels
<1>6. Local(s)
  BY <1>3, <1>4 DEF Local, Inductive, TypeOK
<1>7. SessionOK(s)'
  <2>1. /\ pc'[s] = "lock" /\ call'[s] = c /\ pend'[s] = NoWrites /\ pend[s] = NoWrites
        /\ need'[s] = Recipients(splits) \cap (Users \cup Slugs)
    BY <1>3 DEF Inductive, TypeOK, SessionOK
  <2>2. Covered(s, Recipients(splits))'
    BY <2>1 DEF Covered
  <2>3. InTerminal(s)'
    BY <1>2, <1>3, <1>4, <2>1, <2>2 DEF InTerminal, tables
  <2>4. WritesUnderLock(s)'
    BY <1>3, <2>1, NoWritesType DEF Inductive, SessionOK, WritesUnderLock, Seen, tables
  <2> QED
    BY <2>1, <2>3, <2>4 DEF SessionOK
<1> QED
  BY <1>5, <1>6, <1>7, LocalStep

\* What a valid distribution gives one recipient.
LEMMA ShareType ==
    ASSUME NEW splits \in SplitList, NEW amount, ValidDistribution(splits, amount), NEW r
    PROVE  /\ Share(splits, r) \in Nat
           /\ Share(splits, r) # 0 => r \in Recipients(splits)
<1>1. CASE r \in Recipients(splits)
  <2> DEFINE i == CHOOSE i \in DOMAIN splits : splits[i].to = r
  <2>1. i \in DOMAIN splits
    BY <1>1 DEF Recipients
  <2>3. Share(splits, r) = splits[i].amt
    BY <1>1 DEF Share
  <2> HIDE DEF i
  <2>2. splits[i].amt \in Int
    <3>1. splits[i] \in [to : Nat, amt : Int]
      BY <2>1, SeqElement DEF SplitList
    <3> QED
      BY <3>1
  <2>4. splits[i].amt > 0
    BY <2>1 DEF ValidDistribution
  <2> QED
    BY <1>1, <2>2, <2>3, <2>4
<1>2. CASE r \notin Recipients(splits)
  BY <1>2 DEF Share
<1> QED
  BY <1>1, <1>2

LEMMA ClaimKeeps ==
    ASSUME NEW s \in Sessions, Inductive, Claim(s)
    PROVE  Inductive'
<1> DEFINE c == call[s]
           w == [bal |-> [u \in Users |-> Share(c.splits, u)],
                 ledger |-> [u \in Users |-> Share(c.splits, u)],
                 purse |-> [t \in Slugs |-> Share(c.splits, t)],
                 st |-> Terminal[c.op]]
<1>1. /\ need[s] = {} /\ InTerminal(s) /\ c \in Calls
      /\ pend' = [pend EXCEPT ![s] = w] /\ pc' = [pc EXCEPT ![s] = "commit"]
      /\ UNCHANGED <<tables, lock, call, need>>
  BY DEF Claim, LocksHeld, Goto, Inductive, SessionOK, InTransfer, TypeOK
<1>2. \A r \in Users \cup Slugs : /\ Share(c.splits, r) \in Nat
                                  /\ Share(c.splits, r) # 0 => lock[r] = s
  <2>1. c.splits \in SplitList
    BY <1>1 DEF Calls
  <2> QED
    BY <1>1, <2>1, ShareType DEF InTerminal, Covered
<1>3. w.st \in {"settled", "refunded"} /\ w.st = Terminal[c.op] /\ w.bal = w.ledger
  BY <1>1 DEF InTerminal, Terminal
<1>4. w \in WriteSets
  BY <1>2, <1>3 DEF WriteSets, States
<1>5. /\ \A u \in Users : w.bal[u] = Share(c.splits, u)
      /\ \A t \in Slugs : w.purse[t] = Share(c.splits, t)
  OBVIOUS
<1> HIDE DEF w
<1>6. TypeOK'
  BY <1>1, <1>4 DEF Inductive, TypeOK, tables, Labels
<1>7. Local(s)
  BY <1>1 DEF Local, Inductive, TypeOK
<1>8. SessionOK(s)'
  <2>1. pend'[s] = w /\ pc'[s] = "commit"
    BY <1>1 DEF Inductive, TypeOK
  <2>2. InTerminal(s)'
    BY <1>1 DEF InTerminal, Covered, tables
  <2>3. InCommit(s)'
    BY <1>1, <1>3, <2>1, <2>2 DEF InCommit
  <2>4. /\ \A u \in Users : bal[u] \in Int /\ bal[u] >= 0
        /\ \A t \in Slugs : purse[t] \in Int /\ purse[t] >= 0
    BY DEF Inductive, NoOverdraft, TypeOK
  <2> HIDE DEF c
  <2>5. WritesUnderLock(s)'
    BY <1>1, <1>2, <1>5, <2>1, <2>4 DEF WritesUnderLock, Seen, tables
  <2> QED
    BY <2>1, <2>3, <2>5 DEF SessionOK
<1> QED
  BY <1>6, <1>7, <1>8, LocalStep

LEMMA RetryKeeps ==
    ASSUME NEW s \in Sessions, Inductive, Retry(s)
    PROVE  Inductive'
<1> DEFINE c == [call[s] EXCEPT !.attempt = call[s].attempt + 1]
<1>1. /\ call[s] \in Calls /\ call[s].attempt < 3 /\ InTransfer(s)
      /\ call' = [call EXCEPT ![s] = c] /\ pc' = [pc EXCEPT ![s] = "lock"]
      /\ need' = [need EXCEPT ![s] = {call[s].src, call[s].dst} \ {Ghost}]
      /\ pend' = [pend EXCEPT ![s] = NoWrites]
      /\ UNCHANGED tables
  <2>1. call[s] \in Calls /\ call[s].attempt < 3
    BY DEF Retry, Inductive, TypeOK
  <2>2. InTransfer(s)
    BY DEF Retry, Inductive, SessionOK, InTerminal
  <2>3. call' = [call EXCEPT ![s] = c]
    BY DEF Retry
  <2> QED
    BY <2>1, <2>2, <2>3 DEF Retry, Goto
<1>2. /\ c \in Calls /\ c.op = call[s].op /\ c.src = call[s].src /\ c.dst = call[s].dst
      /\ c.amt = call[s].amt
  BY <1>1 DEF Calls
<1>3. /\ lock' \in [Rows -> Sessions \cup {NoSession}]
      /\ \A q \in Sessions \ {s} : \A r \in Rows : lock[r] = q => lock'[r] = q
  BY DEF Retry, ReleaseAll, Inductive, TypeOK
<1> HIDE DEF c
<1>4. call[s].src \in Users /\ call[s].dst \in Users \cup {Ghost}
  BY <1>1 DEF InTransfer
<1>5. TypeOK'
  BY <1>1, <1>2, <1>3, <1>4, NoWritesType DEF Inductive, TypeOK, tables, Labels
<1>6. Local(s)
  BY <1>1, <1>3 DEF Local, Inductive, TypeOK
<1>7. SessionOK(s)'
  <2>1. /\ pc'[s] = "lock" /\ call'[s] = c /\ pend'[s] = NoWrites
        /\ need'[s] = {call[s].src, call[s].dst} \ {Ghost}
    BY <1>1 DEF Inductive, TypeOK
  <2>2. InTransfer(s)'
    BY <1>1, <1>2, <2>1, RowAssumption DEF InTransfer, Covered
  <2>3. WritesUnderLock(s)'
    BY <1>1, <2>1, NoWritesType DEF Inductive, NoOverdraft, TypeOK, WritesUnderLock, Seen, tables
  <2> QED
    BY <2>1, <2>2, <2>3 DEF SessionOK
<1> QED
  BY <1>5, <1>6, <1>7, LocalStep

\* COMMIT makes the session's writes visible.  Every other session's pending
\* writes are on other rows, so its own commit stays solvent.
LEMMA CommitKeeps ==
    ASSUME NEW s \in Sessions, Inductive, Commit(s)
    PROVE  Inductive'
<1> DEFINE w == pend[s]
           c == call[s]
<1>1. /\ pc[s] = "commit" /\ w \in WriteSets /\ c \in Calls /\ InCommit(s)
      /\ WritesUnderLock(s)
  BY DEF Commit, Inductive, SessionOK, TypeOK
<1>2. /\ \A u \in Users : w.bal[u] \in Int /\ w.ledger[u] \in Int /\ w.bal[u] = w.ledger[u]
      /\ \A t \in Slugs : w.purse[t] \in Int
      /\ w.st \in States
  BY <1>1 DEF WriteSets, InCommit
<1>3. /\ bal' \in [Users -> Int] /\ ledger' \in [Users -> Int] /\ purse' \in [Slugs -> Int]
      /\ \A u \in Users : bal'[u] = bal[u] + w.bal[u] /\ ledger'[u] = ledger[u] + w.ledger[u]
      /\ \A t \in Slugs : purse'[t] = purse[t] + w.purse[t]
  <2>1. /\ bal' = [u \in Users |-> bal[u] + w.bal[u]]
        /\ ledger' = [u \in Users |-> ledger[u] + w.ledger[u]]
        /\ purse' = [t \in Slugs |-> purse[t] + w.purse[t]]
    BY DEF Commit
  <2>2. /\ bal \in [Users -> Int] /\ ledger \in [Users -> Int] /\ purse \in [Slugs -> Int]
    BY DEF Inductive, TypeOK
  <2> HIDE DEF w
  <2> QED
    BY <1>2, <2>1, <2>2
<1>4. NoOverdraft'
  BY <1>1, <1>3 DEF NoOverdraft, WritesUnderLock, Seen
<1>5. LedgerReconciles'
  <2>1. \A u \in Users : bal[u] \in Int /\ ledger[u] \in Int /\ bal[u] = Grant + ledger[u]
    BY DEF LedgerReconciles, Inductive, TypeOK
  <2> HIDE DEF w
  <2> QED
    BY <1>2, <1>3, <2>1, InputAssumption DEF LedgerReconciles
<1>6. /\ w.st = "none" => hold' = hold /\ journal' = journal
      /\ w.st = "held" =>
           /\ c.hold \in Holds /\ hold[c.hold].st = "none" /\ journal' = journal
           /\ hold' = [hold EXCEPT ![c.hold] = [st |-> "held", user |-> c.src, amt |-> c.amt]]
      /\ w.st \in {"settled", "refunded"} =>
           /\ c.hold \in Holds /\ hold[c.hold].st = "held" /\ lock[c.hold] = s
           /\ hold' = [hold EXCEPT ![c.hold] = Ended(hold[c.hold], w.st)]
           /\ journal' = [journal EXCEPT ![c.hold] =
                            Append(@, [action |-> w.st, splits |-> c.splits])]
           /\ Total(c.splits) = hold[c.hold].amt
  <2>1. w.st = "none" => hold' = hold /\ journal' = journal
    BY DEF Commit
  <2>2. ASSUME w.st = "held"
        PROVE  /\ c.hold \in Holds /\ hold[c.hold].st = "none" /\ journal' = journal
               /\ hold' = [hold EXCEPT ![c.hold] = [st |-> "held", user |-> c.src, amt |-> c.amt]]
    BY <1>1, <2>2 DEF Commit, InCommit
  <2>3. ASSUME w.st \in {"settled", "refunded"}
        PROVE  /\ c.hold \in Holds /\ hold[c.hold].st = "held" /\ lock[c.hold] = s
               /\ Total(c.splits) = hold[c.hold].amt
    BY <1>1, <2>3 DEF InCommit, InTerminal, ValidDistribution
  <2>4. ASSUME w.st \in {"settled", "refunded"}
        PROVE  /\ hold' = [hold EXCEPT ![c.hold] = Ended(hold[c.hold], w.st)]
               /\ journal' = [journal EXCEPT ![c.hold] =
                                Append(@, [action |-> w.st, splits |-> c.splits])]
    BY <2>4 DEF Commit
  <2> QED
    BY <2>1, <2>2, <2>3, <2>4
<1>7. \A h \in Holds : lock[h] # s => hold'[h] = hold[h]
  <2>1. w.st = "held" => lock[c.hold] = s
    BY <1>1 DEF InCommit
  <2> QED
    BY <1>2, <1>6, <2>1 DEF States, Inductive, TypeOK
<1>8. hold' \in [Holds -> HoldRows]
  <2>0. hold \in [Holds -> HoldRows]
    BY DEF Inductive, TypeOK
  <2>1. CASE w.st \in {"none", "held"}
    <3>1. [st |-> "held", user |-> c.src, amt |-> c.amt] \in HoldRows
      BY <1>1 DEF HoldRows, Calls, States
    <3> QED
      BY <1>6, <2>0, <2>1, <3>1
  <2>2. CASE w.st \in {"settled", "refunded"}
    <3>1. Ended(hold[c.hold], w.st) \in HoldRows
      BY <1>2, <1>6, <2>0, <2>2 DEF HoldRows, Ended
    <3> QED
      BY <1>6, <2>0, <2>2, <3>1
  <2> QED
    BY <1>2, <2>1, <2>2 DEF States
<1>9. journal' \in [Holds -> Seq(Entries)]
  <2>1. CASE w.st \in {"none", "held"}
    BY <1>6, <2>1 DEF Inductive, TypeOK
  <2>2. CASE w.st \in {"settled", "refunded"}
    <3>1. [action |-> w.st, splits |-> c.splits] \in Entries
      BY <1>1, <1>2 DEF Entries, Calls
    <3>2. journal \in [Holds -> Seq(Entries)]
      BY DEF Inductive, TypeOK
    <3>3. Append(journal[c.hold], [action |-> w.st, splits |-> c.splits]) \in Seq(Entries)
      BY <1>6, <2>2, <3>1, <3>2
    <3> QED
      BY <1>6, <2>2, <3>2, <3>3
  <2> QED
    BY <1>2, <2>1, <2>2 DEF States
<1>10. HoldPaidOnce'
  <2>1. CASE w.st \in {"none", "held"}
    <3>1. hold \in [Holds -> HoldRows] /\ HoldPaidOnce
      BY DEF Inductive, TypeOK
    <3>2. CASE w.st = "none"
      BY <1>6, <3>1, <3>2 DEF HoldPaidOnce
    <3>3. CASE w.st = "held"
      <4>1. \A h \in Holds \ {c.hold} : hold'[h] = hold[h]
        BY <1>6, <3>1, <3>3
      <4>2. hold'[c.hold].st = "held"
        BY <1>6, <3>1, <3>3
      <4>3. journal' = journal /\ journal[c.hold] = <<>>
        BY <1>6, <3>1, <3>3 DEF HoldPaidOnce
      <4> HIDE DEF w, c
      <4> QED
        BY <3>1, <4>1, <4>2, <4>3 DEF HoldPaidOnce
    <3> QED
      BY <2>1, <3>2, <3>3
  <2>2. CASE w.st \in {"settled", "refunded"}
    <3>1. \A h \in Holds \ {c.hold} : hold'[h] = hold[h] /\ journal'[h] = journal[h]
      BY <1>6, <2>2 DEF Inductive, TypeOK
    <3>2. journal[c.hold] = <<>>
      BY <1>6, <2>2 DEF HoldPaidOnce, Inductive
    <3>3. journal'[c.hold] = <<[action |-> w.st, splits |-> c.splits]>>
      BY <1>6, <2>2, <3>2 DEF Inductive, TypeOK
    <3>4. hold'[c.hold].st = w.st /\ hold'[c.hold].amt = hold[c.hold].amt
      BY <1>6, <2>2 DEF Inductive, TypeOK, HoldRows, Ended
    <3>5. Total(c.splits) = hold[c.hold].amt /\ HoldPaidOnce
      BY <1>6, <2>2 DEF Inductive
    <3> DEFINE e == [action |-> w.st, splits |-> c.splits]
    <3>6. e.action = w.st /\ e.splits = c.splits
      OBVIOUS
    <3>7. Len(<<e>>) = 1 /\ <<e>>[1] = e
      OBVIOUS
    <3>8. journal'[c.hold] = <<e>>
      BY <3>3
    <3> DEFINE Paid(h, j) == IF h.st \in {"settled", "refunded"}
                             THEN Len(j) = 1 /\ j[1].action = h.st /\ Total(j[1].splits) = h.amt
                             ELSE j = <<>>
    <3> HIDE DEF w, c, e
    <3>9. Paid(hold'[c.hold], journal'[c.hold])
      BY <2>2, <3>4, <3>5, <3>6, <3>7, <3>8
    <3>10. \A h \in Holds \ {c.hold} : Paid(hold'[h], journal'[h])
      BY <3>1, <3>5 DEF HoldPaidOnce
    <3>11. \A h \in Holds : Paid(hold'[h], journal'[h])
      BY <3>9, <3>10
    <3> QED
      BY <3>11 DEF HoldPaidOnce
  <2> QED
    BY <1>2, <2>1, <2>2 DEF States
<1>11. /\ pc'[s] = "idle" /\ pend'[s] = NoWrites
       /\ lock' \in [Rows -> Sessions \cup {NoSession}]
       /\ \A q \in Sessions \ {s} :
             /\ call'[q] = call[q] /\ pc'[q] = pc[q]
             /\ need'[q] = need[q] /\ pend'[q] = pend[q]
             /\ \A r \in Rows : lock[r] = q => lock'[r] = q
  BY DEF Commit, EndOfCall, ReleaseAll, Goto, Inductive, TypeOK
<1>12. TypeOK'
  <2>1. call' \in [Sessions -> Calls] /\ pc' \in [Sessions -> Labels]
    BY NoCallType DEF Commit, EndOfCall, Goto, Inductive, TypeOK, Labels
  <2>2. need' \in [Sessions -> SUBSET (Users \cup Slugs)] /\ pend' \in [Sessions -> WriteSets]
    BY NoWritesType DEF Commit, EndOfCall, Inductive, TypeOK
  <2> QED
    BY <1>3, <1>8, <1>9, <1>11, <2>1, <2>2 DEF TypeOK
<1>13. SessionOK(s)'
  BY <1>3, <1>4, <1>11, NoWritesType DEF SessionOK, WritesUnderLock, Seen, NoOverdraft
<1>14. ASSUME NEW q \in Sessions, q # s PROVE SessionOK(q)'
  <2>1. SessionOK(q)
    BY DEF Inductive
  <2>2. WritesUnderLock(q)'
    <3>1. /\ \A u \in Users : /\ bal[u] \in Int /\ pend[q].bal[u] \in Int
                              /\ pend[q].bal[u] # 0 => w.bal[u] = 0
                              /\ bal[u] + pend[q].bal[u] >= 0
                              /\ pend[q].bal[u] # 0 => lock[u] = q
          /\ \A t \in Slugs : /\ purse[t] \in Int /\ pend[q].purse[t] \in Int
                              /\ pend[q].purse[t] # 0 => w.purse[t] = 0
                              /\ purse[t] + pend[q].purse[t] >= 0
                              /\ pend[q].purse[t] # 0 => lock[t] = q
      BY <1>1, <1>14, <2>1 DEF SessionOK, WritesUnderLock, Seen, Inductive, TypeOK, WriteSets
    <3>2. \A u \in Users : bal'[u] \in Int /\ bal'[u] >= 0
      BY <1>3, <1>4 DEF NoOverdraft
    <3>3. \A t \in Slugs : purse'[t] \in Int /\ purse'[t] >= 0
      BY <1>3, <1>4 DEF NoOverdraft
    <3>4. \A u \in Users : bal'[u] + pend[q].bal[u] >= 0
      BY <1>2, <1>3, <3>1, <3>2
    <3>5. \A t \in Slugs : purse'[t] + pend[q].purse[t] >= 0
      BY <1>2, <1>3, <3>1, <3>3
    <3> HIDE DEF w, c
    <3> QED
      BY <1>11, <1>14, <3>1, <3>4, <3>5 DEF WritesUnderLock, Seen
  <2>3. \A accounts : Covered(q, accounts) => Covered(q, accounts)'
    BY <1>11, <1>14 DEF Covered
  <2>4. InTransfer(q) => InTransfer(q)'
    BY <1>11, <1>14, <2>3 DEF InTransfer
  <2>5. InTerminal(q) => InTerminal(q)'
    BY <1>7, <1>11, <1>14, <2>3 DEF InTerminal
  <2>6. InCommit(q) => InCommit(q)'
    BY <1>7, <1>11, <1>14, <2>5 DEF InCommit
  <2> QED
    BY <1>11, <1>14, <2>1, <2>2, <2>4, <2>5, <2>6 DEF SessionOK
<1> QED
  BY <1>4, <1>5, <1>10, <1>12, <1>13, <1>14 DEF Inductive

LEMMA StepKeeps ==
    ASSUME NEW s \in Sessions, Inductive, Step(s)
    PROVE  Inductive'
<1>1. CASE \E r \in Users \cup Slugs : LockAccount(s, r)
  BY <1>1, LockAccountKeeps
<1>2. CASE TransferDebit(s)
  BY <1>2, TransferDebitKeeps
<1>3. CASE TransferCredit(s)
  BY <1>3, TransferCreditKeeps
<1>4. CASE TreasuryTransferCredit(s)
  BY <1>4, TreasuryTransferCreditKeeps
<1>5. CASE Claim(s)
  BY <1>5, ClaimKeeps
<1>6. CASE ClaimError(s)
  BY <1>6, AbortKeeps DEF ClaimError
<1>7. CASE Commit(s)
  BY <1>7, CommitKeeps
<1> QED
  BY <1>1, <1>2, <1>3, <1>4, <1>5, <1>6, <1>7 DEF Step

LEMMA NextInductive == Inductive /\ [Next]_vars => Inductive'
<1> SUFFICES ASSUME Inductive, [Next]_vars PROVE Inductive'
  OBVIOUS
<1>1. CASE UNCHANGED vars
  BY <1>1 DEF vars, Inductive, TypeOK, NoOverdraft, LedgerReconciles, HoldPaidOnce, SessionOK,
              WritesUnderLock, Seen, InTransfer, InTerminal, InCommit, Covered
<1>2. ASSUME NEW s \in Sessions, NEW a \in Amounts, NEW u \in Users,
             Charge(s, u, a) \/ Reward(s, u, a)
      PROVE  Inductive'
  BY <1>2, ChargeKeeps, RewardKeeps
<1>3. ASSUME NEW s \in Sessions, NEW a \in Amounts, NEW u \in Users,
             NEW v \in Users \cup {Ghost}, Transfer(s, u, v, a)
      PROVE  Inductive'
  BY <1>3, TransferKeeps
<1>4. ASSUME NEW s \in Sessions, NEW a \in Amounts, NEW u \in Users, NEW h \in Holds,
             Hold(s, u, a, h)
      PROVE  Inductive'
  BY <1>4, HoldKeeps
<1>5. ASSUME NEW s \in Sessions, NEW a \in Amounts, NEW t \in Slugs,
             \/ TreasuryCredit(s, t, a)
             \/ \E reserve \in {0, 1} : TreasuryDebit(s, t, a, reserve)
             \/ \E v \in Slugs : TreasuryTransfer(s, t, v, a)
      PROVE  Inductive'
  BY <1>5, TreasuryCreditKeeps, TreasuryDebitKeeps, TreasuryTransferKeeps
<1>6. ASSUME NEW s \in Sessions, NEW h \in Holds,
             \/ \E splits \in Distributions, op \in {"settle", "refund"} :
                   Terminalize(s, op, h, splits)
             \/ Terminalize(s, "refund", h, WholeTo(h))
      PROVE  Inductive'
  <2>1. WholeTo(h) \in SplitList
    BY DEF WholeTo, SplitList, Inductive, TypeOK, HoldRows
  <2>2. Distributions \subseteq SplitList
    BY InputAssumption
  <2> QED
    BY <1>6, <2>1, <2>2, TerminalizeKeeps
<1>7. ASSUME NEW s \in Sessions, Fail(s) \/ Retry(s) \/ DeadlockVictim(s)
      PROVE  Inductive'
  BY <1>7, AbortKeeps, RetryKeeps DEF Fail, DeadlockVictim
<1> QED
  BY <1>1, <1>2, <1>3, <1>4, <1>5, <1>6, <1>7, StepKeeps DEF Next

THEOREM Invariance == Spec => []Inductive
BY InitInductive, NextInductive, PTL DEF Spec

\* No interleaving of operations, failures and retries overdraws an account
\* (the guarded UPDATEs of charge, hold, transfer and the treasury debits).
THEOREM NeverOverdrawn == Spec => []NoOverdraft
BY Invariance, PTL DEF Inductive

\* Balances always equal what the transactions rows add up to.
THEOREM LedgerAlwaysReconciles == Spec => []LedgerReconciles
BY Invariance, PTL DEF Inductive

\* A hold is given out at most once, completely, by settle or refund.
THEOREM HoldNeverPaidTwice == Spec => []HoldPaidOnce
BY Invariance, PTL DEF Inductive
-----------------------------------------------------------------------------
(* What a commit moves, and who waits for whom.                            *)

\* Locks: an idle session has no call and none, and who locks accounts has only rows that come
\* before all those it still needs.
InOrder(s) ==
    /\ pc[s] = "idle" => call[s].op = "none" /\ \A r \in Rows : lock[r] # s
    /\ pc[s] = "lock" => \A r \in Users \cup Slugs, q \in need[s] : lock[r] = s => Before(r, q)
    /\ pc[s] = "purseCredit" => call[s].op = "treasury_transfer"

\* The call a session works on is one that callers make, and the row of the hold it ends
\* is as it was when the call began.
Whole(c) == {<<[to |-> u, amt |-> c.amt]>> : u \in Users}

Asked(c) ==
    /\ c.op \notin {"none", "settle", "refund"} => c.amt \in Amounts /\ c.amt > 0
    /\ c.op \in {"charge", "hold", "transfer"} => c.src \in Users
    /\ c.op = "reward" => c.dst \in Users
    /\ c.op = "transfer" => c.dst \in Users \cup {Ghost} /\ c.src # c.dst
    /\ c.op = "treasury_credit" => c.dst \in Slugs
    /\ c.op \in {"treasury_debit", "treasury_transfer"} => c.src \in Slugs
    /\ c.op = "treasury_transfer" => c.dst \in Slugs /\ c.src # c.dst
    /\ c.op \in {"settle", "refund"} =>
          /\ c.hold \in Holds /\ hold[c.hold].amt = c.amt
          /\ c.splits \in Distributions \cup Whole(c)

Moved(S, r, q, a) == [x \in S |-> IF x = r THEN -a ELSE IF x = q THEN a ELSE 0]
Zeros(S) == [x \in S |-> 0]

\* What a session has written when it commits is what its operation is meant to move.
Writes(w, b, p, st) == w.bal = b /\ w.purse = p /\ w.st = st
Meant(c, w) ==
    \/ c.op = "charge" /\ Writes(w, At(Users, c.src, -c.amt), Zeros(Slugs), "none")
    \/ c.op = "reward" /\ Writes(w, At(Users, c.dst, c.amt), Zeros(Slugs), "none")
    \/ c.op = "hold" /\ Writes(w, At(Users, c.src, -c.amt), Zeros(Slugs), "held")
    \/ /\ c.op = "transfer" /\ c.dst \in Users
       /\ Writes(w, Moved(Users, c.src, c.dst, c.amt), Zeros(Slugs), "none")
    \/ c.op = "treasury_credit" /\ Writes(w, Zeros(Users), At(Slugs, c.dst, c.amt), "none")
    \/ c.op = "treasury_debit" /\ Writes(w, Zeros(Users), At(Slugs, c.src, -c.amt), "none")
    \/ c.op = "treasury_transfer" /\ Writes(w, Zeros(Users), Moved(Slugs, c.src, c.dst, c.amt), "none")
    \/ /\ c.op \in {"settle", "refund"} /\ Ghost \notin Recipients(c.splits)
       /\ Writes(w, [u \in Users |-> Share(c.splits, u)], [t \in Slugs |-> Share(c.splits, t)],
                 Terminal[c.op])

Deed(s) ==
    /\ pc[s] = "purseCredit" => pend[s].purse = At(Slugs, call[s].src, -call[s].amt)
    /\ pc[s] = "commit" => Meant(call[s], pend[s])

\* A hold is a user's.
Owned == \A h \in Holds : hold[h].st = "held" => hold[h].user \in Users

Ruled == Inductive /\ Owned /\ \A s \in Sessions : InOrder(s) /\ Asked(call[s]) /\ Deed(s)

LEMMA InitRuled == Init => Ruled
<1> SUFFICES ASSUME Init PROVE Ruled
  OBVIOUS
<1>1. Owned
  BY DEF Init, Owned, EmptyHold
<1>2. ASSUME NEW s \in Sessions PROVE InOrder(s) /\ Asked(call[s]) /\ Deed(s)
  <2>1. pc[s] = "idle" /\ call[s].op = "none" /\ \A r \in Rows : lock[r] = NoSession
    BY DEF Init, NoCall, Call
  <2> QED  BY <2>1, RowAssumption DEF InOrder, Asked, Deed
<1> QED  BY <1>1, <1>2, InitInductive DEF Ruled

\* A step of one session leaves the others' locks and calls alone.
Alone(s) == \A q \in Sessions \ {s} :
                /\ call'[q] = call[q] /\ pc'[q] = pc[q]
                /\ need'[q] = need[q] /\ pend'[q] = pend[q]
                /\ \A r \in Rows : lock'[r] = q <=> lock[r] = q

LEMMA OthersRuled ==
    ASSUME NEW s \in Sessions, Ruled, Alone(s), NEW q \in Sessions \ {s},
           call[q].op \in {"settle", "refund"} => hold'[call[q].hold].amt = hold[call[q].hold].amt
    PROVE  InOrder(q)' /\ Asked(call[q])' /\ Deed(q)'
<1>1. /\ call'[q] = call[q] /\ pc'[q] = pc[q] /\ need'[q] = need[q] /\ pend'[q] = pend[q]
      /\ \A r \in Rows : lock'[r] = q <=> lock[r] = q
  BY DEF Alone
<1>2. InOrder(q)'
  BY <1>1 DEF Ruled, InOrder
<1>3. Asked(call[q])'
  BY <1>1 DEF Ruled, Asked
<1>4. Deed(q)'
  BY <1>1 DEF Ruled, Deed
<1> QED  BY <1>2, <1>3, <1>4

LEMMA RuledStep ==
    ASSUME NEW s \in Sessions, Ruled, Inductive', Alone(s), hold' = hold,
           InOrder(s)', Asked(call[s])', Deed(s)'
    PROVE  Ruled'
<1>1. \A q \in Sessions \ {s} : InOrder(q)' /\ Asked(call[q])' /\ Deed(q)'
  BY OthersRuled
<1>2. Owned'
  BY DEF Ruled, Owned
<1> QED  BY <1>1, <1>2 DEF Ruled

\* Locking a row that is free, and releasing all.
LEMMA TakesAlone ==
    ASSUME NEW s \in Sessions, TypeOK,
           \A q \in Sessions \ {s} : /\ call'[q] = call[q] /\ pc'[q] = pc[q]
                                     /\ need'[q] = need[q] /\ pend'[q] = pend[q],
           \A r \in Rows : lock'[r] = lock[r] \/ (lock[r] = NoSession /\ lock'[r] = s)
                           \/ (lock[r] = s /\ lock'[r] = NoSession)
    PROVE  Alone(s)
BY RowAssumption DEF Alone

LEMMA AbortRuled ==
    ASSUME NEW s \in Sessions, Ruled, Abort(s)
    PROVE  Ruled'
<1>1. /\ pc'[s] = "idle" /\ call'[s] = NoCall /\ NoCall.op = "none" /\ hold' = hold
      /\ \A r \in Rows : lock'[r] # s
  BY RowAssumption DEF Abort, EndOfCall, Goto, ReleaseAll, Ruled, Inductive, TypeOK, tables, NoCall, Call
<1>2. Alone(s)
  <2>1. TypeOK
    BY DEF Ruled, Inductive
  <2>2. \A r \in Rows : lock'[r] = IF lock[r] = s THEN NoSession ELSE lock[r]
    BY DEF Abort, EndOfCall, ReleaseAll
  <2> QED  BY <2>1, <2>2, TakesAlone DEF Abort, EndOfCall, Goto, TypeOK
<1>3. InOrder(s)' /\ Deed(s)'
  BY <1>1 DEF InOrder, Deed
<1>4. Asked(call[s])'
  BY <1>1 DEF Asked, NoCall, Call
<1> QED  BY <1>1, <1>2, <1>3, <1>4, RuledStep, AbortKeeps DEF Ruled

\* The single-account operations write what they are meant to.
LEMMA CreditedNothing ==
    /\ \A u \in Users, a \in Int :
          /\ Credited(NoWrites, u, a).bal = At(Users, u, a)
          /\ Credited(NoWrites, u, a).purse = Zeros(Slugs)
          /\ Credited(NoWrites, u, a).st = "none"
    /\ \A t \in Slugs, a \in Int :
          /\ PurseCredited(NoWrites, t, a).purse = At(Slugs, t, a)
          /\ PurseCredited(NoWrites, t, a).bal = Zeros(Users)
          /\ PurseCredited(NoWrites, t, a).st = "none"
<1>1. /\ NoWrites.bal = Zeros(Users) /\ NoWrites.purse = Zeros(Slugs) /\ NoWrites.st = "none"
  BY DEF NoWrites, Zeros
<1>2. \A S, r, a : r \in S /\ a \in Int => [Zeros(S) EXCEPT ![r] = Zeros(S)[r] + a] = At(S, r, a)
  BY DEF Zeros, At
<1>3. \A w, u, a : /\ Credited(w, u, a).bal = [w.bal EXCEPT ![u] = w.bal[u] + a]
                   /\ Credited(w, u, a).purse = w.purse /\ Credited(w, u, a).st = w.st
                   /\ PurseCredited(w, u, a).purse = [w.purse EXCEPT ![u] = w.purse[u] + a]
                   /\ PurseCredited(w, u, a).bal = w.bal /\ PurseCredited(w, u, a).st = w.st
  BY DEF Credited, PurseCredited
<1>4. ASSUME NEW u \in Users, NEW a \in Int
      PROVE  /\ Credited(NoWrites, u, a).bal = At(Users, u, a)
             /\ Credited(NoWrites, u, a).purse = Zeros(Slugs)
             /\ Credited(NoWrites, u, a).st = "none"
  <2>1. Credited(NoWrites, u, a).bal = [NoWrites.bal EXCEPT ![u] = NoWrites.bal[u] + a]
    BY Zenon DEF Credited
  <2>2. Credited(NoWrites, u, a).bal = [Zeros(Users) EXCEPT ![u] = Zeros(Users)[u] + a]
    BY <1>1, <2>1, Zenon
  <2> QED  BY <1>1, <1>2, <1>3, <2>2
<1>5. ASSUME NEW t \in Slugs, NEW a \in Int
      PROVE  /\ PurseCredited(NoWrites, t, a).purse = At(Slugs, t, a)
             /\ PurseCredited(NoWrites, t, a).bal = Zeros(Users)
             /\ PurseCredited(NoWrites, t, a).st = "none"
  <2>1. PurseCredited(NoWrites, t, a).purse = [NoWrites.purse EXCEPT ![t] = NoWrites.purse[t] + a]
    BY Zenon DEF PurseCredited
  <2>2. PurseCredited(NoWrites, t, a).purse = [Zeros(Slugs) EXCEPT ![t] = Zeros(Slugs)[t] + a]
    BY <1>1, <2>1, Zenon
  <2> QED  BY <1>1, <1>2, <1>3, <2>2
<1> QED  BY <1>4, <1>5

LEMMA RecordedKeeps ==
    \A w, u, a, st : /\ Recorded(w, u, a).bal = w.bal /\ Recorded(w, u, a).purse = w.purse
                     /\ Recorded(w, u, a).st = w.st
                     /\ Stamped(w, st).bal = w.bal /\ Stamped(w, st).purse = w.purse
                     /\ Stamped(w, st).st = st
BY DEF Recorded, Stamped

LEMMA CallFields ==
    ASSUME NEW op, NEW src, NEW dst, NEW a, NEW h, NEW splits
    PROVE  /\ Call(op, src, dst, a, h, splits).op = op
           /\ Call(op, src, dst, a, h, splits).src = src
           /\ Call(op, src, dst, a, h, splits).dst = dst
           /\ Call(op, src, dst, a, h, splits).amt = a
           /\ Call(op, src, dst, a, h, splits).hold = h
           /\ Call(op, src, dst, a, h, splits).splits = splits
BY DEF Call

LEMMA OneStatementRuled ==
    ASSUME NEW s \in Sessions, Ruled, Inductive', NEW c, NEW w,
           Begin(s, c, "commit"), pend' = [pend EXCEPT ![s] = w], UNCHANGED <<tables, need>>,
           \A r \in Rows : lock'[r] = lock[r] \/ (lock[r] = NoSession /\ lock'[r] = s),
           Asked(c), Meant(c, w)
    PROVE  Ruled'
<1>1. /\ pc'[s] = "commit" /\ call'[s] = c /\ pend'[s] = w /\ hold' = hold
      /\ \A q \in Sessions \ {s} : /\ call'[q] = call[q] /\ pc'[q] = pc[q]
                                   /\ need'[q] = need[q] /\ pend'[q] = pend[q]
  BY DEF Begin, Goto, Ruled, Inductive, TypeOK, tables
<1>2. Alone(s)
  BY <1>1, TakesAlone DEF Ruled, Inductive
<1>3. InOrder(s)' /\ Deed(s)'
  BY <1>1 DEF InOrder, Deed
<1>4. Asked(call[s])'
  BY <1>1 DEF Asked
<1> QED  BY <1>1, <1>2, <1>3, <1>4, RuledStep

LEMMA TakeRow ==
    ASSUME NEW s \in Sessions, NEW r \in Rows, TypeOK, Take(s, r)
    PROVE  \A q \in Rows : lock'[q] = lock[q] \/ (lock[q] = NoSession /\ lock'[q] = s)
BY RowAssumption DEF Take, Free, TypeOK

LEMMA IdleWritesNothing ==
    ASSUME NEW s \in Sessions, Ruled, pc[s] = "idle"
    PROVE  pend[s] = NoWrites /\ TypeOK
BY DEF Ruled, Inductive, SessionOK

LEMMA ChargeRuled ==
    ASSUME NEW s \in Sessions, NEW u \in Users, NEW a \in Amounts, Ruled, Charge(s, u, a)
    PROVE  Ruled'
<1> DEFINE c == Call("charge", u, Sink, a, Sink, <<>>)
           w == Recorded(Credited(NoWrites, u, -a), u, -a)
<1>1. a \in Int /\ -a \in Int /\ a > 0 /\ pc[s] = "idle" /\ Inductive
  BY InputAssumption DEF Charge, Begin, Ruled
<1>2. /\ Begin(s, c, "commit") /\ UNCHANGED <<tables, need>> /\ Take(s, u)
      /\ pend' = [pend EXCEPT ![s] = w]
  BY <1>1, IdleWritesNothing DEF Charge
<1>3. c.op = "charge" /\ c.src = u /\ c.amt = a
  BY CallFields
<1>4. Writes(w, At(Users, u, -a), Zeros(Slugs), "none")
  BY <1>1, CreditedNothing, RecordedKeeps DEF Writes
<1>5. \A r \in Rows : lock'[r] = lock[r] \/ (lock[r] = NoSession /\ lock'[r] = s)
  BY <1>1, <1>2, TakeRow, IdleWritesNothing
<1>6. Inductive'
  BY <1>1, ChargeKeeps
<1> HIDE DEF c, w
<1>7. Asked(c) /\ Meant(c, w)
  BY <1>1, <1>3, <1>4 DEF Asked, Meant
<1> QED  BY <1>2, <1>5, <1>6, <1>7, OneStatementRuled

LEMMA RewardRuled ==
    ASSUME NEW s \in Sessions, NEW u \in Users, NEW a \in Amounts, Ruled, Reward(s, u, a)
    PROVE  Ruled'
<1> DEFINE c == Call("reward", Sink, u, a, Sink, <<>>)
           w == Recorded(Credited(NoWrites, u, a), u, a)
<1>1. a \in Int /\ a > 0 /\ pc[s] = "idle" /\ Inductive
  BY InputAssumption DEF Reward, Begin, Ruled
<1>2. /\ Begin(s, c, "commit") /\ UNCHANGED <<tables, need>> /\ Take(s, u)
      /\ pend' = [pend EXCEPT ![s] = w]
  BY <1>1, IdleWritesNothing DEF Reward
<1>3. c.op = "reward" /\ c.dst = u /\ c.amt = a
  BY CallFields
<1>4. Writes(w, At(Users, u, a), Zeros(Slugs), "none")
  BY <1>1, CreditedNothing, RecordedKeeps DEF Writes
<1>5. \A r \in Rows : lock'[r] = lock[r] \/ (lock[r] = NoSession /\ lock'[r] = s)
  BY <1>1, <1>2, TakeRow, IdleWritesNothing
<1>6. Inductive'
  BY <1>1, RewardKeeps
<1> HIDE DEF c, w
<1>7. Asked(c) /\ Meant(c, w)
  BY <1>1, <1>3, <1>4 DEF Asked, Meant
<1> QED  BY <1>2, <1>5, <1>6, <1>7, OneStatementRuled

LEMMA HoldRuled ==
    ASSUME NEW s \in Sessions, NEW u \in Users, NEW a \in Amounts, NEW h \in Holds, Ruled,
           Hold(s, u, a, h)
    PROVE  Ruled'
<1> DEFINE c == Call("hold", u, Sink, a, h, <<>>)
           w == Stamped(Recorded(Credited(NoWrites, u, -a), u, -a), "held")
<1>1. a \in Int /\ -a \in Int /\ a > 0 /\ pc[s] = "idle" /\ Inductive
  BY InputAssumption DEF Hold, Begin, Ruled
<1>2. /\ Begin(s, c, "commit") /\ UNCHANGED <<tables, need>>
      /\ pend' = [pend EXCEPT ![s] = w]
  BY <1>1, IdleWritesNothing DEF Hold
<1>3. c.op = "hold" /\ c.src = u /\ c.amt = a
  BY CallFields
<1>4. Writes(w, At(Users, u, -a), Zeros(Slugs), "held")
  BY <1>1, CreditedNothing, RecordedKeeps DEF Writes
<1>5. \A r \in Rows : lock'[r] = lock[r] \/ (lock[r] = NoSession /\ lock'[r] = s)
  BY <1>1, RowAssumption DEF Hold, Free, Inductive, TypeOK
<1>6. Inductive'
  BY <1>1, HoldKeeps
<1> HIDE DEF c, w
<1>7. Asked(c) /\ Meant(c, w)
  BY <1>1, <1>3, <1>4 DEF Asked, Meant
<1> QED  BY <1>2, <1>5, <1>6, <1>7, OneStatementRuled

LEMMA TreasuryCreditRuled ==
    ASSUME NEW s \in Sessions, NEW t \in Slugs, NEW a \in Amounts, Ruled, TreasuryCredit(s, t, a)
    PROVE  Ruled'
<1> DEFINE c == Call("treasury_credit", Sink, t, a, Sink, <<>>)
           w == PurseCredited(NoWrites, t, a)
<1>1. a \in Int /\ a > 0 /\ pc[s] = "idle" /\ Inductive
  BY InputAssumption DEF TreasuryCredit, Begin, Ruled
<1>2. /\ Begin(s, c, "commit") /\ UNCHANGED <<tables, need>> /\ Take(s, t)
      /\ pend' = [pend EXCEPT ![s] = w]
  BY <1>1, IdleWritesNothing DEF TreasuryCredit
<1>3. c.op = "treasury_credit" /\ c.dst = t /\ c.amt = a
  BY CallFields
<1>4. Writes(w, Zeros(Users), At(Slugs, t, a), "none")
  BY <1>1, CreditedNothing DEF Writes
<1>5. \A r \in Rows : lock'[r] = lock[r] \/ (lock[r] = NoSession /\ lock'[r] = s)
  BY <1>1, <1>2, TakeRow, IdleWritesNothing
<1>6. Inductive'
  BY <1>1, TreasuryCreditKeeps
<1> HIDE DEF c, w
<1>7. Asked(c) /\ Meant(c, w)
  BY <1>1, <1>3, <1>4 DEF Asked, Meant
<1> QED  BY <1>2, <1>5, <1>6, <1>7, OneStatementRuled

LEMMA TreasuryDebitRuled ==
    ASSUME NEW s \in Sessions, NEW t \in Slugs, NEW a \in Amounts, NEW reserve \in {0, 1}, Ruled,
           TreasuryDebit(s, t, a, reserve)
    PROVE  Ruled'
<1> DEFINE c == Call("treasury_debit", t, Sink, a, Sink, <<>>)
           w == PurseCredited(NoWrites, t, -a)
<1>1. a \in Int /\ -a \in Int /\ a > 0 /\ pc[s] = "idle" /\ Inductive
  BY InputAssumption DEF TreasuryDebit, Begin, Ruled
<1>2. /\ Begin(s, c, "commit") /\ UNCHANGED <<tables, need>> /\ Take(s, t)
      /\ pend' = [pend EXCEPT ![s] = w]
  BY <1>1, IdleWritesNothing DEF TreasuryDebit
<1>3. c.op = "treasury_debit" /\ c.src = t /\ c.amt = a
  BY CallFields
<1>4. Writes(w, Zeros(Users), At(Slugs, t, -a), "none")
  BY <1>1, CreditedNothing DEF Writes
<1>5. \A r \in Rows : lock'[r] = lock[r] \/ (lock[r] = NoSession /\ lock'[r] = s)
  BY <1>1, <1>2, TakeRow, IdleWritesNothing
<1>6. Inductive'
  BY <1>1, TreasuryDebitKeeps
<1> HIDE DEF c, w
<1>7. Asked(c) /\ Meant(c, w)
  BY <1>1, <1>3, <1>4 DEF Asked, Meant
<1> QED  BY <1>2, <1>5, <1>6, <1>7, OneStatementRuled

\* One credit more, and the purse or user debited before has been paid for.
LEMMA MovedOn ==
    ASSUME NEW S, NEW r \in S, NEW q \in S, r # q, NEW a \in Int
    PROVE  [At(S, r, -a) EXCEPT ![q] = At(S, r, -a)[q] + a] = Moved(S, r, q, a)
<1> DEFINE f == At(S, r, -a)
<1>1. f \in [S -> Int] /\ f[q] = 0 /\ 0 + a = a
  BY DEF At
<1>2. \A x \in S : f[x] = IF x = r THEN -a ELSE 0
  BY DEF At
<1> HIDE DEF f
<1> DEFINE g == [f EXCEPT ![q] = f[q] + a]
<1>3. g = [x \in S |-> IF x = q THEN a ELSE f[x]]
  BY <1>1
<1>4. g = [x \in S |-> IF x = r THEN -a ELSE IF x = q THEN a ELSE 0]
  BY <1>2, <1>3
<1> QED  BY <1>4 DEF Moved, f

LEMMA TreasuryTransferRuled ==
    ASSUME NEW s \in Sessions, NEW t \in Slugs, NEW v \in Slugs, NEW a \in Amounts, Ruled,
           TreasuryTransfer(s, t, v, a)
    PROVE  Ruled'
<1> DEFINE c == Call("treasury_transfer", t, v, a, Sink, <<>>)
           w == PurseCredited(NoWrites, t, -a)
<1>1. /\ a \in Int /\ -a \in Int /\ a > 0 /\ t # v /\ pc[s] = "idle" /\ Inductive /\ TypeOK
      /\ pend[s] = NoWrites
  BY InputAssumption, IdleWritesNothing DEF TreasuryTransfer, Begin, Ruled
<1>2. /\ UNCHANGED <<tables, need>> /\ Take(s, t)
      /\ call' = [call EXCEPT ![s] = c] /\ pc' = [pc EXCEPT ![s] = "purseCredit"]
      /\ pend' = [pend EXCEPT ![s] = w]
  BY <1>1 DEF TreasuryTransfer, Begin, Goto
<1>3. c.op = "treasury_transfer" /\ c.src = t /\ c.dst = v /\ c.amt = a
  BY CallFields
<1>4. w.purse = At(Slugs, t, -a)
  BY <1>1, CreditedNothing
<1>5. \A r \in Rows : lock'[r] = lock[r] \/ (lock[r] = NoSession /\ lock'[r] = s)
  BY <1>1, <1>2, TakeRow
<1>6. Inductive'
  BY <1>1, TreasuryTransferKeeps
<1> HIDE DEF c, w
<1>7. Alone(s) /\ hold' = hold
  BY <1>1, <1>2, <1>5, TakesAlone DEF TypeOK, tables
<1>8. pc'[s] = "purseCredit" /\ call'[s] = c /\ pend'[s] = w
  BY <1>1, <1>2 DEF TypeOK
<1>9. InOrder(s)' /\ Asked(call[s])' /\ Deed(s)'
  BY <1>1, <1>3, <1>4, <1>8 DEF InOrder, Asked, Deed
<1> QED  BY <1>6, <1>7, <1>9, RuledStep

LEMMA TreasuryTransferCreditRuled ==
    ASSUME NEW s \in Sessions, Ruled, TreasuryTransferCredit(s)
    PROVE  Ruled'
<1> DEFINE c == call[s]
           w == PurseCredited(pend[s], c.dst, c.amt)
<1>1. /\ pc[s] = "purseCredit" /\ Inductive /\ TypeOK /\ InOrder(s) /\ Asked(c) /\ Deed(s)
      /\ SessionOK(s) /\ c \in Calls
  BY DEF TreasuryTransferCredit, Ruled, Inductive, TypeOK
<1>2. /\ c.op = "treasury_transfer" /\ c.src \in Slugs /\ c.dst \in Slugs /\ c.src # c.dst
      /\ c.amt \in Int
      /\ pend[s].purse = At(Slugs, c.src, -c.amt) /\ pend[s].bal = NoWrites.bal /\ pend[s].st = "none"
  BY <1>1 DEF InOrder, Asked, Deed, SessionOK, Calls
<1>3. Writes(w, Zeros(Users), Moved(Slugs, c.src, c.dst, c.amt), "none")
  <2>1. /\ w.purse = [pend[s].purse EXCEPT ![c.dst] = pend[s].purse[c.dst] + c.amt]
        /\ w.bal = pend[s].bal /\ w.st = pend[s].st
    BY DEF PurseCredited
  <2>2. NoWrites.bal = Zeros(Users)
    BY DEF NoWrites, Zeros
  <2> HIDE DEF c, w
  <2>3. w.purse = Moved(Slugs, c.src, c.dst, c.amt)
    BY <1>2, <2>1, MovedOn
  <2> QED  BY <1>2, <2>1, <2>2, <2>3 DEF Writes
<1>4. /\ UNCHANGED <<tables, call, need>> /\ Take(s, c.dst) /\ c.dst \in Rows
      /\ pend' = [pend EXCEPT ![s] = w] /\ pc' = [pc EXCEPT ![s] = "commit"]
  BY <1>2 DEF TreasuryTransferCredit, Goto
<1> HIDE DEF w
<1>5. /\ pc'[s] = "commit" /\ call'[s] = c /\ pend'[s] = w /\ hold' = hold
      /\ \A q \in Sessions \ {s} : /\ call'[q] = call[q] /\ pc'[q] = pc[q]
                                   /\ need'[q] = need[q] /\ pend'[q] = pend[q]
  BY <1>1, <1>4 DEF TypeOK, tables
<1>6. Alone(s)
  <2>1. \A r \in Rows : lock'[r] = lock[r] \/ (lock[r] = NoSession /\ lock'[r] = s)
    BY <1>1, <1>4, TakeRow
  <2> QED  BY <1>1, <1>5, <2>1, TakesAlone
<1>7. Asked(call[s])'
  BY <1>1, <1>5 DEF Asked
<1>8. InOrder(s)' /\ Deed(s)'
  BY <1>2, <1>3, <1>5 DEF InOrder, Deed, Meant
<1> QED  BY <1>1, <1>5, <1>6, <1>7, <1>8, RuledStep, TreasuryTransferCreditKeeps

LEMMA TransferRuled ==
    ASSUME NEW s \in Sessions, NEW u \in Users, NEW v \in Users \cup {Ghost}, NEW a \in Amounts,
           Ruled, Transfer(s, u, v, a)
    PROVE  Ruled'
<1> DEFINE c == Call("transfer", u, v, a, Sink, <<>>)
<1>1. /\ a > 0 /\ u # v /\ pc[s] = "idle" /\ Inductive /\ TypeOK
      /\ call' = [call EXCEPT ![s] = c] /\ pc' = [pc EXCEPT ![s] = "lock"]
      /\ need' = [need EXCEPT ![s] = {u, v} \ {Ghost}] /\ UNCHANGED <<tables, lock, pend>>
  BY DEF Transfer, Begin, Goto, Ruled, Inductive
<1>2. c.op = "transfer" /\ c.src = u /\ c.dst = v /\ c.amt = a
  BY CallFields
<1> HIDE DEF c
<1>3. /\ pc'[s] = "lock" /\ call'[s] = c /\ hold' = hold
      /\ \A q \in Sessions \ {s} : /\ call'[q] = call[q] /\ pc'[q] = pc[q]
                                   /\ need'[q] = need[q] /\ pend'[q] = pend[q]
  BY <1>1 DEF TypeOK, tables
<1>4. Alone(s)
  BY <1>1, <1>3, TakesAlone
<1>5. InOrder(s)'
  <2>1. \A r \in Rows : lock'[r] # s
    BY <1>1 DEF Ruled, InOrder
  <2> QED  BY <1>3, <2>1 DEF InOrder
<1>6. Asked(call[s])' /\ Deed(s)'
  BY <1>1, <1>2, <1>3 DEF Asked, Deed
<1>7. Inductive'
  BY <1>1, TransferKeeps
<1> QED  BY <1>3, <1>4, <1>5, <1>6, <1>7, RuledStep

\* The row locked next comes before those still needed.
LEMMA LockAccountRuled ==
    ASSUME NEW s \in Sessions, NEW r \in Users \cup Slugs, Ruled, LockAccount(s, r)
    PROVE  Ruled'
<1>1. /\ pc[s] = "lock" /\ IsNextRow(s, r) /\ Take(s, r) /\ need' = [need EXCEPT ![s] = need[s] \ {r}]
      /\ UNCHANGED <<tables, call, pc, pend>> /\ Inductive /\ TypeOK
  BY DEF LockAccount, Ruled, Inductive
<1>2. /\ \A q \in Rows : lock'[q] = lock[q] \/ (lock[q] = NoSession /\ lock'[q] = s)
      /\ \A q \in Rows \ {r} : lock'[q] = lock[q]
  BY <1>1, TakeRow DEF Take, TypeOK
<1>3. Alone(s)
  BY <1>1, <1>2, TakesAlone DEF TypeOK
<1>4. InOrder(s)'
  <2>1. need'[s] = need[s] \ {r}
    BY <1>1 DEF TypeOK
  <2>2. \A q \in need[s] \ {r} : Before(r, q)
    BY <1>1 DEF IsNextRow
  <2>3. \A x \in Users \cup Slugs, q \in need[s] : lock[x] = s => Before(x, q)
    BY <1>1 DEF Ruled, InOrder
  <2> QED  BY <1>1, <1>2, <2>1, <2>2, <2>3 DEF InOrder
<1>5. Asked(call[s])' /\ Deed(s)' /\ hold' = hold
  BY <1>1 DEF Ruled, Asked, Deed, tables
<1> QED  BY <1>1, <1>3, <1>4, <1>5, RuledStep, LockAccountKeeps

LEMMA TransferDebitRuled ==
    ASSUME NEW s \in Sessions, Ruled, TransferDebit(s)
    PROVE  Ruled'
<1>1. CASE Abort(s)
  BY <1>1, AbortRuled
<1>2. CASE ~Abort(s)
  <2>1. /\ UNCHANGED <<tables, lock, call, need>> /\ pc' = [pc EXCEPT ![s] = "credit"]
        /\ pend' = [pend EXCEPT ![s] = Credited(pend[s], call[s].src, -call[s].amt)]
        /\ Inductive /\ TypeOK
    BY <1>2 DEF TransferDebit, Goto, Ruled, Inductive
  <2>2. /\ pc'[s] = "credit" /\ hold' = hold
        /\ \A q \in Sessions \ {s} : pc'[q] = pc[q] /\ pend'[q] = pend[q]
    BY <2>1 DEF TypeOK, tables
  <2>3. Alone(s)
    BY <2>1, <2>2, TakesAlone
  <2>4. InOrder(s)' /\ Deed(s)'
    BY <2>2 DEF InOrder, Deed
  <2>5. Asked(call[s])'
    BY <2>1, <2>2 DEF Ruled, Asked
  <2> QED  BY <2>1, <2>2, <2>3, <2>4, <2>5, RuledStep, TransferDebitKeeps
<1> QED  BY <1>1, <1>2

LEMMA TransferCreditRuled ==
    ASSUME NEW s \in Sessions, Ruled, TransferCredit(s)
    PROVE  Ruled'
<1> DEFINE c == call[s]
           b == Credited(NoWrites, c.src, -c.amt)
           w == Recorded(Recorded(Credited(b, c.dst, c.amt), c.src, -c.amt), c.dst, c.amt)
<1>1. /\ InTransfer(s) /\ c.dst \in Users /\ pend[s] = b /\ Inductive /\ TypeOK /\ c \in Calls
  BY DEF TransferCredit, Ruled, Inductive, SessionOK, TypeOK
<1>2. /\ UNCHANGED <<tables, lock, call, need>> /\ pc' = [pc EXCEPT ![s] = "commit"]
      /\ pend' = [pend EXCEPT ![s] = w]
  BY <1>1 DEF TransferCredit, Goto
<1>3. c.op = "transfer" /\ c.src \in Users /\ c.src # c.dst /\ c.amt \in Int /\ -c.amt \in Int
  BY <1>1 DEF InTransfer, Calls
<1>4. Writes(w, Moved(Users, c.src, c.dst, c.amt), Zeros(Slugs), "none")
  <2>1. b.bal = At(Users, c.src, -c.amt) /\ b.purse = Zeros(Slugs) /\ b.st = "none"
    BY <1>3, CreditedNothing
  <2> HIDE DEF b
  <2>2. w.bal = [b.bal EXCEPT ![c.dst] = b.bal[c.dst] + c.amt] /\ w.purse = b.purse /\ w.st = b.st
    BY DEF Credited, Recorded
  <2> HIDE DEF w, c
  <2>3. w.bal = Moved(Users, c.src, c.dst, c.amt)
    BY <1>1, <1>3, <2>1, <2>2, MovedOn
  <2> QED  BY <2>1, <2>2, <2>3 DEF Writes
<1> HIDE DEF w
<1>5. /\ pc'[s] = "commit" /\ pend'[s] = w /\ hold' = hold /\ call'[s] = c
      /\ \A q \in Sessions \ {s} : pc'[q] = pc[q] /\ pend'[q] = pend[q]
  BY <1>1, <1>2 DEF TypeOK, tables
<1>6. Alone(s)
  BY <1>1, <1>2, <1>5, TakesAlone
<1>7. InOrder(s)' /\ Deed(s)'
  BY <1>1, <1>3, <1>4, <1>5 DEF InOrder, Deed, Meant
<1>8. Asked(call[s])'
  BY <1>2, <1>5 DEF Ruled, Asked
<1> QED  BY <1>1, <1>5, <1>6, <1>7, <1>8, RuledStep, TransferCreditKeeps

\* A session that ends a hold begins with the hold's row; no account is locked yet.
LEMMA TerminalizeRuled ==
    ASSUME NEW s \in Sessions, NEW op \in {"settle", "refund"}, NEW h \in Holds,
           NEW splits \in Distributions \cup {WholeTo(h)}, Ruled, Terminalize(s, op, h, splits)
    PROVE  Ruled'
<1> DEFINE c == Call(op, Sink, Sink, hold[h].amt, h, splits)
<1>1. /\ hold[h].st = "held" /\ pc[s] = "idle" /\ Inductive /\ TypeOK
      /\ call' = [call EXCEPT ![s] = c] /\ pc' = [pc EXCEPT ![s] = "lock"]
      /\ need' = [need EXCEPT ![s] = Recipients(splits) \cap (Users \cup Slugs)]
      /\ Take(s, h) /\ UNCHANGED <<tables, pend>>
  BY DEF Terminalize, Begin, Goto, Ruled, Inductive
<1>2. c.op = op /\ c.amt = hold[h].amt /\ c.hold = h /\ c.splits = splits
  BY CallFields
<1>3. splits \in SplitList
  <2>1. WholeTo(h) \in SplitList
    BY <1>1 DEF WholeTo, SplitList, TypeOK, HoldRows
  <2> QED  BY <2>1, InputAssumption
<1>4. Inductive'
  BY <1>1, <1>3, TerminalizeKeeps
<1> HIDE DEF c
<1>5. /\ pc'[s] = "lock" /\ call'[s] = c /\ hold' = hold
      /\ \A q \in Sessions \ {s} : /\ call'[q] = call[q] /\ pc'[q] = pc[q]
                                   /\ need'[q] = need[q] /\ pend'[q] = pend[q]
  BY <1>1 DEF TypeOK, tables
<1>6. Alone(s)
  <2>1. \A r \in Rows : lock'[r] = lock[r] \/ (lock[r] = NoSession /\ lock'[r] = s)
    BY <1>1, TakeRow
  <2> QED  BY <1>1, <1>5, <2>1, TakesAlone
<1>7. InOrder(s)'
  <2>1. \A r \in Rows : lock[r] # s
    BY <1>1 DEF Ruled, InOrder
  <2>2. \A r \in Users \cup Slugs : lock'[r] # s
    BY <1>1, <2>1, RowAssumption DEF Take, TypeOK
  <2> QED  BY <1>5, <2>2 DEF InOrder
<1>8. Asked(call[s])'
  <2>1. c.splits \in Distributions \cup Whole(c)
    BY <1>1, <1>2 DEF Whole, WholeTo, Ruled, Owned
  <2> QED  BY <1>2, <1>5, <2>1 DEF Asked
<1>9. Deed(s)'
  BY <1>5 DEF Deed
<1> QED  BY <1>4, <1>5, <1>6, <1>7, <1>8, <1>9, RuledStep

LEMMA ClaimRuled ==
    ASSUME NEW s \in Sessions, Ruled, Claim(s)
    PROVE  Ruled'
<1> DEFINE c == call[s]
           w == [bal |-> [u \in Users |-> Share(c.splits, u)],
                 ledger |-> [u \in Users |-> Share(c.splits, u)],
                 purse |-> [t \in Slugs |-> Share(c.splits, t)],
                 st |-> Terminal[c.op]]
<1>1. /\ c.op \in {"settle", "refund"} /\ Ghost \notin Recipients(c.splits)
      /\ pend' = [pend EXCEPT ![s] = w] /\ pc' = [pc EXCEPT ![s] = "commit"]
      /\ UNCHANGED <<tables, lock, call, need>> /\ Inductive /\ TypeOK
  BY DEF Claim, AllExist, Goto, Ruled, Inductive
<1>2. Writes(w, [u \in Users |-> Share(c.splits, u)], [t \in Slugs |-> Share(c.splits, t)],
             Terminal[c.op])
  BY DEF Writes
<1> HIDE DEF w
<1>3. /\ pc'[s] = "commit" /\ pend'[s] = w /\ hold' = hold /\ call'[s] = c
      /\ \A q \in Sessions \ {s} : pc'[q] = pc[q] /\ pend'[q] = pend[q]
  BY <1>1 DEF TypeOK, tables
<1>4. Alone(s)
  BY <1>1, <1>3, TakesAlone
<1>5. Asked(call[s])'
  BY <1>1, <1>3 DEF Ruled, Asked
<1>6. InOrder(s)'
  BY <1>3 DEF InOrder
<1>7. Deed(s)'
  <2>1. Meant(c, w)
    BY <1>1, <1>2 DEF Meant
  <2> QED  BY <1>3, <2>1 DEF Deed
<1> QED  BY <1>1, <1>3, <1>4, <1>5, <1>6, <1>7, RuledStep, ClaimKeeps

LEMMA RetryRuled ==
    ASSUME NEW s \in Sessions, Ruled, Retry(s)
    PROVE  Ruled'
<1> DEFINE c == [call[s] EXCEPT !.attempt = call[s].attempt + 1]
<1>1. /\ call' = [call EXCEPT ![s] = c] /\ pc' = [pc EXCEPT ![s] = "lock"]
      /\ need' = [need EXCEPT ![s] = {call[s].src, call[s].dst} \ {Ghost}]
      /\ pend' = [pend EXCEPT ![s] = NoWrites] /\ UNCHANGED tables
      /\ \A r \in Rows : lock'[r] = IF lock[r] = s THEN NoSession ELSE lock[r]
      /\ Inductive /\ TypeOK /\ call[s].op = "transfer" /\ call[s] \in Calls
  BY DEF Retry, Goto, ReleaseAll, Ruled, Inductive, TypeOK
<1>2. /\ c.op = "transfer" /\ c.src = call[s].src /\ c.dst = call[s].dst /\ c.amt = call[s].amt
  BY <1>1 DEF Calls
<1> HIDE DEF c
<1>3. /\ pc'[s] = "lock" /\ call'[s] = c /\ hold' = hold
      /\ \A q \in Sessions \ {s} : /\ call'[q] = call[q] /\ pc'[q] = pc[q]
                                   /\ need'[q] = need[q] /\ pend'[q] = pend[q]
  BY <1>1 DEF TypeOK, tables
<1>4. Alone(s)
  BY <1>1, <1>3, TakesAlone
<1>5. InOrder(s)' /\ Deed(s)'
  <2>1. \A r \in Rows : lock'[r] # s
    BY <1>1, RowAssumption
  <2> QED  BY <1>3, <2>1 DEF InOrder, Deed
<1>6. Asked(call[s])'
  BY <1>1, <1>2, <1>3 DEF Ruled, Asked
<1> QED  BY <1>1, <1>3, <1>4, <1>5, <1>6, RuledStep, RetryKeeps

\* What a commit does to the holds.
LEMMA CommitHolds ==
    ASSUME NEW s \in Sessions, Inductive, Commit(s)
    PROVE  /\ pend[s].st \in States
           /\ pend[s].st = "none" => hold' = hold
           /\ pend[s].st = "held" =>
                /\ call[s].hold \in Holds /\ lock[call[s].hold] = s /\ hold[call[s].hold].st = "none"
                /\ hold' = [hold EXCEPT ![call[s].hold] =
                              [st |-> "held", user |-> call[s].src, amt |-> call[s].amt]]
           /\ pend[s].st \in {"settled", "refunded"} =>
                /\ call[s].hold \in Holds /\ lock[call[s].hold] = s /\ hold[call[s].hold].st = "held"
                /\ ValidDistribution(call[s].splits, hold[call[s].hold].amt)
                /\ hold' = [hold EXCEPT ![call[s].hold] = Ended(hold[call[s].hold], pend[s].st)]
<1>1. InCommit(s)
  BY DEF Commit, Inductive, SessionOK
<1>2. pend[s].st \in States
  BY DEF Inductive, TypeOK, WriteSets
<1>3. pend[s].st = "none" => hold' = hold
  BY DEF Commit
<1>4. ASSUME pend[s].st = "held"
      PROVE  hold' = [hold EXCEPT ![call[s].hold] =
                        [st |-> "held", user |-> call[s].src, amt |-> call[s].amt]]
  BY <1>4 DEF Commit
<1>5. ASSUME pend[s].st \in {"settled", "refunded"}
      PROVE  hold' = [hold EXCEPT ![call[s].hold] = Ended(hold[call[s].hold], pend[s].st)]
  BY <1>5 DEF Commit
<1> QED  BY <1>1, <1>2, <1>3, <1>4, <1>5 DEF InCommit, InTerminal

LEMMA CommitRuled ==
    ASSUME NEW s \in Sessions, Ruled, Commit(s)
    PROVE  Ruled'
<1>1. /\ pc'[s] = "idle" /\ call'[s] = NoCall /\ NoCall.op = "none" /\ Inductive /\ TypeOK
      /\ \A q \in Sessions \ {s} : /\ call'[q] = call[q] /\ pc'[q] = pc[q]
                                   /\ need'[q] = need[q] /\ pend'[q] = pend[q]
      /\ \A r \in Rows : lock'[r] = IF lock[r] = s THEN NoSession ELSE lock[r]
      /\ pc[s] = "commit" /\ Meant(call[s], pend[s]) /\ Asked(call[s])
  BY DEF Commit, EndOfCall, ReleaseAll, Goto, Ruled, Inductive, TypeOK, NoCall, Call, Deed
<1>2. Alone(s)
  BY <1>1, TakesAlone
<1>3. \A r \in Rows : lock'[r] # s
  BY <1>1, RowAssumption
<1>4. InOrder(s)' /\ Deed(s)' /\ Asked(call[s])'
  BY <1>1, <1>3 DEF InOrder, Deed, Asked
<1>5. hold \in [Holds -> HoldRows]
  BY <1>1 DEF TypeOK
<1>6. /\ \A h \in Holds : lock[h] # s => hold'[h] = hold[h]
      /\ \A h \in Holds : \/ hold'[h] = hold[h]
                          \/ pend[s].st = "held" /\ h = call[s].hold
                          \/ pend[s].st \in {"settled", "refunded"} /\ h = call[s].hold
  <2>1. CASE pend[s].st = "none"
    BY <1>1, <2>1, CommitHolds
  <2>2. CASE pend[s].st = "held"
    <3>1. lock[call[s].hold] = s /\ \A h \in Holds \ {call[s].hold} : hold'[h] = hold[h]
      BY <1>1, <1>5, <2>2, CommitHolds
    <3> QED  BY <2>2, <3>1
  <2>3. CASE pend[s].st \in {"settled", "refunded"}
    <3>1. lock[call[s].hold] = s /\ \A h \in Holds \ {call[s].hold} : hold'[h] = hold[h]
      BY <1>1, <1>5, <2>3, CommitHolds
    <3> QED  BY <2>3, <3>1
  <2> QED  BY <1>1, <2>1, <2>2, <2>3, CommitHolds DEF States
<1>7. ASSUME NEW q \in Sessions \ {s} PROVE InOrder(q)' /\ Asked(call[q])' /\ Deed(q)'
  <2>1. ASSUME call[q].op \in {"settle", "refund"}
        PROVE  hold'[call[q].hold].amt = hold[call[q].hold].amt
    <3>1. pc[q] \in {"lock", "commit"}
      <4>1. pc[q] \in Labels /\ SessionOK(q) /\ InOrder(q)
        BY DEF Ruled, Inductive, TypeOK
      <4>2. pc[q] # "idle" /\ pc[q] # "purseCredit"
        BY <2>1, <4>1 DEF InOrder
      <4>3. pc[q] # "credit"
        BY <2>1, <4>1 DEF SessionOK, InTransfer
      <4> QED  BY <4>1, <4>2, <4>3 DEF Labels
    <3>2. InTerminal(q)
      <4>1. CASE pc[q] = "lock"
        BY <2>1, <4>1 DEF Ruled, Inductive, SessionOK, InTransfer
      <4>2. CASE pc[q] = "commit"
        <5>1. pend[q].st = Terminal[call[q].op]
          BY <2>1, <4>2 DEF Ruled, Deed, Meant, Writes
        <5>2. pend[q].st \in {"settled", "refunded"}
          BY <2>1, <5>1 DEF Terminal
        <5> QED  BY <4>2, <5>2 DEF Ruled, Inductive, SessionOK, InCommit
      <4> QED  BY <3>1, <4>1, <4>2
    <3> QED  BY <1>6, <1>7, <3>2 DEF InTerminal
  <2> QED  BY <1>2, <2>1, OthersRuled
<1>8. Owned'
  <2> SUFFICES ASSUME NEW h \in Holds, hold'[h].st = "held" PROVE hold'[h].user \in Users
    BY DEF Owned
  <2>0. hold[h].st = "held" => hold[h].user \in Users
    BY DEF Ruled, Owned
  <2>1. CASE hold'[h] = hold[h]
    BY <2>0, <2>1
  <2>2. CASE pend[s].st = "held" /\ h = call[s].hold
    <3>1. call[s].op = "hold"
      BY <1>1, <2>2 DEF Meant, Writes, Terminal
    <3>2. call[s].src \in Users
      BY <1>1, <3>1 DEF Asked
    <3>3. hold'[h] = [st |-> "held", user |-> call[s].src, amt |-> call[s].amt]
      BY <1>1, <1>5, <2>2, CommitHolds
    <3> QED  BY <3>2, <3>3
  <2>3. CASE pend[s].st \in {"settled", "refunded"} /\ h = call[s].hold
    <3>1. hold'[h] = Ended(hold[h], pend[s].st)
      BY <1>1, <1>5, <2>3, CommitHolds
    <3>2. hold'[h].st = pend[s].st
      BY <3>1 DEF Ended
    <3> QED  BY <2>3, <3>2
  <2> QED  BY <1>6, <2>1, <2>2, <2>3
<1> QED  BY <1>1, <1>4, <1>7, <1>8, CommitKeeps DEF Ruled

LEMMA NextRuled == Ruled /\ [Next]_vars => Ruled'
<1> SUFFICES ASSUME Ruled, [Next]_vars PROVE Ruled'
  OBVIOUS
<1>0. Inductive'
  BY NextInductive DEF Ruled
<1>1. CASE UNCHANGED vars
  BY <1>0, <1>1 DEF vars, Ruled, Owned, InOrder, Asked, Deed
<1>2. ASSUME NEW s \in Sessions, NEW a \in Amounts, NEW u \in Users,
             Charge(s, u, a) \/ Reward(s, u, a)
      PROVE  Ruled'
  BY <1>2, ChargeRuled, RewardRuled
<1>3. ASSUME NEW s \in Sessions, NEW a \in Amounts, NEW u \in Users,
             NEW v \in Users \cup {Ghost}, Transfer(s, u, v, a)
      PROVE  Ruled'
  BY <1>3, TransferRuled
<1>4. ASSUME NEW s \in Sessions, NEW a \in Amounts, NEW u \in Users, NEW h \in Holds,
             Hold(s, u, a, h)
      PROVE  Ruled'
  BY <1>4, HoldRuled
<1>5. ASSUME NEW s \in Sessions, NEW a \in Amounts, NEW t \in Slugs,
             \/ TreasuryCredit(s, t, a)
             \/ \E reserve \in {0, 1} : TreasuryDebit(s, t, a, reserve)
             \/ \E v \in Slugs : TreasuryTransfer(s, t, v, a)
      PROVE  Ruled'
  BY <1>5, TreasuryCreditRuled, TreasuryDebitRuled, TreasuryTransferRuled
<1>6. ASSUME NEW s \in Sessions, NEW h \in Holds,
             \/ \E splits \in Distributions, op \in {"settle", "refund"} :
                   Terminalize(s, op, h, splits)
             \/ Terminalize(s, "refund", h, WholeTo(h))
      PROVE  Ruled'
  BY <1>6, TerminalizeRuled
<1>7. ASSUME NEW s \in Sessions, Fail(s) \/ Retry(s) \/ DeadlockVictim(s)
      PROVE  Ruled'
  BY <1>7, AbortRuled, RetryRuled DEF Fail, DeadlockVictim
<1>8. ASSUME NEW s \in Sessions, Step(s)
      PROVE  Ruled'
  BY <1>8, LockAccountRuled, TransferDebitRuled, TransferCreditRuled, TreasuryTransferCreditRuled,
     ClaimRuled, AbortRuled, CommitRuled DEF Step, ClaimError
<1> QED
  BY <1>1, <1>2, <1>3, <1>4, <1>5, <1>6, <1>7, <1>8 DEF Next

\* At any moment what is pending is what the calls are meant to move, and rows are locked
\* in order: the invariant the three theorems below use.
THEOREM CallsInOrder == Spec => []Ruled
BY InitRuled, NextRuled, PTL DEF Spec
-----------------------------------------------------------------------------
(* Deadlocks.  Rows that wait for one another in the lock order would climb *)
(* for ever, and there are finitely many.                                   *)

LEMMA BeforeOrder ==
    /\ \A r \in Users \cup Slugs : ~ Before(r, r)
    /\ \A r, q, p \in Users \cup Slugs : Before(r, q) /\ Before(q, p) => Before(r, p)
<1>1. Users \subseteq Nat /\ Slugs \subseteq Nat /\ Users \cap Slugs = {}
  BY RowAssumption
<1> QED  BY <1>1 DEF Before

Climbs(W) == W # {} /\ \A r \in W : \E q \in W : Before(r, q)

LEMMA NoClimb ==
    ASSUME NEW W, W \subseteq Users \cup Slugs
    PROVE  ~ Climbs(W)
<1> DEFINE S == Users \cup Slugs
           B == {U \in SUBSET S : Climbs(U)}
<1> SUFFICES ASSUME Climbs(W) PROVE FALSE
  OBVIOUS
<1>1. IsFiniteSet(S)
  BY SizeAssumption, FS_Union
<1>2. B \subseteq SUBSET S /\ B # {}
  OBVIOUS
<1> HIDE DEF B
<1>3. PICK T \in B : \A U \in B : U \subseteq T => U = T
  BY <1>1, <1>2, SmallestSubset
<1>4. T \subseteq S /\ Climbs(T)
  BY <1>3 DEF B
<1>5. PICK r \in T : TRUE
  BY <1>4 DEF Climbs
<1> DEFINE V == {x \in T : Before(r, x)}
<1>6. V \subseteq T /\ V # {}
  BY <1>4 DEF Climbs
<1>7. ASSUME NEW x \in V PROVE \E y \in V : Before(x, y)
  <2>1. x \in T /\ Before(r, x)
    OBVIOUS
  <2>2. PICK y \in T : Before(x, y)
    BY <1>4, <2>1 DEF Climbs
  <2>3. Before(r, y)
    BY <1>4, <2>1, <2>2, BeforeOrder
  <2> QED  BY <2>2, <2>3
<1>8. V \in B
  <2>1. Climbs(V)
    BY <1>6, <1>7 DEF Climbs
  <2> QED  BY <1>4, <1>6, <2>1 DEF B
<1>9. r \in V
  BY <1>3, <1>6, <1>8
<1> QED  BY <1>4, <1>9, BeforeOrder

LEMMA RuledDeadlocks == Ruled => OnlyTreasuryTransferDeadlocks
<1> SUFFICES ASSUME Ruled, NEW C \in SUBSET Sessions, Cycle(C),
                    \A s \in C : call[s].op # "treasury_transfer"
             PROVE  FALSE
  BY DEF OnlyTreasuryTransferDeadlocks
<1> DEFINE W == {r \in Users \cup Slugs :
                    \E s \in C : pc[s] = "lock" /\ r \in need[s] /\ lock[r] \in C}
<1>1. ASSUME NEW s \in C
      PROVE  pc[s] = "lock" /\ \E r \in W : r \in need[s]
  <2>1. PICK q \in C, r \in Users \cup Slugs : Waits(s, r) /\ lock[r] = q
    BY DEF Cycle, WaitsFor
  <2>2. pc[s] # "purseCredit"
    BY DEF Ruled, InOrder
  <2>3. pc[s] = "lock" /\ r \in need[s]
    BY <2>1, <2>2 DEF Waits, IsNextRow
  <2>4. r \in W
    BY <2>1, <2>3
  <2> QED  BY <2>3, <2>4
<1>2. W # {}
  <2>1. C # {}
    BY DEF Cycle
  <2> QED  BY <1>1, <2>1
<1>3. ASSUME NEW r \in W PROVE \E q \in W : Before(r, q)
  <2>1. lock[r] \in C /\ r \in Users \cup Slugs
    OBVIOUS
  <2>2. PICK q \in W : q \in need[lock[r]]
    BY <1>1, <2>1
  <2>3. pc[lock[r]] = "lock"
    BY <1>1, <2>1
  <2>4. Before(r, q)
    BY <2>1, <2>2, <2>3 DEF Ruled, InOrder
  <2> QED  BY <2>4
<1>4. Climbs(W)
  BY <1>2, <1>3 DEF Climbs
<1> QED  BY <1>4, NoClimb

\* transfer, settle and refund lock accounts in one order, so they never deadlock one
\* another, however many run at once: a treasury_transfer is in every circle.
THEOREM OrderedLocksDoNotDeadlock == Spec => []OnlyTreasuryTransferDeadlocks
BY CallsInOrder, RuledDeadlocks, PTL
-----------------------------------------------------------------------------
(* Refinement: a commit is one move of the bank, every other step none.     *)

Row(h) == [st |-> hold[h].st, amt |-> hold[h].amt]
BankHold == [h \in Holds |-> Row(h)]

\* What becomes of a balance sheet when At, Moved or nothing is written to it.
Plus(g, f, b, S) == g = [x \in S |-> f[x] + b[x]]

LEMMA Posted ==
    ASSUME NEW S, NEW f \in [S -> Int], NEW g, NEW b, Plus(g, f, b, S), NEW a \in Int
    PROVE  /\ b = Zeros(S) => g = f
           /\ \A r \in S : /\ b = At(S, r, a) => g = [f EXCEPT ![r] = f[r] + a]
                           /\ b = At(S, r, -a) => g = [f EXCEPT ![r] = f[r] - a]
           /\ \A r, q \in S : b = Moved(S, r, q, a) /\ r # q =>
                g = [f EXCEPT ![r] = f[r] - a, ![q] = f[q] + a]
<1>0. g = [x \in S |-> f[x] + b[x]]
  BY DEF Plus
<1>1. ASSUME b = Zeros(S) PROVE g = f
  BY <1>0, <1>1 DEF Zeros
<1>2. ASSUME NEW r \in S, NEW d \in Int, b = At(S, r, d)
      PROVE  g = [f EXCEPT ![r] = f[r] + d]
  <2>1. \A x \in S : g[x] = [f EXCEPT ![r] = f[r] + d][x]
    BY <1>0, <1>2 DEF At
  <2> QED  BY <1>0, <2>1
<1>3. ASSUME NEW r \in S, b = At(S, r, -a)
      PROVE  g = [f EXCEPT ![r] = f[r] - a]
  <2>1. f[r] + (-a) = f[r] - a /\ -a \in Int
    OBVIOUS
  <2> QED  BY <1>2, <1>3, <2>1
<1>4. ASSUME NEW r \in S, NEW q \in S, r # q, b = Moved(S, r, q, a)
      PROVE  g = [f EXCEPT ![r] = f[r] - a, ![q] = f[q] + a]
  <2> DEFINE h == [f EXCEPT ![r] = f[r] - a, ![q] = f[q] + a]
  <2>1. \A x \in S : h[x] = IF x = r THEN f[r] - a ELSE IF x = q THEN f[q] + a ELSE f[x]
    BY <1>4
  <2>2. \A x \in S : f[x] + b[x] = h[x]
    BY <1>4, <2>1 DEF Moved
  <2>3. h = [x \in S |-> h[x]]
    OBVIOUS
  <2> HIDE DEF h
  <2>4. g = [x \in S |-> h[x]]
    BY <1>0, <2>2
  <2> QED  BY <2>3, <2>4 DEF h
<1> QED  BY <1>1, <1>2, <1>3, <1>4

\* The tables after a commit.
LEMMA CommitTables ==
    ASSUME NEW s \in Sessions, Ruled, Commit(s)
    PROVE  /\ Plus(bal', bal, pend[s].bal, Users) /\ Plus(purse', purse, pend[s].purse, Slugs)
           /\ bal \in [Users -> Int] /\ purse \in [Slugs -> Int] /\ hold \in [Holds -> HoldRows]
           /\ call[s] \in Calls /\ Asked(call[s]) /\ Meant(call[s], pend[s])
           /\ \A u \in Users : bal[u] + pend[s].bal[u] >= 0
           /\ \A t \in Slugs : purse[t] + pend[s].purse[t] >= 0
<1>1. SessionOK(s) /\ pc[s] = "commit" /\ TypeOK /\ Asked(call[s]) /\ Deed(s)
  BY DEF Commit, Ruled, Inductive
<1>2. WritesUnderLock(s) /\ Meant(call[s], pend[s])
  BY <1>1 DEF SessionOK, Deed
<1>3. /\ \A u \in Users : bal[u] + pend[s].bal[u] >= 0
      /\ \A t \in Slugs : purse[t] + pend[s].purse[t] >= 0
  BY <1>2 DEF WritesUnderLock, Seen
<1>4. Plus(bal', bal, pend[s].bal, Users) /\ Plus(purse', purse, pend[s].purse, Slugs)
  BY DEF Commit, Plus
<1> QED  BY <1>1, <1>2, <1>3, <1>4 DEF TypeOK

\* An amount that callers pass, as the bank knows it.
LEMMA Paid ==
    ASSUME NEW c \in Calls, Asked(c), c.op \notin {"none", "settle", "refund"}
    PROVE  c.amt \in Amounts \cap (Nat \ {0}) /\ c.amt \in Int /\ -c.amt \in Int
<1>1. c.amt \in Amounts /\ c.amt > 0
  BY DEF Asked
<1>2. Amounts \subseteq Int
  BY InputAssumption
<1>3. c.amt \in Int
  BY <1>1, <1>2
<1> DEFINE a == c.amt
<1> HIDE DEF a
<1>4. a \in Amounts /\ a > 0 /\ a \in Int
  BY <1>1, <1>3 DEF a
<1>5. a \in Amounts \cap (Nat \ {0}) /\ -a \in Int
  BY <1>4
<1> QED  BY <1>5, <1>3 DEF a

\* The rows the bank sees of the holds.
LEMMA BankRows ==
    ASSUME NEW k \in Holds, hold \in [Holds -> HoldRows], NEW row,
           hold' = [hold EXCEPT ![k] = row]
    PROVE  BankHold' = [BankHold EXCEPT ![k] = [st |-> row.st, amt |-> row.amt]]
<1>1. \A h \in Holds : hold'[h] = IF h = k THEN row ELSE hold[h]
  OBVIOUS
<1>2. \A h \in Holds : BankHold'[h] = IF h = k THEN [st |-> row.st, amt |-> row.amt] ELSE BankHold[h]
  BY <1>1 DEF BankHold, Row
<1>3. BankHold' = [h \in Holds |-> BankHold'[h]] /\ BankHold = [h \in Holds |-> BankHold[h]]
  BY DEF BankHold
<1> QED  BY <1>2, <1>3

\* The bank's own copies of the operators on splits.
LEMMA BankSplits ==
    \A splits, n, r : /\ Bank!ValidDistribution(splits, n) = ValidDistribution(splits, n)
                      /\ Bank!Share(splits, r) = Share(splits, r)
<1>1. \A splits, r : Bank!Share(splits, r) = Share(splits, r)
  BY DEF Bank!Share, Share, Bank!Recipients, Recipients
<1>2. \A splits : Bank!Total(splits) = Total(splits)
  BY Zenon DEF Bank!Total, Total, Bank!SumFunction, SumFunction, Bank!SumFunctionOnSet,
     SumFunctionOnSet, Bank!FoldFunctionOnSet, FoldFunctionOnSet, Bank!MapThenFoldSet, MapThenFoldSet
<1>3. \A splits, n : Bank!ValidDistribution(splits, n) = ValidDistribution(splits, n)
  BY <1>2 DEF Bank!ValidDistribution, ValidDistribution
<1> QED  BY <1>1, <1>3

\* The bank's moves that concern a hold.
LEMMA BankFreezes ==
    ASSUME NEW u \in Users, NEW h \in Holds, NEW a \in Amounts \cap (Nat \ {0}), Bank!Freeze(u, h, a)
    PROVE  Bank!Next
BY DEF Bank!Next

LEMMA BankReleases ==
    ASSUME NEW k \in Holds, NEW st \in {"settled", "refunded"}, NEW splits,
           BankHold[k].st = "held", ValidDistribution(splits, BankHold[k].amt),
           BankHold' = [BankHold EXCEPT ![k].st = st],
           bal' = [u \in Users |-> bal[u] + Share(splits, u)],
           purse' = [t \in Slugs |-> purse[t] + Share(splits, t)]
    PROVE  Bank!Release(k, st, splits)
BY BankSplits DEF Bank!Release, BankHold, Row

LEMMA BankMayRelease ==
    ASSUME NEW k \in Holds, NEW st \in {"settled", "refunded"},
           NEW splits \in Distributions \cup {<<[to |-> u, amt |-> BankHold[k].amt]>> : u \in Users},
           Bank!Release(k, st, splits)
    PROVE  Bank!Next
BY DEF Bank!Next, BankHold, Row

\* Each operation's commit, as the bank sees it.
LEMMA CommitMoves ==
    ASSUME NEW s \in Sessions, Ruled, Commit(s)
    PROVE  Bank!Next
<1> DEFINE c == call[s]
           w == pend[s]
           a == c.amt
<1>1. /\ bal \in [Users -> Int] /\ purse \in [Slugs -> Int] /\ hold \in [Holds -> HoldRows]
      /\ c \in Calls /\ Asked(c) /\ Meant(c, w)
  BY CommitTables
<1>2. ASSUME w.st = "none"
      PROVE  BankHold' = BankHold
  BY <1>2, CommitHolds DEF Ruled, BankHold, Row
<1>3. /\ Plus(bal', bal, w.bal, Users) /\ Plus(purse', purse, w.purse, Slugs)
      /\ \A u \in Users : bal[u] + w.bal[u] >= 0
      /\ \A t \in Slugs : purse[t] + w.purse[t] >= 0
  BY CommitTables
<1>4. ASSUME w.purse = Zeros(Slugs) PROVE purse' = purse
  BY <1>1, <1>3, <1>4, Posted
<1>5. ASSUME w.bal = Zeros(Users) PROVE bal' = bal
  BY <1>1, <1>3, <1>5, Posted
<1> HIDE DEF c, w, a
<1>6. CASE c.op = "charge"
  <2>1. Writes(w, At(Users, c.src, -a), Zeros(Slugs), "none")
    BY <1>1, <1>6 DEF Meant, a
  <2>2. c.src \in Users /\ a \in Amounts \cap (Nat \ {0}) /\ a \in Int
    BY <1>1, <1>6, Paid DEF Asked, a
  <2>3. bal' = [bal EXCEPT ![c.src] = bal[c.src] - a] /\ purse' = purse /\ BankHold' = BankHold
    <3>1. w.bal = At(Users, c.src, -a) /\ purse' = purse /\ BankHold' = BankHold
      BY <1>2, <1>4, <2>1 DEF Writes
    <3> QED  BY <1>1, <1>3, <2>2, <3>1, Posted
  <2>4. bal[c.src] >= a
    <3>1. w.bal[c.src] = -a
      BY <2>1, <2>2 DEF Writes, At
    <3> QED  BY <1>1, <1>3, <2>2, <3>1
  <2>5. Bank!Spend(c.src, a)
    BY <2>3, <2>4 DEF Bank!Spend, BankHold, Row
  <2> QED  BY <2>2, <2>5 DEF Bank!Next
<1>7. CASE c.op = "reward"
  <2>1. Writes(w, At(Users, c.dst, a), Zeros(Slugs), "none")
    BY <1>1, <1>7 DEF Meant, a
  <2>2. c.dst \in Users /\ a \in Amounts \cap (Nat \ {0}) /\ a \in Int
    BY <1>1, <1>7, Paid DEF Asked, a
  <2>3. bal' = [bal EXCEPT ![c.dst] = bal[c.dst] + a] /\ purse' = purse /\ BankHold' = BankHold
    <3>1. w.bal = At(Users, c.dst, a) /\ purse' = purse /\ BankHold' = BankHold
      BY <1>2, <1>4, <2>1 DEF Writes
    <3> QED  BY <1>1, <1>3, <2>2, <3>1, Posted
  <2>4. Bank!Mint(c.dst, a)
    BY <2>3 DEF Bank!Mint, BankHold, Row
  <2> QED  BY <2>2, <2>4 DEF Bank!Next
<1>8. CASE c.op = "hold"
  <2>1. Writes(w, At(Users, c.src, -a), Zeros(Slugs), "held")
    BY <1>1, <1>8 DEF Meant, a
  <2>2. c.src \in Users /\ a \in Amounts \cap (Nat \ {0}) /\ a \in Int
    BY <1>1, <1>8, Paid DEF Asked, a
  <2>3. /\ c.hold \in Holds /\ hold[c.hold].st = "none"
        /\ hold' = [hold EXCEPT ![c.hold] = [st |-> "held", user |-> c.src, amt |-> a]]
    BY <2>1, CommitHolds DEF Ruled, Writes, a, c, w
  <2>4. PICK u \in Users, k \in Holds, n \in Amounts \cap (Nat \ {0}) : u = c.src /\ k = c.hold /\ n = a
    BY <2>2, <2>3
  <2>5. bal' = [bal EXCEPT ![u] = bal[u] - n] /\ purse' = purse
    <3>1. w.bal = At(Users, u, -n) /\ purse' = purse /\ n \in Int
      BY <1>4, <2>1, <2>2, <2>4 DEF Writes
    <3>2. bal' = [bal EXCEPT ![u] = bal[u] - n]
      <4>1. Plus(bal', bal, w.bal, Users) /\ bal \in [Users -> Int] /\ u \in Users /\ n \in Int
        BY <1>1, <1>3, <2>4, <3>1
      <4> QED  BY <3>1, <4>1, Posted
    <3> QED  BY <3>1, <3>2
  <2>6. bal[u] >= n
    <3>1. w.bal[u] = -n
      BY <2>1, <2>4 DEF Writes, At
    <3> QED  BY <1>1, <1>3, <3>1
  <2> DEFINE row == [st |-> "held", user |-> u, amt |-> n]
  <2>7. hold[k].st = "none" /\ hold' = [hold EXCEPT ![k] = row]
    BY <2>3, <2>4
  <2>8. row.st = "held" /\ row.amt = n
    OBVIOUS
  <2> HIDE DEF row
  <2>9. BankHold' = [BankHold EXCEPT ![k] = [st |-> "held", amt |-> n]]
    BY <1>1, <2>7, <2>8, BankRows
  <2>10. BankHold[k].st = "none"
    BY <2>7 DEF BankHold, Row
  <2>11. Bank!Freeze(u, k, n)
    BY <2>5, <2>6, <2>9, <2>10 DEF Bank!Freeze, BankHold, Row
  <2> QED  BY <2>11, BankFreezes
<1>9. CASE c.op = "transfer"
  <2>1. c.dst \in Users /\ Writes(w, Moved(Users, c.src, c.dst, a), Zeros(Slugs), "none")
    BY <1>1, <1>9 DEF Meant, a
  <2>2. c.src \in Users /\ c.src # c.dst /\ a \in Amounts \cap (Nat \ {0}) /\ a \in Int
    BY <1>1, <1>9, Paid DEF Asked, a
  <2>3. /\ bal' = [bal EXCEPT ![c.src] = bal[c.src] - a, ![c.dst] = bal[c.dst] + a]
        /\ purse' = purse /\ BankHold' = BankHold
    <3>1. w.bal = Moved(Users, c.src, c.dst, a) /\ purse' = purse /\ BankHold' = BankHold
      BY <1>2, <1>4, <2>1 DEF Writes
    <3> QED  BY <1>1, <1>3, <2>1, <2>2, <3>1, Posted
  <2>4. bal[c.src] >= a
    <3>1. w.bal[c.src] = -a
      BY <2>1, <2>2 DEF Writes, Moved
    <3> QED  BY <1>1, <1>3, <2>2, <3>1
  <2>5. Bank!Pay(c.src, c.dst, a)
    <3>1. bal' = [bal EXCEPT ![c.src] = @ - a, ![c.dst] = @ + a]
      BY <1>1, <2>1, <2>2, <2>3
    <3> QED  BY <2>3, <2>4, <3>1 DEF Bank!Pay, BankHold, Row
  <2> QED  BY <2>1, <2>2, <2>5 DEF Bank!Next
<1>10. CASE c.op = "treasury_credit"
  <2>1. Writes(w, Zeros(Users), At(Slugs, c.dst, a), "none")
    BY <1>1, <1>10 DEF Meant, a
  <2>2. c.dst \in Slugs /\ a \in Amounts \cap (Nat \ {0}) /\ a \in Int
    BY <1>1, <1>10, Paid DEF Asked, a
  <2>3. purse' = [purse EXCEPT ![c.dst] = purse[c.dst] + a] /\ bal' = bal /\ BankHold' = BankHold
    <3>1. w.purse = At(Slugs, c.dst, a) /\ bal' = bal /\ BankHold' = BankHold
      BY <1>2, <1>5, <2>1 DEF Writes
    <3> QED  BY <1>1, <1>3, <2>2, <3>1, Posted
  <2>4. Bank!PurseMint(c.dst, a)
    BY <2>3 DEF Bank!PurseMint, BankHold, Row
  <2> QED  BY <2>2, <2>4 DEF Bank!Next
<1>11. CASE c.op = "treasury_debit"
  <2>1. Writes(w, Zeros(Users), At(Slugs, c.src, -a), "none")
    BY <1>1, <1>11 DEF Meant, a
  <2>2. c.src \in Slugs /\ a \in Amounts \cap (Nat \ {0}) /\ a \in Int
    BY <1>1, <1>11, Paid DEF Asked, a
  <2>3. purse' = [purse EXCEPT ![c.src] = purse[c.src] - a] /\ bal' = bal /\ BankHold' = BankHold
    <3>1. w.purse = At(Slugs, c.src, -a) /\ bal' = bal /\ BankHold' = BankHold
      BY <1>2, <1>5, <2>1 DEF Writes
    <3> QED  BY <1>1, <1>3, <2>2, <3>1, Posted
  <2>4. purse[c.src] >= a
    <3>1. w.purse[c.src] = -a
      BY <2>1, <2>2 DEF Writes, At
    <3> QED  BY <1>1, <1>3, <2>2, <3>1
  <2>5. Bank!PurseSpend(c.src, a)
    BY <2>3, <2>4 DEF Bank!PurseSpend, BankHold, Row
  <2> QED  BY <2>2, <2>5 DEF Bank!Next
<1>12. CASE c.op = "treasury_transfer"
  <2>1. Writes(w, Zeros(Users), Moved(Slugs, c.src, c.dst, a), "none")
    BY <1>1, <1>12 DEF Meant, a
  <2>2. /\ c.src \in Slugs /\ c.dst \in Slugs /\ c.src # c.dst
        /\ a \in Amounts \cap (Nat \ {0}) /\ a \in Int
    BY <1>1, <1>12, Paid DEF Asked, a
  <2>3. /\ purse' = [purse EXCEPT ![c.src] = purse[c.src] - a, ![c.dst] = purse[c.dst] + a]
        /\ bal' = bal /\ BankHold' = BankHold
    <3>1. w.purse = Moved(Slugs, c.src, c.dst, a) /\ bal' = bal /\ BankHold' = BankHold
      BY <1>2, <1>5, <2>1 DEF Writes
    <3> QED  BY <1>1, <1>3, <2>2, <3>1, Posted
  <2>4. purse[c.src] >= a
    <3>1. w.purse[c.src] = -a
      BY <2>1, <2>2 DEF Writes, Moved
    <3> QED  BY <1>1, <1>3, <2>2, <3>1
  <2>5. Bank!PursePay(c.src, c.dst, a)
    <3>1. purse' = [purse EXCEPT ![c.src] = @ - a, ![c.dst] = @ + a]
      BY <1>1, <2>2, <2>3
    <3> QED  BY <2>3, <2>4, <3>1 DEF Bank!PursePay, BankHold, Row
  <2> QED  BY <2>2, <2>5 DEF Bank!Next
<1>13. CASE c.op \in {"settle", "refund"}
  <2>1. /\ Writes(w, [u \in Users |-> Share(c.splits, u)], [t \in Slugs |-> Share(c.splits, t)],
                  Terminal[c.op])
        /\ Terminal[c.op] \in {"settled", "refunded"}
    BY <1>1, <1>13 DEF Meant, Terminal
  <2>2. c.hold \in Holds /\ hold[c.hold].amt = a /\ c.splits \in Distributions \cup Whole(c)
    BY <1>1, <1>13 DEF Asked, a
  <2>3. PICK k \in Holds, st \in {"settled", "refunded"}, splits \in {c.splits} :
               k = c.hold /\ st = Terminal[c.op]
    BY <2>1, <2>2
  <2> DEFINE row == Ended(hold[k], st)
  <2>4. /\ hold[k].st = "held" /\ ValidDistribution(splits, hold[k].amt)
        /\ hold' = [hold EXCEPT ![k] = row]
    <3>1. pend[s].st \in {"settled", "refunded"} /\ pend[s].st = st /\ call[s].hold = k
          /\ call[s].splits = splits
      BY <2>1, <2>3 DEF Writes, c, w
    <3> QED  BY <3>1, CommitHolds DEF Ruled
  <2>5. /\ bal' = [u \in Users |-> bal[u] + Share(splits, u)]
        /\ purse' = [t \in Slugs |-> purse[t] + Share(splits, t)]
    BY <1>3, <2>1, <2>3 DEF Writes, Plus
  <2>6. row.st = st /\ row.amt = hold[k].amt
    BY DEF Ended
  <2> HIDE DEF row
  <2>7. BankHold' = [BankHold EXCEPT ![k] = [st |-> st, amt |-> hold[k].amt]]
    BY <1>1, <2>4, <2>6, BankRows
  <2>8. BankHold[k].st = "held" /\ BankHold[k].amt = hold[k].amt /\ BankHold[k] = Row(k)
    BY <2>4 DEF BankHold, Row
  <2>9. BankHold' = [BankHold EXCEPT ![k].st = st]
    <3>1. [BankHold[k] EXCEPT !.st = st] = [st |-> st, amt |-> hold[k].amt]
      BY <2>8 DEF Row
    <3> QED  BY <2>7, <3>1, Zenon
  <2>10. ValidDistribution(splits, BankHold[k].amt)
    BY <2>4, <2>8
  <2>11. Bank!Release(k, st, splits)
    BY <2>5, <2>8, <2>9, <2>10, BankReleases
  <2>12. splits \in Distributions \cup {<<[to |-> u, amt |-> BankHold[k].amt]>> : u \in Users}
    BY <2>2, <2>3, <2>8 DEF Whole, a
  <2> QED  BY <2>11, <2>12, BankMayRelease
<1> QED
  <2>1. \/ c.op \in {"charge", "reward", "hold", "transfer", "treasury_credit"}
        \/ c.op \in {"treasury_debit", "treasury_transfer", "settle", "refund"}
    BY <1>1 DEF Meant
  <2> QED  BY <1>6, <1>7, <1>8, <1>9, <1>10, <1>11, <1>12, <1>13, <2>1

\* Only a commit writes the tables.
LEMMA TablesMoveByCommit ==
    ASSUME [Next]_vars
    PROVE  (\E s \in Sessions : Commit(s)) \/ UNCHANGED tables
<1>1. CASE UNCHANGED vars
  BY <1>1 DEF vars, tables
<1>2. CASE Next
  <2>1. PICK s \in Sessions : \/ \E a \in Amounts :
                                 \/ \E u \in Users : Charge(s, u, a) \/ Reward(s, u, a)
                                 \/ \E u \in Users, v \in Users \cup {Ghost} : Transfer(s, u, v, a)
                                 \/ \E u \in Users, h \in Holds : Hold(s, u, a, h)
                                 \/ \E t \in Slugs : TreasuryCredit(s, t, a)
                                 \/ \E t \in Slugs, reserve \in {0, 1} : TreasuryDebit(s, t, a, reserve)
                                 \/ \E t, v \in Slugs : TreasuryTransfer(s, t, v, a)
                              \/ \E h \in Holds : \E splits, op : Terminalize(s, op, h, splits)
                              \/ Step(s) \/ Fail(s) \/ Retry(s) \/ DeadlockVictim(s)
    BY <1>2 DEF Next
  <2>2. ASSUME NEW a \in Amounts, NEW u \in Users,
               \/ Charge(s, u, a) \/ Reward(s, u, a)
               \/ \E v \in Users \cup {Ghost} : Transfer(s, u, v, a)
               \/ \E h \in Holds : Hold(s, u, a, h)
        PROVE  UNCHANGED tables
    BY <2>2 DEF Charge, Reward, Transfer, Hold
  <2>3. ASSUME NEW a \in Amounts, NEW t \in Slugs,
               \/ TreasuryCredit(s, t, a)
               \/ \E reserve \in {0, 1} : TreasuryDebit(s, t, a, reserve)
               \/ \E v \in Slugs : TreasuryTransfer(s, t, v, a)
        PROVE  UNCHANGED tables
    BY <2>3 DEF TreasuryCredit, TreasuryDebit, TreasuryTransfer
  <2>4. ASSUME NEW h \in Holds, NEW splits, NEW op, Terminalize(s, op, h, splits)
        PROVE  UNCHANGED tables
    BY <2>4 DEF Terminalize
  <2>5. ASSUME Step(s)
        PROVE  Commit(s) \/ UNCHANGED tables
    BY <2>5 DEF Step, LockAccount, TransferDebit, TransferCredit, TreasuryTransferCredit, Claim,
       ClaimError, Abort
  <2>6. ASSUME Fail(s) \/ Retry(s) \/ DeadlockVictim(s)
        PROVE  UNCHANGED tables
    BY <2>6 DEF Fail, Retry, DeadlockVictim, Abort
  <2> QED  BY <2>1, <2>2, <2>3, <2>4, <2>5, <2>6
<1> QED  BY <1>1, <1>2

\* The statement-by-statement transactions, interleaved, failing and retried, are
\* indivisible moves of coins that never overdraw: they implement CoinBank.
THEOREM TransactionsAreBankMoves == Spec => RefinesBank
<1>1. Init => Bank!Init
  BY DEF Init, Bank!Init, Bank!EmptyHold, EmptyHold
<1>2. Ruled /\ [Next]_vars => [Bank!Next]_(Bank!bankVars)
  <2> SUFFICES ASSUME Ruled, [Next]_vars, UNCHANGED tables
               PROVE  UNCHANGED Bank!bankVars
    BY CommitMoves, TablesMoveByCommit
  <2> QED  BY DEF tables, Bank!bankVars
<1> QED  BY <1>1, <1>2, CallsInOrder, PTL DEF Spec, RefinesBank, Bank!Spec
-----------------------------------------------------------------------------
(* Conservation: only what is meant to make or destroy coins does.          *)

Escrow == [h \in Holds |-> IF hold[h].st = "held" THEN hold[h].amt ELSE 0]

\* What the columns add up to.
InUsers(f) == SumFunctionOnSet(f, Users)
InPurses(f) == SumFunctionOnSet(f, Slugs)
InHolds(f) == SumFunctionOnSet(f, Holds)

LEMMA SupplyIs ==
    ASSUME bal \in [Users -> Int], purse \in [Slugs -> Int]
    PROVE  Supply = InUsers(bal) + InPurses(purse) + InHolds(Escrow)
BY DEF Supply, SumFunction, InUsers, InPurses, InHolds, Escrow

\* The coins in what a commit writes.
LEMMA WrittenSums ==
    ASSUME NEW S, IsFiniteSet(S), NEW a \in Int
    PROVE  /\ SumFunctionOnSet(Zeros(S), S) = 0
           /\ \A r \in S : SumFunctionOnSet(At(S, r, a), S) = a
           /\ \A r, q \in S : r # q => SumFunctionOnSet(Moved(S, r, q, a), S) = 0
<1>1. SumFunctionOnSet(Zeros(S), S) = 0
  BY SumOfZeros DEF Zeros
<1>2. \A r \in S : SumFunctionOnSet(At(S, r, a), S) = a
  BY SumAt
<1>3. ASSUME NEW r \in S, NEW q \in S, r # q PROVE SumFunctionOnSet(Moved(S, r, q, a), S) = 0
  <2>1. -a \in Int /\ -a + a = 0
    OBVIOUS
  <2>2. SumFunctionOnSet(At(S, r, -a), S) = -a
    BY <2>1, SumAt
  <2>3. \A x \in S : /\ At(S, r, -a)[x] \in Int
                     /\ Moved(S, r, q, a)[x] = At(S, r, -a)[x] + (IF x = q THEN a ELSE 0)
    BY <1>3 DEF At, Moved
  <2>4. SumFunctionOnSet(Moved(S, r, q, a), S) = SumFunctionOnSet(At(S, r, -a), S) + a
    BY <2>3, SumPlusAt
  <2> QED  BY <2>1, <2>2, <2>4
<1> QED  BY <1>1, <1>2, <1>3

\* A commit adds what it writes to the users' and purses' coins.
LEMMA ColumnsAdd ==
    ASSUME NEW S, IsFiniteSet(S), NEW f \in [S -> Int], NEW g, NEW b \in [S -> Int], Plus(g, f, b, S)
    PROVE  /\ SumFunctionOnSet(f, S) \in Int /\ SumFunctionOnSet(b, S) \in Int
           /\ SumFunctionOnSet(g, S) = SumFunctionOnSet(f, S) + SumFunctionOnSet(b, S)
<1>1. \A x \in S : f[x] \in Int /\ b[x] \in Int /\ g[x] = f[x] + b[x]
  BY DEF Plus
<1> QED  BY <1>1, SumAdds, SumWithout

\* What a commit does to the escrow.
LEMMA EscrowMoves ==
    ASSUME NEW s \in Sessions, Ruled, Commit(s)
    PROVE  /\ InHolds(Escrow) \in Int
           /\ pend[s].st = "none" => InHolds(Escrow') = InHolds(Escrow)
           /\ pend[s].st = "held" => InHolds(Escrow') = InHolds(Escrow) + call[s].amt
           /\ pend[s].st \in {"settled", "refunded"} =>
                InHolds(Escrow') = InHolds(Escrow) - hold[call[s].hold].amt
<1> DEFINE k == call[s].hold  a == call[s].amt
<1>1. IsFiniteSet(Holds) /\ hold \in [Holds -> HoldRows] /\ a \in Int
  BY SizeAssumption, CommitTables DEF Calls
<1>2. \A h \in Holds : Escrow[h] \in Int
  BY <1>1 DEF Escrow, HoldRows
<1>3. InHolds(Escrow) \in Int
  BY <1>1, <1>2, SumWithout DEF InHolds
<1>4. ASSUME pend[s].st = "none" PROVE InHolds(Escrow') = InHolds(Escrow)
  <2>1. hold' = hold
    BY <1>4, CommitHolds DEF Ruled
  <2> QED  BY <2>1 DEF Escrow
<1>5. ASSUME pend[s].st = "held" PROVE InHolds(Escrow') = InHolds(Escrow) + a
  <2>1. /\ k \in Holds /\ hold[k].st = "none"
        /\ hold' = [hold EXCEPT ![k] = [st |-> "held", user |-> call[s].src, amt |-> a]]
    BY <1>5, CommitHolds DEF Ruled
  <2> HIDE DEF k, a
  <2>2. \A h \in Holds : Escrow'[h] = Escrow[h] + (IF h = k THEN a ELSE 0)
    <3>1. \A h \in Holds \ {k} : Escrow'[h] = Escrow[h]
      BY <1>1, <2>1 DEF Escrow
    <3>2. Escrow'[k] = a /\ Escrow[k] = 0
      BY <1>1, <2>1 DEF Escrow
    <3> QED  BY <1>1, <1>2, <3>1, <3>2
  <2> DEFINE f == Escrow  g == Escrow'
  <2>3. \A x \in Holds : f[x] \in Int /\ g[x] = f[x] + (IF x = k THEN a ELSE 0)
    BY <1>2, <2>2
  <2> HIDE DEF f, g
  <2>4. SumFunctionOnSet(g, Holds) = SumFunctionOnSet(f, Holds) + a
    BY <1>1, <2>1, <2>3, SumPlusAt DEF a
  <2> QED  BY <2>4 DEF InHolds, f, g
<1>6. ASSUME pend[s].st \in {"settled", "refunded"}
      PROVE  InHolds(Escrow') = InHolds(Escrow) - hold[k].amt
  <2>1. /\ k \in Holds /\ hold[k].st = "held"
        /\ hold' = [hold EXCEPT ![k] = Ended(hold[k], pend[s].st)]
    BY <1>6, CommitHolds DEF Ruled
  <2> DEFINE n == hold[k].amt
  <2>2. n \in Int /\ -n \in Int
    BY <1>1, <2>1 DEF HoldRows
  <2> HIDE DEF k, a
  <2>3. \A h \in Holds : Escrow'[h] = Escrow[h] + (IF h = k THEN -n ELSE 0)
    <3>1. \A h \in Holds \ {k} : Escrow'[h] = Escrow[h]
      BY <1>1, <2>1 DEF Escrow
    <3>2. Escrow'[k] = 0 /\ Escrow[k] = n
      <4>1. Ended(hold[k], pend[s].st).st = pend[s].st
        BY DEF Ended
      <4>2. hold'[k].st # "held"
        BY <1>1, <1>6, <2>1, <4>1
      <4> QED  BY <2>1, <4>2 DEF Escrow
    <3> QED  BY <1>1, <1>2, <2>2, <3>1, <3>2
  <2> HIDE DEF n
  <2>4. InHolds(Escrow') = InHolds(Escrow) + (-n)
    <3> DEFINE f == Escrow  g == Escrow'
    <3>1. \A x \in Holds : f[x] \in Int /\ g[x] = f[x] + (IF x = k THEN -n ELSE 0)
      BY <1>2, <2>3
    <3> HIDE DEF f, g
    <3>2. SumFunctionOnSet(g, Holds) = SumFunctionOnSet(f, Holds) + (-n)
      BY <1>1, <2>1, <2>2, <3>1, SumPlusAt
    <3> QED  BY <3>2 DEF InHolds, f, g
  <2> QED  BY <1>3, <2>2, <2>4 DEF n
<1> QED  BY <1>3, <1>4, <1>5, <1>6

\* A distribution of the held amount pays users and purses all but the sink's share.
LEMMA DistributionPays ==
    ASSUME NEW c \in Calls, c.op \in {"settle", "refund"}, Asked(c), Ghost \notin Recipients(c.splits),
           ValidDistribution(c.splits, c.amt)
    PROVE  /\ SumFunctionOnSet([u \in Users |-> Share(c.splits, u)], Users)
              + SumFunctionOnSet([t \in Slugs |-> Share(c.splits, t)], Slugs)
              = c.amt - Share(c.splits, Sink)
           /\ c.amt \in Int /\ Share(c.splits, Sink) \in Int
           /\ [u \in Users |-> Share(c.splits, u)] \in [Users -> Int]
           /\ [t \in Slugs |-> Share(c.splits, t)] \in [Slugs -> Int]
<1> DEFINE splits == c.splits
           U == [u \in Users |-> Share(splits, u)]
           P == [t \in Slugs |-> Share(splits, t)]
<1>1. /\ splits \in SplitList /\ c.amt \in Int /\ Total(splits) = c.amt
      /\ \A i, j \in DOMAIN splits : splits[i].to = splits[j].to => i = j
  BY DEF Calls, ValidDistribution
<1>2. Recipients(splits) \subseteq Users \cup Slugs \cup {Sink}
  <2>1. CASE splits \in Distributions
    BY <2>1, InputAssumption
  <2>2. CASE splits \in Whole(c)
    BY <2>2 DEF Whole, Recipients
  <2>3. splits \in Distributions \cup Whole(c)
    BY DEF Asked
  <2> QED  BY <2>1, <2>2, <2>3
<1>3. /\ \A r : Share(splits, r) \in Int
  BY <1>1, ShareType
<1>4. U \in [Users -> Int] /\ P \in [Slugs -> Int]
  BY <1>3
<1>5. /\ IsFiniteSet(Users) /\ IsFiniteSet(Slugs) /\ Users \cap Slugs = {}
      /\ Sink \notin Users /\ Sink \notin Slugs
  BY SizeAssumption, RowAssumption
<1>6. /\ \A u \in Users : U[u] = Share(splits, u)
      /\ \A t \in Slugs : P[t] = Share(splits, t)
  OBVIOUS
<1>8. SumFunctionOnSet(U, Users) \in Int /\ SumFunctionOnSet(P, Slugs) \in Int
  BY <1>4, <1>5, SumWithout
<1> HIDE DEF U, P, splits
<1>7. Total(splits) = SumFunctionOnSet(U, Users) + SumFunctionOnSet(P, Slugs) + Share(splits, Sink)
  BY <1>1, <1>2, <1>5, <1>6, SharesGiveAll DEF SplitList
<1>9. SumFunctionOnSet(U, Users) + SumFunctionOnSet(P, Slugs) = c.amt - Share(splits, Sink)
  BY <1>1, <1>3, <1>7, <1>8
<1> QED  BY <1>1, <1>3, <1>4, <1>9 DEF U, P, splits

LEMMA SupplyNext ==
    ASSUME bal' \in [Users -> Int], purse' \in [Slugs -> Int]
    PROVE  Supply' = InUsers(bal') + InPurses(purse') + InHolds(Escrow')
BY DEF Supply, SumFunction, InUsers, InPurses, InHolds, Escrow

\* The supply moves by what is written to users and purses and by what enters or leaves escrow.
LEMMA SupplyAdds ==
    ASSUME NEW s \in Sessions, Ruled, Ruled', Commit(s), NEW e \in Int,
           InHolds(Escrow') = InHolds(Escrow) + e
    PROVE  /\ InUsers(pend[s].bal) \in Int /\ InPurses(pend[s].purse) \in Int /\ Supply \in Int
           /\ Supply' = Supply + InUsers(pend[s].bal) + InPurses(pend[s].purse) + e
<1> DEFINE b == pend[s].bal  p == pend[s].purse
<1>1. b \in [Users -> Int] /\ p \in [Slugs -> Int]
  BY DEF Ruled, Inductive, TypeOK, WriteSets
<1>2. /\ bal \in [Users -> Int] /\ purse \in [Slugs -> Int]
      /\ bal' \in [Users -> Int] /\ purse' \in [Slugs -> Int]
      /\ IsFiniteSet(Users) /\ IsFiniteSet(Slugs)
  BY SizeAssumption DEF Ruled, Inductive, TypeOK
<1>3. Plus(bal', bal, b, Users) /\ Plus(purse', purse, p, Slugs)
  BY CommitTables
<1> HIDE DEF b, p
<1>4. InUsers(bal) \in Int /\ InUsers(b) \in Int /\ InUsers(bal') = InUsers(bal) + InUsers(b)
  BY <1>1, <1>2, <1>3, ColumnsAdd DEF InUsers
<1>5. InPurses(purse) \in Int /\ InPurses(p) \in Int /\ InPurses(purse') = InPurses(purse) + InPurses(p)
  BY <1>1, <1>2, <1>3, ColumnsAdd DEF InPurses
<1>6. InHolds(Escrow) \in Int
  BY EscrowMoves
<1>7. /\ Supply = InUsers(bal) + InPurses(purse) + InHolds(Escrow)
      /\ Supply' = InUsers(bal') + InPurses(purse') + InHolds(Escrow')
  BY <1>2, SupplyIs, SupplyNext
<1>8. Supply \in Int /\ Supply' = Supply + InUsers(b) + InPurses(p) + e
  BY <1>4, <1>5, <1>6, <1>7
<1> QED  BY <1>4, <1>5, <1>8 DEF b, p

\* What a commit may do to the supply.
Intended(s) ==
    LET c == call[s] IN
    \/ c.op \in {"reward", "treasury_credit"} /\ Supply' = Supply + c.amt
    \/ c.op \in {"charge", "treasury_debit"} /\ Supply' = Supply - c.amt
    \/ c.op \in {"settle", "refund"} /\ Supply' = Supply - Share(c.splits, Sink)

LEMMA CommitIntended ==
    ASSUME NEW s \in Sessions, Ruled, Ruled', Commit(s)
    PROVE  Supply' = Supply \/ Intended(s)
<1> DEFINE c == call[s]
           w == pend[s]
           a == c.amt
           e == InHolds(Escrow') - InHolds(Escrow)
<1>1. /\ c \in Calls /\ Asked(c) /\ Meant(c, w)
      /\ IsFiniteSet(Users) /\ IsFiniteSet(Slugs)
  BY CommitTables, SizeAssumption
<1>2. /\ InHolds(Escrow) \in Int /\ a \in Int /\ hold \in [Holds -> HoldRows]
  BY <1>1, EscrowMoves, CommitTables DEF Calls
<1>3. ASSUME w.st = "none"
      PROVE  /\ Supply \in Int
             /\ Supply' = Supply + InUsers(w.bal) + InPurses(w.purse) + 0
  <2>1. InHolds(Escrow') = InHolds(Escrow) + 0
    BY <1>2, <1>3, EscrowMoves
  <2> QED  BY <2>1, SupplyAdds
<1>4. CASE c.op \in {"charge", "reward", "hold", "transfer"}
  <2>1. c.op = "transfer" => c.src # c.dst /\ c.dst \in Users
    BY <1>1, <1>4 DEF Asked, Meant
  <2>2. /\ InPurses(w.purse) = 0
        /\ c.op = "charge" => InUsers(w.bal) = -a /\ w.st = "none"
        /\ c.op = "reward" => InUsers(w.bal) = a /\ w.st = "none"
        /\ c.op = "hold" => InUsers(w.bal) = -a /\ w.st = "held"
        /\ c.op = "transfer" => InUsers(w.bal) = 0 /\ w.st = "none"
    <3>1. w.purse = Zeros(Slugs) /\ InPurses(Zeros(Slugs)) = 0
      BY <1>1, <1>2, <1>4, WrittenSums DEF Meant, Writes, InPurses
    <3>2. ASSUME c.op = "charge" PROVE InUsers(w.bal) = -a /\ w.st = "none"
      <4>1. w.bal = At(Users, c.src, -a) /\ w.st = "none" /\ c.src \in Users
        BY <1>1, <3>2 DEF Meant, Writes, Asked
      <4>2. -a \in Int
        BY <1>2
      <4> HIDE DEF a, c, w
      <4> QED  BY <1>1, <4>1, <4>2, WrittenSums DEF InUsers
    <3>3. ASSUME c.op = "reward" PROVE InUsers(w.bal) = a /\ w.st = "none"
      <4>1. w.bal = At(Users, c.dst, a) /\ w.st = "none" /\ c.dst \in Users
        BY <1>1, <3>3 DEF Meant, Writes, Asked
      <4> HIDE DEF a, c, w
      <4> QED  BY <1>1, <1>2, <4>1, WrittenSums DEF InUsers
    <3>4. ASSUME c.op = "hold" PROVE InUsers(w.bal) = -a /\ w.st = "held"
      <4>1. w.bal = At(Users, c.src, -a) /\ w.st = "held" /\ c.src \in Users
        BY <1>1, <3>4 DEF Meant, Writes, Asked
      <4>2. -a \in Int
        BY <1>2
      <4> HIDE DEF a, c, w
      <4> QED  BY <1>1, <4>1, <4>2, WrittenSums DEF InUsers
    <3>5. ASSUME c.op = "transfer" PROVE InUsers(w.bal) = 0 /\ w.st = "none"
      <4>1. w.bal = Moved(Users, c.src, c.dst, a) /\ w.st = "none" /\ c.src \in Users
        BY <1>1, <3>5 DEF Meant, Writes, Asked
      <4> HIDE DEF a, c, w
      <4> QED  BY <1>1, <1>2, <2>1, <3>5, <4>1, WrittenSums DEF InUsers
    <3> QED  BY <3>1, <3>2, <3>3, <3>4, <3>5
  <2>3. CASE c.op # "hold"
    <3>1. Supply \in Int /\ Supply' = Supply + InUsers(w.bal) + InPurses(w.purse) + 0
      BY <1>3, <1>4, <2>2, <2>3
    <3> HIDE DEF a, w
    <3>2. CASE c.op = "charge"
      <4>1. Supply' = Supply - a
        BY <1>2, <2>2, <3>1, <3>2
      <4> QED  BY <3>2, <4>1 DEF Intended, a
    <3>3. CASE c.op = "reward"
      <4>1. Supply' = Supply + a
        BY <1>2, <2>2, <3>1, <3>3
      <4> QED  BY <3>3, <4>1 DEF Intended, a
    <3>4. CASE c.op = "transfer"
      BY <2>2, <3>1, <3>4
    <3> QED  BY <1>4, <2>3, <3>2, <3>3, <3>4
  <2>4. CASE c.op = "hold"
    <3>1. InHolds(Escrow') = InHolds(Escrow) + a
      BY <2>2, <2>4, EscrowMoves
    <3>2. Supply \in Int /\ Supply' = Supply + InUsers(w.bal) + InPurses(w.purse) + a
      BY <1>2, <3>1, SupplyAdds
    <3> HIDE DEF a, w
    <3> QED  BY <1>2, <2>2, <2>4, <3>2
  <2> QED  BY <2>3, <2>4
<1>5. CASE c.op \in {"treasury_credit", "treasury_debit", "treasury_transfer"}
  <2>1. w.st = "none" /\ w.bal = Zeros(Users) /\ InUsers(Zeros(Users)) = 0
    BY <1>1, <1>2, <1>5, WrittenSums DEF Meant, Writes, InUsers
  <2>2. Supply \in Int /\ Supply' = Supply + InPurses(w.purse)
    <3>1. Supply \in Int /\ Supply' = Supply + InUsers(w.bal) + InPurses(w.purse) + 0
      BY <1>3, <2>1
    <3>2. InHolds(Escrow') = InHolds(Escrow) + 0
      BY <1>2, <2>1, EscrowMoves
    <3>3. InPurses(w.purse) \in Int
      BY <3>2, SupplyAdds
    <3> HIDE DEF w
    <3> QED  BY <2>1, <3>1, <3>3
  <2>3. CASE c.op = "treasury_credit"
    <3>1. w.purse = At(Slugs, c.dst, a) /\ c.dst \in Slugs
      BY <1>1, <2>3 DEF Meant, Writes, Asked
    <3> HIDE DEF a, w
    <3>2. InPurses(w.purse) = a
      BY <1>1, <1>2, <3>1, WrittenSums DEF InPurses
    <3> QED  BY <2>2, <2>3, <3>2 DEF Intended, a
  <2>4. CASE c.op = "treasury_debit"
    <3>1. w.purse = At(Slugs, c.src, -a) /\ c.src \in Slugs /\ -a \in Int
      BY <1>1, <1>2, <2>4 DEF Meant, Writes, Asked
    <3> HIDE DEF a, w
    <3>2. InPurses(w.purse) = -a
      BY <1>1, <3>1, WrittenSums DEF InPurses
    <3>3. Supply' = Supply - a
      BY <1>2, <2>2, <3>2
    <3> QED  BY <2>4, <3>3 DEF Intended, a
  <2>5. CASE c.op = "treasury_transfer"
    <3>1. /\ w.purse = Moved(Slugs, c.src, c.dst, a)
          /\ c.src \in Slugs /\ c.dst \in Slugs /\ c.src # c.dst
      BY <1>1, <2>5 DEF Meant, Writes, Asked
    <3> HIDE DEF a, w
    <3>2. InPurses(w.purse) = 0
      BY <1>1, <1>2, <3>1, WrittenSums DEF InPurses
    <3> QED  BY <2>2, <3>2
  <2> QED  BY <1>5, <2>3, <2>4, <2>5
<1>6. CASE c.op \in {"settle", "refund"}
  <2> DEFINE U == [u \in Users |-> Share(c.splits, u)]
             P == [t \in Slugs |-> Share(c.splits, t)]
             z == Share(c.splits, Sink)
  <2>1. /\ w.bal = U /\ w.purse = P /\ w.st \in {"settled", "refunded"}
        /\ Ghost \notin Recipients(c.splits) /\ hold[c.hold].amt = a
    BY <1>1, <1>6 DEF Meant, Writes, Asked, Terminal
  <2>2. ValidDistribution(c.splits, a)
    BY <2>1, CommitHolds DEF Ruled
  <2>3. InHolds(Escrow') = InHolds(Escrow) + (-a) /\ -a \in Int
    <3>1. InHolds(Escrow') = InHolds(Escrow) - a
      BY <2>1, EscrowMoves
    <3> HIDE DEF a
    <3> QED  BY <1>2, <3>1
  <2>4. /\ InUsers(w.bal) \in Int /\ InPurses(w.purse) \in Int /\ Supply \in Int
        /\ Supply' = Supply + InUsers(w.bal) + InPurses(w.purse) + (-a)
    BY <2>3, SupplyAdds
  <2>5. SumFunctionOnSet(U, Users) + SumFunctionOnSet(P, Slugs) = a - z /\ z \in Int
    BY <1>1, <1>6, <2>1, <2>2, DistributionPays
  <2>6. InUsers(w.bal) + InPurses(w.purse) = a - z
    BY <2>1, <2>5 DEF InUsers, InPurses
  <2> HIDE DEF a, w, z
  <2>7. Supply' = Supply - z
    BY <1>2, <2>4, <2>5, <2>6
  <2> QED  BY <1>6, <2>7 DEF Intended, z
<1> QED
  <2>1. \/ c.op \in {"charge", "reward", "hold", "transfer", "settle", "refund"}
        \/ c.op \in {"treasury_credit", "treasury_debit", "treasury_transfer"}
    BY <1>1 DEF Meant
  <2> QED  BY <1>4, <1>5, <1>6, <2>1

\* Coins are made and destroyed only by the commit of a reward, a charge, a treasury credit
\* or debit, or the sink's share of a settlement: no transfer, hold, failure or retry in the
\* middle of one makes or loses any.
THEOREM CoinsAreConserved == Spec => SupplyMovesOnlyAsIntended
<1> DEFINE A == Supply' # Supply => \E s \in Sessions :
                  LET c == call[s] IN
                  /\ pc[s] = "commit" /\ pc'[s] = "idle"
                  /\ \/ c.op \in {"reward", "treasury_credit"} /\ Supply' = Supply + c.amt
                     \/ c.op \in {"charge", "treasury_debit"} /\ Supply' = Supply - c.amt
                     \/ /\ c.op \in {"settle", "refund"}
                        /\ Supply' = Supply - Share(c.splits, Sink)
<1>1. Ruled /\ Ruled' /\ [Next]_vars => [A]_vars
  <2> SUFFICES ASSUME Ruled, Ruled', [Next]_vars, Supply' # Supply PROVE A
    OBVIOUS
  <2>1. ~ UNCHANGED tables
    BY DEF tables, Supply
  <2>2. PICK s \in Sessions : Commit(s)
    BY <2>1, TablesMoveByCommit
  <2>3. pc[s] = "commit" /\ pc'[s] = "idle"
    BY <2>2 DEF Commit, EndOfCall, Goto, Ruled, Inductive, TypeOK
  <2>4. Intended(s)
    BY <2>2, CommitIntended
  <2> QED  BY <2>3, <2>4 DEF Intended
<1> QED  BY <1>1, CallsInOrder, PTL DEF Spec, SupplyMovesOnlyAsIntended
=============================================================================
