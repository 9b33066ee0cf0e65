----------------------------- MODULE SumTheorems -----------------------------
(***************************************************************************)
(* What the sum of a function over a finite set of indices (the operator   *)
(* SumFunctionOnSet of Functions) does when the set gains or loses an      *)
(* element.  The sum is a recursive function over the subsets, defined by  *)
(* CHOOSE: first it is shown to exist.  Every induction is the choice of a *)
(* smallest counterexample among the subsets of a finite set.              *)
(***************************************************************************)
EXTENDS Integers, FiniteSets, Functions, FiniteSetTheorems, WellFoundedInduction, TLAPS

\* A non-empty set of finite sets has a smallest one.
LEMMA SmallestSet == ASSUME NEW S, IsFiniteSet(S), NEW bad, bad \subseteq SUBSET S, bad # {}
                     PROVE  \E T \in bad : \A U \in SUBSET T : U # T => U \notin bad
<1>1. FiniteSubsetsOf(S) = SUBSET S BY FS_FiniteSubsetsOfFinite
<1>2. IsWellFoundedOn(StrictSubsetOrdering(S), SUBSET S) BY <1>1, FS_StrictSubsetOrderingWellFounded
<1>3. PICK T \in bad : \A U \in bad : ~ (<<U, T>> \in StrictSubsetOrdering(S)) BY <1>2, WFMin
<1>4. \A U \in SUBSET T : U # T /\ U \in bad => <<U, T>> \in StrictSubsetOrdering(S)
  BY DEF StrictSubsetOrdering
<1>5. \A U \in SUBSET T : U # T => U \notin bad BY <1>3, <1>4
<1> QED BY <1>5

\* The element that is added first, and the equations of the recursive function.
Pick(S) == CHOOSE x \in S : TRUE
Sums(sum, f, S) == sum = [T \in SUBSET S |-> IF T = {} THEN 0 ELSE f[Pick(T)] + sum[T \ {Pick(T)}]]

\* A set that is not empty has the element picked from it.
LEMMA PickIn == ASSUME NEW S, S # {} PROVE Pick(S) \in S
BY DEF Pick

\* Two solutions agree where both are defined.
LEMMA SumsAgree == ASSUME NEW f, NEW S, IsFiniteSet(S), NEW T, NEW s, NEW t, Sums(s, f, S), Sums(t, f, T)
                   PROVE  \A U \in SUBSET S : U \subseteq T => s[U] = t[U]
<1> DEFINE bad == {U \in SUBSET S : U \subseteq T /\ s[U] # t[U]}
<1> SUFFICES ASSUME bad # {} PROVE FALSE OBVIOUS
<1>0. bad \subseteq SUBSET S OBVIOUS
<1>1. PICK U \in bad : \A V \in SUBSET U : V # U => V \notin bad
  <2> HIDE DEF bad
  <2> QED BY <1>0, SmallestSet
<1>2. U # {} BY DEF Sums
<1>3. Pick(U) \in U BY <1>2, PickIn
<1>4. U \ {Pick(U)} \notin bad BY <1>1, <1>3
<1>5. s[U \ {Pick(U)}] = t[U \ {Pick(U)}] BY <1>4
<1>6. s[U] = f[Pick(U)] + s[U \ {Pick(U)}] /\ t[U] = f[Pick(U)] + t[U \ {Pick(U)}] BY <1>2 DEF Sums
<1> QED BY <1>5, <1>6

\* There is a solution.
LEMMA SumsExists == ASSUME NEW f, NEW S, IsFiniteSet(S) PROVE \E s : Sums(s, f, S)
<1> DEFINE bad == {U \in SUBSET S : ~ \E s : Sums(s, f, U)}
<1> SUFFICES ASSUME bad # {} PROVE FALSE OBVIOUS
<1>0. bad \subseteq SUBSET S OBVIOUS
<1>1. PICK U \in bad : \A V \in SUBSET U : V # U => V \notin bad
  <2> HIDE DEF bad
  <2> QED BY <1>0, SmallestSet
<1> DEFINE sol(V) == CHOOSE s : Sums(s, f, V)
<1>2. \A V \in SUBSET U : V # U => Sums(sol(V), f, V) BY <1>1
<1>3. \A V \in SUBSET U : IsFiniteSet(V) BY FS_Subset
<1> HIDE DEF sol
<1> DEFINE top == [V \in SUBSET U |-> IF V = {} THEN 0 ELSE f[Pick(V)] + sol(V \ {Pick(V)})[V \ {Pick(V)}]]
<1>4. ASSUME NEW V \in SUBSET U, V # U PROVE top[V] = sol(V)[V]
  <2>1. CASE V = {} BY <1>2, <1>4, <2>1 DEF Sums
  <2>2. CASE V # {}
    <3> DEFINE W == V \ {Pick(V)}
    <3>1. W \in SUBSET U /\ W # U /\ W \in SUBSET V BY <1>4, <2>2, PickIn
    <3>2. sol(V)[V] = f[Pick(V)] + sol(V)[W] BY <1>2, <1>4, <2>2 DEF Sums
    <3>3. sol(V)[W] = sol(W)[W] BY <1>2, <1>3, <1>4, <3>1, SumsAgree
    <3> QED BY <2>2, <3>2, <3>3
  <2> QED BY <2>1, <2>2
<1>5. ASSUME NEW V \in SUBSET U
      PROVE  top[V] = IF V = {} THEN 0 ELSE f[Pick(V)] + top[V \ {Pick(V)}]
  <2>1. CASE V = {} BY <2>1
  <2>2. CASE V # {}
    <3>1. V \ {Pick(V)} \in SUBSET U /\ V \ {Pick(V)} # U BY <2>2, PickIn
    <3>2. top[V \ {Pick(V)}] = sol(V \ {Pick(V)})[V \ {Pick(V)}] BY <1>4, <3>1
    <3> QED BY <2>2, <3>2
  <2> QED BY <2>1, <2>2
<1>6. Sums(top, f, U) BY <1>5 DEF Sums
<1> QED BY <1>6

\* The sum is a solution's value.
LEMMA SumIs == ASSUME NEW f, NEW S, IsFiniteSet(S), NEW s, Sums(s, f, S) PROVE SumFunctionOnSet(f, S) = s[S]
<1> DEFINE c == CHOOSE t : t = [T \in SUBSET S |-> IF T = {} THEN 0 ELSE f[Pick(T)] + t[T \ {Pick(T)}]]
<1>1. SumFunctionOnSet(f, S) = c[S] BY DEF SumFunctionOnSet, FoldFunctionOnSet, MapThenFoldSet, Pick
<1>2. Sums(c, f, S) BY DEF Sums
<1> QED BY <1>1, <1>2, SumsAgree

-----------------------------------------------------------------------------
(* The sum of integers *)

\* The equations of the sum.
LEMMA SumStep == ASSUME NEW f, NEW S, IsFiniteSet(S)
                 PROVE  /\ S = {} => SumFunctionOnSet(f, S) = 0
                        /\ S # {} => SumFunctionOnSet(f, S) = f[Pick(S)] + SumFunctionOnSet(f, S \ {Pick(S)})
<1>1. PICK s : Sums(s, f, S) BY SumsExists
<1>2. SumFunctionOnSet(f, S) = s[S] BY <1>1, SumIs
<1>3. S = {} => s[S] = 0 BY <1>1 DEF Sums
<1>4. ASSUME S # {} PROVE s[S] = f[Pick(S)] + SumFunctionOnSet(f, S \ {Pick(S)})
  <2> DEFINE R == S \ {Pick(S)}
  <2>1. s[S] = f[Pick(S)] + s[R] BY <1>1, <1>4 DEF Sums
  <2>2. R \in SUBSET S /\ IsFiniteSet(R) BY FS_Subset
  <2>3. PICK t : Sums(t, f, R) BY <2>2, SumsExists
  <2>4. SumFunctionOnSet(f, R) = t[R] BY <2>2, <2>3, SumIs
  <2>5. s[R] = t[R] BY <1>1, <2>2, <2>3, SumsAgree
  <2> QED BY <2>1, <2>4, <2>5
<1> QED BY <1>2, <1>3, <1>4

\* The sum over nothing.
LEMMA SumEmpty == ASSUME NEW f PROVE SumFunctionOnSet(f, {}) = 0
BY SumStep, FS_EmptySet

\* A sum of integers is an integer.
LEMMA SumType == ASSUME NEW f, NEW S, IsFiniteSet(S), \A x \in S : f[x] \in Int PROVE SumFunctionOnSet(f, S) \in Int
<1> DEFINE bad == {U \in SUBSET S : SumFunctionOnSet(f, U) \notin Int}
<1> SUFFICES ASSUME bad # {} PROVE FALSE OBVIOUS
<1>0. bad \subseteq SUBSET S OBVIOUS
<1>1. PICK U \in bad : \A V \in SUBSET U : V # U => V \notin bad
  <2> HIDE DEF bad
  <2> QED BY <1>0, SmallestSet
<1>2. U \in SUBSET S /\ IsFiniteSet(U) BY FS_Subset
<1>3. U # {} BY SumEmpty
<1>4. Pick(U) \in U BY <1>3, PickIn
<1>5. U \ {Pick(U)} \notin bad BY <1>1, <1>4
<1>6. SumFunctionOnSet(f, U \ {Pick(U)}) \in Int BY <1>2, <1>5
<1>7. SumFunctionOnSet(f, U) = f[Pick(U)] + SumFunctionOnSet(f, U \ {Pick(U)}) BY <1>2, <1>3, SumStep
<1> QED BY <1>2, <1>4, <1>6, <1>7

\* Functions that agree on the indices have the same sum.
LEMMA SumSame == ASSUME NEW f, NEW g, NEW S, IsFiniteSet(S), \A x \in S : f[x] = g[x]
                 PROVE  SumFunctionOnSet(f, S) = SumFunctionOnSet(g, S)
<1> DEFINE bad == {U \in SUBSET S : SumFunctionOnSet(f, U) # SumFunctionOnSet(g, U)}
<1> SUFFICES ASSUME bad # {} PROVE FALSE OBVIOUS
<1>0. bad \subseteq SUBSET S OBVIOUS
<1>1. PICK U \in bad : \A V \in SUBSET U : V # U => V \notin bad
  <2> HIDE DEF bad
  <2> QED BY <1>0, SmallestSet
<1>2. U \in SUBSET S /\ IsFiniteSet(U) BY FS_Subset
<1>3. U # {} BY SumEmpty
<1>4. Pick(U) \in U BY <1>3, PickIn
<1>5. U \ {Pick(U)} \notin bad BY <1>1, <1>4
<1>6. SumFunctionOnSet(f, U \ {Pick(U)}) = SumFunctionOnSet(g, U \ {Pick(U)}) BY <1>2, <1>5
<1>7. /\ SumFunctionOnSet(f, U) = f[Pick(U)] + SumFunctionOnSet(f, U \ {Pick(U)})
      /\ SumFunctionOnSet(g, U) = g[Pick(U)] + SumFunctionOnSet(g, U \ {Pick(U)})
  BY <1>2, <1>3, SumStep
<1> QED BY <1>2, <1>4, <1>6, <1>7

\* Any element can be taken out first, whichever the recursion picks.
LEMMA SumRemove == ASSUME NEW f, NEW S, IsFiniteSet(S), \A x \in S : f[x] \in Int, NEW e \in S
                   PROVE  SumFunctionOnSet(f, S) = f[e] + SumFunctionOnSet(f, S \ {e})
<1> DEFINE bad == {U \in SUBSET S : \E x \in U : SumFunctionOnSet(f, U) # f[x] + SumFunctionOnSet(f, U \ {x})}
<1> SUFFICES ASSUME bad # {} PROVE FALSE OBVIOUS
<1>0. bad \subseteq SUBSET S OBVIOUS
<1>1. PICK U \in bad : \A V \in SUBSET U : V # U => V \notin bad
  <2> HIDE DEF bad
  <2> QED BY <1>0, SmallestSet
<1>2. U \in SUBSET S /\ IsFiniteSet(U) BY FS_Subset
<1>3. PICK x \in U : SumFunctionOnSet(f, U) # f[x] + SumFunctionOnSet(f, U \ {x}) OBVIOUS
<1> DEFINE p == Pick(U)
<1>4. p \in U BY PickIn
<1>5. SumFunctionOnSet(f, U) = f[p] + SumFunctionOnSet(f, U \ {p}) BY <1>2, <1>4, SumStep
<1>6. p # x BY <1>3, <1>5
<1>7. U \ {p} \notin bad /\ U \ {x} \notin bad BY <1>1, <1>4
<1>8. U \ {p} \in SUBSET S /\ U \ {x} \in SUBSET S /\ x \in U \ {p} /\ p \in U \ {x} BY <1>2, <1>4, <1>6
<1> HIDE DEF p
<1>9. /\ SumFunctionOnSet(f, U \ {p}) = f[x] + SumFunctionOnSet(f, (U \ {p}) \ {x})
      /\ SumFunctionOnSet(f, U \ {x}) = f[p] + SumFunctionOnSet(f, (U \ {x}) \ {p})
  BY <1>7, <1>8
<1>10. (U \ {p}) \ {x} = (U \ {x}) \ {p} OBVIOUS
<1>11. (U \ {p}) \ {x} \in SUBSET S /\ IsFiniteSet((U \ {p}) \ {x}) BY <1>2, FS_Subset
<1>12. SumFunctionOnSet(f, (U \ {p}) \ {x}) \in Int BY <1>11, SumType
<1>13. f[x] \in Int /\ f[p] \in Int BY <1>2, <1>4
<1>14. \A a, b, c \in Int : a + (b + c) = b + (a + c) OBVIOUS
<1> DEFINE R == (U \ {p}) \ {x}
           c == SumFunctionOnSet(f, R)
<1>15. SumFunctionOnSet(f, U \ {p}) = f[x] + c BY <1>9
<1>16. R = (U \ {x}) \ {p} BY <1>10
<1> HIDE DEF R
<1>17. SumFunctionOnSet(f, U \ {x}) = f[p] + c BY <1>9, <1>16
<1>18. c \in Int BY <1>12 DEF R
<1> HIDE DEF c
<1> QED BY <1>3, <1>5, <1>13, <1>14, <1>15, <1>17, <1>18

\* A new element adds its value.
LEMMA SumAdd == ASSUME NEW f, NEW S, IsFiniteSet(S), NEW e, e \notin S, \A x \in S \cup {e} : f[x] \in Int
                PROVE  SumFunctionOnSet(f, S \cup {e}) = SumFunctionOnSet(f, S) + f[e]
<1>1. IsFiniteSet(S \cup {e}) /\ (S \cup {e}) \ {e} = S BY FS_AddElement
<1>2. SumFunctionOnSet(f, S \cup {e}) = f[e] + SumFunctionOnSet(f, S) BY <1>1, SumRemove
<1>3. SumFunctionOnSet(f, S) \in Int BY SumType
<1> QED BY <1>2, <1>3

\* A sum of natural numbers is one, and at least each of them.
LEMMA SumNat == ASSUME NEW f, NEW S, IsFiniteSet(S), \A x \in S : f[x] \in Nat
                PROVE  /\ SumFunctionOnSet(f, S) \in Nat
                       /\ \A x \in S : f[x] <= SumFunctionOnSet(f, S)
<1>1. ASSUME NEW T \in SUBSET S PROVE SumFunctionOnSet(f, T) \in Nat
  <2> DEFINE bad == {U \in SUBSET S : SumFunctionOnSet(f, U) \notin Nat}
  <2> SUFFICES ASSUME bad # {} PROVE FALSE OBVIOUS
  <2>0. bad \subseteq SUBSET S OBVIOUS
  <2>1. PICK U \in bad : \A V \in SUBSET U : V # U => V \notin bad
    <3> HIDE DEF bad
    <3> QED BY <2>0, SmallestSet
  <2>2. U \in SUBSET S /\ IsFiniteSet(U) BY FS_Subset
  <2>3. U # {} BY SumEmpty
  <2>4. Pick(U) \in U BY <2>3, PickIn
  <2>5. U \ {Pick(U)} \notin bad BY <2>1, <2>4
  <2>6. SumFunctionOnSet(f, U \ {Pick(U)}) \in Nat BY <2>2, <2>5
  <2>7. SumFunctionOnSet(f, U) = f[Pick(U)] + SumFunctionOnSet(f, U \ {Pick(U)}) BY <2>2, <2>3, SumStep
  <2> QED BY <2>2, <2>4, <2>6, <2>7
<1>2. ASSUME NEW x \in S PROVE f[x] <= SumFunctionOnSet(f, S)
  <2>1. SumFunctionOnSet(f, S) = f[x] + SumFunctionOnSet(f, S \ {x}) BY SumRemove
  <2>2. SumFunctionOnSet(f, S \ {x}) \in Nat BY <1>1
  <2> QED BY <2>1, <2>2
<1> QED BY <1>1, <1>2
=============================================================================
