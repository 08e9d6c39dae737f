------------------------------ MODULE Counting ------------------------------
(* Lemmas about the number of members of a finite set whose place, or other   *)
(* value under a function, lies in a given set: what a step of one thread     *)
(* does to the counts that lock words are compared with.                      *)
EXTENDS Naturals, FiniteSetTheorems, TLAPS

Count(S, f, P) == Cardinality({s \in S : f[s] \in P})

\* A count stays the same if no member of S enters or leaves P.
LEMMA CountSame ==
    ASSUME NEW S, NEW f, NEW g, NEW P,
           \A s \in S : f[s] \in P <=> g[s] \in P
    PROVE  Count(S, g, P) = Count(S, f, P)
<1>1. {s \in S : g[s] \in P} = {s \in S : f[s] \in P}
    OBVIOUS
<1> QED
    BY <1>1 DEF Count

\* One member of S enters P.
LEMMA CountUp ==
    ASSUME NEW S, IsFiniteSet(S), NEW f, NEW g, NEW P, NEW t \in S,
           \A s \in S \ {t} : f[s] \in P <=> g[s] \in P,
           f[t] \notin P, g[t] \in P
    PROVE  Count(S, g, P) = Count(S, f, P) + 1
<1> DEFINE A == {s \in S : f[s] \in P}
<1>1. {s \in S : g[s] \in P} = A \cup {t} /\ t \notin A
    OBVIOUS
<1>2. IsFiniteSet(A)
    BY FS_Subset
<1>3. Cardinality(A \cup {t}) = Cardinality(A) + 1
    <2> HIDE DEF A
    <2> QED BY <1>1, <1>2, FS_AddElement
<1> QED
    BY <1>1, <1>3 DEF Count

\* One member of S leaves P.
LEMMA CountDown ==
    ASSUME NEW S, IsFiniteSet(S), NEW f, NEW g, NEW P, NEW t \in S,
           \A s \in S \ {t} : f[s] \in P <=> g[s] \in P,
           f[t] \in P, g[t] \notin P
    PROVE  Count(S, g, P) = Count(S, f, P) - 1
<1> DEFINE A == {s \in S : f[s] \in P}
<1>1. {s \in S : g[s] \in P} = A \ {t} /\ t \in A
    OBVIOUS
<1>2. IsFiniteSet(A)
    BY FS_Subset
<1>3. Cardinality(A \ {t}) = Cardinality(A) - 1
    <2> HIDE DEF A
    <2> QED BY <1>1, <1>2, FS_RemoveElement
<1> QED
    BY <1>1, <1>3 DEF Count

\* A count is a number, and zero only if nobody is counted.
LEMMA CountNat ==
    ASSUME NEW S, IsFiniteSet(S), NEW f, NEW P
    PROVE  Count(S, f, P) \in Nat /\ (Count(S, f, P) = 0 <=> \A s \in S : f[s] \notin P)
<1> DEFINE A == {s \in S : f[s] \in P}
<1>1. IsFiniteSet(A)
    BY FS_Subset
<1>2. Cardinality(A) \in Nat /\ (Cardinality(A) = 0 <=> A = {})
    <2> HIDE DEF A
    <2> QED BY <1>1, FS_CardinalityType, FS_EmptySet
<1> QED
    BY <1>2 DEF Count

\* One thread moves: every count changes by what it leaves and enters.
LEMMA CountMove ==
    ASSUME NEW S, IsFiniteSet(S), NEW f, NEW g, NEW P, NEW t, NEW p,
           \A s \in S : g[s] = IF s = t THEN p ELSE f[s]
    PROVE  Count(S, g, P) = IF t \notin S \/ (f[t] \in P <=> p \in P) THEN Count(S, f, P)
                            ELSE IF p \in P THEN Count(S, f, P) + 1
                            ELSE Count(S, f, P) - 1
<1>1. CASE t \notin S \/ (f[t] \in P <=> p \in P)
    <2>1. \A s \in S : f[s] \in P <=> g[s] \in P
        BY <1>1
    <2> QED
        BY <1>1, <2>1, CountSame
<1>2. CASE t \in S /\ f[t] \notin P /\ p \in P
    <2>1. g[t] \in P /\ \A s \in S \ {t} : f[s] \in P <=> g[s] \in P
        BY <1>2
    <2>2. Count(S, g, P) = Count(S, f, P) + 1
        BY <1>2, <2>1, CountUp
    <2> QED
        BY <1>2, <2>2
<1>3. CASE t \in S /\ f[t] \in P /\ p \notin P
    <2>1. g[t] \notin P /\ \A s \in S \ {t} : f[s] \in P <=> g[s] \in P
        BY <1>3
    <2>2. Count(S, g, P) = Count(S, f, P) - 1
        BY <1>3, <2>1, CountDown
    <2> QED
        BY <1>3, <2>2
<1> QED
    BY <1>1, <1>2, <1>3

\* A set that lost at most t, and gained w in its place, is no smaller.
LEMMA CardinalityKept ==
    ASSUME NEW B, IsFiniteSet(B), NEW A, NEW t, A \ {t} \subseteq B
    PROVE  /\ Cardinality(A) \in Nat /\ Cardinality(B) \in Nat
           /\ Cardinality(A) <= Cardinality(B) + 1
           /\ A \subseteq B => Cardinality(A) <= Cardinality(B)
           /\ \A w \in B : w \notin A => Cardinality(A) <= Cardinality(B)
           /\ \A w \in B : A \subseteq B /\ w \notin A => Cardinality(A) + 1 <= Cardinality(B)
<1>1. IsFiniteSet(A \ {t}) /\ Cardinality(B) \in Nat
    BY FS_Subset, FS_CardinalityType
<1>2. IsFiniteSet((A \ {t}) \cup {t})
    BY <1>1, FS_AddElement
<1>3. IsFiniteSet(A) /\ Cardinality(A) \in Nat
    <2>1. A \subseteq (A \ {t}) \cup {t}
        OBVIOUS
    <2> QED
        BY <1>2, <2>1, FS_Subset, FS_CardinalityType
<1>4. Cardinality(A \ {t}) \in Nat /\ Cardinality(A) <= Cardinality(A \ {t}) + 1
    BY <1>1, <1>3, FS_RemoveElement, FS_CardinalityType
<1>5. Cardinality(A \ {t}) <= Cardinality(B)
    BY <1>1, FS_Subset
<1>6. ASSUME NEW w \in B, w \notin A PROVE Cardinality(A \ {t}) + 1 <= Cardinality(B)
    <2>1. /\ Cardinality((A \ {t}) \cup {w}) = Cardinality(A \ {t}) + 1
          /\ (A \ {t}) \cup {w} \subseteq B
        BY <1>1, <1>6, FS_AddElement
    <2> QED
        BY <2>1, FS_Subset
<1>7. ASSUME NEW w \in B, w \notin A, A \subseteq B PROVE Cardinality(A) + 1 <= Cardinality(B)
    <2>1. Cardinality(A \cup {w}) = Cardinality(A) + 1 /\ A \cup {w} \subseteq B
        BY <1>3, <1>7, FS_AddElement
    <2> QED
        BY <2>1, FS_Subset
<1>8. A \subseteq B => Cardinality(A) <= Cardinality(B)
    BY FS_Subset
<1>9. Cardinality(A) <= Cardinality(B) + 1
    BY <1>1, <1>3, <1>4, <1>5
<1>10. \A w \in B : w \notin A => Cardinality(A) <= Cardinality(B)
    BY <1>1, <1>3, <1>4, <1>6
<1> QED
    BY <1>1, <1>3, <1>7, <1>8, <1>9, <1>10
=============================================================================
