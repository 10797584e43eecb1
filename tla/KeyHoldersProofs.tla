-------------------------- MODULE KeyHoldersProofs --------------------------
(***************************************************************************)
(* Proofs about KeyHolders: caver.wallet and the contract calls it signs,  *)
(* the wallet of caver.klay.accounts, a Contract object, the methods of a  *)
(* token and the detection of its interfaces, for any addresses, keys,     *)
(* keyrings, account contents, key stores and interfaces, a legacy wallet  *)
(* of any size, and any number of operations.                              *)
(***************************************************************************)
EXTENDS KeyHolders, SequenceTheorems, FiniteSetTheorems, WellFoundedInduction, TLAPS

-----------------------------------------------------------------------------
(* Sums of naturals: MapThenSumSet is defined by recursion over sets.      *)

(* A set of naturals has a least member: the proofs by induction over the  *)
(* steps of a loop take the least step at which they fail.                 *)
LEMMA Least ==
  ASSUME NEW S \in SUBSET Nat, S # {}
  PROVE  Min(S) \in S /\ \A y \in S : Min(S) <= y
<1>1. PICK x \in S : \A y \in S : ~ (<<y, x>> \in OpToRel(<, Nat))
  BY NatLessThanWellFounded, WFMin
<1>2. \A y \in S : x <= y
  <2> SUFFICES ASSUME NEW y \in S, ~ (x <= y) PROVE FALSE
    OBVIOUS
  <2>1. y \in Nat /\ x \in Nat /\ y < x
    OBVIOUS
  <2>2. <<y, x>> \in OpToRel(<, Nat)
    BY <2>1 DEF OpToRel
  <2> QED BY <1>1, <2>2
<1> QED BY <1>2 DEF Min

(* The recursion of a sum takes one element of t away after the other.     *)
Chosen(t) == CHOOSE y \in t : TRUE
Recursion(g, f, t) ==
  g = [s \in SUBSET t |->
         IF s = {} THEN 0 ELSE LET x == CHOOSE y \in s : TRUE IN f[x] + g[s \ {x}]]

(* A sum is what the solution of the recursion says of the whole set.      *)
LEMMA SumIsRecursion ==
  ASSUME NEW f
  PROVE  SumOfWeights(f) = (CHOOSE g : Recursion(g, f, DOMAIN f))[DOMAIN f]
<1> DEFINE iter[s \in SUBSET DOMAIN f] ==
             IF s = {} THEN 0 ELSE LET x == CHOOSE y \in s : TRUE IN f[x] + iter[s \ {x}]
<1>1. SumOfWeights(f) = iter[DOMAIN f]
  BY DEF SumOfWeights, MapThenSumSet, MapThenFoldSet
<1>2. iter = CHOOSE g : Recursion(g, f, DOMAIN f)
  BY DEF Recursion
<1> QED BY <1>1, <1>2

(* On the subsets of a finite set induction over the size is possible: of  *)
(* subsets for which something fails, one is smallest.                     *)
LEMMA Smallest ==
  ASSUME NEW S, IsFiniteSet(S), NEW Q \in SUBSET SUBSET S, Q # {}
  PROVE  \E t \in Q : \A x \in t : t \ {x} \notin Q
<1> DEFINE sizes == {n \in Nat : \E t \in Q : n = Cardinality(t)}
<1>1. \A t \in Q : IsFiniteSet(t) /\ Cardinality(t) \in Nat
  BY FS_Subset, FS_CardinalityType
<1>2. sizes # {}
  BY <1>1
<1>3. Min(sizes) \in sizes /\ \A n \in sizes : Min(sizes) <= n
  <2> HIDE DEF sizes
  <2>1. sizes \in SUBSET Nat
    BY DEF sizes
  <2> QED BY <1>2, <2>1, Least
<1> HIDE DEF Min
<1>4. PICK t \in Q : Min(sizes) = Cardinality(t)
  BY <1>3
<1>5. \A u \in Q : Cardinality(u) \in sizes
  BY <1>1
<1>6. \A x \in t : Cardinality(t \ {x}) = Cardinality(t) - 1
  BY <1>1, FS_RemoveElement
<1>7. Cardinality(t) \in Nat
  BY <1>1
<1>8. \A u \in Q : Cardinality(t) <= Cardinality(u)
  BY <1>3, <1>4, <1>5
<1>9. \A x \in t : ~(Cardinality(t) <= Cardinality(t \ {x}))
  BY <1>6, <1>7
<1> QED BY <1>8, <1>9

(* What a solution is on nothing.                                          *)
LEMMA RecursionOfNone ==
  ASSUME NEW f, NEW t, NEW g, Recursion(g, f, t) PROVE g[{}] = 0
BY DEF Recursion
Steps(g, f, s) == Chosen(s) \in s /\ g[s] = f[Chosen(s)] + g[s \ {Chosen(s)}]
(* On something it adds one element to the rest.                           *)
LEMMA RecursionStep ==
  ASSUME NEW f, NEW t, NEW g, Recursion(g, f, t), NEW s \in SUBSET t, s # {}
  PROVE  Steps(g, f, s)
<1>1. g[s] = f[Chosen(s)] + g[s \ {Chosen(s)}]
  BY DEF Recursion, Chosen
<1>2. Chosen(s) \in s
  BY DEF Chosen
<1> QED BY <1>1, <1>2 DEF Steps

(* Two solutions agree wherever both are defined.                          *)
LEMMA RecursionsAgree ==
  ASSUME NEW f, NEW S, IsFiniteSet(S), NEW t \in SUBSET S, NEW u \in SUBSET S,
         NEW g, Recursion(g, f, t), NEW h, Recursion(h, f, u),
         NEW s \in SUBSET t, s \in SUBSET u
  PROVE  g[s] = h[s]
<1> DEFINE Q == {v \in SUBSET s : g[v] # h[v]}
<1> SUFFICES ASSUME Q # {} PROVE FALSE
  OBVIOUS
<1>1. IsFiniteSet(s)
  BY FS_Subset
<1>2. PICK v \in Q : \A x \in v : v \ {x} \notin Q
  <2> HIDE DEF Q
  <2>1. Q \in SUBSET SUBSET s
    BY DEF Q
  <2> QED BY <1>1, <2>1, Smallest
<1>3. v # {}
  BY RecursionOfNone
<1>4. /\ Chosen(v) \in v
      /\ g[v] = f[Chosen(v)] + g[v \ {Chosen(v)}]
      /\ h[v] = f[Chosen(v)] + h[v \ {Chosen(v)}]
  <2>1. v \in SUBSET t /\ v \in SUBSET u
    OBVIOUS
  <2>2. Steps(g, f, v) /\ Steps(h, f, v)
    BY <1>3, <2>1, RecursionStep
  <2> QED BY <2>2 DEF Steps
<1>5. g[v \ {Chosen(v)}] = h[v \ {Chosen(v)}]
  BY <1>2, <1>4
<1> QED BY <1>2, <1>4, <1>5

Solution(f, t) == CHOOSE g : Recursion(g, f, t)
Solvable(f, t) == \E g : Recursion(g, f, t)
(* A recursion over a finite set has a solution.                           *)
LEMMA RecursionSolvable ==
  ASSUME NEW f, NEW S, IsFiniteSet(S)
  PROVE  \A t \in SUBSET S : Solvable(f, t)
<1> DEFINE Q == {t \in SUBSET S : ~Solvable(f, t)}
<1> SUFFICES ASSUME Q # {} PROVE FALSE
  OBVIOUS
<1>1. PICK t \in SUBSET S : ~Solvable(f, t) /\ \A x \in t : Solvable(f, t \ {x})
  <2> HIDE DEF Q
  <2>1. Q \in SUBSET SUBSET S
    BY DEF Q
  <2>2. PICK t \in Q : \A x \in t : t \ {x} \notin Q
    BY <2>1, Smallest
  <2> QED BY <2>2 DEF Q
<1>2. t # {}
  <2>1. Recursion([s \in SUBSET {} |-> 0], f, {})
    <3> DEFINE g == [s \in SUBSET {} |-> 0]
    <3>1. g = [s \in SUBSET {} |-> IF s = {} THEN 0 ELSE LET x == CHOOSE y \in s : TRUE IN f[x] + g[s \ {x}]]
      OBVIOUS
    <3> HIDE DEF g
    <3>2. Recursion(g, f, {})
      BY <3>1 DEF Recursion
    <3> QED BY <3>2 DEF g
  <2> QED BY <2>1, <1>1 DEF Solvable
<1> DEFINE Sol(u) == Solution(f, u)
           k == [s \in SUBSET t |->
                  IF s = t THEN f[Chosen(t)] + Sol(t \ {Chosen(t)})[t \ {Chosen(t)}]
                  ELSE Sol(t \ {CHOOSE x \in t : x \notin s})[s]]
<1>3. \A x \in t : Recursion(Sol(t \ {x}), f, t \ {x})
  BY <1>1 DEF Solvable, Solution
<1>4. Chosen(t) \in t
  BY <1>2 DEF Chosen
<1> HIDE DEF Sol
<1>5. \A x \in t : \A s \in SUBSET (t \ {x}) : k[s] = Sol(t \ {x})[s]
  <2> SUFFICES ASSUME NEW x \in t, NEW s \in SUBSET (t \ {x}) PROVE k[s] = Sol(t \ {x})[s]
    OBVIOUS
  <2> DEFINE z == CHOOSE y \in t : y \notin s
  <2>1. z \in t /\ z \notin s
    OBVIOUS
  <2>2. k[s] = Sol(t \ {z})[s]
    OBVIOUS
  <2> HIDE DEF z, k
  <2>3. Sol(t \ {z})[s] = Sol(t \ {x})[s]
    BY <2>1, <1>3, RecursionsAgree
  <2> QED BY <2>2, <2>3
<1>6. k[t] = f[Chosen(t)] + k[t \ {Chosen(t)}]
  <2>1. k[t] = f[Chosen(t)] + Sol(t \ {Chosen(t)})[t \ {Chosen(t)}]
    OBVIOUS
  <2> HIDE DEF k
  <2> QED BY <2>1, <1>4, <1>5
<1>7. k[{}] = 0
  <2> HIDE DEF k
  <2>1. k[{}] = Sol(t \ {Chosen(t)})[{}]
    BY <1>4, <1>5
  <2>2. Sol(t \ {Chosen(t)})[{}] = 0
    <3> DEFINE u == t \ {Chosen(t)}
    <3>1. Recursion(Sol(u), f, u)
      BY <1>3, <1>4
    <3> HIDE DEF u
    <3>2. Sol(u)[{}] = 0
      BY <3>1, RecursionOfNone
    <3> QED BY <3>2 DEF u
  <2> QED BY <2>1, <2>2
<1>8. \A s \in SUBSET t : s # {} => k[s] = f[Chosen(s)] + k[s \ {Chosen(s)}]
  <2> SUFFICES ASSUME NEW s \in SUBSET t, s # {}, s # t
               PROVE  k[s] = f[Chosen(s)] + k[s \ {Chosen(s)}]
    BY <1>6
  <2> HIDE DEF k
  <2>1. PICK x \in t : x \notin s
    OBVIOUS
  <2>2. /\ k[s] = Sol(t \ {x})[s]
        /\ k[s \ {Chosen(s)}] = Sol(t \ {x})[s \ {Chosen(s)}]
    BY <1>5, <2>1
  <2>3. Sol(t \ {x})[s] = f[Chosen(s)] + Sol(t \ {x})[s \ {Chosen(s)}]
    <3> DEFINE u == t \ {x}
    <3>1. Recursion(Sol(u), f, u) /\ s \in SUBSET u
      BY <1>3, <2>1
    <3> HIDE DEF u
    <3>2. Sol(u)[s] = f[Chosen(s)] + Sol(u)[s \ {Chosen(s)}]
      <4>1. Steps(Sol(u), f, s)
        BY <3>1, RecursionStep
      <4> QED BY <4>1 DEF Steps
    <3> QED BY <3>2 DEF u
  <2> QED BY <2>2, <2>3
<1>9. Recursion(k, f, t)
  <2>1. DOMAIN k = SUBSET t /\ k = [s \in SUBSET t |-> k[s]]
    OBVIOUS
  <2> HIDE DEF k
  <2>2. k = [s \in SUBSET t |-> IF s = {} THEN 0 ELSE f[Chosen(s)] + k[s \ {Chosen(s)}]]
    BY <2>1, <1>7, <1>8
  <2> QED BY <2>2 DEF Recursion, Chosen
<1> HIDE DEF k
<1> QED BY <1>1, <1>9 DEF Solvable

(* g adds up f over every subset of its domain.                            *)
Adds(g, f, t, x) == g[t] = f[x] + g[t \ {x}]
AddsUp(g, f) ==
  /\ \A t \in SUBSET DOMAIN f : g[t] \in Nat
  /\ g[{}] = 0
  /\ \A t \in SUBSET DOMAIN f : \A x \in t : Adds(g, f, t, x)

(* A sum of naturals is one, and its summands may be taken in any order.   *)
LEMMA SumAdds ==
  ASSUME NEW f, IsFiniteSet(DOMAIN f), \A x \in DOMAIN f : f[x] \in Nat
  PROVE  \E g : AddsUp(g, f) /\ SumOfWeights(f) = g[DOMAIN f]
<1> DEFINE d == DOMAIN f
<1>1. PICK g : Recursion(g, f, d) /\ SumOfWeights(f) = g[d]
  <2>1. Solvable(f, d)
    BY RecursionSolvable
  <2>2. Recursion(CHOOSE g : Recursion(g, f, d), f, d)
    BY <2>1 DEF Solvable
  <2> QED BY <2>2, SumIsRecursion
<1>2. g[{}] = 0
  BY <1>1, RecursionOfNone
<1>3. \A t \in SUBSET d : g[t] \in Nat
  <2> DEFINE Q == {t \in SUBSET d : g[t] \notin Nat}
  <2> SUFFICES ASSUME Q # {} PROVE FALSE
    OBVIOUS
  <2>1. PICK t \in SUBSET d : g[t] \notin Nat /\ \A x \in t : g[t \ {x}] \in Nat
    <3> HIDE DEF Q
    <3>1. Q \in SUBSET SUBSET d
      BY DEF Q
    <3>2. PICK t \in Q : \A x \in t : t \ {x} \notin Q
      BY <3>1, Smallest
    <3> QED BY <3>2 DEF Q
  <2>2. t # {}
    BY <1>2, <2>1
  <2>3. Steps(g, f, t)
    BY <1>1, <2>2, RecursionStep
  <2>4. Chosen(t) \in t /\ g[t] = f[Chosen(t)] + g[t \ {Chosen(t)}]
    BY <2>3 DEF Steps
  <2>5. f[Chosen(t)] \in Nat /\ g[t \ {Chosen(t)}] \in Nat
    BY <2>1, <2>4
  <2> QED BY <2>1, <2>4, <2>5
<1>4. ASSUME NEW t \in SUBSET d, NEW x \in t PROVE Adds(g, f, t, x)
  <2> DEFINE Q == {s \in SUBSET d : \E y \in s : ~Adds(g, f, s, y)}
  <2> SUFFICES ASSUME Q # {} PROVE FALSE
    OBVIOUS
  <2>1. PICK s \in SUBSET d : /\ \E y \in s : ~Adds(g, f, s, y)
                              /\ \A z \in s : \A y \in s \ {z} : Adds(g, f, s \ {z}, y)
    <3> HIDE DEF Q
    <3>1. Q \in SUBSET SUBSET d
      BY DEF Q
    <3>2. PICK s \in Q : \A z \in s : s \ {z} \notin Q
      BY <3>1, Smallest
    <3> QED BY <3>2 DEF Q
  <2>2. PICK y \in s : ~Adds(g, f, s, y)
    BY <2>1
  <2> DEFINE c == Chosen(s)
  <2>3. c \in s /\ g[s] = f[c] + g[s \ {c}]
    <3>1. Steps(g, f, s)
      BY <1>1, <2>2, RecursionStep
    <3> QED BY <3>1 DEF Steps
  <2> HIDE DEF c
  <2>4. c # y
    BY <2>2, <2>3 DEF Adds
  <2>5. g[s \ {c}] = f[y] + g[(s \ {c}) \ {y}]
    BY <2>1, <2>2, <2>3, <2>4 DEF Adds
  <2>6. g[s \ {y}] = f[c] + g[(s \ {y}) \ {c}]
    BY <2>1, <2>2, <2>3, <2>4 DEF Adds
  <2>7. (s \ {c}) \ {y} = (s \ {y}) \ {c}
    OBVIOUS
  <2>8. f[c] \in Nat /\ f[y] \in Nat /\ g[(s \ {y}) \ {c}] \in Nat
    BY <2>2, <2>3, <1>3
  <2>9. g[s] = f[y] + g[s \ {y}]
    <3> DEFINE r == g[(s \ {y}) \ {c}]
    <3>1. \A i, j, n \in Nat : i + (j + n) = j + (i + n)
      OBVIOUS
    <3>2. g[s] = f[c] + (f[y] + r) /\ g[s \ {y}] = f[c] + r
      BY <2>3, <2>5, <2>6, <2>7
    <3>3. f[c] \in Nat /\ f[y] \in Nat /\ r \in Nat
      BY <2>8
    <3> HIDE DEF r
    <3> QED BY <3>1, <3>2, <3>3
  <2> QED BY <2>2, <2>9 DEF Adds
<1>5. AddsUp(g, f)
  BY <1>2, <1>3, <1>4 DEF AddsUp
<1> QED BY <1>1, <1>5

(* Functions that are the same on a set have the same sum over it.         *)
LEMMA SumsAgree ==
  ASSUME NEW f, NEW h, NEW g, AddsUp(g, f), NEW k, AddsUp(k, h),
         NEW t, IsFiniteSet(t), t \subseteq DOMAIN f, t \subseteq DOMAIN h,
         \A x \in t : f[x] = h[x]
  PROVE  g[t] = k[t]
<1> DEFINE Q == {s \in SUBSET t : g[s] # k[s]}
<1> SUFFICES ASSUME Q # {} PROVE FALSE
  OBVIOUS
<1>1. PICK s \in SUBSET t : g[s] # k[s] /\ \A x \in s : g[s \ {x}] = k[s \ {x}]
  <2> HIDE DEF Q
  <2>1. Q \in SUBSET SUBSET t
    BY DEF Q
  <2>2. PICK s \in Q : \A x \in s : s \ {x} \notin Q
    BY <2>1, Smallest
  <2> QED BY <2>2 DEF Q
<1>2. PICK x \in s : TRUE
  BY <1>1 DEF AddsUp
<1>3. s \in SUBSET DOMAIN f /\ s \in SUBSET DOMAIN h
  OBVIOUS
<1>4. Adds(g, f, s, x) /\ Adds(k, h, s, x)
  BY <1>2, <1>3 DEF AddsUp
<1> QED BY <1>1, <1>2, <1>4 DEF Adds

Grows(g, f, t, x) == g[t \union {x}] = f[x] + g[t]

(* The sum over a set and one more element.                                *)
LEMMA SumGrows ==
  ASSUME NEW f, NEW g, AddsUp(g, f), NEW t \in SUBSET DOMAIN f, NEW x \in DOMAIN f, x \notin t
  PROVE  Grows(g, f, t, x)
<1>1. (t \union {x}) \ {x} = t /\ x \in t \union {x} /\ t \union {x} \in SUBSET DOMAIN f
  OBVIOUS
<1>2. Adds(g, f, t \union {x}, x)
  BY <1>1 DEF AddsUp
<1> QED BY <1>1, <1>2 DEF Adds, Grows

(* No weights sum to nothing.                                              *)
LEMMA SumOfNone == SumOfWeights(<< >>) = 0
<1>1. DOMAIN << >> = {} /\ IsFiniteSet({})
  BY FS_EmptySet
<1>2. PICK g : AddsUp(g, << >>) /\ SumOfWeights(<< >>) = g[DOMAIN << >>]
  BY <1>1, SumAdds
<1> QED BY <1>1, <1>2 DEF AddsUp

-----------------------------------------------------------------------------
(* Account keys made of keys: thresholds, weights, roles. *)

Option == [threshold : Nat, weights : Seq(Nat)]

(* The options of a multisig are options, and of no keys they ask for more *)
(* than the keys weigh.                                                    *)
LEMMA DefaultIsOption ==
  ASSUME NEW n \in Nat, NEW opts \in Option
  PROVE  /\ OptionsForMultiSig(n, opts) \in Option
         /\ OptionsForRole(n, opts) \in Option
         /\ n = 0 => ~ (ReachesThreshold(OptionsForMultiSig(n, opts))
                        /\ Len(OptionsForMultiSig(n, opts).weights) = 0)
<1>1. DefaultOptions(n) \in Option
  BY DEF DefaultOptions, Option
<1>2. OptionsForMultiSig(n, opts) \in Option /\ OptionsForRole(n, opts) \in Option
  BY <1>1 DEF OptionsForMultiSig, OptionsForRole
<1>3. ASSUME n = 0, ReachesThreshold(OptionsForMultiSig(n, opts)),
             Len(OptionsForMultiSig(n, opts).weights) = 0
      PROVE  FALSE
  <2> DEFINE o == OptionsForMultiSig(n, opts)
  <2>1. o.weights = << >> /\ o.threshold \in Nat
    BY <1>2, <1>3 DEF Option
  <2>2. o.threshold <= 0
    BY <1>3, <2>1, SumOfNone DEF ReachesThreshold
  <2>3. o.threshold # 0
    <3>1. CASE opts = EmptyOptions
      BY <3>1 DEF OptionsForMultiSig, DefaultOptions
    <3>2. CASE opts # EmptyOptions
      BY <3>2, <2>1 DEF OptionsForMultiSig, Option, EmptyOptions
    <3> QED BY <3>1, <3>2
  <2> QED BY <2>1, <2>2, <2>3
<1> QED BY <1>2, <1>3

(* Together, the keys of a weighted multisig that could be made reach its  *)
(* threshold.                                                              *)
LEMMA MultiSigAnswers ==
  ASSUME NEW ks \in Seq(Keys), NEW opts \in Option,
         MultiSigFromKeys(ks, opts) # Refused
  PROVE  LET key == MultiSigFromKeys(ks, opts)
         IN /\ key.type = "multisig"
            /\ \A a, role : NodeAccepts(a, key, Range(ks), role)
<1> DEFINE o == OptionsForMultiSig(Len(ks), opts)
           weighted == [i \in DOMAIN ks |-> [weight |-> o.weights[i], key |-> ks[i]]]
           key == MultiSigFromKeys(ks, opts)
<1>1. o \in Option /\ (Len(ks) = 0 => ~ (ReachesThreshold(o) /\ Len(o.weights) = 0))
  BY DefaultIsOption
<1>2. /\ ReachesThreshold(o) /\ Len(o.weights) = Len(ks)
      /\ key = AccountKeyWeightedMultiSig(o.threshold, weighted)
  BY DEF MultiSigFromKeys
<1>3. key.type = "multisig" /\ key.threshold = o.threshold /\ key.keys = weighted
  BY <1>2 DEF AccountKeyWeightedMultiSig
<1>4. Weighing(weighted, Range(ks)) = o.weights
  <2>1. \A i \in DOMAIN weighted : weighted[i].key \in Range(ks)
    BY DEF Range
  <2>2. {i \in DOMAIN weighted : weighted[i].key \in Range(ks)} = DOMAIN ks
    BY <2>1
  <2>3. Weighing(weighted, Range(ks)) = [i \in DOMAIN ks |-> weighted[i].weight]
    BY <2>2 DEF Weighing
  <2>4. o.weights \in Seq(Nat) /\ DOMAIN o.weights = DOMAIN ks
    BY <1>1, <1>2 DEF Option
  <2>5. o.weights = [i \in DOMAIN ks |-> o.weights[i]]
    BY <2>4
  <2> QED BY <2>3, <2>5
<1>5. Range(ks) # {}
  <2>1. Len(ks) # 0
    BY <1>1, <1>2
  <2>2. 1 \in DOMAIN ks
    BY <2>1
  <2> QED BY <2>2 DEF Range
<1> HIDE DEF key, weighted, o
<1>6. ASSUME NEW a, NEW role PROVE NodeAccepts(a, key, Range(ks), role)
  <2>1. KeyForRole(key, role) = key
    BY <1>3 DEF KeyForRole
  <2>2. key.threshold <= SumOfWeights(Weighing(key.keys, Range(ks)))
    BY <1>2, <1>3, <1>4 DEF ReachesThreshold
  <2> QED BY <1>3, <1>5, <2>1, <2>2 DEF NodeAccepts
<1> QED BY <1>3, <1>6 DEF key

NewRoleKey(key) == key.type \in {"nil", "public", "multisig"}

(* The key of a role, made of the role's keys, answers for them.           *)
LEMMA RoleKeyAnswers ==
  ASSUME NEW ks \in Seq(Keys), NEW opts \in Option,
         RoleKeyFromKeys(ks, opts) # Refused
  PROVE  LET key == RoleKeyFromKeys(ks, opts)
         IN /\ NewRoleKey(key)
            /\ key = AccountKeyNil => ks = << >>
            /\ ks # << >> => key.type # "nil"
            /\ \A a, role : ks # << >> => NodeAccepts(a, key, Range(ks), role)
<1> DEFINE key == RoleKeyFromKeys(ks, opts)
<1>1. CASE ks = << >>
  <2>1. key = AccountKeyNil
    BY <1>1 DEF RoleKeyFromKeys
  <2> QED BY <1>1, <2>1 DEF AccountKeyNil, NewRoleKey
<1>2. CASE ks # << >> /\ Len(ks) = 1 /\ opts = EmptyOptions
  <2>1. key = AccountKeyPublic(ks[1])
    BY <1>2 DEF RoleKeyFromKeys
  <2>2. key.type = "public" /\ key.key = ks[1]
    BY <2>1 DEF AccountKeyPublic
  <2>3. ks[1] \in Range(ks)
    BY <1>2 DEF Range
  <2> HIDE DEF key
  <2>4. \A a, role : NodeAccepts(a, key, Range(ks), role)
    BY <2>2, <2>3 DEF NodeAccepts, KeyForRole
  <2> QED BY <1>2, <2>2, <2>4 DEF AccountKeyNil, NewRoleKey, key
<1>3. CASE ks # << >> /\ ~ (Len(ks) = 1 /\ opts = EmptyOptions)
  <2>1. key = MultiSigFromKeys(ks, opts)
    BY <1>3 DEF RoleKeyFromKeys
  <2>2. key.type = "multisig" /\ \A a, role : NodeAccepts(a, key, Range(ks), role)
    BY <2>1, MultiSigAnswers
  <2> HIDE DEF key
  <2> QED BY <1>3, <2>2 DEF AccountKeyNil, NewRoleKey, key
<1> QED BY <1>1, <1>2, <1>3

(* A sequence, index by index.                                             *)
LEMMA SequenceIsFunction ==
  ASSUME NEW S, NEW s \in Seq(S)
  PROVE  s = [i \in DOMAIN s |-> s[i]] /\ \A i \in DOMAIN s : s[i] \in S
OBVIOUS

PublicKeys == [type : {"public"}, key : Keys]
MultiSigs == [type : {"multisig"}, threshold : Nat, keys : Seq([weight : Nat, key : Keys])]
RoleKeys == {AccountKeyNil} \union PublicKeys \union MultiSigs
RoleBasedKeys == [type : {"roleBased"}, keys : Seq(RoleKeys)]
NewKeys == PublicKeys \union MultiSigs \union RoleBasedKeys

(* What is made of keys is of its kind: a weighted multisig,               *)
LEMMA MultiSigTyped ==
  ASSUME NEW ks \in Seq(Keys), NEW opts \in Option,
         MultiSigFromKeys(ks, opts) # Refused
  PROVE  MultiSigFromKeys(ks, opts) \in MultiSigs
<1> DEFINE o == OptionsForMultiSig(Len(ks), opts)
           weighted == [i \in DOMAIN ks |-> [weight |-> o.weights[i], key |-> ks[i]]]
<1>1. o \in Option
  BY DefaultIsOption
<1>2. /\ Len(o.weights) = Len(ks)
      /\ MultiSigFromKeys(ks, opts) = AccountKeyWeightedMultiSig(o.threshold, weighted)
  BY DEF MultiSigFromKeys
<1> HIDE DEF o
<1>3. o.threshold \in Nat /\ o.weights \in Seq(Nat)
  BY <1>1 DEF Option
<1>4. weighted \in Seq([weight : Nat, key : Keys])
  <2>1. \A i \in 1 .. Len(ks) : o.weights[i] \in Nat /\ ks[i] \in Keys
    BY <1>2, <1>3
  <2>2. weighted \in [1 .. Len(ks) -> [weight : Nat, key : Keys]]
    BY <2>1
  <2> QED BY <2>2
<1> QED BY <1>2, <1>3, <1>4 DEF AccountKeyWeightedMultiSig, MultiSigs

(* the key of a role,                                                      *)
LEMMA RoleKeyTyped ==
  ASSUME NEW ks \in Seq(Keys), NEW opts \in Option,
         RoleKeyFromKeys(ks, opts) # Refused
  PROVE  RoleKeyFromKeys(ks, opts) \in RoleKeys
<1>1. CASE ks = << >>
  BY <1>1 DEF RoleKeyFromKeys, RoleKeys
<1>2. CASE ks # << >> /\ Len(ks) = 1 /\ opts = EmptyOptions
  BY <1>2 DEF RoleKeyFromKeys, AccountKeyPublic, PublicKeys, RoleKeys
<1>3. CASE ks # << >> /\ ~ (Len(ks) = 1 /\ opts = EmptyOptions)
  <2>1. RoleKeyFromKeys(ks, opts) = MultiSigFromKeys(ks, opts)
    BY <1>3 DEF RoleKeyFromKeys
  <2> QED BY <2>1, MultiSigTyped DEF RoleKeys
<1> QED BY <1>1, <1>2, <1>3

(* Keys with their weights are encoded as pairs and decoded from them.     *)
LEMMA PairsDecoded ==
  ASSUME NEW weighted \in Seq([weight : Nat, key : Keys])
  PROVE  LET list == [i \in DOMAIN weighted |-> <<weighted[i].weight, weighted[i].key>>]
         IN [i \in DOMAIN list |-> [weight |-> list[i][1], key |-> list[i][2]]] = weighted
<1> DEFINE list == [i \in DOMAIN weighted |-> <<weighted[i].weight, weighted[i].key>>]
           back == [i \in DOMAIN list |-> [weight |-> list[i][1], key |-> list[i][2]]]
<1>1. ASSUME NEW i \in DOMAIN weighted
      PROVE  weighted[i] = [weight |-> weighted[i].weight, key |-> weighted[i].key]
  <2>1. weighted[i] \in [weight : Nat, key : Keys]
    BY SequenceIsFunction
  <2> QED BY <2>1
<1>2. back = [i \in DOMAIN weighted |-> weighted[i]]
  BY <1>1
<1> QED BY <1>2, SequenceIsFunction

(* What is encoded is decoded again: the key of a role, and any key of an  *)
(* account.                                                                *)
LEMMA RoleKeyDecoded ==
  ASSUME NEW key \in RoleKeys
  PROVE  /\ DecodedRole(EncodedKey(key)) = key
         /\ EncodedKey(key).tag \in {"80", "02", "04"}
         /\ key # AccountKeyNil => DecodedKey(EncodedKey(key)) = key
<1>1. CASE key = AccountKeyNil
  <2>1. EncodedKey(key) = [tag |-> "80"]
    BY <1>1 DEF EncodedKey, AccountKeyNil
  <2> QED BY <1>1, <2>1 DEF DecodedRole
<1>2. CASE key \in PublicKeys
  <2>1. key.type = "public" /\ key = AccountKeyPublic(key.key)
    BY <1>2 DEF PublicKeys, AccountKeyPublic
  <2>2. EncodedKey(key) = [tag |-> "02", list |-> key.key]
    BY <2>1 DEF EncodedKey
  <2>3. DecodedKey(EncodedKey(key)) = key
    BY <2>1, <2>2 DEF DecodedKey
  <2> QED BY <2>2, <2>3 DEF DecodedRole
<1>3. CASE key \in MultiSigs
  <2>1. /\ key.type = "multisig" /\ key.keys \in Seq([weight : Nat, key : Keys])
        /\ key = AccountKeyWeightedMultiSig(key.threshold, key.keys)
    BY <1>3 DEF MultiSigs, AccountKeyWeightedMultiSig
  <2> DEFINE list == [i \in DOMAIN key.keys |-> <<key.keys[i].weight, key.keys[i].key>>]
             back == [i \in DOMAIN list |-> [weight |-> list[i][1], key |-> list[i][2]]]
  <2>2. EncodedKey(key) = [tag |-> "04", threshold |-> key.threshold, list |-> list]
    BY <2>1 DEF EncodedKey
  <2>3. back = key.keys
    BY <2>1, PairsDecoded
  <2>4. DecodedKey(EncodedKey(key)) = AccountKeyWeightedMultiSig(key.threshold, back)
    BY <2>2 DEF DecodedKey
  <2> QED BY <2>1, <2>2, <2>3, <2>4 DEF DecodedRole
<1> QED BY <1>1, <1>2, <1>3 DEF RoleKeys

(* Account.createFromRLPEncoding gives back the key that was encoded.      *)
LEMMA KeyDecoded == \A key \in NewKeys : Decoded(Encoded(key)) = key
<1> SUFFICES ASSUME NEW key \in NewKeys PROVE Decoded(Encoded(key)) = key
  OBVIOUS
<1>1. CASE key \in PublicKeys \union MultiSigs
  <2>1. key \in RoleKeys /\ key # AccountKeyNil /\ key.type # "roleBased"
    BY <1>1 DEF RoleKeys, PublicKeys, MultiSigs, AccountKeyNil
  <2>2. Encoded(key) = EncodedKey(key) /\ EncodedKey(key).tag # "05"
    BY <2>1, RoleKeyDecoded DEF Encoded
  <2> QED BY <2>1, <2>2, RoleKeyDecoded DEF Decoded
<1>2. CASE key \in RoleBasedKeys
  <2>1. /\ key.type = "roleBased" /\ key.keys \in Seq(RoleKeys)
        /\ key = AccountKeyRoleBased(key.keys)
    BY <1>2 DEF RoleBasedKeys, AccountKeyRoleBased
  <2> DEFINE list == [r \in DOMAIN key.keys |-> EncodedKey(key.keys[r])]
  <2>2. Encoded(key) = [tag |-> "05", list |-> list]
    BY <2>1 DEF Encoded
  <2>3. [r \in DOMAIN list |-> DecodedRole(list[r])] = key.keys
    <3>1. \A r \in DOMAIN key.keys : key.keys[r] \in RoleKeys
      BY <2>1, SequenceIsFunction
    <3>2. \A r \in DOMAIN key.keys : DecodedRole(EncodedKey(key.keys[r])) = key.keys[r]
      BY <3>1, RoleKeyDecoded
    <3>3. [r \in DOMAIN list |-> DecodedRole(list[r])] = [r \in DOMAIN key.keys |-> key.keys[r]]
      BY <3>2
    <3>4. key.keys = [r \in DOMAIN key.keys |-> key.keys[r]]
      BY <2>1, SequenceIsFunction
    <3> QED BY <3>3, <3>4
  <2> QED BY <2>1, <2>2, <2>3 DEF Decoded
<1> QED BY <1>1, <1>2 DEF NewKeys

(* What the node accepts from an account whose key was made of a keyring:  *)
(* the keys that sign in a role the keyring has keys of its own for.       *)
Answers(a, key, keyring) ==
  \A r \in Roles : (IsRoleBased(keyring) => keyring.keys[r] # << >>)
                     => NodeAccepts(a, key, Range(KeysByRole(keyring, r)), r)
MadeFrom(key, keyring) ==
  IF IsRoleBased(keyring)
  THEN /\ key.type = "roleBased" /\ DOMAIN key.keys = Roles
       /\ \A r \in Roles : keyring.keys[r] # << >> =>
            /\ key.keys[r] # AccountKeyNil /\ NewRoleKey(key.keys[r])
            /\ \A a, role : NodeAccepts(a, key.keys[r], Range(keyring.keys[r]), role)
  ELSE /\ key.type # "roleBased"
       /\ \A a, role : NodeAccepts(a, key, Range(keyring.keys), role)

(* The key of an account that has keys per role holds the key of each      *)
(* role.                                                                   *)
LEMMA RoleBasedTyped ==
  ASSUME NEW kss \in Seq(Seq(Keys)), NEW optionsOf,
         \A r \in DOMAIN kss : optionsOf[r] \in Option,
         RoleBasedFromKeys(kss, optionsOf) # Refused
  PROVE  LET key == RoleBasedFromKeys(kss, optionsOf)
         IN /\ key \in RoleBasedKeys
            /\ DOMAIN key.keys = DOMAIN kss
            /\ \A r \in DOMAIN kss : /\ key.keys[r] = RoleKeyFromKeys(kss[r], optionsOf[r])
                                     /\ key.keys[r] # Refused
<1> DEFINE made == [r \in DOMAIN kss |-> RoleKeyFromKeys(kss[r], optionsOf[r])]
<1>1. Refused \notin Range(made) /\ RoleBasedFromKeys(kss, optionsOf) = AccountKeyRoleBased(made)
  BY DEF RoleBasedFromKeys
<1>2. \A r \in DOMAIN kss : made[r] # Refused
  <2> SUFFICES ASSUME NEW r \in DOMAIN kss PROVE made[r] \in Range(made)
    BY <1>1
  <2>1. r \in DOMAIN made
    OBVIOUS
  <2> HIDE DEF made
  <2> QED BY <2>1 DEF Range
<1>3. \A r \in DOMAIN kss : made[r] \in RoleKeys
  <2> SUFFICES ASSUME NEW r \in DOMAIN kss PROVE RoleKeyFromKeys(kss[r], optionsOf[r]) \in RoleKeys
    OBVIOUS
  <2>1. kss[r] \in Seq(Keys)
    BY SequenceIsFunction
  <2>2. RoleKeyFromKeys(kss[r], optionsOf[r]) # Refused
    BY <1>2
  <2> QED BY <2>1, <2>2, RoleKeyTyped
<1>4. made \in Seq(RoleKeys)
  <2>1. DOMAIN kss = 1 .. Len(kss) /\ Len(kss) \in Nat
    OBVIOUS
  <2>2. made \in [1 .. Len(kss) -> RoleKeys]
    BY <1>3, <2>1
  <2> QED BY <2>1, <2>2
<1> QED BY <1>1, <1>2, <1>4 DEF AccountKeyRoleBased, RoleBasedKeys

(* One value per role is a sequence of values.                             *)
LEMMA PerRoleIsSequence ==
  ASSUME NEW S, NEW s \in [Roles -> S]
  PROVE  s \in Seq(S)
<1>1. s \in [1 .. 3 -> S] /\ 3 \in Nat
  BY DEF Roles
<1> QED BY <1>1, SeqDef

(* The options of a role, also where the array has none.                   *)
OptionArrays == UNION {[R -> Option] : R \in SUBSET Roles}
LEMMA OptionsTyped ==
  ASSUME NEW optionsOf \in OptionArrays, NEW r
  PROVE  OptionsAt(optionsOf, r) \in Option
<1>1. EmptyOptions \in Option
  BY DEF EmptyOptions, Option
<1> QED BY <1>1 DEF OptionArrays, OptionsAt

(* toAccount makes an account key that answers for the keyring.            *)
LEMMA AccountMade ==
  ASSUME NEW keyring \in AllKeyrings, NEW optionsOf \in OptionArrays,
         ToAccount(keyring, optionsOf) # Refused
  PROVE  /\ ToAccount(keyring, optionsOf) \in NewKeys
         /\ MadeFrom(ToAccount(keyring, optionsOf), keyring)
<1> DEFINE key == ToAccount(keyring, optionsOf)
<1>1. CASE keyring \in [kind : {"single"}, keys : [1 .. 1 -> Keys]]
  <2>1. /\ keyring.kind = "single" /\ keyring.keys \in [1 .. 1 -> Keys]
        /\ key = AccountKeyPublic(keyring.keys[1]) /\ ~IsRoleBased(keyring)
    BY <1>1 DEF ToAccount, IsRoleBased
  <2>2. keyring.keys[1] \in Keys /\ keyring.keys[1] \in Range(keyring.keys)
    BY <2>1 DEF Range
  <2>3. key.type = "public" /\ key.key = keyring.keys[1] /\ key \in NewKeys
    BY <2>1, <2>2 DEF AccountKeyPublic, NewKeys, PublicKeys
  <2> HIDE DEF key
  <2>4. \A a, role : NodeAccepts(a, key, Range(keyring.keys), role)
    BY <2>2, <2>3 DEF NodeAccepts, KeyForRole
  <2> QED BY <2>1, <2>3, <2>4 DEF MadeFrom, key
<1>2. CASE keyring \in [kind : {"multiple"}, keys : Seq(Keys)]
  <2>1. /\ keyring.kind = "multiple" /\ keyring.keys \in Seq(Keys)
        /\ key = MultiSigFromKeys(keyring.keys, OptionsAt(optionsOf, 1)) /\ ~IsRoleBased(keyring)
    BY <1>2 DEF ToAccount, IsRoleBased
  <2>2. OptionsAt(optionsOf, 1) \in Option
    BY OptionsTyped
  <2>3. /\ key.type = "multisig" /\ key \in MultiSigs
        /\ \A a, role : NodeAccepts(a, key, Range(keyring.keys), role)
    BY <2>1, <2>2, MultiSigAnswers, MultiSigTyped
  <2> HIDE DEF key
  <2> QED BY <2>1, <2>3 DEF MadeFrom, key, NewKeys
<1>3. CASE keyring \in [kind : {"roleBased"}, keys : [Roles -> Seq(Keys)]]
  <2> DEFINE optionsAt(r) == OptionsAt(optionsOf, r)
             optionsFor == [r \in Roles |-> OptionsForRole(Len(keyring.keys[r]), optionsAt(r))]
  <2>1. /\ keyring.kind = "roleBased" /\ keyring.keys \in [Roles -> Seq(Keys)]
        /\ key = RoleBasedFromKeys(keyring.keys, optionsFor) /\ IsRoleBased(keyring)
    BY <1>3 DEF ToAccount, IsRoleBased
  <2>2. \A r \in Roles : keyring.keys[r] \in Seq(Keys) /\ Len(keyring.keys[r]) \in Nat
    BY <2>1
  <2>3. \A r \in Roles : optionsFor[r] \in Option
    <3>1. \A r \in Roles : optionsAt(r) \in Option
      BY OptionsTyped
    <3> HIDE DEF optionsAt
    <3> QED BY <2>2, <3>1, DefaultIsOption
  <2>4. keyring.keys \in Seq(Seq(Keys)) /\ DOMAIN keyring.keys = Roles
    BY <2>1, PerRoleIsSequence DEF Roles
  <2> HIDE DEF optionsFor
  <2>5. /\ key \in RoleBasedKeys /\ DOMAIN key.keys = Roles
        /\ \A r \in Roles : /\ key.keys[r] = RoleKeyFromKeys(keyring.keys[r], optionsFor[r])
                            /\ key.keys[r] # Refused
    BY <2>1, <2>3, <2>4, RoleBasedTyped
  <2> HIDE DEF key
  <2>6. ASSUME NEW r \in Roles, keyring.keys[r] # << >>
        PROVE  /\ key.keys[r] # AccountKeyNil /\ NewRoleKey(key.keys[r])
               /\ \A a, role : NodeAccepts(a, key.keys[r], Range(keyring.keys[r]), role)
    BY <2>2, <2>3, <2>5, <2>6, RoleKeyAnswers
  <2>7. key.type = "roleBased"
    BY <2>5 DEF RoleBasedKeys
  <2> QED BY <2>1, <2>5, <2>6, <2>7 DEF MadeFrom, key, NewKeys
<1> QED BY <1>1, <1>2, <1>3 DEF AllKeyrings

-----------------------------------------------------------------------------
(* Signatures of an account: what the Validator adds up is what the node   *)
(* adds up.                                                                *)

(* Signatures of which no two are equal, and weighted keys.                *)
OneEach(s) ==
  /\ Len(s) \in Nat /\ s = [i \in 1 .. Len(s) |-> s[i]]
  /\ \A i, j \in DOMAIN s : s[i] = s[j] => i = j
WeightedOnce(w) ==
  /\ w \in Seq([weight : Nat, key : Keys])
  /\ \A i, j \in DOMAIN w : w[i].key = w[j].key => i = j

(* Weighted keys, index by index.                                          *)
LEMMA WeightsTyped ==
  ASSUME NEW w, WeightedOnce(w)
  PROVE  /\ Len(w) \in Nat /\ DOMAIN w = 1 .. Len(w)
         /\ \A j \in DOMAIN w : w[j] \in [weight : Nat, key : Keys] /\ w[j].weight \in Nat
         /\ \A i, j \in DOMAIN w : w[i].key = w[j].key => i = j
<1> DEFINE Weighted == [weight : Nat, key : Keys]
<1>1. w \in Seq(Weighted) /\ \A i, j \in DOMAIN w : w[i].key = w[j].key => i = j
  BY DEF WeightedOnce
<1>2. \A v \in Weighted : v.weight \in Nat
  OBVIOUS
<1> HIDE DEF Weighted
<1>3. Len(w) \in Nat /\ DOMAIN w = 1 .. Len(w) /\ \A j \in DOMAIN w : w[j] \in Weighted
  BY <1>1, SequenceIsFunction
<1> QED BY <1>1, <1>2, <1>3 DEF Weighted

(* The weight of a key among weighted keys.                                *)
LEMMA WeightFound ==
  ASSUME NEW w, WeightedOnce(w), NEW k
  PROVE  /\ WeightOf(k, w) \in Nat
         /\ \A j \in DOMAIN w : w[j].key = k => WeightOf(k, w) = w[j].weight
         /\ (\A j \in DOMAIN w : w[j].key # k) => WeightOf(k, w) = 0
<1> DEFINE hits == {i \in DOMAIN w : w[i].key = k}
<1>1. WeightOf(k, w) = IF hits = {} THEN 0 ELSE w[Min(hits)].weight
  BY DEF WeightOf
<1>2. ASSUME NEW j \in DOMAIN w, w[j].key = k
      PROVE  WeightOf(k, w) = w[j].weight /\ w[j].weight \in Nat
  <2>1. DOMAIN w \in SUBSET Nat /\ w[j].weight \in Nat
    BY WeightsTyped
  <2>2. hits \in SUBSET Nat /\ hits # {}
    BY <1>2, <2>1
  <2>3. hits = {j}
    BY <1>2 DEF WeightedOnce
  <2> HIDE DEF hits
  <2>4. Min(hits) \in hits
    BY <2>2, Least
  <2> QED BY <1>1, <2>1, <2>2, <2>3, <2>4
<1>3. (\A j \in DOMAIN w : w[j].key # k) => WeightOf(k, w) = 0
  BY <1>1
<1> QED BY <1>2, <1>3

(* The Validator adds up the weights of the signers, signature by          *)
(* signature, the node those of the keys that signed, key by key: if the   *)
(* signatures differ, and the keys too, the sums are the same.             *)
LEMMA SumsOfWeights ==
  ASSUME NEW w, WeightedOnce(w), NEW s, OneEach(s)
  PROVE  /\ SumOfWeights(Weighing(w, Range(s))) = WeightOfFirst(Len(s), s, w)
         /\ WeightOfFirst(Len(s), s, w) \in Nat
         /\ \A n \in 0 .. Len(s) : /\ WeightOfFirst(n, s, w) \in Nat
                                   /\ WeightOfFirst(n, s, w) <= WeightOfFirst(Len(s), s, w)
<1> DEFINE N == Len(s)
           f == [i \in 1 .. N |-> WeightOf(s[i], w)]
           p == [j \in DOMAIN w |-> w[j].weight]
           J(n) == {j \in DOMAIN w : \E i \in 1 .. n : w[j].key = s[i]}
<1>1. N \in Nat /\ DOMAIN s = 1 .. N /\ \A i, j \in 1 .. N : s[i] = s[j] => i = j
  BY DEF OneEach
<1>2. /\ DOMAIN w = 1 .. Len(w) /\ Len(w) \in Nat
      /\ \A j \in DOMAIN w : w[j].weight \in Nat
      /\ \A i, j \in DOMAIN w : w[i].key = w[j].key => i = j
  BY WeightsTyped
<1>3. PICK g : AddsUp(g, f)
  <2>1. DOMAIN f = 1 .. N /\ \A i \in DOMAIN f : f[i] \in Nat
    BY WeightFound
  <2>2. IsFiniteSet(DOMAIN f)
    BY <1>1, <2>1, FS_Interval
  <2> HIDE DEF f
  <2> QED BY <2>1, <2>2, SumAdds
<1>4. IsFiniteSet(DOMAIN w)
  <2>1. IsFiniteSet(1 .. Len(w))
    BY <1>2, FS_Interval
  <2> QED BY <1>2, <2>1
<1>5. PICK h : AddsUp(h, p)
  <2>1. DOMAIN p = DOMAIN w /\ \A j \in DOMAIN p : p[j] \in Nat
    BY <1>2
  <2> HIDE DEF p
  <2> QED BY <1>4, <2>1, SumAdds
<1>6. ASSUME NEW n \in 0 .. N PROVE WeightOfFirst(n, s, w) = g[1 .. n] /\ g[1 .. n] \in Nat
  <2> DEFINE q == [i \in 1 .. n |-> WeightOf(s[i], w)]
  <2>1. DOMAIN q = 1 .. n /\ \A i \in DOMAIN q : q[i] \in Nat
    BY WeightFound
  <2>2. IsFiniteSet(1 .. n)
    BY <1>1, FS_Interval
  <2>3. 1 .. n \subseteq DOMAIN f /\ \A i \in 1 .. n : q[i] = f[i]
    BY <1>1
  <2>4. WeightOfFirst(n, s, w) = SumOfWeights(q)
    BY DEF WeightOfFirst
  <2> HIDE DEF q, f
  <2>5. PICK k : AddsUp(k, q) /\ SumOfWeights(q) = k[DOMAIN q]
    BY <2>1, <2>2, SumAdds
  <2>6. k[1 .. n] = g[1 .. n]
    BY <1>3, <2>1, <2>2, <2>3, <2>5, SumsAgree
  <2>7. g[1 .. n] \in Nat
    BY <1>3, <2>3 DEF AddsUp
  <2> QED BY <2>1, <2>4, <2>5, <2>6, <2>7
<1>7. SumOfWeights(Weighing(w, Range(s))) = h[J(N)]
  <2> DEFINE q == Weighing(w, Range(s))
  <2>1. DOMAIN q = J(N) /\ \A j \in J(N) : q[j] = w[j].weight
    BY <1>1 DEF Weighing, Range
  <2>2. \A j \in DOMAIN q : q[j] \in Nat
    BY <1>2, <2>1
  <2>3. IsFiniteSet(J(N))
    BY <1>4, FS_Subset
  <2>4. J(N) \subseteq DOMAIN p /\ \A j \in J(N) : q[j] = p[j]
    BY <2>1
  <2> HIDE DEF q, p, J
  <2>5. PICK k : AddsUp(k, q) /\ SumOfWeights(q) = k[DOMAIN q]
    BY <2>1, <2>2, <2>3, SumAdds
  <2>6. k[J(N)] = h[J(N)]
    BY <1>5, <2>1, <2>3, <2>4, <2>5, SumsAgree
  <2> QED BY <2>1, <2>5, <2>6 DEF q
<1>8. ASSUME NEW n \in 1 .. N
      PROVE  /\ 1 .. n - 1 \in SUBSET (1 .. N) /\ g[1 .. n] = f[n] + g[1 .. n - 1]
             /\ f[n] \in Nat /\ g[1 .. n - 1] \in Nat
  <2>1. n \in DOMAIN f /\ n \notin 1 .. n - 1 /\ 1 .. n - 1 \in SUBSET DOMAIN f
        /\ 1 .. n = (1 .. n - 1) \union {n}
    BY <1>1
  <2>2. f[n] \in Nat
    BY WeightFound
  <2>3. DOMAIN f = 1 .. N
    OBVIOUS
  <2> HIDE DEF f
  <2>4. g[1 .. n] = f[n] + g[1 .. n - 1]
    <3> DEFINE t == 1 .. n - 1
    <3>1. n \in DOMAIN f /\ n \notin t /\ t \in SUBSET DOMAIN f /\ 1 .. n = t \union {n}
      BY <2>1
    <3> HIDE DEF t
    <3>2. Grows(g, f, t, n)
      BY <1>3, <3>1, SumGrows
    <3>3. g[1 .. n] = f[n] + g[t]
      BY <3>1, <3>2 DEF Grows
    <3> QED BY <3>3 DEF t
  <2>5. g[1 .. n - 1] \in Nat
    BY <1>3, <2>1 DEF AddsUp
  <2> QED BY <2>1, <2>2, <2>3, <2>4, <2>5
<1>9. ASSUME NEW n \in 1 .. N PROVE h[J(n)] = f[n] + h[J(n - 1)]
  <2>1. f[n] = WeightOf(s[n], w)
    OBVIOUS
  <2>2. CASE \A j \in DOMAIN w : w[j].key # s[n]
    <3>1. J(n) = J(n - 1)
      BY <1>1, <2>2
    <3>2. f[n] = 0
      BY <2>1, <2>2, WeightFound
    <3>3. h[J(n - 1)] \in Nat
      <4>1. J(n - 1) \in SUBSET DOMAIN p
        OBVIOUS
      <4> HIDE DEF J, p
      <4> QED BY <1>5, <4>1 DEF AddsUp
    <3> HIDE DEF J, f
    <3> QED BY <3>1, <3>2, <3>3
  <2>3. ASSUME NEW j \in DOMAIN w, w[j].key = s[n] PROVE h[J(n)] = f[n] + h[J(n - 1)]
    <3>1. J(n) = J(n - 1) \union {j}
      BY <1>1, <1>2, <2>3
    <3>2. j \notin J(n - 1)
      BY <1>1, <2>3
    <3>3. f[n] = p[j]
      BY <2>1, <2>3, WeightFound
    <3>4. J(n - 1) \in SUBSET DOMAIN p /\ j \in DOMAIN p
      OBVIOUS
    <3> HIDE DEF J, f, p
    <3>5. Grows(h, p, J(n - 1), j)
      BY <1>5, <3>2, <3>4, SumGrows
    <3> QED BY <3>1, <3>3, <3>5 DEF Grows
  <2> QED BY <2>2, <2>3
<1> HIDE DEF f, p, J
<1>10. g[1 .. 0] = 0 /\ h[J(0)] = 0
  <2>1. 1 .. 0 = {} /\ J(0) = {}
    BY DEF J
  <2> QED BY <1>3, <1>5, <2>1 DEF AddsUp
<1>11. \A n \in 0 .. N : g[1 .. n] = h[J(n)]
  <2> DEFINE Q == {n \in 0 .. N : g[1 .. n] # h[J(n)]}
  <2> SUFFICES ASSUME Q # {} PROVE FALSE
    OBVIOUS
  <2>1. PICK n \in Q : \A m \in Q : n <= m
    <3>1. Q \in SUBSET Nat
      BY <1>1
    <3> HIDE DEF Q
    <3> QED BY <3>1, Least
  <2>2. n \in 1 .. N /\ n - 1 \in 0 .. N /\ n - 1 \notin Q
    BY <1>1, <1>10, <2>1
  <2>3. g[1 .. n - 1] = h[J(n - 1)]
    BY <2>2
  <2> QED BY <1>8, <1>9, <2>1, <2>2, <2>3
<1>12. \A n \in 0 .. N : g[1 .. n] <= g[1 .. N]
  <2> SUFFICES ASSUME NEW n \in 0 .. N PROVE g[1 .. n] <= g[1 .. N]
    OBVIOUS
  <2> DEFINE Q == {m \in n .. N : ~(g[1 .. n] <= g[1 .. m])}
  <2> SUFFICES ASSUME Q # {} PROVE FALSE
    BY <1>1
  <2>1. PICK m \in Q : \A l \in Q : m <= l
    <3>1. Q \in SUBSET Nat
      BY <1>1
    <3> HIDE DEF Q
    <3> QED BY <3>1, Least
  <2>2. g[1 .. n] \in Nat
    BY <1>6
  <2>3. m # n
    BY <2>1, <2>2
  <2>4. m \in 1 .. N /\ m - 1 \in n .. N /\ m - 1 \notin Q
    BY <1>1, <2>1, <2>3
  <2>5. g[1 .. n] <= g[1 .. m - 1]
    BY <2>4
  <2>6. g[1 .. m] = f[m] + g[1 .. m - 1] /\ f[m] \in Nat /\ g[1 .. m - 1] \in Nat
    BY <1>8, <2>4
  <2>7. g[1 .. n] <= g[1 .. m]
    BY <2>2, <2>5, <2>6
  <2> QED BY <2>1, <2>7
<1>13. N \in 0 .. N
  BY <1>1
<1> QED BY <1>6, <1>7, <1>11, <1>12, <1>13

Plain(s) == Len(s) \in Nat /\ DOMAIN s = 1 .. Len(s)
(* Of equal signatures one is kept, and nothing is lost.                   *)
LEMMA RefinedIs ==
  ASSUME NEW s, Plain(s)
  PROVE  OneEach(Refined(s)) /\ Range(Refined(s)) = Range(s)
<1> DEFINE firsts == {i \in DOMAIN s : \A j \in 1 .. i - 1 : s[j] # s[i]}
           upTo(i) == {j \in firsts : j <= i}
           rank == [i \in firsts |-> Cardinality(upTo(i))]
           c == Cardinality(firsts)
           place(n) == CHOOSE i \in firsts : Cardinality({j \in firsts : j <= i}) = n
           r == Refined(s)
<1>1. r = [n \in 1 .. c |-> s[place(n)]]
  BY DEF Refined
<1>2. firsts \in SUBSET (1 .. Len(s)) /\ Len(s) \in Nat /\ DOMAIN s = 1 .. Len(s)
  BY DEF Plain
<1>3. IsFiniteSet(firsts) /\ c \in Nat
  <2> HIDE DEF firsts
  <2>1. IsFiniteSet(1 .. Len(s))
    BY <1>2, FS_Interval
  <2>2. IsFiniteSet(firsts)
    BY <1>2, <2>1, FS_Subset
  <2> QED BY <2>2, FS_CardinalityType
<1>4. \A i, k \in firsts : s[i] = s[k] => i = k
  <2> SUFFICES ASSUME NEW i \in firsts, NEW k \in firsts, s[i] = s[k], i < k PROVE FALSE
    BY <1>2
  <2>1. i \in 1 .. k - 1
    BY <1>2
  <2> QED BY <2>1
<1>5. \A i \in DOMAIN s : \E j \in firsts : s[j] = s[i]
  <2> SUFFICES ASSUME NEW i \in DOMAIN s PROVE \E j \in firsts : s[j] = s[i]
    OBVIOUS
  <2> DEFINE same == {j \in DOMAIN s : s[j] = s[i]}
  <2>1. same \in SUBSET Nat /\ same # {}
    BY <1>2
  <2>2. PICK j \in same : \A l \in same : j <= l
    <3> HIDE DEF same
    <3> QED BY <2>1, Least
  <2>3. \A l \in 1 .. j - 1 : l \in DOMAIN s /\ ~(j <= l)
    BY <1>2, <2>2
  <2>4. \A l \in 1 .. j - 1 : s[l] # s[j]
    BY <2>2, <2>3
  <2> QED BY <2>2, <2>4
<1> HIDE DEF firsts
<1>6. \A i \in firsts : upTo(i) \in SUBSET firsts /\ i \in upTo(i)
  BY <1>2
<1>7. \A i \in firsts : IsFiniteSet(upTo(i)) /\ rank[i] \in 1 .. c
  <2> SUFFICES ASSUME NEW i \in firsts PROVE IsFiniteSet(upTo(i)) /\ rank[i] \in 1 .. c
    OBVIOUS
  <2>1. upTo(i) \in SUBSET firsts /\ upTo(i) # {} /\ rank[i] = Cardinality(upTo(i))
    BY <1>6
  <2> HIDE DEF upTo, rank
  <2>2. IsFiniteSet(upTo(i)) /\ Cardinality(upTo(i)) <= c
    BY <1>3, <2>1, FS_Subset
  <2>3. Cardinality(upTo(i)) \in Nat /\ Cardinality(upTo(i)) # 0
    BY <2>1, <2>2, FS_CardinalityType, FS_EmptySet
  <2> QED BY <1>3, <2>1, <2>2, <2>3
<1>8. \A i, k \in firsts : rank[i] = rank[k] => i = k
  <2> SUFFICES ASSUME NEW i \in firsts, NEW k \in firsts, rank[i] = rank[k], i < k PROVE FALSE
    BY <1>2
  <2>1. upTo(i) \in SUBSET upTo(k) /\ k \in upTo(k) /\ k \notin upTo(i)
    <3>1. i \in Nat /\ k \in Nat /\ \A j \in firsts : j \in Nat
      BY <1>2
    <3>2. \A j \in firsts : j <= i => j <= k
      BY <3>1
    <3>3. k <= k /\ ~(k <= i)
      BY <3>1
    <3> QED BY <3>2, <3>3
  <2>2. Cardinality(upTo(i)) = Cardinality(upTo(k)) /\ IsFiniteSet(upTo(k))
    BY <1>7
  <2> HIDE DEF upTo
  <2>3. upTo(i) = upTo(k)
    BY <2>1, <2>2, FS_Subset
  <2> QED BY <2>1, <2>3
<1>9. \A n \in 1 .. c : \E i \in firsts : rank[i] = n
  <2>1. rank \in [firsts -> 1 .. c]
    BY <1>7
  <2> HIDE DEF rank
  <2>2. rank \in Injection(firsts, 1 .. c)
    BY <1>8, <2>1 DEF Injection, IsInjective
  <2>3. IsFiniteSet(1 .. c) /\ Cardinality(1 .. c) = c
    BY <1>3, FS_Interval
  <2> HIDE DEF c
  <2>4. c = Cardinality(firsts)
    BY DEF c
  <2>5. rank \in Surjection(firsts, 1 .. c)
    BY <2>2, <2>3, <2>4, FS_Injection
  <2> QED BY <2>5 DEF Surjection
<1>10. \A n \in 1 .. c : place(n) \in firsts /\ rank[place(n)] = n
  <2> SUFFICES ASSUME NEW n \in 1 .. c PROVE place(n) \in firsts /\ rank[place(n)] = n
    OBVIOUS
  <2>1. PICK i \in firsts : Cardinality({j \in firsts : j <= i}) = n
    BY <1>9
  <2>2. place(n) \in firsts /\ Cardinality({j \in firsts : j <= place(n)}) = n
    BY <2>1
  <2> QED BY <2>2
<1>11. DOMAIN r = 1 .. c /\ \A n \in 1 .. c : r[n] = s[place(n)]
  BY <1>1
<1>12. \A i \in firsts : i \in DOMAIN s
  BY <1>2
<1> HIDE DEF place, rank, upTo
<1>13. \A n, m \in 1 .. c : r[n] = r[m] => n = m
  BY <1>4, <1>10, <1>11
<1>14. Range(r) = Range(s)
  <2>1. \A x \in Range(r) : x \in Range(s)
    BY <1>10, <1>11, <1>12 DEF Range
  <2>2. ASSUME NEW i \in DOMAIN s PROVE s[i] \in Range(r)
    <3>1. PICK j \in firsts : s[j] = s[i]
      BY <1>5
    <3>2. rank[j] \in 1 .. c /\ place(rank[j]) = j
      BY <1>7, <1>8, <1>10
    <3>3. r[rank[j]] = s[i]
      BY <1>11, <3>1, <3>2
    <3> QED BY <1>11, <3>2, <3>3 DEF Range
  <2>3. \A x \in Range(s) : x \in Range(r)
    BY <2>2 DEF Range
  <2> QED BY <2>1, <2>3
<1>15. Len(r) = c
  <2>1. r \in [1 .. c -> Range(r)]
    <3>1. r = [n \in 1 .. c |-> r[n]]
      BY <1>1, <1>11
    <3> HIDE DEF r
    <3> QED BY <3>1, <1>11 DEF Range
  <2> HIDE DEF r
  <2>2. r \in Seq(Range(r)) /\ Len(r) \in Nat /\ DOMAIN r = 1 .. Len(r)
    BY <1>3, <2>1
  <2> QED BY <2>2, <1>3, <1>11
<1>16. r = [n \in 1 .. c |-> r[n]]
  BY <1>1, <1>11
<1> HIDE DEF r, c
<1>17. Len(r) \in Nat /\ r = [n \in 1 .. Len(r) |-> r[n]] /\ DOMAIN r = 1 .. c
  BY <1>3, <1>11, <1>15, <1>16
<1>18. OneEach(r)
  BY <1>13, <1>17 DEF OneEach
<1> QED BY <1>14, <1>18 DEF r

(* Keys an account may have.                                               *)
HeldRole(key) ==
  /\ key.type \in {"legacy", "public", "multisig"}
  /\ key.type = "multisig" => key.threshold \in Nat /\ WeightedOnce(key.keys)
HeldKey(key) ==
  /\ key.type \in {"legacy", "public", "multisig", "roleBased"}
  /\ key.type # "roleBased" => HeldRole(key)
  /\ key.type = "roleBased" => TransactionRole \in DOMAIN key.keys
  /\ \A r \in RolesOf(key) : HeldRole(key.keys[r])

(* Of a key that is not role-based, Validator and node say the same,       *)
LEMMA RoleAgrees ==
  ASSUME NEW key, HeldRole(key), NEW s, OneEach(s), s # << >>, NEW a, NEW role
  PROVE  ValidForKey(a, key, s) <=> NodeAccepts(a, key, Range(s), role)
<1>1. KeyForRole(key, role) = key
  BY DEF HeldRole, KeyForRole
<1>2. Len(s) \in Nat /\ Len(s) # 0 /\ DOMAIN s = 1 .. Len(s)
  <2>1. Len(s) \in Nat /\ s = [i \in 1 .. Len(s) |-> s[i]]
    BY DEF OneEach
  <2>2. Len(s) = 0 => s = << >>
    <3> SUFFICES ASSUME Len(s) = 0 PROVE s = << >>
      OBVIOUS
    <3>1. 1 .. Len(s) = {}
      BY <2>1
    <3>2. s = [i \in {} |-> s[i]]
      BY <2>1, <3>1
    <3> QED BY <3>2
  <2>3. DOMAIN s = 1 .. Len(s)
    BY <2>1
  <2> QED BY <2>1, <2>2, <2>3
<1>3. Range(s) # {}
  <2>1. s[1] \in Range(s)
    BY <1>2 DEF Range
  <2> QED BY <2>1
<1>4. CASE key.type = "multisig"
  <2>1. key.threshold \in Nat /\ WeightedOnce(key.keys)
    BY <1>4 DEF HeldRole
  <2> DEFINE W(n) == WeightOfFirst(n, s, key.keys)
  <2>2. /\ SumOfWeights(Weighing(key.keys, Range(s))) = W(Len(s))
        /\ W(Len(s)) \in Nat
        /\ \A n \in 0 .. Len(s) : W(n) \in Nat /\ W(n) <= W(Len(s))
    BY <2>1, SumsOfWeights
  <2>3. NodeAccepts(a, key, Range(s), role) <=> key.threshold <= W(Len(s))
    BY <1>1, <1>3, <1>4, <2>2 DEF NodeAccepts
  <2>4. ValidForKey(a, key, s) <=> \E n \in 1 .. Len(s) : W(n) >= key.threshold
    BY <1>2, <1>4 DEF ValidForKey
  <2> HIDE DEF W
  <2>5. \A n \in 1 .. Len(s) : W(n) >= key.threshold => key.threshold <= W(Len(s))
    BY <1>2, <2>1, <2>2
  <2>6. Len(s) \in 1 .. Len(s) /\ (key.threshold <= W(Len(s)) => W(Len(s)) >= key.threshold)
    BY <1>2, <2>1, <2>2
  <2> QED BY <2>3, <2>4, <2>5, <2>6
<1>5. CASE key.type \in {"legacy", "public"}
  BY <1>1, <1>5 DEF ValidForKey, NodeAccepts
<1> QED BY <1>4, <1>5 DEF HeldRole

(* and so they do of the key of an account.                                *)
LEMMA VerdictAgrees ==
  ASSUME NEW key, HeldKey(key), NEW s, OneEach(s), NEW a, NEW role
  PROVE  LET v == Validation(a, key, s, role)
         IN /\ v \in {"thrown", "valid", "invalid"}
            /\ v # "thrown" => (v = "valid" <=> NodeAccepts(a, key, Range(s), role))
<1> DEFINE v == Validation(a, key, s, role)
           own == IF key.type = "roleBased" THEN key.keys[role] ELSE key
           refused == s = << >> \/ ~Validatable(key, role)
<1>1. CASE refused
  <2>1. v = "thrown"
    BY <1>1 DEF Validation
  <2> QED BY <2>1
<1>2. CASE ~refused
  <2>1. s # << >> /\ Validatable(key, role)
    BY <1>2
  <2>2. HeldRole(own) /\ own = KeyForRole(key, role)
    BY <2>1 DEF HeldKey, Validatable, RolesOf, KeyForRole
  <2>3. Valid(a, key, s, role) <=> ValidForKey(a, own, s)
    BY DEF Valid
  <2> HIDE DEF own
  <2>4. ValidForKey(a, own, s) <=> NodeAccepts(a, own, Range(s), role)
    BY <2>1, <2>2, RoleAgrees
  <2>5. KeyForRole(own, role) = own
    BY <2>2 DEF HeldRole, KeyForRole
  <2>6. NodeAccepts(a, own, Range(s), role) <=> NodeAccepts(a, key, Range(s), role)
    BY <2>2, <2>5 DEF NodeAccepts
  <2>7. CASE Valid(a, key, s, role)
    <3>1. v = "valid"
      BY <1>2, <2>7 DEF Validation
    <3> HIDE DEF v
    <3> QED BY <2>3, <2>4, <2>6, <2>7, <3>1 DEF v
  <2>8. CASE ~Valid(a, key, s, role)
    <3>1. v = "invalid"
      BY <1>2, <2>8 DEF Validation
    <3> HIDE DEF v
    <3> QED BY <2>3, <2>4, <2>6, <2>8, <3>1 DEF v
  <2> QED BY <2>7, <2>8
<1> QED BY <1>1, <1>2

-----------------------------------------------------------------------------
(* Account keys are updated. *)

(* An update that the node allows leaves an account key, which answers for *)
(* the keyring the new key was made of.                                    *)
LEMMA UpdatedKey ==
  ASSUME NEW old, HeldKey(old), NEW new \in NewKeys, Updatable(old, new)
  PROVE  /\ HeldKey(Updated(old, new))
         /\ \A a, keyring : MadeFrom(new, keyring) => Answers(a, Updated(old, new), keyring)
<1> DEFINE key == Updated(old, new)
<1>1. CASE new \in PublicKeys \union MultiSigs
  <2>1. new.type \in {"public", "multisig"}
    BY <1>1 DEF PublicKeys, MultiSigs
  <2>2. key = new
    BY <2>1 DEF Updated
  <2>3. HeldKey(new)
    <3>1. new.type = "multisig" => new.threshold \in Nat /\ WeightedOnce(new.keys)
      BY <1>1, <2>1 DEF Updatable, PublicKeys, MultiSigs, WeightedOnce
    <3> QED BY <2>1, <3>1 DEF HeldKey, HeldRole, RolesOf
  <2>4. ASSUME NEW a, NEW keyring, MadeFrom(new, keyring) PROVE Answers(a, new, keyring)
    <3>1. /\ ~IsRoleBased(keyring)
          /\ \A b, role : NodeAccepts(b, new, Range(keyring.keys), role)
      BY <2>1, <2>4 DEF MadeFrom
    <3> QED BY <3>1 DEF Answers, KeysByRole
  <2> QED BY <2>2, <2>3, <2>4
<1>2. CASE new \in RoleBasedKeys
  <2>1. new.type = "roleBased" /\ new.keys \in Seq(RoleKeys)
    BY <1>2 DEF RoleBasedKeys
  <2> DEFINE kept(r) == r \notin RolesOf(new) \/ new.keys[r] = AccountKeyNil
             joined == [r \in RolesOf(old) \union RolesOf(new) |->
                          IF kept(r) THEN old.keys[r] ELSE new.keys[r]]
  <2>2. key = AccountKeyRoleBased(joined)
    BY <2>1 DEF Updated
  <2>3. /\ key.type = "roleBased" /\ key.keys = joined
        /\ DOMAIN key.keys = RolesOf(old) \union RolesOf(new)
    BY <2>2 DEF AccountKeyRoleBased
  <2>4. RolesOf(new) = DOMAIN new.keys
    BY <2>1 DEF RolesOf
  <2>5. \A r \in DOMAIN new.keys : new.keys[r] \in RoleKeys
    BY <2>1, SequenceIsFunction
  <2>6. \A r \in DOMAIN new.keys : new.keys[r] # AccountKeyNil => new.keys[r].type \in {"public", "multisig"}
    BY <2>5 DEF RoleKeys, PublicKeys, MultiSigs
  <2>11. ASSUME NEW r \in DOMAIN new.keys, new.keys[r] # AccountKeyNil
         PROVE  HeldRole(new.keys[r])
    <3>1. new.keys[r] \in Range(new.keys)
      BY DEF Range
    <3>2. new.keys[r].type = "multisig" =>
            new.keys[r].threshold \in Nat /\ WeightedOnce(new.keys[r].keys)
      BY <2>1, <2>5, <2>11, <3>1 DEF Updatable, RoleKeys, PublicKeys, MultiSigs, WeightedOnce
    <3> QED BY <2>6, <2>11, <3>2 DEF HeldRole
  <2>7. ASSUME NEW r \in RolesOf(old) \union RolesOf(new) PROVE HeldRole(joined[r])
    <3>1. CASE kept(r)
      <4>1. r \in RolesOf(old) /\ joined[r] = old.keys[r]
        BY <3>1, <2>7 DEF Updatable
      <4> QED BY <4>1 DEF HeldKey
    <3>2. CASE ~kept(r)
      BY <3>2, <2>4, <2>11
    <3> QED BY <3>1, <3>2
  <2>8. RolesOf(key) = RolesOf(old) \union RolesOf(new)
    BY <2>3 DEF RolesOf
  <2>12. TransactionRole \in DOMAIN key.keys
    <3>1. new.keys # << >>
      BY <2>1 DEF Updatable
    <3>2. 1 \in DOMAIN new.keys
      BY <2>1, <3>1
    <3> QED BY <2>3, <2>4, <3>2 DEF TransactionRole
  <2> HIDE DEF key
  <2>9. HeldKey(key)
    BY <2>3, <2>7, <2>8, <2>12 DEF HeldKey
  <2>10. ASSUME NEW a, NEW keyring, MadeFrom(new, keyring) PROVE Answers(a, key, keyring)
    <3>1. /\ IsRoleBased(keyring) /\ DOMAIN new.keys = Roles
          /\ \A r \in Roles : keyring.keys[r] # << >> =>
               /\ new.keys[r] # AccountKeyNil
               /\ \A b, role : NodeAccepts(b, new.keys[r], Range(keyring.keys[r]), role)
      BY <2>1, <2>10 DEF MadeFrom
    <3> SUFFICES ASSUME NEW r \in Roles, keyring.keys[r] # << >>
                 PROVE  NodeAccepts(a, key, Range(KeysByRole(keyring, r)), r)
      BY <3>1 DEF Answers
    <3>2. KeysByRole(keyring, r) = keyring.keys[r]
      BY <3>1 DEF KeysByRole
    <3>3. r \in DOMAIN key.keys /\ key.keys[r] = new.keys[r]
      BY <3>1, <2>3, <2>4
    <3>4. KeyForRole(key, r) = new.keys[r]
      BY <3>3, <2>3 DEF KeyForRole
    <3>5. new.keys[r].type \in {"public", "multisig"}
      BY <2>6, <3>1
    <3>6. KeyForRole(new.keys[r], r) = new.keys[r]
      BY <3>5 DEF KeyForRole
    <3>7. NodeAccepts(a, new.keys[r], Range(keyring.keys[r]), r)
      BY <3>1
    <3> QED BY <3>2, <3>4, <3>6, <3>7 DEF NodeAccepts
  <2> QED BY <2>9, <2>10 DEF key
<1> QED BY <1>1, <1>2 DEF NewKeys

-----------------------------------------------------------------------------
(* caver.wallet: every keyring is one, and what the node knows of an       *)
(* account answers for the keyring its key was made of, now and when the   *)
(* update under way is decided.                                            *)

KeyringsTyped ==
  /\ keyrings \in [Addresses -> AllKeyrings \union {NoKeyring}]
  /\ operations \in 0 .. MaxOperations
ChainAnswers ==
  /\ DOMAIN accountKey = Addresses
  /\ basis \in [Addresses -> AllKeyrings \union {NoKeyring}]
  /\ \A a \in Addresses :
       /\ HeldKey(accountKey[a])
       /\ basis[a] # NoKeyring => Answers(a, accountKey[a], basis[a])
UpdateCarried ==
  /\ update.phase \in {"none", "signing", "sent"}
  /\ update.phase # "none" =>
       /\ DOMAIN update = {"phase", "address", "signer", "key", "from"}
       /\ update.address \in Addresses
       /\ Decoded(update.key) \in NewKeys
       /\ update.from \in AllKeyrings \union {NoKeyring}
       /\ update.from # NoKeyring => MadeFrom(Decoded(update.key), update.from)
WalletInv == KeyringsTyped /\ ChainAnswers /\ UpdateCarried

(* Initially every account answers for the key its address derives from.   *)
LEMMA WalletInitially == WalletInit => WalletInv
<1> SUFFICES ASSUME WalletInit PROVE WalletInv
  OBVIOUS
<1> USE DEF WalletInit
<1>1. KeyringsTyped
  BY WalletAssumption DEF KeyringsTyped
<1>2. ASSUME NEW a \in Addresses
      PROVE  /\ SingleKeyring(DerivedOf[a]) \in AllKeyrings
             /\ HeldKey(AccountKeyLegacy)
             /\ Answers(a, AccountKeyLegacy, SingleKeyring(DerivedOf[a]))
  <2> DEFINE K == SingleKeyring(DerivedOf[a])
  <2>1. DerivedOf[a] \in Keys
    BY WalletAssumption
  <2>2. K.kind = "single" /\ K.keys = <<DerivedOf[a]>> /\ K \in AllKeyrings
    BY <2>1 DEF SingleKeyring, AllKeyrings
  <2>3. AccountKeyLegacy.type = "legacy"
    BY DEF AccountKeyLegacy
  <2>4. DerivedOf[a] \in Range(K.keys) /\ ~IsRoleBased(K)
    <3>1. 1 \in DOMAIN K.keys /\ K.keys[1] = DerivedOf[a]
      BY <2>2
    <3> QED BY <3>1, <2>2 DEF Range, IsRoleBased
  <2> HIDE DEF K
  <2>5. Answers(a, AccountKeyLegacy, K)
    BY <2>3, <2>4 DEF Answers, KeysByRole, NodeAccepts, KeyForRole
  <2> QED BY <2>2, <2>3, <2>5 DEF K, HeldKey, HeldRole, RolesOf
<1>3. ChainAnswers
  BY <1>2 DEF ChainAnswers
<1>4. UpdateCarried
  BY DEF UpdateCarried, NoUpdate
<1> QED BY <1>1, <1>3, <1>4 DEF WalletInv

(* A key store gives back a keyring. *)
LEMMA DecryptedIsKeyring ==
  ASSUME NEW keyring \in AllKeyrings, MayDecrypt(Encrypted(keyring))
  PROVE  Decrypted(Encrypted(keyring)) \in AllKeyrings
<1> DEFINE store == Encrypted(keyring)
<1>1. store.roles = IsRoleBased(keyring) /\ store.cipher = keyring.keys
  BY DEF Encrypted
<1>2. CASE keyring.keys \in [Roles -> Seq(Keys)] /\ keyring.kind = "roleBased"
  <2>1. store.roles
    BY <1>1, <1>2 DEF IsRoleBased
  <2> HIDE DEF store
  <2>2. Decrypted(store) = RoleBasedKeyring(store.cipher)
    BY <2>1 DEF Decrypted
  <2>3. [r \in Roles |-> IF r <= Len(keyring.keys) THEN keyring.keys[r] ELSE << >>]
          \in [Roles -> Seq(Keys)]
    BY <1>2
  <2> QED BY <1>1, <2>2, <2>3 DEF RoleBasedKeyring, AllKeyrings, store
<1>3. CASE keyring.keys \in Seq(Keys) /\ keyring.kind # "roleBased"
  <2>1. /\ Len(keyring.keys) = 1 => Decrypted(store) = SingleKeyring(keyring.keys[1])
        /\ Len(keyring.keys) # 1 => Decrypted(store) = MultipleKeyring(keyring.keys)
    BY <1>1, <1>3 DEF Decrypted, IsRoleBased
  <2>2. CASE Len(keyring.keys) = 1
    <3>1. keyring.keys[1] \in Keys
      BY <1>3, <2>2
    <3> QED BY <2>1, <2>2, <3>1 DEF SingleKeyring, AllKeyrings
  <2>3. CASE Len(keyring.keys) # 1
    BY <1>3, <2>1, <2>3 DEF MultipleKeyring, AllKeyrings
  <2> QED BY <2>2, <2>3
<1>4. \/ keyring.keys \in [Roles -> Seq(Keys)] /\ keyring.kind = "roleBased"
      \/ keyring.keys \in Seq(Keys) /\ keyring.kind # "roleBased"
  <2>1. CASE keyring \in [kind : {"single"}, keys : [1 .. 1 -> Keys]]
    <3>1. keyring.keys \in [1 .. 1 -> Keys] /\ keyring.kind = "single" /\ 1 \in Nat
      BY <2>1
    <3>2. keyring.keys \in Seq(Keys)
      BY <3>1, SeqDef
    <3> QED BY <3>1, <3>2
  <2>2. CASE keyring \in [kind : {"multiple"}, keys : Seq(Keys)]
    BY <2>2
  <2>3. CASE keyring \in [kind : {"roleBased"}, keys : [Roles -> Seq(Keys)]]
    BY <2>3
  <2> QED BY <2>1, <2>2, <2>3 DEF AllKeyrings
<1> QED BY <1>2, <1>3, <1>4

(* A keyring comes in or goes.                                             *)
LEMMA PutPreserves ==
  ASSUME WalletInv, NEW a \in Addresses,
         NEW keyring \in AllKeyrings \union {NoKeyring}, Put(a, keyring)
  PROVE  WalletInv'
<1> USE DEF WalletInv, Put
<1>1. KeyringsTyped'
  BY WalletAssumption DEF KeyringsTyped, Counted
<1>2. ChainAnswers'
  BY DEF ChainAnswers
<1>3. UpdateCarried'
  BY DEF UpdateCarried
<1> QED BY <1>1, <1>2, <1>3

(* An update is signed, with a key that was made of a keyring or was not.  *)
LEMMA SignUpdatePreserves ==
  ASSUME WalletInv, NEW a \in Addresses, NEW key \in NewKeys,
         NEW from \in AllKeyrings \union {NoKeyring},
         from # NoKeyring => MadeFrom(key, from),
         SignUpdate(a, key, from)
  PROVE  WalletInv'
<1> USE DEF WalletInv, SignUpdate
<1>1. KeyringsTyped'
  BY WalletAssumption DEF KeyringsTyped, Counted
<1>2. ChainAnswers'
  BY DEF ChainAnswers
<1>3. UpdateCarried'
  BY KeyDecoded DEF UpdateCarried
<1> QED BY <1>1, <1>2, <1>3

(* The node decides on the update.                                         *)
LEMMA DecidedPreserves == ASSUME WalletInv, UpdateDecided PROVE WalletInv'
<1> USE DEF WalletInv, UpdateDecided
<1>1. KeyringsTyped'
  BY DEF KeyringsTyped
<1>2. UpdateCarried'
  BY DEF UpdateCarried, NoUpdate
<1>3. ChainAnswers'
  <2> DEFINE a == update.address
             new == Decoded(update.key)
  <2>1. CASE UpdateAccepted /\ Updatable(accountKey[a], new)
    <3>1. /\ accountKey' = [accountKey EXCEPT ![a] = Updated(accountKey[a], new)]
          /\ basis' = [basis EXCEPT ![a] = update.from]
      BY <2>1
    <3>2. /\ a \in Addresses /\ new \in NewKeys /\ update.from \in AllKeyrings \union {NoKeyring}
          /\ update.from # NoKeyring => MadeFrom(new, update.from)
      BY DEF UpdateCarried
    <3>3. HeldKey(accountKey[a])
      BY <3>2 DEF ChainAnswers
    <3> HIDE DEF new, a
    <3>4. /\ HeldKey(Updated(accountKey[a], new))
          /\ update.from # NoKeyring =>
               Answers(a, Updated(accountKey[a], new), update.from)
      BY <2>1, <3>2, <3>3, UpdatedKey
    <3> QED BY <3>1, <3>2, <3>4 DEF ChainAnswers
  <2>2. CASE ~ (UpdateAccepted /\ Updatable(accountKey[a], new))
    BY <2>2 DEF ChainAnswers
  <2> QED BY <2>1, <2>2
<1> QED BY <1>1, <1>2, <1>3

(* Every step of caver.wallet.                                             *)
LEMMA WalletStep == ASSUME WalletInv, [WalletNext]_walletVars PROVE WalletInv'
<1>1. ASSUME NEW a \in Addresses, NEW keyring \in Keyrings[a],
             Add(a, keyring) \/ UpdateKeyring(a, keyring)
      PROVE  WalletInv'
  <2>1. keyring \in AllKeyrings
    BY WalletAssumption
  <2> QED BY <1>1, <2>1, PutPreserves DEF Add, UpdateKeyring
<1>2. ASSUME NEW a \in Addresses, NEW keyring \in Keyrings[a], NEW opts \in RoleOptions,
             StartUpdate(a, keyring, opts)
      PROVE  WalletInv'
  <2>1. keyring \in AllKeyrings /\ opts \in OptionArrays
    <3>1. DOMAIN opts \subseteq Roles /\ opts \in [DOMAIN opts -> Option]
      BY WalletAssumption DEF Option
    <3>2. keyring \in AllKeyrings
      BY WalletAssumption
    <3> QED BY <3>1, <3>2 DEF OptionArrays
  <2>2. ToAccount(keyring, opts) # Refused /\ SignUpdate(a, ToAccount(keyring, opts), keyring)
    BY <1>2 DEF StartUpdate, SignUpdate
  <2>3. ToAccount(keyring, opts) \in NewKeys /\ MadeFrom(ToAccount(keyring, opts), keyring)
    BY <2>1, <2>2, AccountMade
  <2> QED BY <2>1, <2>2, <2>3, SignUpdatePreserves
<1>3. ASSUME NEW a \in Addresses, Remove(a) \/ UpdateKeyringFails(a) PROVE WalletInv'
  BY <1>3, PutPreserves DEF Remove, UpdateKeyringFails
<1>4. ASSUME NEW a \in Addresses, Restore(a) PROVE WalletInv'
  <2>1. keyrings[a] \in AllKeyrings
    BY <1>4 DEF WalletInv, KeyringsTyped, Restore, IsExisted
  <2>2. Decrypted(Encrypted(keyrings[a])) \in AllKeyrings
    BY <1>4, <2>1, DecryptedIsKeyring DEF Restore
  <2> QED BY <1>4, <2>2, PutPreserves DEF Restore, UpdateKeyring
<1>5. ASSUME NEW a \in Addresses, NEW kss \in ShortRoles, StartShortUpdate(a, kss)
      PROVE  WalletInv'
  <2> DEFINE empty == [r \in DOMAIN kss |-> EmptyOptions]
             key == RoleBasedFromKeys(kss, empty)
  <2>1. kss \in Seq(Seq(Keys)) /\ \A r \in DOMAIN kss : empty[r] \in Option
    BY WalletAssumption DEF EmptyOptions, Option
  <2>2. key # Refused /\ SignUpdate(a, key, NoKeyring)
    BY <1>5 DEF StartShortUpdate, SignUpdate
  <2> HIDE DEF empty
  <2>3. key \in NewKeys
    BY <2>1, <2>2, RoleBasedTyped DEF NewKeys
  <2> HIDE DEF key
  <2> QED BY <2>2, <2>3, SignUpdatePreserves
<1>6. ASSUME UpdateSigned PROVE WalletInv'
  BY <1>6 DEF WalletInv, UpdateSigned, KeyringsTyped, ChainAnswers, UpdateCarried
<1>7. ASSUME UpdateFails PROVE WalletInv'
  BY <1>7 DEF WalletInv, UpdateFails, KeyringsTyped, ChainAnswers, UpdateCarried, NoUpdate
<1>8. ASSUME UNCHANGED walletVars PROVE WalletInv'
  BY <1>8 DEF walletVars, WalletInv, KeyringsTyped, ChainAnswers, UpdateCarried
<1> QED BY <1>1, <1>2, <1>3, <1>4, <1>5, <1>6, <1>7, <1>8, DecidedPreserves DEF WalletNext

-----------------------------------------------------------------------------
(* A contract call: a captured keyring signs, and nothing else takes the   *)
(* place of its signatures.                                                *)

Executing == {"made", "looked", "signing", "filling", "payerLooked", "payerSigning",
              "nodePays", "nodeSigns", "sent", "returned"}
CallFields == {"phase", "type", "delegated", "payer", "signatures", "payerSignatures",
               "signer", "payerSigner", "own"}

SignedByCaptured(c) ==
  /\ DOMAIN c = CallFields
  /\ c.payer \in Payers \union {Undefined}
  /\ OneEach(c.signatures) /\ OneEach(c.payerSignatures)
  /\ c.phase \in {"made", "looked"} => c.signer = NoKeyring
  /\ c.signer # NoKeyring => /\ c.type = "send" => c.own
                             /\ c.signer \in AllKeyrings
  /\ c.signer # NoKeyring /\ c.phase # "signing" =>
       c.signatures = SignedBy(c.signer, TransactionRole)
  /\ c.phase \notin {"signing", "payerSigning", "nodeSigns", "sent", "returned"} =>
       c.payerSigner = NoKeyring
  /\ c.phase = "signing" /\ c.type = "send" => c.payerSigner = NoKeyring
  /\ c.payerSigner # NoKeyring =>
       /\ c.payer \in Addresses /\ c.payerSigner \in AllKeyrings
       /\ c.phase # "payerSigning" =>
            c.payerSignatures = SignedBy(c.payerSigner, FeePayerRole)
  /\ c.type = "signAsFeePayer" \/ c.phase = "nodePays" => c.payer # Undefined
  /\ c.phase = "signing" => c.signer # NoKeyring
  /\ c.phase = "payerSigning" => c.payerSigner # NoKeyring
  /\ c.phase = "returned" => c.type # "send"
  /\ c.phase = "filling" => c.type = "send"
  /\ c.phase = "nodeSigns" => c.signer = NoKeyring

(* The Validator was told keys that accounts had; it asks for the fee      *)
(* payer's only when the sender's signatures are accepted.                 *)
ValidationFields == {"phase", "delegated", "payer", "signatures", "payerSignatures",
                     "senderKey", "payerKey", "verdict"}
SenderAgreed(c) == NodeAccepts(Sender, c.senderKey, Range(c.signatures), TransactionRole)
PayerAgreed(c) == NodeAccepts(c.payer, c.payerKey, Range(c.payerSignatures), FeePayerRole)
ValidatedSoFar(c) ==
  /\ DOMAIN c = ValidationFields
  /\ c.payer \in Payers \union {Undefined}
  /\ OneEach(c.signatures) /\ OneEach(c.payerSignatures)
  /\ HeldKey(c.senderKey)
  /\ c.payerKey # AccountKeyNil => c.delegated /\ HeldKey(c.payerKey) /\ SenderAgreed(c)
Agreed(c) ==
  c.verdict # "thrown" =>
    (c.verdict = "valid" <=> SenderAgreed(c) /\ (c.delegated => PayerAgreed(c)))

CallInv ==
  /\ options \in Options /\ settings \in 0 .. MaxSettings
  /\ "phase" \in DOMAIN call
  /\ call.phase \in Executing \union {"none", "estimating", "validating", "validated",
                                      "accepted", "rejected"}
  /\ call.phase = "estimating" =>
       /\ DOMAIN call = {"phase", "params"}
       /\ call.params.payer \in Payers \union {Undefined}
  /\ call.phase \in Executing => SignedByCaptured(call)
  /\ call.phase = "validating" => ValidatedSoFar(call)
  /\ call.phase = "validated" => Agreed(call)

(* Nothing is called, initially.                                           *)
LEMMA CallInitially == ContractInit => CallInv
BY CallAssumption DEF ContractInit, CallInv, NoCall, Executing, Options

(* A new transaction has no signatures.                                    *)
LEMMA TransactionSigned ==
  ASSUME NEW type, NEW o, o.payer \in Payers \union {Undefined}, TransactionMade(type, o)
  PROVE  Transaction(type, o).phase = "made" /\ SignedByCaptured(Transaction(type, o))
<1>1. OneEach(<< >>)
  <2>1. Len(<< >>) = 0 /\ 1 .. 0 = {} /\ DOMAIN << >> = {}
    OBVIOUS
  <2>2. << >> = [i \in {} |-> << >>[i]]
    OBVIOUS
  <2> QED BY <2>1, <2>2 DEF OneEach
<1>2. type = "signAsFeePayer" => o.payer # Undefined
  BY DEF TransactionMade
<1> QED BY <1>1, <1>2 DEF Transaction, SignedByCaptured, CallFields

(* A contract is called or deployed,                                       *)
LEMMA ExecuteKeeps ==
  ASSUME CallInv, NEW type, NEW o \in Options, Execute(type, o)
  PROVE  CallInv'
<1>1. WithDefaults(o).payer \in Payers \union {Undefined}
  BY DEF CallInv, WithDefaults, Options
<1>2. call'.phase = "made" /\ SignedByCaptured(call') /\ UNCHANGED <<options, settings>>
  BY <1>1, TransactionSigned DEF Execute
<1> QED BY <1>2 DEF CallInv, SignedByCaptured, CallFields, Executing

(* its gas is estimated,                                                   *)
LEMMA EstimatedKeeps == ASSUME CallInv, Estimated PROVE CallInv'
<1>1. WithDefaults(call.params).payer \in Payers \union {Undefined}
  BY DEF CallInv, WithDefaults, Options, Estimated
<1>2. UNCHANGED <<options, settings>>
  BY DEF Estimated
<1>3. \/ call' = NoCall
      \/ call'.phase = "made" /\ SignedByCaptured(call')
  BY <1>1, TransactionSigned DEF Estimated
<1> QED BY <1>2, <1>3 DEF CallInv, SignedByCaptured, CallFields, Executing, NoCall

(* and its options are set in the meantime.                                *)
LEMMA OptionsKeep == ASSUME CallInv, SetOptions PROVE CallInv'
<1>1. options' \in Options
  BY DEF SetOptions, SetFeePayer, SetFeeDelegation, CallInv, Options
<1>2. settings' \in 0 .. MaxSettings
  BY CallAssumption DEF SetOptions, CallInv
<1> QED BY <1>1, <1>2 DEF SetOptions, CallInv

(* What a keyring signs, and the node, is refined.                         *)
LEMMA SignedOnce ==
  ASSUME NEW keyring \in AllKeyrings, NEW role \in Roles
  PROVE  /\ OneEach(SignedBy(keyring, role))
         /\ Range(SignedBy(keyring, role)) = Range(KeysByRole(keyring, role))
<1>1. KeysByRole(keyring, role) \in Seq(Keys)
  <2>1. CASE keyring \in [kind : {"single"}, keys : [1 .. 1 -> Keys]]
    <3>1. KeysByRole(keyring, role) \in [1 .. 1 -> Keys]
      BY <2>1 DEF KeysByRole, IsRoleBased
    <3> QED BY <3>1
  <2>2. CASE keyring \in [kind : {"multiple"}, keys : Seq(Keys)]
    BY <2>2 DEF KeysByRole, IsRoleBased
  <2>3. CASE keyring \in [kind : {"roleBased"}, keys : [Roles -> Seq(Keys)]]
    BY <2>3 DEF KeysByRole, IsRoleBased, Roles, TransactionRole
  <2> QED BY <2>1, <2>2, <2>3 DEF AllKeyrings
<1> DEFINE ks == KeysByRole(keyring, role)
<1>2. Plain(ks)
  BY <1>1 DEF Plain
<1> HIDE DEF ks
<1>3. OneEach(Refined(ks)) /\ Range(Refined(ks)) = Range(ks)
  BY <1>2, RefinedIs
<1> QED BY <1>3 DEF ks, SignedBy

(* The same holds of what the node signs with the keys it holds.           *)
LEMMA NodeSignedOnce ==
  ASSUME WalletInv, NEW a \in Addresses, NEW role
  PROVE  OneEach(Refined(HeldByNode(a, role)))
<1> DEFINE key == KeyForRole(accountKey[a], role)
           ks == HeldByNode(a, role)
<1>1. HeldRole(key)
  BY DEF WalletInv, ChainAnswers, HeldKey, KeyForRole, RolesOf
<1>2. Plain(ks)
  <2>1. CASE key.type = "legacy"
    BY <2>1 DEF HeldByNode, Plain
  <2>2. CASE key.type = "public"
    BY <2>2 DEF HeldByNode, Plain
  <2>3. CASE key.type = "multisig"
    <3>1. ks = [i \in DOMAIN key.keys |-> key.keys[i].key]
      BY <2>3 DEF HeldByNode
    <3>2. Len(key.keys) \in Nat /\ DOMAIN key.keys = 1 .. Len(key.keys)
      BY <1>1, <2>3, WeightsTyped DEF HeldRole
    <3> DEFINE n == Len(key.keys)
               K == {key.keys[i].key : i \in 1 .. n}
    <3>3. ks = [i \in 1 .. n |-> key.keys[i].key]
      BY <3>1, <3>2
    <3> HIDE DEF n, ks
    <3>4. ks \in [1 .. n -> K] /\ n \in Nat
      BY <3>2, <3>3 DEF n
    <3> HIDE DEF K
    <3> QED BY <3>4 DEF Plain
  <2> QED BY <1>1, <2>1, <2>2, <2>3 DEF HeldRole
<1> HIDE DEF ks
<1> QED BY <1>2, RefinedIs DEF ks

(* Each step of an execution. *)
LEMMA ExecutionKeeps ==
  ASSUME WalletInv, CallInv,
         \/ LookedUp \/ CaptureSender \/ CapturePayer \/ SenderSigns
         \/ PayerLookedUp \/ WithoutPayer \/ NoOwnSender \/ PayerSigns
         \/ NodePays \/ NodeSigns
         \/ (\E a \in Payers : SignReturnedAsFeePayer(a)) \/ SignReturned
  PROVE  CallInv'
<1> SUFFICES call.phase \in Executing /\ call'.phase \in Executing
             /\ SignedByCaptured(call') /\ UNCHANGED <<options, settings>>
  BY DEF CallInv, SignedByCaptured, CallFields, Executing
<1>0. keyrings \in [Addresses -> AllKeyrings \union {NoKeyring}]
  BY DEF WalletInv, KeyringsTyped
<1> USE DEF CallInv, Step, Executing, CallFields, IsSend, ForPayer
<1>1. CASE LookedUp
  BY <1>1 DEF LookedUp, SignedByCaptured
<1>2. CASE CaptureSender
  BY <1>0, <1>2, CallAssumption DEF CaptureSender, SignedByCaptured, IsExisted
<1>3. CASE CapturePayer
  BY <1>0, <1>3, CallAssumption DEF CapturePayer, SignedByCaptured, IsExisted
<1>4. CASE SenderSigns
  <2>1. call.signer \in AllKeyrings /\ TransactionRole \in Roles
    BY <1>4 DEF SenderSigns, SignedByCaptured, TransactionRole, Roles
  <2>2. OneEach(SignedBy(call.signer, TransactionRole))
    BY <2>1, SignedOnce
  <2> QED BY <1>4, <2>2 DEF SenderSigns, SignedByCaptured
<1>5. CASE PayerLookedUp
  BY <1>5 DEF PayerLookedUp, SignedByCaptured
<1>6. CASE WithoutPayer
  BY <1>6 DEF WithoutPayer, SignedByCaptured
<1>7. CASE NoOwnSender
  BY <1>7 DEF NoOwnSender, SignedByCaptured
<1>8. CASE PayerSigns
  <2>1. call.payerSigner \in AllKeyrings /\ FeePayerRole \in Roles
    BY <1>8 DEF PayerSigns, SignedByCaptured, FeePayerRole, Roles
  <2>2. OneEach(SignedBy(call.payerSigner, FeePayerRole))
    BY <2>1, SignedOnce
  <2> QED BY <1>8, <2>2 DEF PayerSigns, SignedByCaptured, AfterPayer
<1>9. CASE NodePays
  <2>1. call.payer \in Addresses
    BY <1>9, CallAssumption DEF NodePays, SignedByCaptured
  <2>2. OneEach(Refined(HeldByNode(call.payer, FeePayerRole)))
    BY <2>1, NodeSignedOnce
  <2> QED BY <1>9, <2>2 DEF NodePays, SignedByCaptured, AfterPayer
<1>10. CASE NodeSigns
  <2>1. OneEach(Refined(HeldByNode(Sender, TransactionRole)))
    BY NodeSignedOnce, CallAssumption
  <2> QED BY <1>10, <2>1 DEF NodeSigns, SignedByCaptured
<1>11. CASE \E a \in Payers : SignReturnedAsFeePayer(a)
  <2>1. PICK a \in Payers : SignReturnedAsFeePayer(a)
    BY <1>11
  <2>2. a \in Addresses /\ keyrings[a] \in AllKeyrings /\ keyrings[a] # NoKeyring
    BY <1>0, <2>1, CallAssumption DEF SignReturnedAsFeePayer, IsExisted
  <2> QED BY <2>1, <2>2 DEF SignReturnedAsFeePayer, SignedByCaptured
<1>12. CASE SignReturned
  <2>1. keyrings[Sender] \in AllKeyrings /\ keyrings[Sender] # NoKeyring
    BY <1>0, <1>12, CallAssumption DEF SignReturned, IsExisted
  <2> QED BY <1>12, <2>1 DEF SignReturned, SignedByCaptured
<1> QED BY <1>1, <1>2, <1>3, <1>4, <1>5, <1>6, <1>7, <1>8, <1>9, <1>10, <1>11, <1>12

(* The account key is asked for.                                           *)
LEMMA ValidateKeeps == ASSUME WalletInv, CallInv, Validate PROVE CallInv'
<1>1. /\ call.phase = "returned" /\ UNCHANGED <<options, settings>>
      /\ call' = [phase |-> "validating", delegated |-> call.delegated, payer |-> call.payer,
                  signatures |-> call.signatures, payerSignatures |-> call.payerSignatures,
                  senderKey |-> accountKey[Sender], payerKey |-> AccountKeyNil,
                  verdict |-> "none"]
  BY DEF Validate, Step
<1>2. SignedByCaptured(call)
  BY <1>1 DEF CallInv, Executing
<1>3. HeldKey(accountKey[Sender])
  BY CallAssumption DEF WalletInv, ChainAnswers
<1>4. ValidatedSoFar(call')
  BY <1>1, <1>2, <1>3 DEF SignedByCaptured, ValidatedSoFar, ValidationFields
<1>5. "phase" \in DOMAIN call' /\ call'.phase = "validating"
  BY <1>1
<1> QED BY <1>1, <1>4, <1>5 DEF CallInv, Executing

(* The sender's signatures are decided, and if they are valid the key of   *)
(* the fee payer is asked for.                                             *)
LEMMA ValidateSenderKeeps == ASSUME WalletInv, CallInv, ValidateSender PROVE CallInv'
<1> DEFINE v == Validation(Sender, call.senderKey, call.signatures, TransactionRole)
           askPayer == v = "valid" /\ call.delegated
           done(w) == [call EXCEPT !.phase = "validated", !.verdict = w]
<1>1. /\ call.phase = "validating" /\ call.payerKey = AccountKeyNil
      /\ UNCHANGED <<options, settings>>
      /\ call' = IF ~askPayer THEN done(v)
                 ELSE IF call.payer = Undefined THEN done("thrown")
                 ELSE [call EXCEPT !.payerKey = accountKey[call.payer]]
  BY DEF ValidateSender, Step
<1>2. ValidatedSoFar(call)
  BY <1>1 DEF CallInv
<1>3. /\ v \in {"thrown", "valid", "invalid"}
      /\ v # "thrown" => (v = "valid" <=> SenderAgreed(call))
  BY <1>2, VerdictAgrees DEF ValidatedSoFar, SenderAgreed
<1> HIDE DEF v
<1>4. ASSUME NEW w, call' = done(w) PROVE
        /\ "phase" \in DOMAIN call' /\ call'.phase = "validated" /\ call'.verdict = w
        /\ (SenderAgreed(call') <=> SenderAgreed(call)) /\ (call'.delegated <=> call.delegated)
  BY <1>2, <1>4 DEF ValidatedSoFar, ValidationFields, SenderAgreed
<1>5. CASE ~askPayer
  <2>1. call' = done(v)
    BY <1>1, <1>5
  <2> HIDE DEF done
  <2>2. Agreed(call')
    BY <1>3, <1>4, <1>5, <2>1 DEF Agreed
  <2> QED BY <1>1, <1>4, <2>1, <2>2 DEF CallInv, Executing
<1>6. CASE askPayer /\ call.payer = Undefined
  <2>1. call' = done("thrown")
    BY <1>1, <1>6
  <2> HIDE DEF done
  <2>2. Agreed(call')
    BY <1>4, <2>1 DEF Agreed
  <2> QED BY <1>1, <1>4, <2>1, <2>2 DEF CallInv, Executing
<1>7. CASE askPayer /\ call.payer # Undefined
  <2>1. call' = [call EXCEPT !.payerKey = accountKey[call.payer]]
    BY <1>1, <1>7
  <2>2. call.payer \in Addresses
    BY <1>2, <1>7, CallAssumption DEF ValidatedSoFar
  <2>3. HeldKey(accountKey[call.payer])
    BY <2>2 DEF WalletInv, ChainAnswers
  <2>4. SenderAgreed(call) /\ call.delegated
    BY <1>3, <1>7
  <2>5. ValidatedSoFar(call')
    BY <1>2, <2>1, <2>3, <2>4 DEF ValidatedSoFar, ValidationFields, SenderAgreed
  <2>6. "phase" \in DOMAIN call' /\ call'.phase = "validating"
    BY <1>1, <1>2, <2>1 DEF ValidatedSoFar, ValidationFields
  <2> QED BY <1>1, <2>5, <2>6 DEF CallInv, Executing
<1> QED BY <1>5, <1>6, <1>7

(* The fee payer's signatures are decided.                                 *)
LEMMA ValidateFeePayerKeeps == ASSUME CallInv, ValidateFeePayer PROVE CallInv'
<1> DEFINE v == Validation(call.payer, call.payerKey, call.payerSignatures, FeePayerRole)
<1>1. /\ call.phase = "validating" /\ call.payerKey # AccountKeyNil
      /\ UNCHANGED <<options, settings>>
      /\ call' = [call EXCEPT !.phase = "validated", !.verdict = v]
  BY DEF ValidateFeePayer, Step
<1>2. ValidatedSoFar(call)
  BY <1>1 DEF CallInv
<1>3. v # "thrown" => (v = "valid" <=> PayerAgreed(call))
  BY <1>1, <1>2, VerdictAgrees DEF ValidatedSoFar, PayerAgreed
<1> HIDE DEF v
<1>4. /\ "phase" \in DOMAIN call' /\ call'.phase = "validated" /\ call'.verdict = v
      /\ SenderAgreed(call') <=> SenderAgreed(call)
      /\ PayerAgreed(call') <=> PayerAgreed(call)
      /\ call'.delegated <=> call.delegated
  BY <1>1, <1>2 DEF ValidatedSoFar, ValidationFields, SenderAgreed, PayerAgreed
<1>5. SenderAgreed(call) /\ call.delegated
  BY <1>1, <1>2 DEF ValidatedSoFar
<1>6. Agreed(call')
  BY <1>3, <1>4, <1>5 DEF Agreed
<1> QED BY <1>1, <1>4, <1>6 DEF CallInv, Executing

(* Every step of a call.                                                   *)
LEMMA CallStep == ASSUME WalletInv, CallInv, [ContractNext]_contractVars PROVE CallInv'
<1>1. ASSUME NEW o \in Options, ExecuteToken(o) PROVE CallInv'
  BY <1>1 DEF ExecuteToken, SendParams, CallInv, Options, Executing
<1>2. ASSUME Fails PROVE CallInv'
  BY <1>2 DEF Fails, CallInv, NoCall, Executing
<1>3. ASSUME NodeDecides PROVE CallInv'
  BY <1>3 DEF NodeDecides, Step, CallInv, Executing
<1>4. ASSUME UNCHANGED contractVars PROVE CallInv'
  BY <1>4 DEF contractVars, CallInv
<1> QED BY <1>1, <1>2, <1>3, <1>4, ExecuteKeeps, EstimatedKeeps, OptionsKeep, ExecutionKeeps,
           ValidateKeeps, ValidateSenderKeeps, ValidateFeePayerKeeps DEF ContractNext

(* A keyring that stands for an account in a role signs in it with keys    *)
(* the node accepts.                                                       *)
LEMMA StandingAnswers ==
  ASSUME WalletInv, NEW a \in Addresses, NEW role \in Roles, NEW keyring,
         StandsFor(keyring, a, role)
  PROVE  NodeAccepts(a, accountKey[a], Range(KeysByRole(keyring, role)), role)
<1>1. basis[a] # NoKeyring /\ SameKeys(keyring, basis[a])
      /\ (IsRoleBased(keyring) => keyring.keys[role] # << >>)
  BY DEF StandsFor
<1>2. Answers(a, accountKey[a], basis[a])
  BY <1>1 DEF WalletInv, ChainAnswers
<1>3. NodeAccepts(a, accountKey[a], Range(KeysByRole(basis[a], role)), role)
  BY <1>1, <1>2 DEF Answers, SameKeys
<1>4. KeysByRole(keyring, role) = KeysByRole(basis[a], role)
  BY <1>1 DEF SameKeys, KeysByRole
<1> QED BY <1>3, <1>4

(* So what was signed with it is accepted.                                 *)
LEMMA AcceptedFollows == WalletInv /\ CallInv => SignedIsAccepted
<1> SUFFICES ASSUME WalletInv, CallInv PROVE SignedIsAccepted
  OBVIOUS
<1>1. ASSUME call.phase \in {"sent", "returned"},
             call.signer # NoKeyring, StandsFor(call.signer, Sender, TransactionRole)
      PROVE  SenderAccepted
  <2>1. /\ call.signatures = SignedBy(call.signer, TransactionRole)
        /\ call.signer \in AllKeyrings
    BY <1>1 DEF CallInv, SignedByCaptured, Executing
  <2>2. Sender \in Addresses /\ TransactionRole \in Roles
    BY CallAssumption DEF TransactionRole, Roles
  <2>3. Range(call.signatures) = Range(KeysByRole(call.signer, TransactionRole))
    BY <2>1, <2>2, SignedOnce
  <2> QED BY <1>1, <2>2, <2>3, StandingAnswers DEF SenderAccepted
<1>2. ASSUME call.phase \in {"sent", "returned"},
             call.payerSigner # NoKeyring, StandsFor(call.payerSigner, call.payer, FeePayerRole)
      PROVE  PayerAccepted
  <2>1. /\ call.payerSignatures = SignedBy(call.payerSigner, FeePayerRole)
        /\ call.payer \in Addresses /\ call.payerSigner \in AllKeyrings
    BY <1>2 DEF CallInv, SignedByCaptured, Executing
  <2>2. FeePayerRole \in Roles
    BY DEF FeePayerRole, Roles
  <2>3. Range(call.payerSignatures) = Range(KeysByRole(call.payerSigner, FeePayerRole))
    BY <2>1, <2>2, SignedOnce
  <2> QED BY <1>2, <2>1, <2>2, <2>3, StandingAnswers DEF PayerAccepted
<1>3. ASSUME update.phase = "sent", StandsFor(update.signer, update.address, AccountUpdateRole)
      PROVE  UpdateAccepted
  <2>1. update.address \in Addresses
    BY <1>3 DEF WalletInv, UpdateCarried
  <2>2. AccountUpdateRole \in Roles
    BY DEF AccountUpdateRole, Roles
  <2> QED BY <1>3, <2>1, <2>2, StandingAnswers DEF UpdateAccepted
<1> QED BY <1>1, <1>2, <1>3 DEF SignedIsAccepted

-----------------------------------------------------------------------------
(* caver.klay.accounts.wallet.  Its invariant says of a wallet w, of what  *)
(* addresses were given (g), of those that were in it twice (tw) and of    *)
(* those that share the instance (sh): the counts are right; an account    *)
(* stands under its index, and what is entered stands there; keys are      *)
(* shared only through the instance or by accounts of one address; and an  *)
(* address that was never there twice is found under all its spellings,    *)
(* with the key it was given.                                              *)

AccountsHeld == [address : LegacyAddresses \X Spelled, index : Indexes]
WalletFields == {"slots", "entries", "lastIndex", "length", "account", "refers", "content"}
TypedWallet(w) ==
  /\ DOMAIN w = WalletFields
  /\ w.slots \in [Indexes -> Accounts \union {Nothing}]
  /\ w.entries \in [LegacyAddresses \X Spellings -> Accounts \union {Nothing}]
  /\ w.account \in [Accounts -> AccountsHeld \union {Nothing}]
  /\ w.refers \in [Accounts -> KeyObjects \union {Nothing}]
  /\ w.content \in [KeyObjects -> AllContents \union {Nothing}]
Counting(w) ==
  /\ w.length = Cardinality(Slots(w))
  /\ w.lastIndex \in Slots(w) \union {-1}
  /\ \A i \in Slots(w) : i <= w.lastIndex

Standing(w, n) == w.account[n] \in AccountsHeld /\ w.slots[w.account[n].index] = n
Of(w, n) == w.account[n].address[1]
Indexing(w) ==
  /\ \A i \in Slots(w) : Standing(w, w.slots[i]) /\ w.account[w.slots[i]].index = i
  /\ \A e \in DOMAIN w.entries : w.entries[e] # Nothing =>
       /\ Standing(w, w.entries[e]) /\ Of(w, w.entries[e]) = e[1]
       /\ e[2] \in Written \union {w.account[w.entries[e]].address[2]}

Sharing(w, tw, sh) ==
  /\ w.content[Instance] # Nothing
  /\ \A n \in Accounts : Standing(w, n) /\ w.refers[n] # Nothing =>
       w.content[w.refers[n]] # Nothing
  /\ \A n \in Accounts : Standing(w, n) /\ w.refers[n] = Instance => Of(w, n) \in tw \union sh
  /\ \A n, m \in Accounts :
       Standing(w, n) /\ Standing(w, m) /\ w.refers[n] = w.refers[m] =>
         w.refers[n] \in {Nothing, Instance} \/ Of(w, n) = Of(w, m)

Once(w, tw) ==
  \A n \in Accounts : Standing(w, n) /\ Of(w, n) \notin tw =>
    /\ \A m \in Accounts : Standing(w, m) /\ Of(w, m) = Of(w, n) => m = n
    /\ \A s \in Written \union {w.account[n].address[2]} : w.entries[<<Of(w, n), s>>] = n
    /\ w.refers[n] # Nothing
Keeping(w, g, tw, sh) ==
  /\ g \in [LegacyAddresses -> AllContents \union {Nothing}]
  /\ \A a \in LegacyAddresses \ tw :
       (\E n \in Accounts : Standing(w, n) /\ Of(w, n) = a) <=> g[a] # Nothing
  /\ \A n \in Accounts : Standing(w, n) /\ Of(w, n) \notin tw \union sh =>
       w.content[w.refers[n]] = g[Of(w, n)]

WalletInvOf(w, g, tw, sh) ==
  TypedWallet(w) /\ Counting(w) /\ Indexing(w) /\ Sharing(w, tw, sh)
    /\ Once(w, tw) /\ Keeping(w, g, tw, sh)
RequestInv ==
  /\ "phase" \in DOMAIN request
  /\ request.phase \in {"none", "pricing", "sent"}
  /\ request.phase = "pricing" => request.address \in LegacyAddresses
  /\ LegacyCallSigned
LegacyInv ==
  /\ WalletInvOf(wallet, given, twice, shared)
  /\ RequestInv /\ legacyCalls \in 0 .. MaxLegacy

-----------------------------------------------------------------------------
(* What the operations of the legacy wallet rest on.                       *)

(* A set of indices has a greatest member,                                 *)
LEMMA Greatest ==
  ASSUME NEW M \in Nat, NEW S \in SUBSET (-1 .. M), S # {}
  PROVE  Max(S) \in S /\ \A y \in S : y <= Max(S)
<1> DEFINE T == {n \in Nat : \E x \in S : n = M - x}
<1>1. T # {}
  <2>1. PICK x \in S : TRUE
    OBVIOUS
  <2>2. M - x \in T
    OBVIOUS
  <2> QED BY <2>2
<1>2. Min(T) \in T /\ \A n \in T : Min(T) <= n
  <2> HIDE DEF T
  <2>1. T \in SUBSET Nat
    BY DEF T
  <2> QED BY <1>1, <2>1, Least
<1>3. PICK x \in S : Min(T) = M - x
  BY <1>2
<1>4. \A y \in S : y <= x
  <2> SUFFICES ASSUME NEW y \in S PROVE y <= x
    OBVIOUS
  <2>1. M - y \in T
    OBVIOUS
  <2>2. M - x <= M - y
    BY <1>2, <1>3, <2>1
  <2> QED BY <2>2
<1> QED BY <1>4 DEF Max

(* which is the one no other exceeds.                                      *)
LEMMA GreatestIs ==
  ASSUME NEW S \in SUBSET Int, NEW x \in S, \A y \in S : y <= x
  PROVE  Max(S) = x
<1>1. \A y \in S : x >= y
  OBVIOUS
<1>2. Max(S) \in S /\ \A y \in S : Max(S) >= y
  BY <1>1 DEF Max
<1> HIDE DEF Max
<1>3. Max(S) <= x /\ x <= Max(S) /\ Max(S) \in Int
  BY <1>2
<1> QED BY <1>3

-----------------------------------------------------------------------------
(* The account objects that stand in the wallet are those in use.          *)
LEMMA AccountsInUse ==
  ASSUME NEW w, TypedWallet(w), Indexing(w)
  PROVE  /\ InUse(w) = {n \in Accounts : Standing(w, n)}
         /\ \A n \in Accounts : Standing(w, n) =>
              /\ w.account[n] \in AccountsHeld /\ w.account[n].index \in Slots(w)
              /\ w.slots[w.account[n].index] = n
<1> USE LegacyAssumption
<1>1. ASSUME NEW n \in Accounts, Standing(w, n)
      PROVE  /\ w.account[n] \in AccountsHeld /\ w.account[n].index \in Slots(w)
             /\ w.slots[w.account[n].index] = n
  <2>1. w.account[n] \in AccountsHeld
    BY <1>1 DEF Standing, TypedWallet
  <2>2. w.account[n].index \in Indexes
    BY <2>1 DEF AccountsHeld
  <2>3. n # Nothing
    OBVIOUS
  <2> QED BY <1>1, <2>1, <2>2, <2>3 DEF Standing, Slots
<1>2. ASSUME NEW n \in InUse(w) PROVE n \in Accounts /\ Standing(w, n)
  <2>1. n \in Accounts /\ n # Nothing
    BY DEF InUse
  <2>2. CASE \E i \in Indexes : w.slots[i] = n
    BY <2>1, <2>2 DEF Indexing, Slots
  <2>3. CASE \E e \in DOMAIN w.entries : w.entries[e] = n
    BY <2>1, <2>3 DEF Indexing
  <2> QED BY <2>1, <2>2, <2>3 DEF InUse
<1>3. ASSUME NEW n \in Accounts, Standing(w, n) PROVE n \in InUse(w)
  BY <1>1, <1>3 DEF InUse, Slots
<1> QED BY <1>1, <1>2, <1>3

(* A new key object is not one that an account refers to.                  *)
LEMMA FreeKeyIsFree ==
  ASSUME NEW w, TypedWallet(w), Indexing(w)
  PROVE  /\ FreeKey(w) \in 1 .. MaxIndex + 1
         /\ \A n \in Accounts : Standing(w, n) => w.refers[n] # FreeKey(w)
<1> DEFINE taken == {w.refers[n] : n \in InUse(w)}
           free == (1 .. MaxIndex + 1) \ taken
<1>1. MaxIndex \in Nat /\ Accounts = 1 .. MaxIndex
  BY LegacyAssumption DEF Accounts
<1>2. free # {}
  <2> SUFFICES ASSUME free = {} PROVE FALSE
    OBVIOUS
  <2>1. \A k \in 1 .. MaxIndex + 1 : \E n \in InUse(w) : k = w.refers[n]
    OBVIOUS
  <2>2. InUse(w) \subseteq Accounts
    BY AccountsInUse
  <2> DEFINE f == [k \in 1 .. MaxIndex + 1 |-> CHOOSE n \in InUse(w) : k = w.refers[n]]
  <2>3. \A k \in 1 .. MaxIndex + 1 : f[k] \in InUse(w) /\ k = w.refers[f[k]]
    BY <2>1
  <2>4. f \in [1 .. MaxIndex + 1 -> Accounts]
    BY <2>2, <2>3
  <2>5. /\ IsFiniteSet(1 .. MaxIndex + 1) /\ IsFiniteSet(1 .. MaxIndex)
        /\ Cardinality(1 .. MaxIndex) < Cardinality(1 .. MaxIndex + 1)
    <3>1. 1 \in Int /\ MaxIndex \in Int /\ MaxIndex + 1 \in Int
      BY <1>1
    <3>2. /\ IsFiniteSet(1 .. MaxIndex) /\ IsFiniteSet(1 .. MaxIndex + 1)
          /\ Cardinality(1 .. MaxIndex) = IF 1 > MaxIndex THEN 0 ELSE MaxIndex - 1 + 1
          /\ Cardinality(1 .. MaxIndex + 1) =
               IF 1 > MaxIndex + 1 THEN 0 ELSE MaxIndex + 1 - 1 + 1
      BY <3>1, FS_Interval
    <3> QED BY <1>1, <3>2
  <2> HIDE DEF f
  <2>6. \E x, y \in 1 .. MaxIndex + 1 : x # y /\ f[x] = f[y]
    <3> DEFINE S == 1 .. MaxIndex + 1
    <3>1. f \in [S -> Accounts] /\ IsFiniteSet(S) /\ IsFiniteSet(Accounts)
          /\ Cardinality(Accounts) < Cardinality(S)
      BY <1>1, <2>4, <2>5
    <3> HIDE DEF S
    <3>2. \E x, y \in S : x # y /\ f[x] = f[y]
      BY <3>1, FS_PigeonHole
    <3> QED BY <3>2 DEF S
  <2> QED BY <2>3, <2>6
<1>3. FreeKey(w) \in free
  <2> HIDE DEF taken
  <2>1. free \in SUBSET Nat
    BY <1>1
  <2> HIDE DEF free
  <2>2. Min(free) \in free
    BY <1>2, <2>1, Least
  <2> QED BY <2>2 DEF FreeKey, free, taken
<1>4. \A n \in Accounts : Standing(w, n) => w.refers[n] \in taken
  BY AccountsInUse
<1> QED BY <1>3, <1>4

-----------------------------------------------------------------------------
(* Adding an account. *)

(* _findSafeIndex finds a free index.                                      *)
LEMMA NewIndex ==
  ASSUME NEW w, TypedWallet(w), Counting(w), Slots(w) # Indexes
  PROVE  FindSafeIndex(w) \in Indexes \ Slots(w)
<1> DEFINE free == (0 .. w.lastIndex + 1) \ Slots(w)
           i == FindSafeIndex(w)
<1>1. MaxIndex \in Nat /\ Indexes = 0 .. MaxIndex - 1 /\ Slots(w) \subseteq Indexes
  BY LegacyAssumption DEF Indexes, Slots
<1>2. w.lastIndex \in Indexes \union {-1} /\ \A j \in Slots(w) : j <= w.lastIndex
  BY <1>1 DEF Counting
<1>3. w.lastIndex + 1 \in free
  BY <1>1, <1>2
<1>4. free \in SUBSET Nat
  BY <1>1
<1>5. i \in free /\ \A j \in free : i <= j
  <2> HIDE DEF free
  <2>1. Min(free) \in free /\ \A j \in free : Min(free) <= j
    BY <1>3, <1>4, Least
  <2> QED BY <2>1 DEF FindSafeIndex, free
<1>6. PICK j \in Indexes : j \notin Slots(w)
  BY <1>1
<1> HIDE DEF i
<1>7. i <= j
  BY <1>1, <1>2, <1>5, <1>6
<1> QED BY <1>1, <1>5, <1>6, <1>7 DEF i

(* A new account object does not stand in the wallet yet.                  *)
LEMMA NewAccount ==
  ASSUME NEW w, TypedWallet(w), Indexing(w), InUse(w) # Accounts
  PROVE  FreeAccount(w) \in Accounts /\ ~Standing(w, FreeAccount(w))
<1> DEFINE free == Accounts \ InUse(w)
<1>1. InUse(w) = {n \in Accounts : Standing(w, n)}
  BY AccountsInUse
<1>2. free # {} /\ free \in SUBSET Nat
  BY <1>1, LegacyAssumption DEF Accounts
<1>3. Min(free) \in free
  <2> HIDE DEF free
  <2> QED BY <1>2, Least
<1> QED BY <1>1, <1>3 DEF FreeAccount

IsAdded(v, w, a, s, c, n, i, o) ==
  /\ DOMAIN v = WalletFields
  /\ v.slots = [w.slots EXCEPT ![i] = n]
  /\ v.entries = [e \in DOMAIN w.entries |->
                    IF e \in {a} \X (Written \union {s}) THEN n ELSE w.entries[e]]
  /\ v.lastIndex = (IF i > w.lastIndex THEN i ELSE w.lastIndex)
  /\ v.length = w.length + 1
  /\ v.account = [w.account EXCEPT ![n] = [address |-> <<a, s>>, index |-> i]]
  /\ v.refers = [w.refers EXCEPT ![n] = o]
  /\ v.content = [w.content EXCEPT ![o] = c]

(* Adding an account, field by field.                                      *)
LEMMA AddedFields ==
  ASSUME NEW w, TypedWallet(w), NEW a, NEW s, NEW c
  PROVE  IsAdded(Added(w, a, s, c), w, a, s, c, FreeAccount(w), FindSafeIndex(w), FreeKey(w))
BY DEF TypedWallet, Added, IsAdded, WalletFields

(* It stands in the wallet after that, and the others do as before.        *)
LEMMA AddedStanding ==
  ASSUME NEW w, TypedWallet(w), Indexing(w),
         NEW a \in LegacyAddresses, NEW s \in Spelled, NEW c \in AllContents,
         NEW n \in Accounts, ~Standing(w, n), NEW i \in Indexes \ Slots(w),
         NEW o \in 1 .. MaxIndex + 1, NEW v, IsAdded(v, w, a, s, c, n, i, o)
  PROVE  /\ Standing(v, n) /\ Of(v, n) = a /\ v.account[n] = [address |-> <<a, s>>, index |-> i]
         /\ \A m \in Accounts \ {n} : /\ Standing(v, m) <=> Standing(w, m)
                                      /\ v.account[m] = w.account[m]
                                      /\ v.refers[m] = w.refers[m]
         /\ v.refers[n] = o
<1> USE DEF TypedWallet, IsAdded
<1>1. v.account[n] = [address |-> <<a, s>>, index |-> i] /\ v.slots[i] = n /\ v.refers[n] = o
  OBVIOUS
<1>2. [address |-> <<a, s>>, index |-> i] \in AccountsHeld
  BY DEF AccountsHeld
<1>3. Standing(v, n) /\ Of(v, n) = a
  BY <1>1, <1>2 DEF Standing, Of
<1>4. ASSUME NEW m \in Accounts \ {n}
      PROVE  /\ Standing(v, m) <=> Standing(w, m)
             /\ v.account[m] = w.account[m] /\ v.refers[m] = w.refers[m]
  <2>1. v.account[m] = w.account[m] /\ v.refers[m] = w.refers[m]
    OBVIOUS
  <2>2. ASSUME w.account[m] \in AccountsHeld
        PROVE  v.slots[w.account[m].index] = m <=> w.slots[w.account[m].index] = m
    <3>1. w.account[m].index \in Indexes
      BY <2>2 DEF AccountsHeld
    <3>2. w.slots[i] = Nothing /\ m # Nothing
      BY LegacyAssumption DEF Slots
    <3> QED BY <3>1, <3>2
  <2> QED BY <2>1, <2>2 DEF Standing
<1> QED BY <1>1, <1>3, <1>4

(* The wallet with an account added is a wallet still. An address that is  *)
(* in it already counts among those that were in it twice.                 *)
LEMMA AddedPreserves ==
  ASSUME NEW w, NEW g, NEW tw, NEW sh, WalletInvOf(w, g, tw, sh),
         NEW a \in LegacyAddresses, NEW s \in Spelled, NEW c \in AllContents,
         MayAdd(w, a, s), Slots(w) # Indexes, InUse(w) # Accounts,
         NEW tw2, tw \subseteq tw2,
         (\E n \in Accounts : Standing(w, n) /\ Of(w, n) = a) => a \in tw2
  PROVE  WalletInvOf(Added(w, a, s, c), [g EXCEPT ![a] = c], tw2, sh \ {a})
<1> DEFINE v == Added(w, a, s, c)
           n == FreeAccount(w)
           i == FindSafeIndex(w)
           o == FreeKey(w)
           g2 == [g EXCEPT ![a] = c]
<1>1. TypedWallet(w) /\ Counting(w) /\ Indexing(w) /\ Sharing(w, tw, sh)
        /\ Once(w, tw) /\ Keeping(w, g, tw, sh)
  BY DEF WalletInvOf
<1>2. n \in Accounts /\ ~Standing(w, n) /\ i \in Indexes \ Slots(w)
  BY <1>1, NewAccount, NewIndex
<1>3. /\ o \in 1 .. MaxIndex + 1
      /\ \A m \in Accounts : Standing(w, m) => w.refers[m] # o
  BY <1>1, FreeKeyIsFree
<1>4. IsAdded(v, w, a, s, c, n, i, o)
  BY <1>1, AddedFields
<1> HIDE DEF v, n, i, o
<1>5. /\ Standing(v, n) /\ Of(v, n) = a /\ v.account[n] = [address |-> <<a, s>>, index |-> i]
      /\ \A m \in Accounts \ {n} : /\ Standing(v, m) <=> Standing(w, m)
                                   /\ v.account[m] = w.account[m]
                                   /\ v.refers[m] = w.refers[m]
      /\ v.refers[n] = o
  BY <1>1, <1>2, <1>3, <1>4, AddedStanding
<1>6. n # Nothing /\ o # Nothing /\ o # Instance /\ c # Nothing
      /\ o \in KeyObjects /\ Instance \in KeyObjects
  BY <1>2, <1>3, LegacyAssumption DEF KeyObjects
<1>7. \A m \in Accounts \ {n} : Of(v, m) = Of(w, m)
  BY <1>5 DEF Of
<1>8. TypedWallet(v)
  <2>1. [address |-> <<a, s>>, index |-> i] \in AccountsHeld
    BY <1>2 DEF AccountsHeld
  <2> QED BY <1>1, <1>2, <1>4, <1>6, <2>1 DEF TypedWallet, IsAdded
<1>9. Slots(v) = Slots(w) \union {i}
  BY <1>1, <1>2, <1>4, <1>6 DEF Slots, IsAdded, TypedWallet
<1>10. Counting(v)
  <2>1. Slots(w) \subseteq Indexes /\ IsFiniteSet(Indexes) /\ Indexes \subseteq Int
    <3>1. 0 \in Int /\ MaxIndex - 1 \in Int
      BY LegacyAssumption
    <3> QED BY <3>1, FS_Interval DEF Indexes, Slots
  <2>2. Cardinality(Slots(v)) = Cardinality(Slots(w)) + 1
    BY <1>2, <1>9, <2>1, FS_Subset, FS_AddElement
  <2>3. v.length = w.length + 1 /\ v.lastIndex = IF i > w.lastIndex THEN i ELSE w.lastIndex
    BY <1>4 DEF IsAdded
  <2>4. i \in Int /\ w.lastIndex \in Int /\ \A j \in Slots(w) : j \in Int /\ j <= w.lastIndex
    <3>1. \A j \in Slots(w) : j \in Int
      BY <2>1
    <3>2. w.lastIndex \in Slots(w) \union {-1} /\ \A j \in Slots(w) : j <= w.lastIndex
      BY <1>1 DEF Counting
    <3>3. i \in Int
      BY <1>2, <2>1
    <3> QED BY <3>1, <3>2, <3>3
  <2>5. v.lastIndex \in Slots(v) \union {-1}
    BY <1>1, <1>9, <2>3 DEF Counting
  <2>6. \A j \in Slots(v) : j <= v.lastIndex
    BY <1>9, <2>3, <2>4
  <2> QED BY <1>1, <2>2, <2>3, <2>5, <2>6 DEF Counting
<1>11. \A e \in LegacyAddresses \X Spellings :
         v.entries[e] = IF e[1] = a /\ e[2] \in Written \union {s} THEN n ELSE w.entries[e]
  BY <1>1, <1>4 DEF IsAdded, TypedWallet
<1>12. Indexing(v)
  <2>1. ASSUME NEW j \in Slots(v)
        PROVE  Standing(v, v.slots[j]) /\ v.account[v.slots[j]].index = j
    <3>1. CASE j = i
      BY <1>1, <1>2, <1>4, <1>5, <3>1 DEF IsAdded, TypedWallet
    <3>2. CASE j # i
      <4>1. j \in Slots(w) /\ v.slots[j] = w.slots[j] /\ w.slots[j] \in Accounts
        BY <1>1, <1>2, <1>4, <1>9, <2>1, <3>2 DEF IsAdded, TypedWallet, Slots
      <4>2. Standing(w, w.slots[j]) /\ w.account[w.slots[j]].index = j
        BY <1>1, <4>1 DEF Indexing
      <4> QED BY <1>2, <1>5, <4>1, <4>2
    <3> QED BY <3>1, <3>2
  <2>2. ASSUME NEW e \in LegacyAddresses \X Spellings, v.entries[e] # Nothing
        PROVE  /\ Standing(v, v.entries[e]) /\ Of(v, v.entries[e]) = e[1]
               /\ e[2] \in Written \union {v.account[v.entries[e]].address[2]}
    <3>1. CASE e[1] = a /\ e[2] \in Written \union {s}
      BY <1>5, <1>11, <3>1
    <3>2. CASE ~ (e[1] = a /\ e[2] \in Written \union {s})
      <4>1. v.entries[e] = w.entries[e] /\ w.entries[e] \in Accounts
        BY <1>1, <1>11, <2>2, <3>2 DEF TypedWallet
      <4>2. /\ Standing(w, w.entries[e]) /\ Of(w, w.entries[e]) = e[1]
            /\ e[2] \in Written \union {w.account[w.entries[e]].address[2]}
        BY <1>1, <2>2, <4>1 DEF Indexing, TypedWallet
      <4> QED BY <1>2, <1>5, <1>7, <4>1, <4>2
    <3> QED BY <3>1, <3>2
  <2>3. DOMAIN v.entries = LegacyAddresses \X Spellings
    BY <1>8 DEF TypedWallet
  <2> QED BY <2>1, <2>2, <2>3 DEF Indexing
<1>13. \A p \in KeyObjects \ {o} : v.content[p] = w.content[p]
  BY <1>1, <1>4 DEF IsAdded, TypedWallet
<1>14. v.content[o] = c
  BY <1>1, <1>4, <1>6 DEF IsAdded, TypedWallet
<1>15. \A m \in Accounts \ {n} : Standing(w, m) /\ w.refers[m] # Nothing =>
         w.refers[m] \in KeyObjects \ {o}
  BY <1>1, <1>3 DEF TypedWallet
<1>16. Sharing(v, tw2, sh \ {a})
  <2>1. v.content[Instance] # Nothing
    BY <1>1, <1>6, <1>13 DEF Sharing
  <2>2. ASSUME NEW m \in Accounts, Standing(v, m), v.refers[m] # Nothing
        PROVE  v.content[v.refers[m]] # Nothing
    BY <1>1, <1>5, <1>6, <1>13, <1>14, <1>15, <2>2 DEF Sharing
  <2>3. ASSUME NEW m \in Accounts, Standing(v, m), v.refers[m] = Instance
        PROVE  Of(v, m) \in tw2 \union (sh \ {a})
    BY <1>1, <1>5, <1>6, <1>7, <2>3 DEF Sharing
  <2>4. ASSUME NEW m \in Accounts, NEW k \in Accounts, Standing(v, m), Standing(v, k),
               v.refers[m] = v.refers[k]
        PROVE  v.refers[m] \in {Nothing, Instance} \/ Of(v, m) = Of(v, k)
    <3>1. CASE m # n /\ k # n
      BY <1>1, <1>5, <1>7, <2>4, <3>1 DEF Sharing
    <3>2. CASE m = n \/ k = n
      BY <1>3, <1>5, <2>4, <3>2
    <3> QED BY <3>1, <3>2
  <2> QED BY <2>1, <2>2, <2>3, <2>4 DEF Sharing
<1>17. Once(v, tw2)
  <2> SUFFICES ASSUME NEW m \in Accounts, Standing(v, m), Of(v, m) \notin tw2
               PROVE  /\ \A k \in Accounts : Standing(v, k) /\ Of(v, k) = Of(v, m) => k = m
                      /\ \A q \in Written \union {v.account[m].address[2]} :
                           v.entries[<<Of(v, m), q>>] = m
                      /\ v.refers[m] # Nothing
    BY DEF Once
  <2>1. CASE m = n
    <3>1. \A k \in Accounts : Standing(v, k) /\ Of(v, k) = a => k = n
      BY <1>5, <1>7, <2>1
    <3>2. \A q \in Written \union {s} : <<a, q>> \in LegacyAddresses \X Spellings
      BY DEF Spellings
    <3>3. \A q \in Written \union {s} : v.entries[<<a, q>>] = n
      BY <1>11, <3>2
    <3> QED BY <1>5, <1>6, <2>1, <3>1, <3>3
  <2>2. CASE m # n
    <3>1. Standing(w, m) /\ Of(w, m) = Of(v, m) /\ Of(w, m) \notin tw /\ Of(w, m) # a
      BY <1>5, <1>7, <2>2
    <3>2. /\ \A k \in Accounts : Standing(w, k) /\ Of(w, k) = Of(w, m) => k = m
          /\ \A q \in Written \union {w.account[m].address[2]} : w.entries[<<Of(w, m), q>>] = m
          /\ w.refers[m] # Nothing
      BY <1>1, <3>1 DEF Once
    <3>3. Of(w, m) \in LegacyAddresses /\ w.account[m].address[2] \in Spelled
      BY <3>1 DEF Standing, AccountsHeld, Of
    <3>4. \A q \in Written \union {w.account[m].address[2]} :
            v.entries[<<Of(w, m), q>>] = w.entries[<<Of(w, m), q>>]
      <4> SUFFICES ASSUME NEW q \in Written \union {w.account[m].address[2]}
                   PROVE  v.entries[<<Of(w, m), q>>] = w.entries[<<Of(w, m), q>>]
        OBVIOUS
      <4>1. <<Of(w, m), q>> \in LegacyAddresses \X Spellings
        BY <3>3 DEF Spellings
      <4> QED BY <1>11, <3>1, <4>1
    <3> QED BY <1>5, <1>7, <2>2, <3>1, <3>2, <3>4
  <2> QED BY <2>1, <2>2
<1>18. Keeping(v, g2, tw2, sh \ {a})
  <2>1. g \in [LegacyAddresses -> AllContents \union {Nothing}]
    BY <1>1 DEF Keeping
  <2>2. g2 \in [LegacyAddresses -> AllContents \union {Nothing}]
    BY <2>1
  <2>3. ASSUME NEW b \in LegacyAddresses \ tw2
        PROVE  (\E m \in Accounts : Standing(v, m) /\ Of(v, m) = b) <=> g2[b] # Nothing
    <3>1. CASE b = a
      BY <1>2, <1>5, <1>6, <2>1, <3>1
    <3>2. CASE b # a
      <4>1. g2[b] = g[b]
        BY <2>1, <3>2
      <4>2. (\E m \in Accounts : Standing(w, m) /\ Of(w, m) = b) <=> g[b] # Nothing
        BY <1>1 DEF Keeping
      <4>3. (\E m \in Accounts : Standing(v, m) /\ Of(v, m) = b)
              <=> (\E m \in Accounts : Standing(w, m) /\ Of(w, m) = b)
        BY <1>2, <1>5, <1>7, <3>2
      <4> QED BY <4>1, <4>2, <4>3
    <3> QED BY <3>1, <3>2
  <2>4. ASSUME NEW m \in Accounts, Standing(v, m), Of(v, m) \notin tw2 \union (sh \ {a})
        PROVE  v.content[v.refers[m]] = g2[Of(v, m)]
    <3>1. CASE m = n
      BY <1>5, <1>14, <2>1, <3>1
    <3>2. CASE m # n
      <4>1. Standing(w, m) /\ Of(w, m) = Of(v, m) /\ Of(w, m) # a /\ v.refers[m] = w.refers[m]
        BY <1>5, <1>7, <2>4, <3>2
      <4>2. w.content[w.refers[m]] = g[Of(w, m)]
        BY <1>1, <2>4, <4>1 DEF Keeping
      <4>3. w.refers[m] # Nothing
        BY <1>1, <2>4, <4>1 DEF Once
      <4>4. v.content[w.refers[m]] = w.content[w.refers[m]]
        BY <1>13, <1>15, <3>2, <4>1, <4>3
      <4>5. g2[Of(w, m)] = g[Of(w, m)]
        <5>1. Of(w, m) \in LegacyAddresses
          BY <4>1 DEF Standing, AccountsHeld, Of
        <5> QED BY <2>1, <4>1, <5>1
      <4> QED BY <4>1, <4>2, <4>4, <4>5
    <3> QED BY <3>1, <3>2
  <2> QED BY <2>2, <2>3, <2>4 DEF Keeping
<1> QED BY <1>8, <1>10, <1>12, <1>16, <1>17, <1>18 DEF WalletInvOf, v

-----------------------------------------------------------------------------
(* Removing an account. *)
IsRemoved(v, w, n) ==
  LET own == w.account[n].address
      under == {own[1]} \X (Written \union {own[2]})
      gone == {w.entries[e] : e \in under} \union {w.slots[w.account[n].index]}
  IN /\ DOMAIN v = WalletFields
     /\ v.slots = [w.slots EXCEPT ![w.account[n].index] = Nothing]
     /\ v.entries = [e \in DOMAIN w.entries |-> IF e \in under THEN Nothing ELSE w.entries[e]]
     /\ v.lastIndex = (IF w.account[n].index = w.lastIndex
                       THEN Max(Slots(v) \union {-1}) ELSE w.lastIndex)
     /\ v.length = w.length - 1
     /\ v.account = w.account
     /\ v.refers = [m \in Accounts |-> IF m \in gone THEN Nothing ELSE w.refers[m]]
     /\ v.content = w.content

(* Removing an account, field by field.                                    *)
LEMMA RemovedFields ==
  ASSUME NEW w, TypedWallet(w), NEW n
  PROVE  IsRemoved(Removed(w, n), w, n)
<1> DEFINE own == w.account[n].address
           under == {own[1]} \X (Written \union {own[2]})
           gone == {w.entries[e] : e \in under} \union {w.slots[w.account[n].index]}
           left == [w EXCEPT !.slots[w.account[n].index] = Nothing,
                        !.entries = [e \in DOMAIN @ |-> IF e \in under THEN Nothing ELSE @[e]],
                        !.refers = [m \in Accounts |-> IF m \in gone THEN Nothing ELSE @[m]],
                        !.length = @ - 1]
           v == Removed(w, n)
<1>1. DOMAIN w = WalletFields
  BY DEF TypedWallet
<1>2. v = IF w.account[n].index = w.lastIndex
          THEN [left EXCEPT !.lastIndex = FindSafeLastIndex(left)] ELSE left
  BY DEF Removed
<1>3. /\ DOMAIN left = WalletFields
      /\ left.slots = [w.slots EXCEPT ![w.account[n].index] = Nothing]
      /\ left.entries = [e \in DOMAIN w.entries |-> IF e \in under THEN Nothing ELSE w.entries[e]]
      /\ left.lastIndex = w.lastIndex
      /\ left.length = w.length - 1
      /\ left.account = w.account
      /\ left.refers = [m \in Accounts |-> IF m \in gone THEN Nothing ELSE w.refers[m]]
      /\ left.content = w.content
  BY <1>1 DEF WalletFields
<1> HIDE DEF left, v
<1>4. /\ DOMAIN v = WalletFields /\ v.slots = left.slots /\ v.entries = left.entries
      /\ v.length = left.length /\ v.account = left.account /\ v.refers = left.refers
      /\ v.content = left.content
      /\ v.lastIndex = (IF w.account[n].index = w.lastIndex
                        THEN FindSafeLastIndex(left) ELSE w.lastIndex)
  BY <1>2, <1>3 DEF WalletFields
<1>5. Slots(left) = Slots(v)
  BY <1>4 DEF Slots
<1> QED BY <1>3, <1>4, <1>5 DEF IsRemoved, FindSafeLastIndex, v

(* The wallet without one is a wallet, and no other index has changed.     *)
LEMMA RemovedPreserves ==
  ASSUME NEW w, NEW g, NEW tw, NEW sh, WalletInvOf(w, g, tw, sh),
         NEW n \in Accounts, Standing(w, n)
  PROVE  /\ WalletInvOf(Removed(w, n), [g EXCEPT ![Of(w, n)] = Nothing], tw, sh)
         /\ Removed(w, n).account = w.account
         /\ \A j \in Indexes : j # w.account[n].index => Removed(w, n).slots[j] = w.slots[j]
<1> DEFINE v == Removed(w, n)
           i == w.account[n].index
           a == Of(w, n)
           own == w.account[n].address[2]
           g2 == [g EXCEPT ![a] = Nothing]
           gone == {w.entries[e] : e \in {a} \X (Written \union {own})} \union {n}
<1>1. TypedWallet(w) /\ Counting(w) /\ Indexing(w) /\ Sharing(w, tw, sh)
        /\ Once(w, tw) /\ Keeping(w, g, tw, sh)
  BY DEF WalletInvOf
<1>2. /\ w.account[n] \in AccountsHeld /\ i \in Slots(w) /\ i \in Indexes /\ w.slots[i] = n
      /\ \A m \in Accounts : Standing(w, m) => w.account[m].index \in Indexes
  BY <1>1, AccountsInUse DEF AccountsHeld
<1>3. a \in LegacyAddresses /\ own \in Spelled /\ w.account[n].address = <<a, own>>
  BY <1>2 DEF AccountsHeld, Of
<1>4. \A m \in Accounts : m # Nothing
  BY LegacyAssumption
<1>5. IsRemoved(v, w, n)
  BY <1>1, RemovedFields
<1> HIDE DEF v, i, own
<1>6. /\ DOMAIN v = WalletFields
      /\ v.slots = [w.slots EXCEPT ![i] = Nothing]
      /\ v.length = w.length - 1 /\ v.account = w.account /\ v.content = w.content
      /\ v.refers = [m \in Accounts |-> IF m \in gone THEN Nothing ELSE w.refers[m]]
      /\ v.lastIndex = (IF i = w.lastIndex THEN Max(Slots(v) \union {-1}) ELSE w.lastIndex)
  BY <1>2, <1>3, <1>5 DEF IsRemoved, i
<1>7. DOMAIN v.entries = LegacyAddresses \X Spellings
  BY <1>1, <1>5 DEF IsRemoved, TypedWallet
<1>8. \A e \in LegacyAddresses \X Spellings :
        v.entries[e] = IF e[1] = a /\ e[2] \in Written \union {own} THEN Nothing ELSE w.entries[e]
  BY <1>1, <1>3, <1>5 DEF IsRemoved, TypedWallet
<1> HIDE DEF gone
<1>9. TypedWallet(v)
  <2>1. v.entries \in [LegacyAddresses \X Spellings -> Accounts \union {Nothing}]
    <3>1. v.entries = [e \in DOMAIN v.entries |-> v.entries[e]]
      BY <1>5 DEF IsRemoved
    <3>2. \A e \in LegacyAddresses \X Spellings : v.entries[e] \in Accounts \union {Nothing}
      BY <1>1, <1>8 DEF TypedWallet
    <3> QED BY <1>7, <3>1, <3>2
  <2> QED BY <1>1, <1>2, <1>6, <2>1 DEF TypedWallet
<1>10. \A m \in Accounts : Standing(v, m) <=> Standing(w, m) /\ m # n
  <2> SUFFICES ASSUME NEW m \in Accounts, w.account[m] \in AccountsHeld
               PROVE  v.slots[w.account[m].index] = m
                        <=> w.slots[w.account[m].index] = m /\ m # n
    BY <1>6 DEF Standing
  <2>1. w.account[m].index \in Indexes
    BY DEF AccountsHeld
  <2>2. CASE w.account[m].index = i
    BY <1>1, <1>2, <1>4, <1>6, <2>1, <2>2 DEF TypedWallet
  <2>3. CASE w.account[m].index # i
    <3>1. m # n
      BY <2>3 DEF i
    <3> QED BY <1>1, <1>2, <1>6, <2>1, <2>3, <3>1 DEF TypedWallet
  <2> QED BY <2>2, <2>3
<1>11. \A m \in Accounts : Of(v, m) = Of(w, m) /\ v.account[m] = w.account[m]
  BY <1>6 DEF Of
<1>12. Slots(v) = Slots(w) \ {i}
  BY <1>1, <1>2, <1>6 DEF Slots, TypedWallet
<1>13. Counting(v)
  <2>1. Slots(w) \subseteq Indexes /\ IsFiniteSet(Indexes) /\ Indexes \subseteq -1 .. MaxIndex
    <3>1. MaxIndex \in Nat
      BY LegacyAssumption
    <3>2. 0 \in Int /\ MaxIndex - 1 \in Int
      BY <3>1
    <3>3. IsFiniteSet(0 .. MaxIndex - 1)
      BY <3>2, FS_Interval
    <3>4. Slots(w) \subseteq Indexes
      BY DEF Slots
    <3>5. 0 .. MaxIndex - 1 \subseteq -1 .. MaxIndex
      BY <3>1
    <3> QED BY <3>3, <3>4, <3>5 DEF Indexes
  <2>2. Cardinality(Slots(v)) = Cardinality(Slots(w)) - 1
    BY <1>2, <1>12, <2>1, FS_Subset, FS_RemoveElement
  <2>3. /\ Max(Slots(v) \union {-1}) \in Slots(v) \union {-1}
        /\ \A j \in Slots(v) : j <= Max(Slots(v) \union {-1})
    <3> DEFINE S == Slots(v) \union {-1}
    <3>1. MaxIndex \in Nat
      BY LegacyAssumption
    <3>2. -1 \in -1 .. MaxIndex
      BY <3>1
    <3>3. S \subseteq -1 .. MaxIndex /\ S # {}
      <4> HIDE DEF Slots
      <4>1. Slots(v) \subseteq -1 .. MaxIndex
        BY <1>12, <2>1
      <4> QED BY <3>2, <4>1
    <3> HIDE DEF S
    <3>4. Max(S) \in S /\ \A j \in S : j <= Max(S)
      BY <3>1, <3>3, Greatest
    <3> QED BY <3>4 DEF S
  <2>4. w.lastIndex \in Slots(w) \union {-1} /\ \A j \in Slots(w) : j <= w.lastIndex
    BY <1>1 DEF Counting
  <2>5. v.lastIndex \in Slots(v) \union {-1} /\ \A j \in Slots(v) : j <= v.lastIndex
    BY <1>6, <1>12, <2>3, <2>4
  <2> QED BY <1>1, <1>6, <2>2, <2>5 DEF Counting
<1>14. Indexing(v)
  <2>1. ASSUME NEW j \in Slots(v)
        PROVE  Standing(v, v.slots[j]) /\ v.account[v.slots[j]].index = j
    <3>1. j \in Slots(w) /\ j # i /\ v.slots[j] = w.slots[j] /\ w.slots[j] \in Accounts
      BY <1>1, <1>2, <1>6, <1>12 DEF TypedWallet, Slots
    <3>2. Standing(w, w.slots[j]) /\ w.account[w.slots[j]].index = j
      BY <1>1, <3>1 DEF Indexing
    <3>3. w.slots[j] # n
      BY <3>1, <3>2 DEF i
    <3> QED BY <1>10, <1>11, <3>1, <3>2, <3>3
  <2>2. ASSUME NEW e \in LegacyAddresses \X Spellings, v.entries[e] # Nothing
        PROVE  /\ Standing(v, v.entries[e]) /\ Of(v, v.entries[e]) = e[1]
               /\ e[2] \in Written \union {v.account[v.entries[e]].address[2]}
    <3>1. v.entries[e] = w.entries[e] /\ ~ (e[1] = a /\ e[2] \in Written \union {own})
      BY <1>8, <2>2
    <3>2. w.entries[e] \in Accounts
      BY <1>1, <2>2, <3>1 DEF TypedWallet
    <3>3. /\ Standing(w, w.entries[e]) /\ Of(w, w.entries[e]) = e[1]
          /\ e[2] \in Written \union {w.account[w.entries[e]].address[2]}
      BY <1>1, <2>2, <3>1 DEF Indexing, TypedWallet
    <3>4. w.entries[e] # n
      BY <3>1, <3>3 DEF own
    <3> QED BY <1>10, <1>11, <3>1, <3>2, <3>3, <3>4
  <2> QED BY <1>7, <2>1, <2>2 DEF Indexing
<1>15. \A m \in Accounts : Standing(w, m) /\ Of(w, m) # a => v.refers[m] = w.refers[m]
  <2> SUFFICES ASSUME NEW m \in Accounts, Of(w, m) # a PROVE m \notin gone
    BY <1>6
  <2> SUFFICES ASSUME NEW e \in {a} \X (Written \union {own}), w.entries[e] = m PROVE FALSE
    BY DEF gone
  <2>1. e \in LegacyAddresses \X Spellings /\ e[1] = a
    BY <1>3 DEF Spellings
  <2> QED BY <1>1, <1>4, <2>1 DEF Indexing, TypedWallet
<1>16. \A m \in Accounts : v.refers[m] \in {w.refers[m], Nothing}
  BY <1>6
<1>17. Sharing(v, tw, sh)
  <2>1. ASSUME NEW m \in Accounts, Standing(v, m), v.refers[m] = Instance
        PROVE  Of(v, m) \in tw \union sh
    <3>1. Instance # Nothing
      BY LegacyAssumption DEF KeyObjects
    <3> QED BY <1>1, <1>10, <1>11, <1>16, <2>1, <3>1 DEF Sharing
  <2>2. ASSUME NEW m \in Accounts, NEW k \in Accounts, Standing(v, m), Standing(v, k),
               v.refers[m] = v.refers[k]
        PROVE  v.refers[m] \in {Nothing, Instance} \/ Of(v, m) = Of(v, k)
    BY <1>1, <1>10, <1>11, <1>16, <2>2 DEF Sharing
  <2>3. ASSUME NEW m \in Accounts, Standing(v, m), v.refers[m] # Nothing
        PROVE  v.content[v.refers[m]] # Nothing
    BY <1>1, <1>6, <1>10, <1>16, <2>3 DEF Sharing
  <2> QED BY <1>1, <1>6, <2>1, <2>2, <2>3 DEF Sharing
<1>18. ASSUME NEW m \in Accounts, Standing(v, m), Of(v, m) \notin tw
       PROVE  Standing(w, m) /\ Of(w, m) \notin tw /\ Of(w, m) # a /\ m # n
  BY <1>1, <1>10, <1>11, <1>18 DEF Once
<1>19. Once(v, tw)
  <2> SUFFICES ASSUME NEW m \in Accounts, Standing(v, m), Of(v, m) \notin tw
               PROVE  /\ \A k \in Accounts : Standing(v, k) /\ Of(v, k) = Of(v, m) => k = m
                      /\ \A q \in Written \union {v.account[m].address[2]} :
                           v.entries[<<Of(v, m), q>>] = m
                      /\ v.refers[m] # Nothing
    BY DEF Once
  <2>1. Standing(w, m) /\ Of(w, m) \notin tw /\ Of(w, m) # a
    BY <1>18
  <2>2. /\ \A k \in Accounts : Standing(w, k) /\ Of(w, k) = Of(w, m) => k = m
        /\ \A q \in Written \union {w.account[m].address[2]} : w.entries[<<Of(w, m), q>>] = m
        /\ w.refers[m] # Nothing
    BY <1>1, <2>1 DEF Once
  <2>3. Of(w, m) \in LegacyAddresses /\ w.account[m].address[2] \in Spelled
    BY <2>1 DEF Standing, AccountsHeld, Of
  <2>4. \A q \in Written \union {w.account[m].address[2]} :
          v.entries[<<Of(w, m), q>>] = w.entries[<<Of(w, m), q>>]
    <3> SUFFICES ASSUME NEW q \in Written \union {w.account[m].address[2]}
                 PROVE  v.entries[<<Of(w, m), q>>] = w.entries[<<Of(w, m), q>>]
      OBVIOUS
    <3>1. <<Of(w, m), q>> \in LegacyAddresses \X Spellings
      BY <2>3 DEF Spellings
    <3> QED BY <1>8, <2>1, <3>1
  <2> QED BY <1>10, <1>11, <1>15, <2>1, <2>2, <2>4
<1>20. Keeping(v, g2, tw, sh)
  <2>1. g \in [LegacyAddresses -> AllContents \union {Nothing}]
    BY <1>1 DEF Keeping
  <2>2. g2 \in [LegacyAddresses -> AllContents \union {Nothing}]
    BY <2>1
  <2>3. ASSUME NEW b \in LegacyAddresses \ tw
        PROVE  (\E m \in Accounts : Standing(v, m) /\ Of(v, m) = b) <=> g2[b] # Nothing
    <3>1. CASE b = a
      BY <1>18, <1>11, <2>1, <3>1
    <3>2. CASE b # a
      <4>1. g2[b] = g[b]
        BY <2>1, <3>2
      <4>2. (\E m \in Accounts : Standing(w, m) /\ Of(w, m) = b) <=> g[b] # Nothing
        BY <1>1 DEF Keeping
      <4>3. (\E m \in Accounts : Standing(v, m) /\ Of(v, m) = b)
              <=> (\E m \in Accounts : Standing(w, m) /\ Of(w, m) = b)
        BY <1>10, <1>11, <3>2
      <4> QED BY <4>1, <4>2, <4>3
    <3> QED BY <3>1, <3>2
  <2>4. ASSUME NEW m \in Accounts, Standing(v, m), Of(v, m) \notin tw \union sh
        PROVE  v.content[v.refers[m]] = g2[Of(v, m)]
    <3>1. Standing(w, m) /\ Of(w, m) = Of(v, m) /\ Of(w, m) # a /\ v.refers[m] = w.refers[m]
      BY <1>11, <1>15, <1>18, <2>4
    <3>2. w.content[w.refers[m]] = g[Of(w, m)]
      BY <1>1, <2>4, <3>1 DEF Keeping
    <3>3. g2[Of(w, m)] = g[Of(w, m)]
      <4>1. Of(w, m) \in LegacyAddresses
        BY <3>1 DEF Standing, AccountsHeld, Of
      <4> QED BY <2>1, <3>1, <4>1
    <3> QED BY <1>6, <3>1, <3>2, <3>3
  <2> QED BY <2>2, <2>3, <2>4 DEF Keeping
<1>21. \A j \in Indexes : j # i => v.slots[j] = w.slots[j]
  BY <1>1, <1>6 DEF TypedWallet
<1> QED BY <1>6, <1>9, <1>13, <1>14, <1>17, <1>19, <1>20, <1>21 DEF WalletInvOf, v, i

-----------------------------------------------------------------------------
(* Setting a key. *)
After(old, c) == IF old # Nothing /\ old.type = c.type THEN Merged(old, c) ELSE c
ReferredBy(w, a, o) ==
  \A m \in Accounts : Standing(w, m) /\ w.refers[m] = o => Of(w, m) = a
SettingInv(w, g, tw, sh, a, o, c) ==
  /\ WalletInvOf(w, g, tw, sh)
  /\ w.content[o] = c
  /\ IF o = Instance THEN a \in sh ELSE ReferredBy(w, a, o)

(* A key updated with itself is the same; updating it twice with one key   *)
(* is updating it once.                                                    *)
LEMMA MergedTyped ==
  ASSUME NEW c \in AllContents
  PROVE  /\ Merged(c, c) = c
         /\ \A old \in AllContents \union {Nothing} :
              After(old, c) \in AllContents /\ After(After(old, c), c) = After(old, c)
<1>1. c \in [type : {"AccountKeyPublic"}, key : LegacyKeys]
        \/ c \in [type : {"AccountKeyRoleBased"}, key : [LegacyRoles -> LegacyKeys \union {Nothing}]]
  BY DEF AllContents
<1>2. CASE c.type # "AccountKeyRoleBased"
  BY <1>2 DEF Merged, After
<1>3. CASE c.type = "AccountKeyRoleBased"
  <2>1. c.key \in [LegacyRoles -> LegacyKeys \union {Nothing}]
        /\ c = [type |-> "AccountKeyRoleBased", key |-> c.key]
    BY <1>1, <1>3
  <2>2. \A old : Merged(old, c) =
          [type |-> "AccountKeyRoleBased",
           key |-> [r \in LegacyRoles |-> IF c.key[r] = Nothing THEN old.key[r] ELSE c.key[r]]]
    BY <1>3 DEF Merged, RoleBasedKey
  <2>3. Merged(c, c) = c
    <3>1. [r \in LegacyRoles |-> IF c.key[r] = Nothing THEN c.key[r] ELSE c.key[r]] = c.key
      BY <2>1
    <3> QED BY <2>1, <2>2, <3>1
  <2>4. ASSUME NEW old \in AllContents, old.type = c.type
        PROVE  /\ Merged(old, c) \in AllContents /\ Merged(old, c).type = c.type
               /\ Merged(Merged(old, c), c) = Merged(old, c)
    <3>1. old.key \in [LegacyRoles -> LegacyKeys \union {Nothing}]
      BY <1>3, <2>4 DEF AllContents
    <3> DEFINE k == [r \in LegacyRoles |-> IF c.key[r] = Nothing THEN old.key[r] ELSE c.key[r]]
    <3>2. k \in [LegacyRoles -> LegacyKeys \union {Nothing}]
      BY <2>1, <3>1
    <3>3. [r \in LegacyRoles |-> IF c.key[r] = Nothing THEN k[r] ELSE c.key[r]] = k
      OBVIOUS
    <3>4. Merged(old, c) = [type |-> "AccountKeyRoleBased", key |-> k]
      BY <2>2
    <3> HIDE DEF k
    <3>5. Merged(old, c) \in AllContents
      BY <3>2, <3>4 DEF AllContents
    <3>6. Merged(Merged(old, c), c) = [type |-> "AccountKeyRoleBased", key |-> k]
      <4> DEFINE m == Merged(old, c)
      <4>1. m.key = k
        BY <3>4
      <4> HIDE DEF m
      <4>2. Merged(m, c) =
              [type |-> "AccountKeyRoleBased",
               key |-> [r \in LegacyRoles |-> IF c.key[r] = Nothing THEN m.key[r] ELSE c.key[r]]]
        BY <2>2
      <4>3. Merged(m, c) = [type |-> "AccountKeyRoleBased", key |-> k]
        BY <3>3, <4>1, <4>2
      <4> QED BY <4>3 DEF m
    <3> QED BY <1>3, <3>4, <3>5, <3>6
  <2>5. ASSUME NEW old \in AllContents \union {Nothing}
        PROVE  After(old, c) \in AllContents /\ After(After(old, c), c) = After(old, c)
    <3>1. CASE old # Nothing /\ old.type = c.type
      <4>1. old \in AllContents /\ After(old, c) = Merged(old, c)
        BY <3>1 DEF After
      <4>2. Merged(old, c) \in AllContents /\ Merged(old, c) # Nothing
            /\ Merged(old, c).type = c.type /\ Merged(Merged(old, c), c) = Merged(old, c)
        BY <2>4, <3>1, <4>1, LegacyAssumption
      <4> QED BY <4>1, <4>2 DEF After
    <3>2. CASE ~ (old # Nothing /\ old.type = c.type)
      <4>1. After(old, c) = c
        BY <3>2 DEF After
      <4>2. After(c, c) = c
        BY <2>3 DEF After
      <4> QED BY <4>1, <4>2
    <3> QED BY <3>1, <3>2
  <2> QED BY <2>3, <2>5
<1> QED BY <1>2, <1>3

(* Setting the key of an account, field by field: an old key of the same   *)
(* type takes the new one in, any other is replaced.                       *)
LEMMA SetKeyFields ==
  ASSUME NEW w, TypedWallet(w), NEW n \in Accounts, NEW o \in KeyObjects, w.content[o] # Nothing
  PROVE  LET v == SetKey(w, n, o)
             merges == KeyOf(w, n) # Nothing /\ KeyOf(w, n).type = w.content[o].type
         IN /\ DOMAIN v = WalletFields /\ v.slots = w.slots /\ v.entries = w.entries
            /\ v.lastIndex = w.lastIndex /\ v.length = w.length /\ v.account = w.account
            /\ merges => /\ v.refers = w.refers
                         /\ w.refers[n] \in KeyObjects
                         /\ KeyOf(w, n) = w.content[w.refers[n]]
                         /\ v.content = [w.content EXCEPT ![w.refers[n]] =
                                           Merged(w.content[w.refers[n]], w.content[o])]
            /\ ~merges => v.refers = [w.refers EXCEPT ![n] = o] /\ v.content = w.content
<1> DEFINE merges == KeyOf(w, n) # Nothing /\ KeyOf(w, n).type = w.content[o].type
           replaced == [w EXCEPT !.refers[n] = o]
           merged == [w EXCEPT !.content[w.refers[n]] = Merged(@, w.content[o])]
<1>1. SetKey(w, n, o) = IF merges THEN merged ELSE replaced
  BY DEF SetKey
<1>2. merges => w.refers[n] \in KeyObjects /\ KeyOf(w, n) = w.content[w.refers[n]]
  BY DEF KeyOf, TypedWallet
<1> HIDE DEF merges
<1>3. /\ DOMAIN replaced = WalletFields /\ replaced.slots = w.slots
      /\ replaced.entries = w.entries /\ replaced.lastIndex = w.lastIndex
      /\ replaced.length = w.length /\ replaced.account = w.account
      /\ replaced.refers = [w.refers EXCEPT ![n] = o] /\ replaced.content = w.content
  BY DEF TypedWallet, WalletFields
<1>4. /\ DOMAIN merged = WalletFields /\ merged.slots = w.slots
      /\ merged.entries = w.entries /\ merged.lastIndex = w.lastIndex
      /\ merged.length = w.length /\ merged.account = w.account
      /\ merged.refers = w.refers
      /\ merged.content = [w.content EXCEPT ![w.refers[n]] =
                             Merged(w.content[w.refers[n]], w.content[o])]
  BY DEF TypedWallet, WalletFields
<1> HIDE DEF replaced, merged
<1> QED BY <1>1, <1>2, <1>3, <1>4 DEF merges

(* When every account that refers to the key is of the address, so it is   *)
(* after the key was set for one of them.                                  *)
LEMMA SetKeyPreserves ==
  ASSUME NEW w, NEW g, NEW tw, NEW sh, NEW n \in Accounts, Standing(w, n),
         NEW o \in KeyObjects, NEW c \in AllContents, NEW a, a = Of(w, n),
         SettingInv(w, g, tw, sh, a, o, c)
  PROVE  /\ SettingInv(SetKey(w, n, o), [g EXCEPT ![a] = After(@, c)], tw, sh, a, o, c)
         /\ SetKey(w, n, o).slots = w.slots /\ SetKey(w, n, o).entries = w.entries
         /\ SetKey(w, n, o).account = w.account
<1> DEFINE v == SetKey(w, n, o)
           g2 == [g EXCEPT ![a] = After(@, c)]
           merges == KeyOf(w, n) # Nothing /\ KeyOf(w, n).type = c.type
<1>1. TypedWallet(w) /\ Counting(w) /\ Indexing(w) /\ Sharing(w, tw, sh)
        /\ Once(w, tw) /\ Keeping(w, g, tw, sh)
  BY DEF WalletInvOf, SettingInv
<1>2. /\ w.content[o] = c /\ c # Nothing
      /\ IF o = Instance THEN a \in sh ELSE ReferredBy(w, a, o)
  BY LegacyAssumption DEF SettingInv
<1>3. /\ DOMAIN v = WalletFields /\ v.slots = w.slots /\ v.entries = w.entries
      /\ v.lastIndex = w.lastIndex /\ v.length = w.length /\ v.account = w.account
      /\ merges => /\ v.refers = w.refers
                   /\ w.refers[n] \in KeyObjects
                   /\ KeyOf(w, n) = w.content[w.refers[n]]
                   /\ v.content = [w.content EXCEPT ![w.refers[n]] =
                                     Merged(w.content[w.refers[n]], c)]
      /\ ~merges => v.refers = [w.refers EXCEPT ![n] = o] /\ v.content = w.content
  BY <1>1, <1>2, SetKeyFields
<1> HIDE DEF v
<1>4. a \in LegacyAddresses
  BY DEF Standing, AccountsHeld, Of
<1>5. /\ Merged(c, c) = c
      /\ merges => Merged(KeyOf(w, n), c) \in AllContents /\ Merged(KeyOf(w, n), c) # Nothing
      /\ KeyOf(w, n) \in AllContents \union {Nothing}
  <2>1. KeyOf(w, n) \in AllContents \union {Nothing}
    BY <1>1 DEF KeyOf, TypedWallet
  <2>2. After(KeyOf(w, n), c) \in AllContents
    BY <2>1, MergedTyped
  <2>3. merges => After(KeyOf(w, n), c) = Merged(KeyOf(w, n), c)
    BY DEF After
  <2>4. Nothing \notin AllContents
    BY LegacyAssumption
  <2>5. Merged(c, c) = c
    BY MergedTyped
  <2> HIDE DEF merges
  <2> QED BY <2>1, <2>2, <2>3, <2>4, <2>5
<1>6. TypedWallet(v)
  <2>1. CASE merges
    BY <1>1, <1>3, <1>5, <2>1 DEF TypedWallet
  <2>2. CASE ~merges
    BY <1>1, <1>3, <2>2 DEF TypedWallet
  <2> QED BY <2>1, <2>2
<1>7. \A m \in Accounts : /\ Standing(v, m) <=> Standing(w, m)
                          /\ Of(v, m) = Of(w, m) /\ v.account[m] = w.account[m]
  BY <1>3 DEF Standing, Of
<1>8. Counting(v) /\ Indexing(v)
  <2>1. Counting(v)
    BY <1>1, <1>3 DEF Counting, Slots
  <2>2. Indexing(v)
    <3>1. Slots(v) = Slots(w)
      BY <1>3 DEF Slots
    <3>2. \A m : (Standing(v, m) <=> Standing(w, m)) /\ Of(v, m) = Of(w, m)
      BY <1>3 DEF Standing, Of
    <3> QED BY <1>1, <1>3, <3>1, <3>2 DEF Indexing
  <2> QED BY <2>1, <2>2
<1>9. v.content[o] = c
  <2>1. CASE merges
    <3>1. w.refers[n] = o => KeyOf(w, n) = c
      BY <1>2, <1>3, <2>1
    <3> QED BY <1>1, <1>2, <1>3, <1>5, <2>1, <3>1 DEF TypedWallet
  <2>2. CASE ~merges
    BY <1>2, <1>3, <2>2
  <2> QED BY <2>1, <2>2
(* Every account refers to what it did, but n, which refers to o or stays. *)
<1>10. /\ \A m \in Accounts : m # n => v.refers[m] = w.refers[m]
       /\ v.refers[n] = IF merges THEN w.refers[n] ELSE o
  BY <1>1, <1>3 DEF TypedWallet
<1>11. \A p \in KeyObjects : /\ w.content[p] # Nothing => v.content[p] # Nothing
                             /\ ~ (merges /\ p = w.refers[n]) => v.content[p] = w.content[p]
  BY <1>1, <1>3, <1>5 DEF TypedWallet
<1>12. Instance \in KeyObjects
  BY DEF KeyObjects
<1> HIDE DEF merges
<1>13. Sharing(v, tw, sh)
  <2>1. v.content[Instance] # Nothing
    BY <1>1, <1>11, <1>12 DEF Sharing
  <2>2. ASSUME NEW m \in Accounts, Standing(v, m), v.refers[m] # Nothing
        PROVE  v.content[v.refers[m]] # Nothing
    <3>1. CASE v.refers[m] = w.refers[m]
      <4>1. w.refers[m] \in KeyObjects /\ w.content[w.refers[m]] # Nothing
        BY <1>1, <1>7, <2>2, <3>1 DEF Sharing, TypedWallet
      <4> QED BY <1>11, <3>1, <4>1
    <3>2. CASE v.refers[m] = o
      BY <1>2, <1>9, <3>2
    <3> QED BY <1>10, <3>1, <3>2
  <2>3. ASSUME NEW m \in Accounts, Standing(v, m), v.refers[m] = Instance
        PROVE  Of(v, m) \in tw \union sh
    <3>1. CASE w.refers[m] = Instance
      BY <1>1, <1>7, <2>3, <3>1 DEF Sharing
    <3>2. CASE w.refers[m] # Instance
      BY <1>2, <1>7, <1>10, <2>3, <3>2
    <3> QED BY <3>1, <3>2
  <2>4. ASSUME NEW m \in Accounts, NEW k \in Accounts, Standing(v, m), Standing(v, k),
               v.refers[m] = v.refers[k]
        PROVE  v.refers[m] \in {Nothing, Instance} \/ Of(v, m) = Of(v, k)
    <3>1. CASE v.refers[m] = w.refers[m] /\ v.refers[k] = w.refers[k]
      BY <1>1, <1>7, <2>4, <3>1 DEF Sharing
    <3>2. CASE v.refers[m] = o
      BY <1>2, <1>7, <1>10, <2>4, <3>2 DEF ReferredBy
    <3> QED BY <1>10, <2>4, <3>1, <3>2
  <2> QED BY <2>1, <2>2, <2>3, <2>4 DEF Sharing
<1>14. Once(v, tw)
  <2>1. o # Nothing
    BY LegacyAssumption
  <2>2. \A m \in Accounts : w.refers[m] # Nothing => v.refers[m] # Nothing
    BY <1>10, <2>1
  <2> QED BY <1>1, <1>3, <1>7, <2>2 DEF Once
<1>15. Keeping(v, g2, tw, sh)
  <2>1. g \in [LegacyAddresses -> AllContents \union {Nothing}]
    BY <1>1 DEF Keeping
  <2>2. After(g[a], c) \in AllContents /\ After(g[a], c) # Nothing
    <3>1. g[a] \in AllContents \union {Nothing}
      BY <1>4, <2>1
    <3> QED BY <3>1, MergedTyped, LegacyAssumption
  <2>3. g2 = [g EXCEPT ![a] = After(g[a], c)]
    OBVIOUS
  <2>4. /\ g2 \in [LegacyAddresses -> AllContents \union {Nothing}]
        /\ g2[a] = After(g[a], c) /\ \A b \in LegacyAddresses : b # a => g2[b] = g[b]
    BY <1>4, <2>1, <2>2, <2>3
  <2> HIDE DEF g2
  <2>5. ASSUME NEW b \in LegacyAddresses \ tw
        PROVE  (\E m \in Accounts : Standing(v, m) /\ Of(v, m) = b) <=> g2[b] # Nothing
    <3>1. (\E m \in Accounts : Standing(v, m) /\ Of(v, m) = b)
            <=> (\E m \in Accounts : Standing(w, m) /\ Of(w, m) = b)
      BY <1>7
    <3>2. (\E m \in Accounts : Standing(w, m) /\ Of(w, m) = b) <=> g[b] # Nothing
      BY <1>1 DEF Keeping
    <3>3. CASE b = a
      BY <2>2, <2>4, <3>1, <3>3
    <3>4. CASE b # a
      BY <2>4, <3>1, <3>2, <3>4
    <3> QED BY <3>3, <3>4
  <2>6. ASSUME NEW m \in Accounts, Standing(v, m), Of(v, m) \notin tw \union sh
        PROVE  v.content[v.refers[m]] = g2[Of(v, m)]
    <3>1. Standing(w, m) /\ Of(v, m) = Of(w, m) /\ Of(w, m) \in LegacyAddresses
      <4>1. Standing(w, m) /\ Of(v, m) = Of(w, m)
        BY <1>7, <2>6
      <4> QED BY <4>1 DEF Standing, AccountsHeld, Of
    <3>2. w.content[w.refers[m]] = g[Of(w, m)] /\ w.refers[m] # Nothing
      BY <1>1, <2>6, <3>1 DEF Keeping, Once
    <3>3. w.refers[m] \in KeyObjects /\ w.refers[m] # Instance
      BY <1>1, <2>6, <3>1, <3>2 DEF TypedWallet, Sharing
    <3>4. CASE Of(w, m) = a
      <4>1. m = n
        BY <1>1, <2>6, <3>1, <3>4 DEF Once
      <4>2. KeyOf(w, n) = w.content[w.refers[n]] /\ KeyOf(w, n) = g[a]
        BY <3>2, <3>4, <4>1 DEF KeyOf
      <4>3. CASE merges
        <5>1. v.content[w.refers[n]] = Merged(KeyOf(w, n), c)
          BY <1>1, <1>3, <3>3, <4>1, <4>2, <4>3 DEF TypedWallet
        <5>2. After(g[a], c) = Merged(KeyOf(w, n), c)
          BY <4>2, <4>3 DEF After, merges
        <5> QED BY <1>10, <2>4, <3>1, <3>4, <4>1, <4>3, <5>1, <5>2
      <4>4. CASE ~merges
        <5>1. After(g[a], c) = c
          BY <4>2, <4>4 DEF After, merges
        <5> QED BY <1>9, <1>10, <2>4, <3>1, <3>4, <4>1, <4>4, <5>1
      <4> QED BY <4>3, <4>4
    <3>5. CASE Of(w, m) # a
      <4>1. m # n
        BY <3>5
      <4>2. ~ (merges /\ w.refers[m] = w.refers[n])
        BY <1>1, <3>1, <3>2, <3>3, <3>5 DEF Sharing
      <4> QED BY <1>10, <1>11, <2>4, <3>1, <3>2, <3>3, <3>5, <4>1, <4>2
    <3> QED BY <3>4, <3>5
  <2> QED BY <2>4, <2>5, <2>6 DEF Keeping
<1>16. ReferredBy(w, a, o) => ReferredBy(v, a, o)
  BY <1>7, <1>10 DEF ReferredBy
<1>17. WalletInvOf(v, g2, tw, sh)
  BY <1>6, <1>8, <1>13, <1>14, <1>15 DEF WalletInvOf
<1>18. SettingInv(v, g2, tw, sh, a, o, c)
  BY <1>2, <1>9, <1>16, <1>17 DEF SettingInv
<1> QED BY <1>3, <1>18 DEF v

-----------------------------------------------------------------------------
(* The recursive function of an update takes five steps. *)
IsUpdate(f, w, n, o) ==
  /\ f[0] = w /\ KeySet(w, n, o) = f[5]
  /\ \A i \in 1 .. 5 :
       f[i] = IF i > Len(Found(Targets(w, n))) THEN f[i - 1]
              ELSE SetKey(f[i - 1], Targets(w, n)[i], o)

(* The five keys of an update, one after the other.                        *)
LEMMA KeySetSteps ==
  ASSUME NEW w, NEW n, NEW o
  PROVE  \E f : IsUpdate(f, w, n, o)
<1> DEFINE Write(i, x) == IF i > Len(Found(Targets(w, n))) THEN x
                         ELSE SetKey(x, Targets(w, n)[i], o)
           IsSteps(f) == f = [i \in 0 .. 5 |-> IF i = 0 THEN w ELSE Write(i, f[i - 1])]
           r == CHOOSE f : IsSteps(f)
<1>1. \E f : IsSteps(f)
  <2> DEFINE x1 == Write(1, w)
             x2 == Write(2, x1)
             x3 == Write(3, x2)
             x4 == Write(4, x3)
             x5 == Write(5, x4)
             h == [i \in 0 .. 5 |-> IF i = 0 THEN w ELSE IF i = 1 THEN x1 ELSE IF i = 2 THEN x2
                                    ELSE IF i = 3 THEN x3 ELSE IF i = 4 THEN x4 ELSE x5]
  <2> HIDE DEF Write
  <2>1. IsSteps(h)
    OBVIOUS
  <2> QED BY <2>1
<1>2. IsSteps(r)
  <2> HIDE DEF IsSteps
  <2> QED BY <1>1
<1>3. KeySet(w, n, o) = r[5]
  BY DEF KeySet
<1> HIDE DEF Write, r
<1>4. r[0] = w /\ \A i \in 1 .. 5 : r[i] = Write(i, r[i - 1])
  BY <1>2
<1> QED BY <1>3, <1>4 DEF Write, IsUpdate

(* The account objects an update sets the key of are those of the address. *)
LEMMA TargetsStand ==
  ASSUME NEW w, TypedWallet(w), Indexing(w), NEW n \in Accounts, Standing(w, n)
  PROVE  /\ Len(Found(Targets(w, n))) \in 1 .. 5 /\ Targets(w, n)[1] = n
         /\ \A i \in 1 .. 5 : i <= Len(Found(Targets(w, n))) =>
              /\ Targets(w, n)[i] \in Accounts /\ Standing(w, Targets(w, n)[i])
              /\ Of(w, Targets(w, n)[i]) = Of(w, n)
<1> DEFINE a == Of(w, n)
           t == Targets(w, n)
           missing == {i \in DOMAIN t : t[i] = Nothing}
<1>1. /\ w.account[n].index \in Indexes /\ w.slots[w.account[n].index] = n
      /\ w.account[n].address \in LegacyAddresses \X Spelled /\ a = w.account[n].address[1]
      /\ a \in LegacyAddresses /\ n # Nothing
  BY LegacyAssumption DEF Standing, AccountsHeld, Of
<1>2. t = <<n, w.entries[w.account[n].address], w.entries[<<a, "lower">>],
            w.entries[<<a, "0XUPPER">>], w.entries[<<a, "checksum">>]>>
  BY <1>1 DEF Targets
<1> HIDE DEF t
<1>3. \A e \in LegacyAddresses \X Spellings :
        w.entries[e] \in Accounts \union {Nothing} /\
        (w.entries[e] # Nothing => Standing(w, w.entries[e]) /\ Of(w, w.entries[e]) = e[1])
  BY DEF TypedWallet, Indexing
<1>4. /\ w.account[n].address \in LegacyAddresses \X Spellings
      /\ <<a, "lower">> \in LegacyAddresses \X Spellings
      /\ <<a, "0XUPPER">> \in LegacyAddresses \X Spellings
      /\ <<a, "checksum">> \in LegacyAddresses \X Spellings
  BY <1>1 DEF Spellings, Spelled, Written
<1>5. /\ t \in Seq(Accounts \union {Nothing}) /\ Len(t) = 5 /\ DOMAIN t = 1 .. 5 /\ t[1] = n
      /\ \A i \in 1 .. 5 : t[i] # Nothing =>
           t[i] \in Accounts /\ Standing(w, t[i]) /\ Of(w, t[i]) = a
  <2>1. /\ t[1] = n /\ t[2] = w.entries[w.account[n].address] /\ t[3] = w.entries[<<a, "lower">>]
        /\ t[4] = w.entries[<<a, "0XUPPER">>] /\ t[5] = w.entries[<<a, "checksum">>]
    BY <1>2
  <2>2. t \in Seq(Accounts \union {Nothing}) /\ Len(t) = 5 /\ DOMAIN t = 1 .. 5
    BY <1>2, <1>3, <1>4
  <2>3. \A i \in 1 .. 5 : i = 1 \/ i = 2 \/ i = 3 \/ i = 4 \/ i = 5
    OBVIOUS
  <2>4. a = (w.account[n].address)[1] /\ a = <<a, "lower">>[1] /\ a = <<a, "0XUPPER">>[1]
          /\ a = <<a, "checksum">>[1]
    BY <1>1
  <2>5. /\ t[1] # Nothing => t[1] \in Accounts /\ Standing(w, t[1]) /\ Of(w, t[1]) = a
        /\ t[2] # Nothing => t[2] \in Accounts /\ Standing(w, t[2]) /\ Of(w, t[2]) = a
        /\ t[3] # Nothing => t[3] \in Accounts /\ Standing(w, t[3]) /\ Of(w, t[3]) = a
        /\ t[4] # Nothing => t[4] \in Accounts /\ Standing(w, t[4]) /\ Of(w, t[4]) = a
        /\ t[5] # Nothing => t[5] \in Accounts /\ Standing(w, t[5]) /\ Of(w, t[5]) = a
    BY <1>3, <1>4, <2>1, <2>4
  <2> QED BY <2>1, <2>2, <2>3, <2>5
<1>6. Found(t) = IF missing = {} THEN t ELSE SubSeq(t, 1, Min(missing) - 1)
  BY DEF Found
<1>7. CASE missing = {}
  BY <1>5, <1>6, <1>7 DEF t
<1>8. CASE missing # {}
  <2>1. missing \in SUBSET Nat /\ missing \subseteq 2 .. 5
    BY <1>1, <1>5
  <2> HIDE DEF missing
  <2>2. Min(missing) \in missing /\ \A i \in missing : Min(missing) <= i
    BY <1>8, <2>1, Least
  <2>3. Min(missing) \in 2 .. 5
    BY <2>1, <2>2
  <2>4. Len(Found(t)) = Min(missing) - 1
    <3> DEFINE m == Min(missing) - 1
    <3>1. m \in 1 .. 4
      BY <2>3
    <3> HIDE DEF m
    <3>2. Len(SubSeq(t, 1, m)) = m
      BY <1>5, <3>1, SubSeqProperties
    <3> QED BY <1>6, <1>8, <3>2 DEF m
  <2>5. \A i \in 1 .. 5 : i <= Min(missing) - 1 => t[i] # Nothing
    <3>1. \A i \in 1 .. 5 : t[i] = Nothing => i \in missing
      BY <1>5 DEF missing
    <3> QED BY <2>2, <2>3, <3>1
  <2> QED BY <1>5, <2>3, <2>4, <2>5 DEF t
<1> QED BY <1>7, <1>8

(* Thus updateAccountKey sets the key of the address, and no other.        *)
LEMMA KeySetPreserves ==
  ASSUME NEW w, NEW g, NEW tw, NEW sh, NEW n \in Accounts, Standing(w, n),
         NEW o \in KeyObjects, NEW c \in AllContents, NEW a, a = Of(w, n),
         SettingInv(w, g, tw, sh, a, o, c)
  PROVE  WalletInvOf(KeySet(w, n, o), [g EXCEPT ![a] = After(@, c)], tw, sh)
<1> DEFINE t == Targets(w, n)
           last == Len(Found(Targets(w, n)))
           g1 == [g EXCEPT ![a] = After(@, c)]
           Same(v) == v.slots = w.slots /\ v.entries = w.entries /\ v.account = w.account
<1>0. PICK f : IsUpdate(f, w, n, o)
  BY KeySetSteps
<1>1. /\ f[0] = w /\ KeySet(w, n, o) = f[5]
      /\ \A i \in 1 .. 5 : f[i] = IF i > last THEN f[i - 1] ELSE SetKey(f[i - 1], t[i], o)
  BY <1>0 DEF IsUpdate
<1>2. TypedWallet(w) /\ Indexing(w) /\ Keeping(w, g, tw, sh)
  BY DEF SettingInv, WalletInvOf
<1>3. /\ last \in 1 .. 5 /\ t[1] = n
      /\ \A i \in 1 .. 5 : i <= last => t[i] \in Accounts /\ Standing(w, t[i]) /\ Of(w, t[i]) = a
  BY <1>2, TargetsStand
<1> HIDE DEF t, last
<1>4. SettingInv(f[1], g1, tw, sh, a, o, c) /\ Same(f[1])
  <2>1. f[1] = SetKey(w, n, o)
    BY <1>1, <1>3
  <2>2. /\ SettingInv(SetKey(w, n, o), g1, tw, sh, a, o, c)
        /\ SetKey(w, n, o).slots = w.slots /\ SetKey(w, n, o).entries = w.entries
        /\ SetKey(w, n, o).account = w.account
    BY SetKeyPreserves
  <2> HIDE DEF g1
  <2> QED BY <2>1, <2>2
<1>5. [g1 EXCEPT ![a] = After(@, c)] = g1
  <2>1. a \in LegacyAddresses /\ g \in [LegacyAddresses -> AllContents \union {Nothing}]
    BY <1>2 DEF Standing, AccountsHeld, Of, Keeping
  <2>2. After(After(g[a], c), c) = After(g[a], c)
    BY <2>1, MergedTyped
  <2>3. g1 = [g EXCEPT ![a] = After(g[a], c)]
    OBVIOUS
  <2>4. g1[a] = After(g[a], c) /\ g1 = [b \in DOMAIN g1 |-> g1[b]]
    BY <2>1, <2>3
  <2> HIDE DEF g1
  <2> QED BY <2>2, <2>4
<1> HIDE DEF g1
<1>6. ASSUME NEW i \in 2 .. 5, SettingInv(f[i - 1], g1, tw, sh, a, o, c), Same(f[i - 1])
      PROVE  SettingInv(f[i], g1, tw, sh, a, o, c) /\ Same(f[i])
  <2>1. CASE i > last
    BY <1>1, <1>6, <2>1
  <2>2. CASE i <= last
    <3> DEFINE x == f[i - 1]
               m == t[i]
    <3>1. f[i] = SetKey(x, m, o)
      BY <1>1, <1>3, <2>2
    <3>2. SettingInv(x, g1, tw, sh, a, o, c) /\ Same(x)
      BY <1>6
    <3>3. m \in Accounts /\ Standing(w, m) /\ Of(w, m) = a
      BY <1>3, <2>2
    <3> HIDE DEF x, m
    <3>4. Standing(x, m) /\ Of(x, m) = a
      BY <3>2, <3>3 DEF Standing, Of
    <3>5. SettingInv(SetKey(x, m, o), [g1 EXCEPT ![a] = After(@, c)], tw, sh, a, o, c)
          /\ Same(SetKey(x, m, o))
      BY <3>2, <3>3, <3>4, SetKeyPreserves
    <3> QED BY <1>5, <3>1, <3>5
  <2> QED BY <1>3, <2>1, <2>2
<1> HIDE DEF Same
<1>7. SettingInv(f[2], g1, tw, sh, a, o, c) /\ Same(f[2])
  BY <1>4, <1>6
<1>8. SettingInv(f[3], g1, tw, sh, a, o, c) /\ Same(f[3])
  BY <1>6, <1>7
<1>9. SettingInv(f[4], g1, tw, sh, a, o, c) /\ Same(f[4])
  BY <1>6, <1>8
<1>10. SettingInv(f[5], g1, tw, sh, a, o, c)
  BY <1>6, <1>9
<1> QED BY <1>1, <1>10 DEF SettingInv, g1

(* A key that is made for an update belongs to no account yet.             *)
LEMMA MadePreserves ==
  ASSUME NEW w, NEW g, NEW tw, NEW sh, WalletInvOf(w, g, tw, sh), NEW c \in AllContents, NEW a
  PROVE  SettingInv([w EXCEPT !.content[FreeKey(w)] = c], g, tw, sh, a, FreeKey(w), c)
<1> DEFINE o == FreeKey(w)
           v == [w EXCEPT !.content[FreeKey(w)] = c]
<1>1. TypedWallet(w) /\ Counting(w) /\ Indexing(w) /\ Sharing(w, tw, sh)
        /\ Once(w, tw) /\ Keeping(w, g, tw, sh)
  BY DEF WalletInvOf
<1>2. /\ o \in KeyObjects /\ o # Instance /\ Instance \in KeyObjects /\ c # Nothing
      /\ \A m \in Accounts : Standing(w, m) => w.refers[m] # o
  BY <1>1, FreeKeyIsFree, LegacyAssumption DEF KeyObjects
<1> HIDE DEF o
<1>3. /\ DOMAIN v = WalletFields /\ v.slots = w.slots /\ v.entries = w.entries
      /\ v.lastIndex = w.lastIndex /\ v.length = w.length /\ v.account = w.account
      /\ v.refers = w.refers /\ v.content = [w.content EXCEPT ![o] = c]
  BY <1>1 DEF TypedWallet, WalletFields, o
<1> HIDE DEF v
<1>4. v.content[o] = c /\ \A p \in KeyObjects : p # o => v.content[p] = w.content[p]
  BY <1>1, <1>2, <1>3 DEF TypedWallet
<1>5. TypedWallet(v)
  BY <1>1, <1>3 DEF TypedWallet
<1>6. \A m : (Standing(v, m) <=> Standing(w, m)) /\ Of(v, m) = Of(w, m)
  BY <1>3 DEF Standing, Of
<1>7. Counting(v) /\ Indexing(v) /\ Once(v, tw)
  <2>1. Slots(v) = Slots(w)
    BY <1>3 DEF Slots
  <2>2. Counting(v)
    BY <1>1, <1>3, <2>1 DEF Counting
  <2>3. Indexing(v)
    BY <1>1, <1>3, <1>6, <2>1 DEF Indexing
  <2>4. Once(v, tw)
    BY <1>1, <1>3, <1>6 DEF Once
  <2> QED BY <2>2, <2>3, <2>4
<1>8. \A m \in Accounts : Standing(w, m) /\ w.refers[m] # Nothing =>
        v.content[w.refers[m]] = w.content[w.refers[m]]
  BY <1>1, <1>2, <1>4 DEF TypedWallet
<1>9. Sharing(v, tw, sh)
  <2>1. v.content[Instance] # Nothing
    BY <1>1, <1>2, <1>4 DEF Sharing
  <2> QED BY <1>1, <1>3, <1>6, <1>8, <2>1 DEF Sharing
<1>10. Keeping(v, g, tw, sh)
  <2>1. \A m \in Accounts : Standing(w, m) /\ Of(w, m) \notin tw => w.refers[m] # Nothing
    BY <1>1 DEF Once
  <2> QED BY <1>1, <1>3, <1>6, <1>8, <2>1 DEF Keeping
<1>11. ReferredBy(v, a, o)
  BY <1>2, <1>3, <1>6 DEF ReferredBy
<1> QED BY <1>2, <1>4, <1>5, <1>7, <1>9, <1>10, <1>11 DEF SettingInv, WalletInvOf, v, o

(* That more addresses share the instance is no harm,                      *)
LEMMA SharedMore ==
  ASSUME NEW w, NEW g, NEW tw, NEW sh, WalletInvOf(w, g, tw, sh), NEW sh2, sh \subseteq sh2
  PROVE  WalletInvOf(w, g, tw, sh2)
<1>1. Sharing(w, tw, sh) => Sharing(w, tw, sh2)
  BY DEF Sharing
<1>2. Keeping(w, g, tw, sh) => Keeping(w, g, tw, sh2)
  BY DEF Keeping
<1> QED BY <1>1, <1>2 DEF WalletInvOf

(* and that the key objects no account refers to are dropped is none.      *)
LEMMA CollectedPreserves ==
  ASSUME NEW w, NEW g, NEW tw, NEW sh, WalletInvOf(w, g, tw, sh)
  PROVE  WalletInvOf(Collected(w), g, tw, sh)
<1> DEFINE v == Collected(w)
           used == InUse(w)
           referred == {w.refers[n] : n \in used} \union {Instance}
<1>1. TypedWallet(w) /\ Counting(w) /\ Indexing(w) /\ Sharing(w, tw, sh)
        /\ Once(w, tw) /\ Keeping(w, g, tw, sh)
  BY DEF WalletInvOf
<1>2. used = {n \in Accounts : Standing(w, n)}
  BY <1>1, AccountsInUse
<1>3. /\ DOMAIN v = WalletFields /\ v.slots = w.slots /\ v.entries = w.entries
      /\ v.lastIndex = w.lastIndex /\ v.length = w.length
      /\ v.account = [n \in Accounts |-> IF n \in used THEN w.account[n] ELSE Nothing]
      /\ v.refers = [n \in Accounts |-> IF n \in used THEN w.refers[n] ELSE Nothing]
      /\ v.content = [o \in KeyObjects |-> IF o \in referred THEN w.content[o] ELSE Nothing]
  <2> HIDE DEF used, referred
  <2>1. v = [w EXCEPT !.account = [n \in Accounts |-> IF n \in used THEN @[n] ELSE Nothing],
                      !.refers = [n \in Accounts |-> IF n \in used THEN @[n] ELSE Nothing],
                      !.content = [o \in KeyObjects |-> IF o \in referred THEN @[o] ELSE Nothing]]
    BY DEF Collected, used, referred
  <2> HIDE DEF v
  <2>2. DOMAIN w = WalletFields
    BY <1>1 DEF TypedWallet
  <2> QED BY <2>1, <2>2 DEF WalletFields
<1> HIDE DEF v, used
<1>4. TypedWallet(v)
  BY <1>1, <1>3 DEF TypedWallet
<1>5. \A n \in Accounts : /\ Standing(v, n) <=> Standing(w, n)
                          /\ Standing(w, n) => v.account[n] = w.account[n] /\ Of(v, n) = Of(w, n)
                                                 /\ v.refers[n] = w.refers[n]
  <2> SUFFICES ASSUME NEW n \in Accounts
               PROVE  /\ Standing(v, n) <=> Standing(w, n)
                      /\ Standing(w, n) => v.account[n] = w.account[n] /\ Of(v, n) = Of(w, n)
                                             /\ v.refers[n] = w.refers[n]
    OBVIOUS
  <2>1. CASE n \in used
    BY <1>2, <1>3, <2>1 DEF Standing, Of
  <2>2. CASE n \notin used
    <3>1. ~Standing(w, n)
      BY <1>2, <2>2
    <3>2. \A i \in Indexes : w.slots[i] # n
      BY <2>2 DEF used, InUse
    <3>3. ~Standing(v, n)
      BY <1>3, <3>2 DEF Standing, AccountsHeld
    <3> QED BY <3>1, <3>3
  <2> QED BY <2>1, <2>2
<1>6. Slots(v) = Slots(w)
  BY <1>3 DEF Slots
<1>7. Counting(v)
  BY <1>1, <1>3, <1>6 DEF Counting
<1>8. Indexing(v)
  <2>1. \A i \in Slots(w) : w.slots[i] \in Accounts
    BY <1>1 DEF TypedWallet, Slots
  <2>2. \A e \in DOMAIN w.entries : w.entries[e] # Nothing => w.entries[e] \in Accounts
    BY <1>1 DEF TypedWallet
  <2>3. \A i \in Slots(v) : Standing(v, v.slots[i]) /\ v.account[v.slots[i]].index = i
    BY <1>1, <1>3, <1>5, <1>6, <2>1 DEF Indexing
  <2>4. \A e \in DOMAIN v.entries : v.entries[e] # Nothing =>
          /\ Standing(v, v.entries[e]) /\ Of(v, v.entries[e]) = e[1]
          /\ e[2] \in Written \union {v.account[v.entries[e]].address[2]}
    BY <1>1, <1>3, <1>5, <2>2 DEF Indexing
  <2> QED BY <2>3, <2>4 DEF Indexing
<1>9. Once(v, tw)
  BY <1>1, <1>3, <1>5 DEF Once
<1>10. /\ v.content[Instance] = w.content[Instance]
       /\ \A n \in Accounts : Standing(w, n) /\ w.refers[n] # Nothing =>
            v.content[w.refers[n]] = w.content[w.refers[n]]
  <2>1. Instance \in KeyObjects
    BY DEF KeyObjects
  <2>2. \A n \in Accounts : Standing(w, n) => w.refers[n] \in referred
    BY <1>2
  <2>3. \A n \in Accounts : w.refers[n] # Nothing => w.refers[n] \in KeyObjects
    BY <1>1 DEF TypedWallet
  <2>4. Instance \in referred
    OBVIOUS
  <2> HIDE DEF referred
  <2> QED BY <1>3, <2>1, <2>2, <2>3, <2>4
<1>11. Sharing(v, tw, sh)
  BY <1>1, <1>5, <1>10 DEF Sharing
<1>12. Keeping(v, g, tw, sh)
  <2>1. \A m \in Accounts : Standing(w, m) /\ Of(w, m) \notin tw => w.refers[m] # Nothing
    BY <1>1 DEF Once
  <2>2. g \in [LegacyAddresses -> AllContents \union {Nothing}]
    BY <1>1 DEF Keeping
  <2>3. \A a \in LegacyAddresses \ tw :
          (\E n \in Accounts : Standing(v, n) /\ Of(v, n) = a) <=> g[a] # Nothing
    BY <1>1, <1>5 DEF Keeping
  <2>4. \A n \in Accounts : Standing(v, n) /\ Of(v, n) \notin tw \union sh =>
          v.content[v.refers[n]] = g[Of(v, n)]
    BY <1>1, <1>5, <1>10, <2>1 DEF Keeping
  <2> QED BY <2>2, <2>3, <2>4 DEF Keeping
<1> QED BY <1>4, <1>7, <1>8, <1>9, <1>11, <1>12 DEF WalletInvOf, v

-----------------------------------------------------------------------------
(* Clearing. *)
ClearedAt(w, i, x) ==
  LET n == w.slots[i]
  IN IF x.thrown \/ n = Nothing THEN x
     ELSE IF MayRemove(x.wallet, n)
     THEN [x EXCEPT !.wallet = Removed(@, n),
                    !.removed = @ \union {w.account[n].address[1]}]
     ELSE [x EXCEPT !.thrown = TRUE]
ClearedUpTo(f, w, k) ==
  f = [i \in 0 .. k |-> IF i = 0 THEN [wallet |-> w, removed |-> {}, thrown |-> FALSE]
                        ELSE ClearedAt(w, i - 1, f[i - 1])]
ClearingInv(x, w, g, tw, sh, k) ==
  /\ DOMAIN x = {"wallet", "removed", "thrown"}
  /\ WalletInvOf(x.wallet,
                 [a \in LegacyAddresses |-> IF a \in x.removed THEN Nothing ELSE g[a]], tw, sh)
  /\ x.wallet.account = w.account
  /\ \A j \in Indexes : j >= k => x.wallet.slots[j] = w.slots[j]

(* Clearing the wallet, index after index.                                 *)
LEMMA ClearedSteps ==
  ASSUME NEW w
  PROVE  \E f : ClearedUpTo(f, w, MaxIndex) /\ Cleared(w) = f[MaxIndex]
<1> DEFINE bad == {k \in 0 .. MaxIndex : ~ \E f : ClearedUpTo(f, w, k)}
           r == CHOOSE f : ClearedUpTo(f, w, MaxIndex)
<1>1. MaxIndex \in Nat
  BY LegacyAssumption
<1>2. bad = {}
  <2> SUFFICES ASSUME bad # {} PROVE FALSE
    OBVIOUS
  <2>1. bad \in SUBSET Nat
    BY <1>1
  <2> DEFINE m == Min(bad)
  <2>2. m \in bad /\ \A k \in bad : m <= k
    <3> HIDE DEF bad
    <3> QED BY <2>1, Least
  <2> HIDE DEF m
  <2>3. m \in 0 .. MaxIndex /\ m \in Nat /\ ~ \E f : ClearedUpTo(f, w, m)
    BY <1>1, <2>2
  <2>4. CASE m = 0
    <3> DEFINE h == [i \in 0 .. 0 |-> [wallet |-> w, removed |-> {}, thrown |-> FALSE]]
    <3>1. ClearedUpTo(h, w, 0)
      BY DEF ClearedUpTo
    <3> QED BY <2>3, <2>4, <3>1
  <2>5. CASE m # 0
    <3>1. m - 1 \in 0 .. MaxIndex /\ ~ (m <= m - 1)
      BY <1>1, <2>3, <2>5
    <3>2. m - 1 \notin bad
      BY <2>2, <3>1
    <3>3. \E f : ClearedUpTo(f, w, m - 1)
      BY <3>1, <3>2
    <3>4. PICK f : ClearedUpTo(f, w, m - 1)
      BY <3>3
    <3> DEFINE h == [i \in 0 .. m |-> IF i = m THEN ClearedAt(w, m - 1, f[m - 1]) ELSE f[i]]
    <3>5. \A i \in 0 .. m - 1 : f[i] = IF i = 0 THEN [wallet |-> w, removed |-> {}, thrown |-> FALSE]
                                      ELSE ClearedAt(w, i - 1, f[i - 1])
      BY <3>4 DEF ClearedUpTo
    <3>6. \A i \in 0 .. m : h[i] = IF i = 0 THEN [wallet |-> w, removed |-> {}, thrown |-> FALSE]
                                  ELSE ClearedAt(w, i - 1, h[i - 1])
      <4> SUFFICES ASSUME NEW i \in 0 .. m
                   PROVE  h[i] = IF i = 0 THEN [wallet |-> w, removed |-> {}, thrown |-> FALSE]
                                 ELSE ClearedAt(w, i - 1, h[i - 1])
        OBVIOUS
      <4>1. CASE i = m
        <5>1. h[i] = ClearedAt(w, m - 1, f[m - 1])
          BY <2>3, <4>1
        <5>2. h[m - 1] = f[m - 1]
          BY <2>3, <2>5
        <5> HIDE DEF h
        <5> QED BY <2>5, <4>1, <5>1, <5>2
      <4>2. CASE i # m
        <5>1. i \in 0 .. m - 1 /\ h[i] = f[i]
          BY <2>3, <4>2
        <5>2. i # 0 => h[i - 1] = f[i - 1]
          BY <2>3, <4>2
        <5> HIDE DEF h
        <5> QED BY <3>5, <5>1, <5>2
      <4> QED BY <4>1, <4>2
    <3>7. ClearedUpTo(h, w, m)
      <4>1. h = [i \in 0 .. m |-> h[i]]
        OBVIOUS
      <4> HIDE DEF h
      <4> QED BY <3>6, <4>1 DEF ClearedUpTo
    <3> QED BY <2>3, <3>7
  <2> QED BY <2>4, <2>5
<1>3. \E f : ClearedUpTo(f, w, MaxIndex)
  BY <1>1, <1>2
<1>4. ClearedUpTo(r, w, MaxIndex)
  BY <1>3
<1>5. Cleared(w) = r[MaxIndex]
  BY DEF Cleared, ClearedUpTo, ClearedAt
<1> HIDE DEF r
<1> QED BY <1>4, <1>5

(* At each index the account is removed, or clearing stops.                *)
LEMMA ClearedAtPreserves ==
  ASSUME NEW w, NEW g, NEW tw, NEW sh, WalletInvOf(w, g, tw, sh),
         NEW k \in Indexes, NEW x, ClearingInv(x, w, g, tw, sh, k)
  PROVE  ClearingInv(ClearedAt(w, k, x), w, g, tw, sh, k + 1)
<1> DEFINE n == w.slots[k]
           v == x.wallet
           a == w.account[n].address[1]
           gx == [b \in LegacyAddresses |-> IF b \in x.removed THEN Nothing ELSE g[b]]
<1>1. /\ DOMAIN x = {"wallet", "removed", "thrown"} /\ WalletInvOf(v, gx, tw, sh)
      /\ v.account = w.account /\ \A j \in Indexes : j >= k => v.slots[j] = w.slots[j]
  BY DEF ClearingInv
<1>2. Indexes \subseteq Int /\ k \in Int
  BY LegacyAssumption DEF Indexes
<1>3. \A j \in Indexes : j >= k + 1 => v.slots[j] = w.slots[j]
  <2>1. \A j \in Indexes : j >= k + 1 => j >= k
    BY <1>2
  <2> HIDE DEF v
  <2> QED BY <1>1, <2>1
<1>4. CASE x.thrown \/ n = Nothing
  <2>1. ClearedAt(w, k, x) = x
    BY <1>4 DEF ClearedAt
  <2> QED BY <1>1, <1>3, <2>1 DEF ClearingInv
<1>5. CASE ~ (x.thrown \/ n = Nothing) /\ ~MayRemove(v, n)
  <2> DEFINE y == [x EXCEPT !.thrown = TRUE]
  <2>1. ClearedAt(w, k, x) = y
    BY <1>5 DEF ClearedAt
  <2>2. DOMAIN y = {"wallet", "removed", "thrown"} /\ y.wallet = v /\ y.removed = x.removed
    BY <1>1
  <2> HIDE DEF y
  <2> QED BY <1>1, <1>3, <2>1, <2>2 DEF ClearingInv
<1>6. CASE ~ (x.thrown \/ n = Nothing) /\ MayRemove(v, n)
  <2> DEFINE y == [x EXCEPT !.wallet = Removed(@, n), !.removed = @ \union {a}]
             gy == [b \in LegacyAddresses |-> IF b \in y.removed THEN Nothing ELSE g[b]]
  <2>1. ClearedAt(w, k, x) = y
    BY <1>6 DEF ClearedAt
  <2>2. /\ DOMAIN y = {"wallet", "removed", "thrown"} /\ y.wallet = Removed(v, n)
        /\ y.removed = x.removed \union {a}
    BY <1>1
  <2> HIDE DEF y
  <2>3. n \in Accounts /\ Standing(w, n) /\ w.account[n].index = k
    <3>1. TypedWallet(w) /\ Indexing(w)
      BY DEF WalletInvOf
    <3>2. k \in Slots(w) /\ n \in Accounts
      BY <1>6, <3>1 DEF Slots, TypedWallet
    <3> QED BY <3>1, <3>2 DEF Indexing
  <2>4. Standing(v, n) /\ Of(v, n) = a /\ a \in LegacyAddresses /\ v.account[n].index = k
    <3>1. v.slots[k] = n /\ v.account[n] = w.account[n] /\ k >= k
      BY <1>1, <1>2
    <3> QED BY <2>3, <3>1 DEF Standing, Of, AccountsHeld
  <2> HIDE DEF n, v, a
  <2>5. /\ WalletInvOf(Removed(v, n), [gx EXCEPT ![Of(v, n)] = Nothing], tw, sh)
        /\ Removed(v, n).account = v.account
        /\ \A j \in Indexes : j # v.account[n].index => Removed(v, n).slots[j] = v.slots[j]
    <3> HIDE DEF gx
    <3> QED BY <1>1, <2>3, <2>4, RemovedPreserves
  <2>6. [gx EXCEPT ![a] = Nothing] = gy
    BY <2>2, <2>4
  <2>7. \A j \in Indexes : j >= k + 1 => Removed(v, n).slots[j] = w.slots[j]
    BY <1>1, <1>2, <2>4, <2>5
  <2> HIDE DEF gx
  <2>8. WalletInvOf(y.wallet, gy, tw, sh) /\ y.wallet.account = w.account
    BY <1>1, <2>2, <2>4, <2>5, <2>6
  <2>9. \A j \in Indexes : j >= k + 1 => y.wallet.slots[j] = w.slots[j]
    BY <2>2, <2>7
  <2> QED BY <2>1, <2>2, <2>8, <2>9 DEF ClearingInv
<1> QED BY <1>4, <1>5, <1>6

(* The wallet is a wallet when it is cleared, in full or in part.          *)
LEMMA ClearedPreserves ==
  ASSUME NEW w, NEW g, NEW tw, NEW sh, WalletInvOf(w, g, tw, sh)
  PROVE  WalletInvOf(Cleared(w).wallet,
                     [a \in LegacyAddresses |->
                        IF a \in Cleared(w).removed THEN Nothing ELSE g[a]], tw, sh)
<1>1. PICK f : ClearedUpTo(f, w, MaxIndex) /\ Cleared(w) = f[MaxIndex]
  BY ClearedSteps
<1> DEFINE bad == {k \in 0 .. MaxIndex : ~ClearingInv(f[k], w, g, tw, sh, k)}
<1>2. MaxIndex \in Nat
  BY LegacyAssumption
<1>3. \A i \in 0 .. MaxIndex :
        f[i] = IF i = 0 THEN [wallet |-> w, removed |-> {}, thrown |-> FALSE]
               ELSE ClearedAt(w, i - 1, f[i - 1])
  BY <1>1 DEF ClearedUpTo
<1>4. ClearingInv(f[0], w, g, tw, sh, 0)
  <2> DEFINE x == [wallet |-> w, removed |-> {}, thrown |-> FALSE]
  <2>1. f[0] = x
    <3>1. 0 \in 0 .. MaxIndex
      BY <1>2
    <3> QED BY <1>3, <3>1
  <2>2. g \in [LegacyAddresses -> AllContents \union {Nothing}]
    BY DEF WalletInvOf, Keeping
  <2>3. /\ DOMAIN x = {"wallet", "removed", "thrown"} /\ x.wallet = w
        /\ [a \in LegacyAddresses |-> IF a \in x.removed THEN Nothing ELSE g[a]] = g
    BY <2>2
  <2> HIDE DEF x
  <2> QED BY <2>1, <2>3 DEF ClearingInv
<1>5. bad = {}
  <2> SUFFICES ASSUME bad # {} PROVE FALSE
    OBVIOUS
  <2> DEFINE m == Min(bad)
  <2>1. m \in bad /\ \A k \in bad : m <= k
    <3>1. bad \in SUBSET Nat
      BY <1>2
    <3> HIDE DEF bad
    <3> QED BY <3>1, Least
  <2> HIDE DEF m
  <2>2. m \in 0 .. MaxIndex /\ ~ClearingInv(f[m], w, g, tw, sh, m)
    BY <2>1
  <2>3. m # 0
    BY <1>4, <2>2
  <2>4. m - 1 \in 0 .. MaxIndex /\ m - 1 \in Indexes /\ ~ (m <= m - 1) /\ m - 1 + 1 = m
    BY <1>2, <2>2, <2>3 DEF Indexes
  <2>5. ClearingInv(f[m - 1], w, g, tw, sh, m - 1)
    BY <2>1, <2>4
  <2>6. ClearingInv(ClearedAt(w, m - 1, f[m - 1]), w, g, tw, sh, m - 1 + 1)
    BY <2>4, <2>5, ClearedAtPreserves
  <2> QED BY <1>3, <2>2, <2>3, <2>4, <2>6
<1>6. ClearingInv(f[MaxIndex], w, g, tw, sh, MaxIndex)
  BY <1>2, <1>5
<1> QED BY <1>1, <1>6 DEF ClearingInv

-----------------------------------------------------------------------------
(* Decrypting key stores. *)

(* There is room for one more, and for two.                                *)
LEMMA Room ==
  ASSUME NEW U, IsFiniteSet(U), NEW S
  PROVE  /\ Cardinality(U \ S) >= 1 => S # U
         /\ Cardinality(U \ S) >= 2 => \A x : S \union {x} # U
<1>1. ASSUME Cardinality(U \ S) >= 1, S = U PROVE FALSE
  <2>1. U \ S = {}
    BY <1>1
  <2>2. Cardinality({}) = 0
    BY FS_EmptySet
  <2> QED BY <1>1, <2>1, <2>2
<1>2. ASSUME Cardinality(U \ S) >= 2, NEW x, S \union {x} = U PROVE FALSE
  <2>1. U \ S \subseteq {x}
    BY <1>2
  <2>2. IsFiniteSet({x}) /\ Cardinality({x}) = 1
    BY FS_Singleton
  <2>3. Cardinality(U \ S) <= Cardinality({x}) /\ Cardinality(U \ S) \in Nat
    BY <2>1, <2>2, FS_Subset, FS_CardinalityType
  <2> QED BY <1>2, <2>2, <2>3
<1> QED BY <1>1, <1>2

Elsewhere(v, w, a) ==
  /\ \E i : Slots(v) = Slots(w) \union {i}
  /\ \E n : InUse(v) = InUse(w) \union {n}
  /\ \A b \in LegacyAddresses \ {a} :
       /\ MayAdd(w, b, "lower") => MayAdd(v, b, "lower")
       /\ (\E m \in Accounts : Standing(v, m) /\ Of(v, m) = b)
            => \E m \in Accounts : Standing(w, m) /\ Of(w, m) = b

(* Adding one account leaves the others where they were.                   *)
LEMMA AddedElsewhere ==
  ASSUME NEW w, NEW g, NEW tw, NEW sh, WalletInvOf(w, g, tw, sh),
         NEW a \in LegacyAddresses, NEW c \in AllContents,
         Slots(w) # Indexes, InUse(w) # Accounts,
         NEW g2, NEW tw2, NEW sh2, NEW v, v = Added(w, a, "lower", c),
         WalletInvOf(v, g2, tw2, sh2)
  PROVE  Elsewhere(v, w, a)
<1> DEFINE n == FreeAccount(w)
           i == FindSafeIndex(w)
           o == FreeKey(w)
<1>1. /\ TypedWallet(w) /\ Counting(w) /\ Indexing(w) /\ TypedWallet(v) /\ Indexing(v)
      /\ "lower" \in Spelled
  BY DEF WalletInvOf, Spelled
<1>2. n \in Accounts /\ ~Standing(w, n) /\ i \in Indexes \ Slots(w) /\ o \in 1 .. MaxIndex + 1
  BY <1>1, NewAccount, NewIndex, FreeKeyIsFree
<1>3. IsAdded(v, w, a, "lower", c, n, i, o)
  BY <1>1, AddedFields
<1> HIDE DEF n, i, o
<1>4. /\ Standing(v, n) /\ Of(v, n) = a
      /\ \A m \in Accounts \ {n} : (Standing(v, m) <=> Standing(w, m))
                                     /\ v.account[m] = w.account[m]
  <2>1. /\ Standing(v, n) /\ Of(v, n) = a
        /\ v.account[n] = [address |-> <<a, "lower">>, index |-> i]
        /\ \A m \in Accounts \ {n} : /\ Standing(v, m) <=> Standing(w, m)
                                     /\ v.account[m] = w.account[m]
                                     /\ v.refers[m] = w.refers[m]
        /\ v.refers[n] = o
    BY <1>1, <1>2, <1>3, AddedStanding
  <2> QED BY <2>1
<1>5. Slots(v) = Slots(w) \union {i}
  <2>1. n # Nothing /\ v.slots = [w.slots EXCEPT ![i] = n]
    BY <1>2, <1>3, LegacyAssumption DEF IsAdded
  <2> QED BY <1>1, <1>2, <2>1 DEF Slots, TypedWallet
<1>6. InUse(v) = InUse(w) \union {n}
  <2>1. InUse(w) = {m \in Accounts : Standing(w, m)} /\ InUse(v) = {m \in Accounts : Standing(v, m)}
    BY <1>1, AccountsInUse
  <2> QED BY <1>2, <1>4, <2>1
<1>7. ASSUME NEW b \in LegacyAddresses \ {a}
      PROVE  /\ MayAdd(w, b, "lower") => MayAdd(v, b, "lower")
             /\ (\E m \in Accounts : Standing(v, m) /\ Of(v, m) = b)
                   => \E m \in Accounts : Standing(w, m) /\ Of(w, m) = b
  <2>1. <<b, "lower">> \in DOMAIN w.entries /\ <<b, "lower">> \notin {a} \X (Written \union {"lower"})
    BY <1>1 DEF TypedWallet, Spellings, Spelled
  <2>2. v.entries[<<b, "lower">>] = w.entries[<<b, "lower">>]
    BY <1>3, <2>1 DEF IsAdded
  <2>3. ASSUME NEW m \in Accounts, Standing(v, m), Of(v, m) = b
        PROVE  Standing(w, m) /\ Of(w, m) = b
    BY <1>4, <2>3 DEF Of
  <2> QED BY <2>2, <2>3 DEF MayAdd
<1> QED BY <1>5, <1>6, <1>7 DEF Elsewhere

(* An address that stands in the wallet is one that decrypt finds there.   *)
LEMMA ExistingStands ==
  ASSUME WalletInvOf(wallet, given, twice, shared), NEW a,
         NEW n \in Accounts, Standing(wallet, n), Of(wallet, n) = a
  PROVE  Existing(a) # {}
<1>1. TypedWallet(wallet) /\ Indexing(wallet)
  BY DEF WalletInvOf
<1>2. wallet.account[n].index \in Slots(wallet) /\ wallet.slots[wallet.account[n].index] = n
  BY <1>1, AccountsInUse
<1> QED BY <1>2 DEF Existing, Of

(* One and two are two.                                                    *)
LEMMA TwoOfTwo == Cardinality({1, 2}) = 2
<1>1. IsFiniteSet({1}) /\ Cardinality({1}) = 1
  BY FS_Singleton
<1>2. 2 \notin {1} /\ {1} \union {2} = {1, 2}
  OBVIOUS
<1>3. Cardinality({1} \union {2}) = Cardinality({1}) + 1
  BY <1>1, <1>2, FS_AddElement
<1>4. QED
  BY <1>1, <1>2, <1>3

(* The key stores of decrypt are added one after the other: none, one or   *)
(* both of them.                                                           *)
LEMMA DecryptPreserves ==
  ASSUME WalletInvOf(wallet, given, twice, shared),
         NEW stores \in KeyStores, NEW n \in 1 .. 2, n <= Len(stores), Decrypt(stores, n)
  PROVE  WalletInvOf(wallet', given', twice', shared')
<1> DEFINE news == {i \in 1 .. n : MayAdd(wallet, stores[i].address, "lower")}
           Adding(i, x) == IF i \notin news THEN x
                           ELSE Added(x, stores[i].address, "lower", stores[i].content)
           IsSteps(f) == f = [i \in 0 .. n |-> IF i = 0 THEN wallet ELSE Adding(i, f[i - 1])]
           r == CHOOSE f : IsSteps(f)
           x1 == Adding(1, wallet)
           x2 == Adding(2, x1)
           g2 == [a \in LegacyAddresses |->
                    IF \E i \in news : stores[i].address = a
                    THEN stores[CHOOSE i \in news : stores[i].address = a].content
                    ELSE given[a]]
           tw2 == twice \union
                    {stores[i].address : i \in {j \in news : Existing(stores[j].address) # {}}}
           sh2 == shared \ {stores[i].address : i \in news}
<1>1. /\ news # {}
      /\ Cardinality(Indexes \ Slots(wallet)) >= Cardinality(news)
      /\ Cardinality(Accounts \ InUse(wallet)) >= Cardinality(news)
      /\ wallet' = Collected(r[n]) /\ given' = g2 /\ twice' = tw2 /\ shared' = sh2
  BY DEF Decrypt, Call
<1>2. r[n] = IF n = 1 THEN x1 ELSE x2
  <2> HIDE DEF Adding, r
  <2> DEFINE h == [i \in 0 .. n |-> IF i = 0 THEN wallet ELSE IF i = 1 THEN x1 ELSE x2]
  <2>1. IsSteps(h)
    OBVIOUS
  <2>2. \E f : IsSteps(f)
    BY <2>1
  <2>3. IsSteps(r)
    <3> HIDE DEF IsSteps
    <3> QED BY <2>2 DEF r
  <2> QED BY <2>3
<1> HIDE DEF r
<1>3. /\ stores \in Seq([address : LegacyAddresses, content : AllContents])
      /\ \A i, j \in DOMAIN stores : stores[i].address = stores[j].address => i = j
  BY LegacyAssumption
<1>4. \A i \in 1 .. n : /\ i \in DOMAIN stores
                        /\ stores[i].address \in LegacyAddresses
                        /\ stores[i].content \in AllContents
  <2>1. \A i \in DOMAIN stores : stores[i] \in [address : LegacyAddresses, content : AllContents]
    BY <1>3, SequenceIsFunction
  <2>2. DOMAIN stores = 1 .. Len(stores) /\ Len(stores) \in Nat
    BY <1>3
  <2>3. \A i \in 1 .. n : i \in DOMAIN stores
    BY <2>2
  <2> QED BY <2>1, <2>3
<1>5. \A i, j \in news : stores[i].address = stores[j].address => i = j
  BY <1>3, <1>4
<1>6. given \in [LegacyAddresses -> AllContents \union {Nothing}]
  BY DEF WalletInvOf, Keeping
<1>7. /\ "lower" \in Spelled /\ IsFiniteSet(Indexes) /\ IsFiniteSet(Accounts)
  <2>1. 0 \in Int /\ 1 \in Int /\ MaxIndex \in Int /\ MaxIndex - 1 \in Int
    BY LegacyAssumption
  <2>2. IsFiniteSet(0 .. MaxIndex - 1) /\ IsFiniteSet(1 .. MaxIndex)
    BY <2>1, FS_Interval
  <2> QED BY <2>2 DEF Spelled, Indexes, Accounts
(* One account is added. *)
<1>8. ASSUME NEW k \in 1 .. n, news = {k}
      PROVE  WalletInvOf(Added(wallet, stores[k].address, "lower", stores[k].content), g2, tw2, sh2)
  <2> DEFINE a == stores[k].address
             c == stores[k].content
  <2>1. a \in LegacyAddresses /\ c \in AllContents /\ MayAdd(wallet, a, "lower")
    BY <1>4, <1>8
  <2>2. Slots(wallet) # Indexes /\ InUse(wallet) # Accounts
    <3>1. Cardinality(news) = 1
      BY <1>8, FS_Singleton
    <3> HIDE DEF news
    <3> QED BY <1>1, <1>7, <3>1, Room
  <2>3. g2 = [given EXCEPT ![a] = c]
    <3>1. (CHOOSE i \in news : stores[i].address = a) = k
      BY <1>8
    <3>2. \A b : (\E i \in news : stores[i].address = b) <=> b = a
      BY <1>8
    <3> HIDE DEF news, a, c
    <3>3. stores[k].content = c
      BY DEF c
    <3> QED BY <1>6, <2>1, <3>1, <3>2, <3>3
  <2>4. sh2 = shared \ {a}
    BY <1>8
  <2>5. (\E m \in Accounts : Standing(wallet, m) /\ Of(wallet, m) = a) => a \in tw2
    BY <1>8, ExistingStands
  <2>6. twice \subseteq tw2
    OBVIOUS
  <2> HIDE DEF news, a, c, g2, tw2, sh2
  <2>7. WalletInvOf(Added(wallet, a, "lower", c), [given EXCEPT ![a] = c], tw2, shared \ {a})
    BY <1>7, <2>1, <2>2, <2>5, <2>6, AddedPreserves
  <2> QED BY <2>3, <2>4, <2>7 DEF a, c
(* Two are, and there is room for both. *)
<1>9. ASSUME n = 2, news = {1, 2}
      PROVE  WalletInvOf(x2, g2, tw2, sh2)
  <2> DEFINE a == stores[1].address
             c == stores[1].content
             b == stores[2].address
             d == stores[2].content
             v == Added(wallet, a, "lower", c)
             gv == [given EXCEPT ![a] = c]
  <2>1. /\ a \in LegacyAddresses /\ c \in AllContents /\ MayAdd(wallet, a, "lower")
        /\ b \in LegacyAddresses /\ d \in AllContents /\ MayAdd(wallet, b, "lower") /\ a # b
    <3>1. 1 \in news /\ 2 \in news /\ 1 \in 1 .. n /\ 2 \in 1 .. n
      BY <1>9
    <3> QED BY <1>4, <1>5, <3>1
  <2>2. /\ Slots(wallet) # Indexes /\ InUse(wallet) # Accounts
        /\ \A i : Slots(wallet) \union {i} # Indexes
        /\ \A m : InUse(wallet) \union {m} # Accounts
    <3>1. Cardinality({1, 2}) = 2
      BY TwoOfTwo
    <3>2. Cardinality(Indexes \ Slots(wallet)) >= 2 /\ Cardinality(Accounts \ InUse(wallet)) >= 2
      BY <1>1, <1>9, <3>1
    <3>3. /\ Cardinality(Indexes \ Slots(wallet)) \in Nat
          /\ Cardinality(Accounts \ InUse(wallet)) \in Nat
      BY <1>7, FS_Difference, FS_CardinalityType
    <3>4. /\ Cardinality(Indexes \ Slots(wallet)) >= 1 /\ Cardinality(Accounts \ InUse(wallet)) >= 1
      BY <3>2, <3>3
    <3> QED BY <1>7, <3>2, <3>4, Room
  <2>3. twice \subseteq tw2
        /\ ((\E m \in Accounts : Standing(wallet, m) /\ Of(wallet, m) = a) => a \in tw2)
        /\ ((\E m \in Accounts : Standing(wallet, m) /\ Of(wallet, m) = b) => b \in tw2)
    <3>1. 1 \in news /\ 2 \in news
      BY <1>9
    <3>2. (Existing(a) # {} => a \in tw2) /\ (Existing(b) # {} => b \in tw2)
      BY <3>1
    <3> HIDE DEF a, b
    <3>3. twice \subseteq tw2
      OBVIOUS
    <3> HIDE DEF tw2
    <3> QED BY <3>2, <3>3, ExistingStands
  <2>4. g2 = [gv EXCEPT ![b] = d]
    <3>1. /\ (CHOOSE i \in news : stores[i].address = a) = 1
          /\ (CHOOSE i \in news : stores[i].address = b) = 2
      BY <1>9, <2>1
    <3>2. \A p : (\E i \in news : stores[i].address = p) <=> p = a \/ p = b
      BY <1>9
    <3> HIDE DEF news, a, b, c, d
    <3>3. stores[1].content = c /\ stores[2].content = d
      BY DEF c, d
    <3>4. g2[a] = c /\ g2[b] = d /\ \A p \in LegacyAddresses : p # a /\ p # b => g2[p] = given[p]
      BY <2>1, <3>1, <3>2, <3>3
    <3>5. g2 = [p \in LegacyAddresses |-> g2[p]]
      OBVIOUS
    <3> HIDE DEF g2
    <3> QED BY <1>6, <2>1, <3>4, <3>5
  <2>5. sh2 = (shared \ {a}) \ {b}
    BY <1>9
  <2>6. x2 = Added(v, b, "lower", d)
    BY <1>9
  <2> HIDE DEF news, a, b, c, d, g2, tw2, sh2, gv, x1, x2, Adding, v
  <2>7. WalletInvOf(v, gv, tw2, shared \ {a})
    BY <1>7, <2>1, <2>2, <2>3, AddedPreserves DEF gv, v
  <2>8. /\ \E i : Slots(v) = Slots(wallet) \union {i}
        /\ \E m : InUse(v) = InUse(wallet) \union {m}
        /\ MayAdd(v, b, "lower")
        /\ (\E m \in Accounts : Standing(v, m) /\ Of(v, m) = b) => b \in tw2
    <3>1. v = Added(wallet, a, "lower", c)
      BY DEF v
    <3>2. Elsewhere(v, wallet, a)
      BY <2>1, <2>2, <2>7, <3>1, AddedElsewhere
    <3> QED BY <2>1, <2>3, <3>2 DEF Elsewhere
  <2>9. Slots(v) # Indexes /\ InUse(v) # Accounts
    BY <2>2, <2>8
  <2>10. WalletInvOf(Added(v, b, "lower", d), [gv EXCEPT ![b] = d], tw2, (shared \ {a}) \ {b})
    BY <1>7, <2>1, <2>7, <2>8, <2>9, AddedPreserves
  <2> QED BY <2>4, <2>5, <2>6, <2>10
<1>10. WalletInvOf(r[n], g2, tw2, sh2)
  <2>1. CASE n = 1
    <3>1. news = {1}
      BY <1>1, <2>1
    <3>2. r[n] = Added(wallet, stores[1].address, "lower", stores[1].content) /\ 1 \in 1 .. n
      BY <1>2, <2>1, <3>1
    <3> HIDE DEF news, g2, tw2, sh2
    <3> QED BY <1>8, <3>1, <3>2
  <2>2. CASE n = 2
    <3>1. news = {1} \/ news = {2} \/ news = {1, 2}
      <4>1. \A i \in 1 .. n : i = 1 \/ i = 2
        BY <2>2
      <4>2. news \subseteq {1, 2}
        BY <4>1
      <4> HIDE DEF news
      <4> QED BY <1>1, <4>2
    <3> HIDE DEF news
    <3>2. CASE news = {1}
      <4>1. r[n] = Added(wallet, stores[1].address, "lower", stores[1].content) /\ 1 \in 1 .. n
        BY <1>2, <2>2, <3>2
      <4> HIDE DEF g2, tw2, sh2
      <4> QED BY <1>8, <3>2, <4>1
    <3>3. CASE news = {2}
      <4>1. r[n] = Added(wallet, stores[2].address, "lower", stores[2].content) /\ 2 \in 1 .. n
        BY <1>2, <2>2, <3>3
      <4> HIDE DEF g2, tw2, sh2
      <4> QED BY <1>8, <3>3, <4>1
    <3>4. CASE news = {1, 2}
      <4>1. r[n] = x2
        BY <1>2, <2>2
      <4> HIDE DEF g2, tw2, sh2, x2
      <4> QED BY <1>9, <2>2, <3>4, <4>1
    <3> QED BY <3>1, <3>2, <3>3, <3>4
  <2> QED BY <2>1, <2>2
<1> HIDE DEF g2, tw2, sh2
<1>11. WalletInvOf(Collected(r[n]), g2, tw2, sh2)
  BY <1>10, CollectedPreserves
<1> QED BY <1>1, <1>11

-----------------------------------------------------------------------------
(* The invariant holds initially, and every call and every request keeps it. *)
LEMMA LegacyInitially == LegacyInit => LegacyInv
<1> SUFFICES ASSUME LegacyInit PROVE LegacyInv
  OBVIOUS
<1> DEFINE w == wallet
<1>1. /\ DOMAIN EmptyWallet = WalletFields
      /\ EmptyWallet.slots = [i \in Indexes |-> Nothing]
      /\ EmptyWallet.entries = [e \in LegacyAddresses \X Spellings |-> Nothing]
      /\ EmptyWallet.lastIndex = -1 /\ EmptyWallet.length = 0
      /\ EmptyWallet.account = [n \in Accounts |-> Nothing]
      /\ EmptyWallet.refers = [n \in Accounts |-> Nothing]
      /\ EmptyWallet.content = [o \in KeyObjects |-> Nothing]
  BY DEF EmptyWallet, WalletFields
<1>2. /\ DOMAIN w = WalletFields
      /\ w.slots = [i \in Indexes |-> Nothing]
      /\ w.entries = [e \in LegacyAddresses \X Spellings |-> Nothing]
      /\ w.lastIndex = -1 /\ w.length = 0
      /\ w.account = [n \in Accounts |-> Nothing]
      /\ w.refers = [n \in Accounts |-> Nothing]
      /\ w.content = [[o \in KeyObjects |-> Nothing] EXCEPT ![Instance] = InstanceContent]
  BY <1>1 DEF LegacyInit, WalletFields
<1>3. given = [a \in LegacyAddresses |-> Nothing] /\ twice = {} /\ shared = {}
        /\ request = NoRequest /\ legacyCalls = 0
  BY DEF LegacyInit
<1> HIDE DEF w
<1>4. Instance \in KeyObjects /\ InstanceContent \in AllContents /\ InstanceContent # Nothing
      /\ \A n \in Accounts : n # Nothing
  BY LegacyAssumption DEF KeyObjects
<1>5. TypedWallet(w) /\ w.content[Instance] # Nothing
  BY <1>2, <1>4 DEF TypedWallet
<1>6. \A n \in Accounts : ~Standing(w, n)
  BY <1>2, <1>4 DEF Standing, AccountsHeld
<1>7. Slots(w) = {}
  BY <1>2 DEF Slots
<1>8. Counting(w)
  BY <1>2, <1>7, FS_EmptySet DEF Counting
<1>9. Indexing(w)
  BY <1>2, <1>7 DEF Indexing
<1>10. Sharing(w, twice, shared) /\ Once(w, twice)
  BY <1>5, <1>6 DEF Sharing, Once
<1>11. Keeping(w, given, twice, shared)
  BY <1>3, <1>6 DEF Keeping
<1>12. RequestInv
  BY <1>3 DEF RequestInv, NoRequest, LegacyCallSigned
<1>13. legacyCalls \in 0 .. MaxLegacy
  BY <1>3, LegacyAssumption
<1> QED BY <1>5, <1>8, <1>9, <1>10, <1>11, <1>12, <1>13 DEF LegacyInv, WalletInvOf, w

(* It is enough that the wallet after a call is a wallet, with what the    *)
(* addresses were given.                                                   *)
LEMMA CallKeeps ==
  ASSUME LegacyInv, NEW w, Call(w), twice \subseteq twice',
         WalletInvOf(w, given', twice', shared')
  PROVE  LegacyInv'
<1>1. wallet' = Collected(w) /\ request' = request /\ legacyCalls' \in 0 .. MaxLegacy
  <2>1. legacyCalls \in 0 .. MaxLegacy /\ MaxLegacy \in Nat
    BY LegacyAssumption DEF LegacyInv
  <2> QED BY <2>1 DEF Call
<1>2. WalletInvOf(wallet', given', twice', shared')
  BY <1>1, CollectedPreserves
<1>3. RequestInv'
  BY <1>1 DEF LegacyInv, RequestInv, LegacyCallSigned
<1> QED BY <1>1, <1>2, <1>3 DEF LegacyInv

(* add.                                                                    *)
LEMMA AddAccountKeeps ==
  ASSUME LegacyInv, NEW a \in LegacyAddresses, NEW s \in Spelled, NEW c \in Contents,
         AddAccount(a, s, c)
  PROVE  LegacyInv'
<1>1. WalletInvOf(wallet, given, twice, shared) /\ c \in AllContents
  BY LegacyAssumption DEF LegacyInv
<1>2. /\ MayAdd(wallet, a, s) /\ Slots(wallet) # Indexes /\ InUse(wallet) # Accounts
      /\ Call(Added(wallet, a, s, c)) /\ given' = [given EXCEPT ![a] = c]
      /\ twice' = (IF Existing(a) # {} THEN twice \union {a} ELSE twice)
      /\ shared' = shared \ {a}
  BY DEF AddAccount
<1>3. twice \subseteq twice'
  BY <1>2
<1>4. (\E n \in Accounts : Standing(wallet, n) /\ Of(wallet, n) = a) => a \in twice'
  BY <1>1, <1>2, ExistingStands
<1>5. WalletInvOf(Added(wallet, a, s, c), given', twice', shared')
  BY <1>1, <1>2, <1>3, <1>4, AddedPreserves
<1> QED BY <1>2, <1>3, <1>5, CallKeeps

(* What is entered under an address stands, and is of it.                  *)
LEMMA EntryStands ==
  ASSUME LegacyInv, NEW a \in LegacyAddresses, NEW s \in Spellings,
         wallet.entries[<<a, s>>] # Nothing
  PROVE  /\ wallet.entries[<<a, s>>] \in Accounts
         /\ Standing(wallet, wallet.entries[<<a, s>>])
         /\ Of(wallet, wallet.entries[<<a, s>>]) = a
<1>1. TypedWallet(wallet) /\ Indexing(wallet)
  BY DEF LegacyInv, WalletInvOf
<1> DEFINE e == <<a, s>>
<1>2. e \in LegacyAddresses \X Spellings /\ e[1] = a
  OBVIOUS
<1> HIDE DEF e
<1>3. /\ wallet.entries[e] # Nothing =>
           wallet.entries[e] \in Accounts /\ Standing(wallet, wallet.entries[e])
             /\ Of(wallet, wallet.entries[e]) = e[1]
  BY <1>1, <1>2 DEF TypedWallet, Indexing
<1> QED BY <1>2, <1>3 DEF e

(* updateAccountKey, with a key of its own,                                *)
LEMMA UpdateAccountKeyKeeps ==
  ASSUME LegacyInv, NEW a \in LegacyAddresses, NEW s \in Spelled, NEW c \in Contents,
         UpdateAccountKey(a, s, c)
  PROVE  LegacyInv'
<1> DEFINE n == wallet.entries[<<a, s>>]
           o == FreeKey(wallet)
           made == [wallet EXCEPT !.content[FreeKey(wallet)] = c]
<1>1. WalletInvOf(wallet, given, twice, shared) /\ c \in AllContents /\ s \in Spellings
  BY LegacyAssumption DEF LegacyInv, Spellings
<1>2. /\ n # Nothing /\ Call(KeySet(made, n, o)) /\ twice' = twice /\ shared' = shared
      /\ given' = [given EXCEPT ![a] = IF @ # Nothing /\ @.type = c.type THEN Merged(@, c) ELSE c]
  BY DEF UpdateAccountKey
<1>3. n \in Accounts /\ Standing(wallet, n) /\ Of(wallet, n) = a
  BY <1>1, <1>2, EntryStands
<1>4. SettingInv(made, given, twice, shared, a, o, c)
  BY <1>1, MadePreserves
<1>5. made.slots = wallet.slots /\ made.account = wallet.account
  <2>1. DOMAIN wallet = WalletFields
    BY <1>1 DEF WalletInvOf, TypedWallet
  <2> QED BY <2>1 DEF WalletFields
<1>6. o \in KeyObjects
  BY <1>1, FreeKeyIsFree DEF KeyObjects, WalletInvOf
<1> HIDE DEF made, n, o
<1>7. Standing(made, n) /\ Of(made, n) = a
  BY <1>3, <1>5 DEF Standing, Of
<1>8. given' = [given EXCEPT ![a] = After(@, c)]
  BY <1>2 DEF After
<1>9. WalletInvOf(KeySet(made, n, o), [given EXCEPT ![a] = After(@, c)], twice, shared)
  BY <1>1, <1>3, <1>4, <1>6, <1>7, KeySetPreserves
<1> QED BY <1>2, <1>8, <1>9, CallKeeps

(* and with the instance that the application holds.                       *)
LEMMA UpdateWithInstanceKeeps ==
  ASSUME LegacyInv, NEW a \in LegacyAddresses, NEW s \in Spelled, UpdateWithInstance(a, s)
  PROVE  LegacyInv'
<1> DEFINE n == wallet.entries[<<a, s>>]
           c == wallet.content[Instance]
           sh == shared \union {a}
<1>1. WalletInvOf(wallet, given, twice, shared) /\ s \in Spellings
  BY DEF LegacyInv, Spellings
<1>2. /\ n # Nothing /\ Call(KeySet(wallet, n, Instance)) /\ twice' = twice /\ shared' = sh
      /\ given' = [given EXCEPT ![a] = IF @ # Nothing /\ @.type = c.type THEN Merged(@, c) ELSE c]
  BY DEF UpdateWithInstance
<1>3. n \in Accounts /\ Standing(wallet, n) /\ Of(wallet, n) = a
  BY <1>1, <1>2, EntryStands
<1>4. Instance \in KeyObjects /\ c \in AllContents
  <2>1. TypedWallet(wallet) /\ c # Nothing /\ Instance \in KeyObjects
    BY <1>1 DEF WalletInvOf, Sharing, KeyObjects
  <2> QED BY <2>1 DEF TypedWallet
<1>5. WalletInvOf(wallet, given, twice, sh)
  <2>1. shared \subseteq sh
    OBVIOUS
  <2> HIDE DEF sh
  <2> QED BY <1>1, <2>1, SharedMore
<1>6. SettingInv(wallet, given, twice, sh, a, Instance, c)
  <2>1. a \in sh
    OBVIOUS
  <2> HIDE DEF sh
  <2> QED BY <1>5, <2>1 DEF SettingInv
<1> HIDE DEF n, c, sh
<1>7. given' = [given EXCEPT ![a] = After(@, c)]
  BY <1>2 DEF After
<1>8. WalletInvOf(KeySet(wallet, n, Instance), [given EXCEPT ![a] = After(@, c)], twice, sh)
  BY <1>3, <1>4, <1>6, KeySetPreserves
<1> QED BY <1>2, <1>7, <1>8, CallKeeps

(* remove.                                                                 *)
LEMMA RemoveAccountKeeps ==
  ASSUME LegacyInv, NEW n \in InUse(wallet), RemoveAccount(n)
  PROVE  LegacyInv'
<1>1. WalletInvOf(wallet, given, twice, shared)
  BY DEF LegacyInv
<1>2. /\ Call(Removed(wallet, n)) /\ twice' = twice /\ shared' = shared
      /\ given' = [given EXCEPT ![Of(wallet, n)] = Nothing]
  BY DEF RemoveAccount, Of
<1>3. n \in Accounts /\ Standing(wallet, n)
  BY <1>1, AccountsInUse DEF WalletInvOf
<1>4. WalletInvOf(Removed(wallet, n), [given EXCEPT ![Of(wallet, n)] = Nothing], twice, shared)
  BY <1>1, <1>3, RemovedPreserves
<1> QED BY <1>2, <1>4, CallKeeps

(* clear.                                                                  *)
LEMMA ClearKeeps ==
  ASSUME LegacyInv, Clear
  PROVE  LegacyInv'
<1>1. WalletInvOf(wallet, given, twice, shared)
  BY DEF LegacyInv
<1>2. /\ Call(Cleared(wallet).wallet) /\ twice' = twice /\ shared' = shared
      /\ given' = [a \in LegacyAddresses |->
                     IF a \in Cleared(wallet).removed THEN Nothing ELSE given[a]]
  BY DEF Clear
<1>3. WalletInvOf(Cleared(wallet).wallet, given', twice', shared')
  BY <1>1, <1>2, ClearedPreserves
<1> QED BY <1>2, <1>3, CallKeeps

(* decrypt.                                                                *)
LEMMA DecryptKeeps ==
  ASSUME LegacyInv, NEW stores \in KeyStores, NEW n \in 1 .. 2, n <= Len(stores),
         Decrypt(stores, n)
  PROVE  LegacyInv'
<1>1. WalletInvOf(wallet', given', twice', shared')
  BY DecryptPreserves DEF LegacyInv
<1>2. twice \subseteq twice' /\ request' = request /\ legacyCalls' \in 0 .. MaxLegacy
  <2>1. legacyCalls \in 0 .. MaxLegacy /\ MaxLegacy \in Nat
    BY LegacyAssumption DEF LegacyInv
  <2>2. twice \subseteq twice'
    BY DEF Decrypt
  <2>3. legacyCalls < MaxLegacy /\ legacyCalls' = legacyCalls + 1 /\ request' = request
    BY DEF Decrypt, Call
  <2> QED BY <2>1, <2>2, <2>3
<1>3. RequestInv'
  BY <1>2 DEF LegacyInv, RequestInv, LegacyCallSigned
<1> QED BY <1>1, <1>2, <1>3 DEF LegacyInv

(* An address that was never there twice has a key exactly while it is     *)
(* given one, and it is the one it was given unless it shares it.          *)
LEMMA GivenIsFound ==
  ASSUME LegacyInv, NEW a \in LegacyAddresses \ twice
  PROVE  LET n == wallet.entries[<<a, "lower">>]
         IN /\ n = Nothing <=> given[a] = Nothing
            /\ n # Nothing => /\ n \in Accounts /\ Standing(wallet, n) /\ Of(wallet, n) = a
                              /\ wallet.refers[n] # Nothing
                              /\ KeyOf(wallet, n) = wallet.content[wallet.refers[n]]
                              /\ KeyOf(wallet, n) # Nothing
                              /\ a \notin shared => KeyOf(wallet, n) = given[a]
<1> DEFINE n == wallet.entries[<<a, "lower">>]
<1>1. "lower" \in Spellings /\ "lower" \in Written /\ a \in LegacyAddresses /\ a \notin twice
  BY DEF Spellings, Spelled, Written
<1>2. /\ Sharing(wallet, twice, shared) /\ Once(wallet, twice)
      /\ Keeping(wallet, given, twice, shared)
  BY DEF LegacyInv, WalletInvOf
<1>3. n # Nothing => n \in Accounts /\ Standing(wallet, n) /\ Of(wallet, n) = a
  BY <1>1, EntryStands
<1>4. (\E m \in Accounts : Standing(wallet, m) /\ Of(wallet, m) = a) <=> given[a] # Nothing
  BY <1>1, <1>2 DEF Keeping
<1>5. \A m \in Accounts : Standing(wallet, m) /\ Of(wallet, m) = a => n = m /\ m # Nothing
  <2> SUFFICES ASSUME NEW m \in Accounts, Standing(wallet, m), Of(wallet, m) = a
               PROVE  n = m /\ m # Nothing
    OBVIOUS
  <2>1. \A s \in Written \union {wallet.account[m].address[2]} :
          wallet.entries[<<Of(wallet, m), s>>] = m
    BY <1>1, <1>2 DEF Once
  <2> QED BY <1>1, <2>1, LegacyAssumption
<1> HIDE DEF n
<1>6. n # Nothing => /\ wallet.refers[n] # Nothing
                     /\ KeyOf(wallet, n) = wallet.content[wallet.refers[n]]
                     /\ KeyOf(wallet, n) # Nothing
                     /\ a \notin shared => KeyOf(wallet, n) = given[a]
  <2> SUFFICES ASSUME n # Nothing
               PROVE  /\ wallet.refers[n] # Nothing
                      /\ KeyOf(wallet, n) = wallet.content[wallet.refers[n]]
                      /\ KeyOf(wallet, n) # Nothing
                      /\ a \notin shared => KeyOf(wallet, n) = given[a]
    OBVIOUS
  <2>1. wallet.refers[n] # Nothing
    BY <1>1, <1>2, <1>3 DEF Once
  <2>2. KeyOf(wallet, n) = wallet.content[wallet.refers[n]]
    BY <2>1 DEF KeyOf
  <2>3. wallet.content[wallet.refers[n]] # Nothing
    BY <1>2, <1>3, <2>1 DEF Sharing
  <2>4. a \notin shared => wallet.content[wallet.refers[n]] = given[a]
    BY <1>1, <1>2, <1>3 DEF Keeping
  <2> QED BY <2>1, <2>2, <2>3, <2>4
<1>7. n = Nothing <=> given[a] = Nothing
  BY <1>3, <1>4, <1>5
<1> QED BY <1>3, <1>6, <1>7 DEF n

(* A request is sent, signed by the wallet or by the node.                 *)
LEMMA SentKeeps ==
  ASSUME LegacyInv, request.phase = "pricing",
         NEW who \in {"wallet", "node"}, NEW key, SentBy(who, key),
         UNCHANGED <<wallet, given, twice, shared, legacyCalls>>,
         LET a == request.address
         IN a \notin twice =>
              IF who = "wallet" THEN a \in shared \/ key = TransactionKey(given[a])
              ELSE given[a] = Nothing /\ (request.type = "LEGACY" \/ wallet.length = 0)
  PROVE  LegacyInv'
<1>1. /\ DOMAIN request' = {"phase", "by", "address", "type", "key", "given", "shared", "emptied"}
      /\ request'.phase = "sent" /\ request'.by = who /\ request'.address = request.address
      /\ request'.type = request.type /\ request'.key = key
      /\ request'.given = given[request.address]
      /\ request'.shared = (request.address \in shared)
      /\ request'.emptied = (wallet.length = 0)
  BY DEF SentBy
<1>2. LegacyCallSigned'
  BY <1>1 DEF LegacyCallSigned
<1>3. RequestInv'
  BY <1>1, <1>2 DEF RequestInv
<1> QED BY <1>3 DEF LegacyInv, WalletInvOf

(* The gas price is answered, and the request is sent with the account     *)
(* that the wallet has by then.                                            *)
LEMMA PricedKeeps ==
  ASSUME LegacyInv, Priced
  PROVE  LegacyInv'
<1> DEFINE a == request.address
           n == wallet.entries[<<a, "lower">>]
           key == TransactionKey(wallet.content[wallet.refers[n]])
<1>1. /\ request.phase = "pricing" /\ a \in LegacyAddresses
      /\ UNCHANGED <<wallet, given, twice, shared, legacyCalls>>
  BY DEF Priced, LegacyInv, RequestInv
<1>2. IF wallet.length = 0 THEN SentBy("node", Nothing)
      ELSE IF HasPrivateKey(wallet, a)
      THEN IF key = Nothing THEN request' = NoRequest ELSE SentBy("wallet", key)
      ELSE IF request.type = "LEGACY" THEN SentBy("node", Nothing)
      ELSE request' = NoRequest
  BY DEF Priced
<1>3. a \notin twice =>
        /\ n = Nothing <=> given[a] = Nothing
        /\ n # Nothing => /\ n \in Accounts /\ Standing(wallet, n)
                          /\ KeyOf(wallet, n) = wallet.content[wallet.refers[n]]
                          /\ KeyOf(wallet, n) # Nothing
                          /\ a \notin shared => KeyOf(wallet, n) = given[a]
  BY <1>1, GivenIsFound
<1>4. HasPrivateKey(wallet, a) <=> n # Nothing /\ KeyOf(wallet, n) # Nothing
  BY DEF HasPrivateKey
<1>5. CASE wallet.length = 0
  <2>1. a \notin twice => given[a] = Nothing
    <3> SUFFICES ASSUME a \notin twice, given[a] # Nothing PROVE FALSE
      OBVIOUS
    <3>1. n \in Accounts /\ Standing(wallet, n)
      BY <1>3
    <3>2. Slots(wallet) # {} /\ Cardinality(Slots(wallet)) = 0
      <4>1. TypedWallet(wallet) /\ Indexing(wallet) /\ Counting(wallet)
        BY DEF LegacyInv, WalletInvOf
      <4>2. wallet.account[n].index \in Slots(wallet)
        BY <3>1, <4>1, AccountsInUse
      <4> QED BY <1>5, <4>1, <4>2 DEF Counting
    <3>3. IsFiniteSet(Slots(wallet))
      <4>1. 0 \in Int /\ MaxIndex - 1 \in Int
        BY LegacyAssumption
      <4>2. IsFiniteSet(Indexes)
        BY <4>1, FS_Interval DEF Indexes
      <4>3. Slots(wallet) \subseteq Indexes
        BY DEF Slots
      <4> QED BY <4>2, <4>3, FS_Subset
    <3> QED BY <3>2, <3>3, FS_EmptySet
  <2>2. SentBy("node", Nothing)
    BY <1>2, <1>5
  <2> HIDE DEF a, n, key
  <2> QED BY <1>1, <1>5, <2>1, <2>2, SentKeeps DEF a
<1>6. ASSUME request' = NoRequest PROVE LegacyInv'
  <2>1. RequestInv'
    BY <1>6 DEF RequestInv, NoRequest, LegacyCallSigned
  <2> QED BY <1>1, <2>1 DEF LegacyInv, WalletInvOf
<1>7. CASE wallet.length # 0 /\ HasPrivateKey(wallet, a) /\ key # Nothing
  <2>1. SentBy("wallet", key)
    BY <1>2, <1>7
  <2>2. a \notin twice => a \in shared \/ key = TransactionKey(given[a])
    BY <1>3, <1>4, <1>7
  <2> HIDE DEF n, key
  <2> QED BY <1>1, <2>1, <2>2, SentKeeps
<1>8. CASE wallet.length # 0 /\ ~HasPrivateKey(wallet, a) /\ request.type = "LEGACY"
  <2>1. SentBy("node", Nothing)
    BY <1>2, <1>8
  <2>2. a \notin twice => given[a] = Nothing
    BY <1>3, <1>4, <1>8
  <2> HIDE DEF n, key
  <2> QED BY <1>1, <1>8, <2>1, <2>2, SentKeeps
<1> QED BY <1>2, <1>5, <1>6, <1>7, <1>8

(* Every step of caver.klay.accounts.                                      *)
LEMMA LegacyStep == LegacyInv /\ LegacyNext => LegacyInv'
<1> SUFFICES ASSUME LegacyInv, LegacyNext PROVE LegacyInv'
  OBVIOUS
<1>1. ASSUME NEW a \in LegacyAddresses, NEW s \in Spelled, NEW c \in Contents, AddAccount(a, s, c)
      PROVE  LegacyInv'
  BY <1>1, AddAccountKeeps
<1>2. ASSUME NEW a \in LegacyAddresses, NEW s \in Spelled, NEW c \in Contents,
             UpdateAccountKey(a, s, c)
      PROVE  LegacyInv'
  BY <1>2, UpdateAccountKeyKeeps
<1>3. ASSUME NEW a \in LegacyAddresses, NEW s \in Spelled, NEW c \in Contents,
             UpdatePrivateKey(a, s, c)
      PROVE  LegacyInv'
  BY <1>3, UpdateAccountKeyKeeps DEF UpdatePrivateKey
<1>4. ASSUME NEW a \in LegacyAddresses, NEW s \in Spelled, UpdateWithInstance(a, s)
      PROVE  LegacyInv'
  BY <1>4, UpdateWithInstanceKeeps
<1>5. ASSUME NEW a \in LegacyAddresses, SendRequest(a) PROVE LegacyInv'
  <2>1. /\ DOMAIN request' = {"phase", "address", "type"} /\ request'.phase = "pricing"
        /\ request'.address = a
        /\ UNCHANGED <<wallet, given, twice, shared, legacyCalls>>
    BY <1>5 DEF SendRequest
  <2>2. RequestInv'
    BY <2>1 DEF RequestInv, LegacyCallSigned
  <2> QED BY <2>1, <2>2 DEF LegacyInv, WalletInvOf
<1>6. ASSUME NEW n \in InUse(wallet), RemoveAccount(n) PROVE LegacyInv'
  BY <1>6, RemoveAccountKeeps
<1>7. ASSUME NEW stores \in KeyStores, NEW n \in 1 .. 2, n <= Len(stores), Decrypt(stores, n)
      PROVE  LegacyInv'
  BY <1>7, DecryptKeeps
<1>8. CASE Clear
  BY <1>8, ClearKeeps
<1>9. CASE Priced
  BY <1>9, PricedKeeps
<1> QED BY <1>1, <1>2, <1>3, <1>4, <1>5, <1>6, <1>7, <1>8, <1>9 DEF LegacyNext

(* What the invariant says is what LegacyFaithful asks.                    *)
LEMMA FaithfulFollows == LegacyInv => LegacyFaithful
<1> SUFFICES ASSUME LegacyInv PROVE LegacyFaithful
  OBVIOUS
<1>1. Counting(wallet)
  BY DEF LegacyInv, WalletInvOf
<1>2. wallet.lastIndex = Max(Slots(wallet) \union {-1})
  <2> DEFINE S == Slots(wallet) \union {-1}
             x == wallet.lastIndex
  <2>1. S \subseteq Int
    BY LegacyAssumption DEF Slots, Indexes
  <2>2. x \in S /\ \A y \in S : y <= x
    <3>1. x \in S /\ (\A y \in Slots(wallet) : y <= x)
      BY <1>1 DEF Counting
    <3>2. Slots(wallet) \subseteq Nat
      BY LegacyAssumption DEF Slots, Indexes
    <3>3. -1 <= x
      BY <3>1, <3>2
    <3> QED BY <3>1, <3>3
  <2> HIDE DEF S, x
  <2>3. Max(S) = x
    BY <2>1, <2>2, GreatestIs
  <2> QED BY <2>3 DEF S, x
<1>3. ASSUME NEW a \in LegacyAddresses \ twice
      PROVE  LET n == wallet.entries[<<a, "lower">>]
             IN /\ n = Nothing <=> given[a] = Nothing
                /\ n # Nothing => /\ wallet.slots[wallet.account[n].index] = n
                                  /\ wallet.account[n].address[1] = a
                                  /\ KeyOf(wallet, n) # Nothing
                                  /\ a \notin shared => KeyOf(wallet, n) = given[a]
  BY GivenIsFound DEF Standing, Of
<1>4. LegacyIndexed
  BY <1>1, <1>2, <1>3 DEF LegacyIndexed, Counting
<1> QED BY <1>4 DEF LegacyFaithful, LegacyInv, RequestInv

-----------------------------------------------------------------------------
(* A Contract object: its calls, its events, its deployments. *)

(* The method that a call by name becomes is one of the name, and takes    *)
(* the arguments if one of them does.                                      *)
LEMMA ResolvedFits ==
  ASSUME NEW S, NEW interface \in Seq(S), NEW name, NEW arguments,
         Named(interface, "function", name) # {}
  PROVE  LET methods == Named(interface, "function", name)
             entry == Resolved(interface, name, arguments)
         IN /\ \E i \in methods : entry = interface[i]
            /\ (\E i \in methods : Encodable(interface[i], arguments))
                 => Encodable(entry, arguments)
<1> DEFINE methods == Named(interface, "function", name)
           first == Min(methods)
           taken == {i \in methods : i = first \/ ~PassesOn(interface[i], arguments)}
           m == Max(taken)
<1>1. methods \subseteq 1 .. Len(interface) /\ Len(interface) \in Nat
  BY DEF Named, PlacesOf
<1>2. first \in methods /\ \A i \in methods : first <= i
  <2> methods \in SUBSET Nat /\ methods # {}
    BY <1>1
  <2> HIDE DEF methods
  <2> QED BY Least
<1>3. m \in taken /\ \A i \in taken : i <= m
  <2>1. taken # {} /\ taken \subseteq -1 .. Len(interface)
    BY <1>1, <1>2
  <2> HIDE DEF taken
  <2> QED BY <1>1, <2>1, Greatest
<1>4. Resolved(interface, name, arguments) = interface[m]
  BY DEF Resolved
<1> HIDE DEF m, first, methods
<1>5. ASSUME NEW i \in methods, Encodable(interface[i], arguments)
      PROVE  Encodable(interface[m], arguments)
  <2>1. i \in taken
    BY <1>5 DEF PassesOn, Encodable
  <2>2. first <= i /\ i <= m /\ m \in methods
    BY <1>2, <1>3, <2>1
  <2>3. CASE m = first
    <3>1. m = i
      BY <1>1, <1>2, <2>2, <2>3
    <3> QED BY <1>5, <3>1
  <2>4. CASE m # first
    BY <1>3, <2>4 DEF PassesOn
  <2> QED BY <2>3, <2>4
<1> QED BY <1>3, <1>4, <1>5 DEF methods

(* The topics of a log, or of a filter, by their places: the signature of  *)
(* the event before one for each of its inputs, unless it is anonymous.    *)
LEMMA TopicPlaces ==
  ASSUME NEW first, NEW n \in Nat, NEW rest, rest = [i \in 1 .. n |-> rest[i]],
         NEW b \in BOOLEAN
  PROVE  LET topics == (IF b THEN << >> ELSE <<first>>) \o rest
         IN /\ Len(topics) = IF b THEN n ELSE n + 1
            /\ ~b => /\ topics[1] = first
                     /\ \A i \in 1 .. n : topics[i + 1] = rest[i]
                     /\ SubSeq(topics, 1, 1) = <<first>>
<1> DEFINE T == {first} \union {rest[i] : i \in 1 .. n}
<1>1. rest \in Seq(T) /\ Len(rest) = n
  <2>1. rest \in [1 .. n -> T]
    OBVIOUS
  <2> QED BY <2>1
<1>2. <<first>> \in Seq(T) /\ << >> \in Seq(T)
  OBVIOUS
<1> HIDE DEF T
<1>3. CASE b
  <2>1. << >> \o rest = rest
    BY <1>1
  <2> QED BY <1>1, <1>3, <2>1
<1>4. CASE ~b
  <2> DEFINE topics == <<first>> \o rest
  <2>1. /\ topics \in Seq(T) /\ Len(topics) = n + 1 /\ topics[1] = first
        /\ \A i \in 1 .. n : topics[i + 1] = rest[i]
    BY <1>1, <1>2
  <2>2. SubSeq(topics, 1, 1) = <<first>>
    <3> HIDE DEF topics
    <3> DEFINE s == SubSeq(topics, 1, 1)
    <3>1. s \in Seq(T) /\ Len(s) = 1 /\ s[1] = topics[1]
      BY <1>1, <2>1, SubSeqProperties
    <3> HIDE DEF s
    <3>2. s = <<s[1]>>
      BY <3>1
    <3> QED BY <2>1, <3>1, <3>2 DEF s
  <2> QED BY <1>4, <2>1, <2>2
<1> QED BY <1>3, <1>4

EventEntries == [type : {"event"}, name : STRING, inputs : Seq(STRING), anonymous : BOOLEAN]

(* The topics of a log.                                                    *)
LEMMA TopicsOfLog ==
  ASSUME NEW event \in EventEntries, NEW values
  PROVE  LET topics == LogTopics(event, values)
             n == Len(event.inputs)
         IN /\ Len(topics) = IF event.anonymous THEN n ELSE n + 1
            /\ \A i \in 1 .. n : event.anonymous => topics[i] = Value(values[event.inputs[i]])
            /\ ~event.anonymous => /\ topics[1] = Signature(event)
                                   /\ \A i \in 1 .. n : topics[i + 1] = Value(values[event.inputs[i]])
                                   /\ SubSeq(topics, 1, 1) = <<Signature(event)>>
<1> DEFINE rest == [i \in DOMAIN event.inputs |-> Value(values[event.inputs[i]])]
           n == Len(event.inputs)
           b == event.anonymous
<1>1. n \in Nat /\ DOMAIN event.inputs = 1 .. n /\ b \in BOOLEAN
  BY DEF EventEntries
<1>2. rest = [i \in 1 .. n |-> rest[i]]
  BY <1>1
<1>3. \A i \in 1 .. n : rest[i] = Value(values[event.inputs[i]])
  BY <1>1
<1>4. LogTopics(event, values) = (IF b THEN << >> ELSE <<Signature(event)>>) \o rest
  BY DEF LogTopics
<1> HIDE DEF rest, n, b
<1>5. CASE ~b
  <2>1. /\ Len(LogTopics(event, values)) = n + 1
        /\ LogTopics(event, values)[1] = Signature(event)
        /\ \A i \in 1 .. n : LogTopics(event, values)[i + 1] = rest[i]
        /\ SubSeq(LogTopics(event, values), 1, 1) = <<Signature(event)>>
    BY <1>1, <1>2, <1>4, <1>5, TopicPlaces
  <2> QED BY <1>3, <1>5, <2>1 DEF n, b
<1>6. CASE b
  <2>1. LogTopics(event, values) = rest
    <3>1. rest \in Seq({rest[i] : i \in 1 .. n})
      <4> DEFINE T == {rest[i] : i \in 1 .. n}
      <4>1. rest \in [1 .. n -> T]
        BY <1>2
      <4> HIDE DEF T
      <4>2. rest \in Seq(T)
        BY <1>1, <4>1
      <4> QED BY <4>2 DEF T
    <3>2. LogTopics(event, values) = << >> \o rest
      BY <1>4, <1>6
    <3> QED BY <3>1, <3>2
  <2>2. Len(LogTopics(event, values)) = n
    BY <1>1, <1>2, <1>4, <1>6, TopicPlaces
  <2> QED BY <1>3, <1>6, <2>1, <2>2 DEF n, b
<1> QED BY <1>5, <1>6

(* An event that gets through a filter is the one asked for, and has the   *)
(* values the filter gives.                                                *)
LEMMA HeardAsAsked ==
  ASSUME NEW event \in EventEntries, NEW logged \in EventEntries, NEW filter, NEW values,
         Passes(EventTopics(event, filter), LogTopics(logged, values)), ~event.anonymous
  PROVE  /\ logged = event
         /\ \A input \in Range(event.inputs) \intersect DOMAIN filter :
              \/ filter[input] = Only(0) \/ filter[input].values = {}
              \/ values[input] \in filter[input].values
<1> DEFINE topic(i) == LET input == event.inputs[i]
                       IN IF input \in DOMAIN filter /\ filter[input] # Only(0)
                          THEN {Value(v) : v \in filter[input].values} ELSE AnyTopic
           rest == [i \in DOMAIN event.inputs |-> topic(i)]
           n == Len(event.inputs)
           topics == EventTopics(event, filter)
           of == LogTopics(logged, values)
<1>1. n \in Nat /\ DOMAIN event.inputs = 1 .. n
  BY DEF EventEntries
<1>2. /\ Len(topics) = n + 1 /\ topics[1] = {Signature(event)}
      /\ \A i \in 1 .. n : topics[i + 1] = topic(i)
  <2>1. topics = (IF event.anonymous THEN << >> ELSE <<{Signature(event)}>>) \o rest
    BY DEF EventTopics
  <2>2. rest = [i \in 1 .. n |-> rest[i]] /\ \A i \in 1 .. n : rest[i] = topic(i)
    BY <1>1
  <2>3. event.anonymous \in BOOLEAN
    BY DEF EventEntries
  <2> HIDE DEF rest, topic, topics, n
  <2> QED BY <1>1, <2>1, <2>2, <2>3, TopicPlaces
<1>3. \A i \in 1 .. n + 1 : (topics[i] = AnyTopic \/ of[i] \in topics[i])
                             /\ Len(topics) <= Len(of)
  <2>1. DOMAIN topics = 1 .. Len(topics)
    <3> DEFINE T == {{Signature(event)}} \union {topic(i) : i \in 1 .. n}
    <3>1. rest \in [1 .. n -> T]
      BY <1>1
    <3>2. <<{Signature(event)}>> \in Seq(T)
      OBVIOUS
    <3> HIDE DEF T, topic
    <3>3. rest \in Seq(T)
      BY <1>1, <3>1
    <3>4. topics = <<{Signature(event)}>> \o rest
      BY DEF EventTopics, topic
    <3> QED BY <3>2, <3>3, <3>4
  <2> HIDE DEF topic, topics
  <2> QED BY <1>2, <2>1 DEF Passes, topics
<1>4. logged = event
  <2>1. Signature(event) = of[1]
    <3>1. {Signature(event)} # AnyTopic
      BY DEF AnyTopic
    <3> HIDE DEF topics, topic, of
    <3> QED BY <1>1, <1>2, <1>3, <3>1
  <2>2. ~logged.anonymous
    <3> SUFFICES ASSUME logged.anonymous PROVE FALSE
      OBVIOUS
    <3>1. Len(logged.inputs) \in Nat /\ Len(of) = Len(logged.inputs) /\ Len(of) >= 1
      <4>1. Len(logged.inputs) \in Nat
        BY DEF EventEntries
      <4> HIDE DEF topics, topic, n
      <4>2. Len(of) = Len(logged.inputs)
        BY TopicsOfLog
      <4> HIDE DEF of
      <4> QED BY <1>1, <1>2, <1>3, <4>1, <4>2
    <3>2. of[1] = Value(values[logged.inputs[1]])
      <4> HIDE DEF topics, topic, n
      <4> QED BY <3>1, TopicsOfLog
    <3> QED BY <2>1, <3>2 DEF Signature, Value
  <2>3. of[1] = Signature(logged)
    <3> HIDE DEF topics, topic, n
    <3> QED BY <2>2, TopicsOfLog
  <2> QED BY <2>1, <2>3 DEF Signature
<1>5. ASSUME NEW input \in Range(event.inputs) \intersect DOMAIN filter,
             filter[input] # Only(0), filter[input].values # {}
      PROVE  values[input] \in filter[input].values
  <2>1. PICK i \in 1 .. n : event.inputs[i] = input
    BY <1>1 DEF Range
  <2>2. topics[i + 1] = {Value(v) : v \in filter[input].values}
    BY <1>2, <1>5, <2>1
  <2>3. of[i + 1] = Value(values[input])
    <3> HIDE DEF topics, topic
    <3> QED BY <1>1, <1>4, <2>1, TopicsOfLog
  <2>4. topics[i + 1] = AnyTopic \/ of[i + 1] \in topics[i + 1]
    <3> HIDE DEF topics, topic, of
    <3> QED BY <1>1, <1>3
  <2> HIDE DEF topics, topic, of, n
  <2>5. topics[i + 1] # AnyTopic
    BY <1>5, <2>2 DEF AnyTopic
  <2>6. \A v, w : Value(v) = Value(w) => v = w
    BY DEF Value
  <2> QED BY <2>2, <2>3, <2>4, <2>5, <2>6
<1> QED BY <1>4, <1>5

ObjectTyped ==
  /\ DOMAIN object = {"interface", "constructor", "deployData"}
  /\ object.interface \in Interfaces \union {<< >>}
  /\ object.deployData \in Codes \union {Absent}
  /\ contractCalls \in 0 .. MaxContract
ObjectInv == ObjectTyped /\ MethodResolved /\ DeployedAsGiven /\ FilteredAsAsked

(* Nothing is asked for, initially.                                        *)
LEMMA ObjectInitially == ObjectInit => ObjectInv
BY ObjectAssumption
   DEF ObjectInit, ObjectInv, ObjectTyped, Made, WithInterface, NoResult,
       MethodResolved, DeployedAsGiven, FilteredAsAsked

(* The entries of the interface.                                           *)
LEMMA InterfaceTyped ==
  ASSUME ObjectTyped
  PROVE  /\ object.interface \in Seq(Entries)
         /\ EventsIn(object.interface) \subseteq EventEntries
<1>1. object.interface \in Seq(Entries)
  <2>1. << >> \in Seq(Entries)
    OBVIOUS
  <2> QED BY <2>1, ObjectAssumption DEF ObjectTyped
<1>2. ASSUME NEW i \in PlacesOf(object.interface, "event")
      PROVE  object.interface[i] \in EventEntries
  <2>1. object.interface[i] \in Entries /\ object.interface[i].type = "event"
    BY <1>1 DEF PlacesOf
  <2> QED BY <2>1 DEF Entries, EventEntries
<1> QED BY <1>1, <1>2 DEF EventsIn

(* The event that is asked for by its name is one of the interface.        *)
LEMMA EventFound ==
  ASSUME NEW interface \in Seq(Entries), NEW name, NEW byProperty,
         Named(interface, "event", name) # {}
  PROVE  EventFor(interface, name, byProperty) \in EventsIn(interface)
<1> DEFINE events == Named(interface, "event", name)
<1>1. /\ events \subseteq PlacesOf(interface, "event") /\ Len(interface) \in Nat
      /\ events \in SUBSET Nat /\ events \in SUBSET (-1 .. Len(interface))
  BY DEF Named, PlacesOf
<1> HIDE DEF events
<1>2. Min(events) \in events /\ Max(events) \in events
  <2>1. events # {}
    BY DEF events
  <2> QED BY <1>1, <2>1, Least, Greatest
<1>3. EventFor(interface, name, byProperty)
        = interface[IF byProperty THEN Max(events) ELSE Min(events)]
  BY DEF EventFor, events
<1> QED BY <1>1, <1>2, <1>3 DEF EventsIn

(* What the Contract object holds is what its application gave it, and     *)
(* what it makes of a call is what was asked, whatever is called.          *)
LEMMA ObjectStep == ASSUME ObjectInv, ObjectNext PROVE ObjectInv'
<1>1. ObjectTyped
  BY DEF ObjectInv
<1>2. ASSUME NEW o, NEW r, Called(o, r),
             o.interface \in Interfaces \union {<< >>}, o.deployData \in Codes \union {Absent},
             DOMAIN o = {"interface", "constructor", "deployData"}
      PROVE  object' = o /\ result' = r /\ ObjectTyped'
  BY <1>1, <1>2, ObjectAssumption DEF Called, ObjectTyped
<1>3. ASSUME NEW r, Called(object, r)
      PROVE  object' = object /\ result' = r /\ ObjectTyped'
  BY <1>1, <1>2, <1>3 DEF ObjectTyped
<1>4. ASSUME NEW interface \in Interfaces \union {<< >>}, NEW before,
             Called(WithInterface(before, interface), [kind |-> "set"])
      PROVE  ObjectInv'
  <2>1. result' = [kind |-> "set"] /\ ObjectTyped'
    BY <1>2, <1>4 DEF WithInterface
  <2> QED BY <2>1 DEF ObjectInv, MethodResolved, DeployedAsGiven, FilteredAsAsked
<1>5. ASSUME NEW interface \in Interfaces, SetInterface(interface) PROVE ObjectInv'
  BY <1>4, <1>5 DEF SetInterface
<1>6. CASE Clone
  BY <1>1, <1>4, <1>6 DEF Clone, Made, ObjectTyped
<1>7. ASSUME NEW e, NEW arguments, CallMethod(e.name, arguments) PROVE ObjectInv'
  <2> DEFINE entry == Resolved(object.interface, e.name, arguments)
             r == [kind |-> IF Encodable(entry, arguments) THEN "sent" ELSE "refused",
                   name |-> e.name, arguments |-> arguments, entry |-> entry]
  <2>1. Called(object, r) /\ Named(object.interface, "function", e.name) # {}
    BY <1>7 DEF CallMethod
  <2>2. /\ r.kind = IF Encodable(entry, arguments) THEN "sent" ELSE "refused"
        /\ r.name = e.name /\ r.arguments = arguments /\ r.entry = entry
    OBVIOUS
  <2>3. (\E i \in Named(object.interface, "function", e.name) :
           Encodable(object.interface[i], arguments)) => Encodable(entry, arguments)
    BY <1>1, <2>1, InterfaceTyped, ResolvedFits
  <2> HIDE DEF r, entry
  <2>4. object' = object /\ result' = r /\ ObjectTyped'
    BY <1>3, <2>1
  <2>5. MethodResolved'
    BY <2>2, <2>3, <2>4 DEF MethodResolved, Encodable
  <2> QED BY <2>2, <2>4, <2>5 DEF ObjectInv, DeployedAsGiven, FilteredAsAsked
<1>8. ASSUME NEW code \in Codes, NEW arguments, Deploy(code, arguments) PROVE ObjectInv'
  <2> DEFINE first == object.deployData = Absent
             kept == IF first THEN [object EXCEPT !.deployData = code] ELSE object
             rest == IF first THEN arguments ELSE <<HexCode>> \o arguments
             bound == object.constructor
             declared == ConstructorIn(object.interface)
             refused == \/ bound # Absent /\ Len(bound.inputs) # Len(rest)
                        \/ declared # Absent /\ ~Encodable(declared, rest)
             r == [kind |-> IF refused THEN "notDeployed" ELSE "deployed",
                   code |-> kept.deployData, given |-> code, first |-> first,
                   encoded |-> IF declared = Absent THEN << >> ELSE rest,
                   arguments |-> arguments, declared |-> declared, bound |-> bound]
  <2>1. Called(kept, r)
    BY <1>8 DEF Deploy
  <2>2. /\ DOMAIN kept = {"interface", "constructor", "deployData"}
        /\ kept.interface = object.interface /\ kept.deployData \in Codes \union {Absent}
        /\ first => kept.deployData = code
    BY <1>1 DEF ObjectTyped
  <2>3. first => rest = arguments
    OBVIOUS
  <2>4. /\ r.kind = IF refused THEN "notDeployed" ELSE "deployed"
        /\ r.code = kept.deployData /\ r.given = code /\ (r.first <=> first)
        /\ r.encoded = IF declared = Absent THEN << >> ELSE rest
        /\ r.arguments = arguments /\ r.declared = declared /\ r.bound = bound
    OBVIOUS
  <2> HIDE DEF r, kept, rest, declared, bound, first
  <2>5. object' = kept /\ result' = r /\ ObjectTyped'
    BY <1>1, <1>2, <2>1, <2>2 DEF ObjectTyped
  <2>6. DeployedAsGiven'
    <3>1. ASSUME r.kind = "deployed", r.first
          PROVE  r.code = r.given /\ (r.declared # Absent => r.encoded = r.arguments)
      BY <2>2, <2>3, <2>4, <3>1
    <3>2. ASSUME r.kind = "notDeployed", r.first,
                 r.declared = Absent \/ Encodable(r.declared, r.arguments)
          PROVE  r.bound # Absent /\ r.bound # r.declared
      BY <2>3, <2>4, <3>2 DEF Encodable
    <3> QED BY <2>5, <3>1, <3>2 DEF DeployedAsGiven
  <2> QED BY <2>4, <2>5, <2>6 DEF ObjectInv, MethodResolved, FilteredAsAsked
<1>9. ASSUME NEW name, NEW byProperty, NEW filter, NEW logged \in EventsIn(object.interface),
             NEW values, HearEvent(name, byProperty, filter, logged, values)
      PROVE  ObjectInv'
  <2> DEFINE event == EventFor(object.interface, name, byProperty)
             r == [kind |-> "event", asked |-> event, filter |-> filter,
                   logged |-> logged, values |-> values]
  <2>1. /\ Called(object, r) /\ Named(object.interface, "event", name) # {}
        /\ Passes(EventTopics(event, filter), LogTopics(logged, values))
    BY <1>9 DEF HearEvent
  <2>2. /\ r.kind = "event" /\ r.asked = event /\ r.filter = filter
        /\ r.logged = logged /\ r.values = values
    OBVIOUS
  <2>3. event \in EventEntries /\ logged \in EventEntries
    BY <1>1, <2>1, InterfaceTyped, EventFound
  <2> HIDE DEF r, event
  <2>4. object' = object /\ result' = r /\ ObjectTyped'
    BY <1>3, <2>1
  <2>5. FilteredAsAsked'
    <3>1. ~event.anonymous =>
            /\ logged = event
            /\ \A input \in Range(event.inputs) \intersect DOMAIN filter :
                 \/ filter[input] = Only(0) \/ filter[input].values = {}
                 \/ values[input] \in filter[input].values
      BY <2>1, <2>3, HeardAsAsked
    <3> QED BY <2>2, <2>4, <3>1 DEF FilteredAsAsked
  <2> QED BY <2>2, <2>4, <2>5 DEF ObjectInv, MethodResolved, DeployedAsGiven
<1>10. ASSUME NEW logged \in EventsIn(object.interface), NEW values, HearAnyEvent(logged, values)
       PROVE  ObjectInv'
  <2> DEFINE known == {e \in EventsIn(object.interface) :
                         <<Signature(e)>> = SubSeq(LogTopics(logged, values), 1, 1)}
             r == [kind |-> "anyEvent", logged |-> logged,
                   as |-> IF known = {} THEN Absent ELSE CHOOSE e \in known : TRUE]
  <2>1. Called(object, r)
    BY <1>10 DEF HearAnyEvent
  <2>2. /\ r.kind = "anyEvent" /\ r.logged = logged
        /\ r.as = IF known = {} THEN Absent ELSE CHOOSE e \in known : TRUE
    OBVIOUS
  <2>3. ~logged.anonymous => known = {logged}
    <3> SUFFICES ASSUME ~logged.anonymous PROVE known = {logged}
      OBVIOUS
    <3>1. SubSeq(LogTopics(logged, values), 1, 1) = <<Signature(logged)>>
      BY <1>1, InterfaceTyped, TopicsOfLog
    <3>2. ASSUME NEW e, <<Signature(e)>> = <<Signature(logged)>> PROVE e = logged
      <4>1. Signature(e) = Signature(logged)
        BY <3>2
      <4> QED BY <4>1 DEF Signature
    <3> QED BY <3>1, <3>2
  <2> HIDE DEF r, known
  <2>4. object' = object /\ result' = r /\ ObjectTyped'
    BY <1>3, <2>1
  <2>5. FilteredAsAsked'
    BY <2>2, <2>3, <2>4 DEF FilteredAsAsked
  <2> QED BY <2>2, <2>4, <2>5 DEF ObjectInv, MethodResolved, DeployedAsGiven
<1> QED BY <1>5, <1>6, <1>7, <1>8, <1>9, <1>10 DEF ObjectNext

-----------------------------------------------------------------------------
(* A call of detectInterface. *)
Supports(id) == id \in detection.contract
DetectionTyped ==
  /\ DOMAIN detection = {"phase", "standard", "contract", "isTrue", "failed", "waiting", "detected"}
  /\ detection.phase \in {"isTrue", "isFalse", "basic", "extensions", "detected", "notSupported"}
  /\ detection.standard \in Standards
  /\ DOMAIN detection.detected = DOMAIN InterfaceIds[detection.standard]
  /\ detection.detected = [i \in DOMAIN detection.detected |-> detection.detected[i]]
DetectionInv ==
  detection # NoDetection =>
    LET ids == InterfaceIds[detection.standard]
        basic == Basic[detection.standard]
        kip13 == Supports(Kip13Ids.true) /\ ~Supports(Kip13Ids.false)
        Told(i) == detection.detected[i] <=> Supports(ids[i])
    IN /\ DetectionTyped
       /\ detection.phase = "isFalse" => (detection.isTrue <=> Supports(Kip13Ids.true))
       /\ detection.phase \in {"basic", "extensions", "detected"} => kip13
       /\ detection.phase = "notSupported" => detection.failed \/ ~kip13
       /\ detection.phase = "extensions" =>
            /\ Supports(ids[basic]) /\ basic \notin detection.waiting
            /\ \A i \in DOMAIN ids \ detection.waiting : Told(i)
       /\ detection.phase = "detected" =>
            \A i \in DOMAIN ids :
              detection.detected[i] <=> Supports(ids[basic]) /\ Supports(ids[i])
       /\ detection.phase \in {"isTrue", "isFalse", "basic"} =>
            \A i \in DOMAIN ids : ~detection.detected[i]

(* The interface that a standard cannot do without is one of its own.      *)
LEMMA BasicIsKnown ==
  \A s \in Standards : Basic[s] \in DOMAIN InterfaceIds[s]
BY DEF Standards, Basic, InterfaceIds

(* Nothing is detected, initially.                                         *)
LEMMA DetectionInitially == TokenInit => DetectionInv
BY DEF TokenInit, DetectionInv

(* Every answer of the contract is true of it, in whatever order they      *)
(* come.                                                                   *)
LEMMA DetectionStep == ASSUME DetectionInv, TokenNext PROVE DetectionInv'
<1>1. ASSUME NEW s \in Standards, NEW c, Detect(s, c) PROVE DetectionInv'
  <2>1. /\ DOMAIN detection' = {"phase", "standard", "contract", "isTrue", "failed", "waiting",
                                "detected"}
        /\ detection'.phase = "isTrue" /\ detection'.standard = s
        /\ detection'.detected = [i \in DOMAIN InterfaceIds[s] |-> FALSE]
    BY <1>1 DEF Detect
  <2> HIDE DEF InterfaceIds
  <2> QED BY <2>1 DEF DetectionInv, DetectionTyped
<1>2. ASSUME DetectStep PROVE DetectionInv'
  <2> DEFINE s == detection.standard
             ids == InterfaceIds[s]
             basic == Basic[s]
  <2>1. detection # NoDetection
    BY <1>2 DEF DetectStep, NoDetection
  <2>2. DetectionTyped
    BY <2>1 DEF DetectionInv
  <2>3. basic \in DOMAIN ids
    BY <2>2, BasicIsKnown DEF DetectionTyped
  <2>4. CASE QueryFails
    <3>1. /\ DOMAIN detection' = DOMAIN detection /\ detection'.phase = "notSupported"
          /\ detection'.standard = s /\ detection'.failed = TRUE
          /\ detection'.detected = detection.detected
      BY <2>2, <2>4 DEF QueryFails, DetectionTyped
    <3> QED BY <2>2, <3>1 DEF DetectionInv, DetectionTyped
  <2>5. CASE Kip13Answers /\ detection.phase = "isTrue"
    <3>1. detection' = [detection EXCEPT !.phase = "isFalse", !.isTrue = Asks(Kip13Ids.true)]
      BY <2>5 DEF Kip13Answers
    <3>2. /\ DOMAIN detection' = DOMAIN detection /\ detection'.phase = "isFalse"
          /\ detection'.standard = s /\ (detection'.isTrue <=> Asks(Kip13Ids.true))
          /\ detection'.detected = detection.detected /\ detection'.contract = detection.contract
      BY <2>2, <3>1 DEF DetectionTyped
    <3> QED BY <2>1, <2>2, <2>5, <3>2 DEF DetectionInv, DetectionTyped, Supports, Asks
  <2>6. CASE Kip13Answers /\ detection.phase = "isFalse"
    <3>1. detection' = [detection EXCEPT !.phase = IF detection.isTrue /\ ~Asks(Kip13Ids.false)
                                                   THEN "basic" ELSE "notSupported"]
      BY <2>6 DEF Kip13Answers
    <3>2. /\ DOMAIN detection' = DOMAIN detection
          /\ detection'.phase = (IF detection.isTrue /\ ~Asks(Kip13Ids.false)
                                 THEN "basic" ELSE "notSupported")
          /\ detection'.standard = s
          /\ detection'.detected = detection.detected /\ detection'.contract = detection.contract
      BY <2>2, <3>1 DEF DetectionTyped
    <3> QED BY <2>1, <2>2, <2>6, <3>2 DEF DetectionInv, DetectionTyped, Supports, Asks
  <2>7. CASE BasicAnswers
    <3> DEFINE supported == Asks(ids[basic])
    <3>1. /\ detection.phase = "basic"
          /\ detection' = [detection EXCEPT
                             !.detected[basic] = supported,
                             !.phase = IF supported THEN "extensions" ELSE "detected",
                             !.waiting = IF supported THEN DOMAIN detection.detected \ {basic}
                                         ELSE {}]
      BY <2>7 DEF BasicAnswers
    <3>2. /\ DOMAIN detection' = DOMAIN detection /\ detection'.standard = s
          /\ detection'.phase = (IF supported THEN "extensions" ELSE "detected")
          /\ detection'.waiting = (IF supported THEN DOMAIN detection.detected \ {basic} ELSE {})
          /\ detection'.contract = detection.contract
          /\ detection'.detected = [detection.detected EXCEPT ![basic] = supported]
      BY <2>2, <3>1 DEF DetectionTyped
    <3>3. /\ DOMAIN detection'.detected = DOMAIN detection.detected
          /\ detection'.detected[basic] <=> supported
          /\ \A i \in DOMAIN ids : i # basic => detection'.detected[i] = detection.detected[i]
      BY <2>2, <2>3, <3>2 DEF DetectionTyped
    <3>4. DetectionTyped'
      BY <2>2, <3>2, <3>3 DEF DetectionTyped
    <3> QED BY <2>1, <2>2, <2>3, <3>1, <3>2, <3>3, <3>4 DEF DetectionInv, DetectionTyped, Supports, Asks
  <2>8. ASSUME NEW k \in DOMAIN detection.detected, ExtensionAnswers(k) PROVE DetectionInv'
    <3>1. /\ detection.phase = "extensions" /\ k \in detection.waiting
          /\ detection' = [detection EXCEPT
                             !.detected[k] = Asks(ids[k]),
                             !.waiting = @ \ {k},
                             !.phase = IF detection.waiting = {k} THEN "detected"
                                       ELSE "extensions"]
      BY <2>8 DEF ExtensionAnswers
    <3>2. /\ DOMAIN detection' = DOMAIN detection /\ detection'.standard = s
          /\ detection'.phase = (IF detection.waiting = {k} THEN "detected" ELSE "extensions")
          /\ detection'.waiting = detection.waiting \ {k}
          /\ detection'.contract = detection.contract
          /\ detection'.detected = [detection.detected EXCEPT ![k] = Asks(ids[k])]
      BY <2>2, <3>1 DEF DetectionTyped
    <3>3. /\ DOMAIN detection'.detected = DOMAIN detection.detected
          /\ detection'.detected[k] <=> Asks(ids[k])
          /\ \A i \in DOMAIN ids : i # k => detection'.detected[i] = detection.detected[i]
      BY <2>2, <2>3, <3>2 DEF DetectionTyped
    <3>4. DetectionTyped'
      BY <2>2, <3>2, <3>3 DEF DetectionTyped
    <3> QED BY <2>1, <2>2, <2>3, <3>1, <3>2, <3>3, <3>4 DEF DetectionInv, DetectionTyped, Supports, Asks
  <2> QED BY <1>2, <2>2, <2>4, <2>5, <2>6, <2>7, <2>8 DEF DetectStep, Kip13Answers
<1>3. ASSUME UNCHANGED detection PROVE DetectionInv'
  BY <1>3 DEF DetectionInv, DetectionTyped, Supports
<1>4. ASSUME CallAnyMethod PROVE UNCHANGED detection
  BY <1>4 DEF CallAnyMethod, CallToken
<1> QED BY <1>1, <1>2, <1>3, <1>4 DEF TokenNext

(* So detectInterface tells what the contract is.                          *)
LEMMA DetectedFollows == DetectionInv => DetectedRight
<1> SUFFICES ASSUME DetectionInv PROVE DetectedRight
  OBVIOUS
<1> HIDE DEF InterfaceIds, Basic
<1> QED BY DEF DetectionInv, DetectedRight, Supports, NoDetection

-----------------------------------------------------------------------------
(* A method of a token: what its interface and its class say of it, the    *)
(* types of the arguments it is called with, and the overload it chooses. *)

(* The type of a parameter of a kind that is always given, or left out as  *)
(* a whole.                                                                *)
TypeFor(kind) ==
  CASE kind = "address" -> "address"
    [] kind \in {"uint256", "id", "pausedId"} -> "uint256"
    [] kind = "flag" -> "bool"
    [] kind \in {"text", "uri"} -> "string"
    [] kind = "bytes4" -> "bytes4"
    [] kind = "data" -> "bytes"
    [] kind = "addresses" -> "address[]"
    [] kind = "uint256s" -> "uint256[]"
    [] OTHER -> "none"
Wanted(kinds) == [i \in DOMAIN kinds |-> TypeFor(kinds[i])]
WantedShort(kinds) == [i \in 1 .. Len(kinds) - 1 |-> TypeFor(kinds[i])]
MayBeLeftOut(standard) ==
  {"id", "pausedId"} \union (IF standard = "KIP37" THEN {} ELSE {"data"})

(* The types of the kinds,                                                 *)
LEMMA TypeForIs ==
  /\ TypeFor("address") = "address" /\ TypeFor("uint256") = "uint256"
  /\ TypeFor("id") = "uint256" /\ TypeFor("pausedId") = "uint256"
  /\ TypeFor("flag") = "bool" /\ TypeFor("text") = "string"
  /\ TypeFor("uri") = "string" /\ TypeFor("bytes4") = "bytes4"
  /\ TypeFor("data") = "bytes" /\ TypeFor("addresses") = "address[]"
  /\ TypeFor("uint256s") = "uint256[]"
BY DEF TypeFor

(* The kinds of a method's parameters: only the last may be left out, and  *)
(* which of them stand together.                                           *)
Given == {"address", "uint256", "flag", "text", "bytes4", "addresses", "uint256s"}
Optional == {"data", "uri", "id", "pausedId"}
Shaped(standard, m) ==
  LET kinds == m.params
      n == Len(kinds)
  IN /\ n \in Nat /\ DOMAIN kinds = 1 .. n
     /\ \A i \in 1 .. n : kinds[i] \in Given \/ (i = n /\ kinds[i] \in Optional)
     /\ n > 0 /\ kinds[n] \in {"data", "uri"} =>
          \A i \in 1 .. n : i # n => kinds[i] \in {"address", "uint256", "uint256s"}
     /\ n > 0 /\ kinds[n] = "uri" => standard = "KIP37"
     /\ m.does \in {"call", "send"}
     /\ m.does = "call" => \A i \in 1 .. n : kinds[i] \notin {"data", "uri", "id"}
Listed(s) == Len(s) \in Nat /\ s = [i \in 1 .. Len(s) |-> s[i]]
Serves(standard, kinds, inputs) ==
  /\ Len(inputs) \in Nat /\ DOMAIN inputs = 1 .. Len(inputs)
  /\ \A j \in DOMAIN inputs : /\ Listed(inputs[j])
                              /\ \A i \in DOMAIN inputs[j] : inputs[j][i] # "none"
  /\ \E j \in DOMAIN inputs : inputs[j] = Wanted(kinds)
  /\ Len(kinds) > 0 /\ kinds[Len(kinds)] \in MayBeLeftOut(standard) =>
       \E j \in DOMAIN inputs : inputs[j] = WantedShort(kinds)

(* Inputs are sequences.                                                   *)
LEMMA TuplesListed ==
  /\ Listed(<< >>)
  /\ \A a : Listed(<<a>>)
  /\ \A a, b : Listed(<<a, b>>)
  /\ \A a, b, c : Listed(<<a, b, c>>)
  /\ \A a, b, c, d : Listed(<<a, b, c, d>>)
  /\ \A a, b, c, d, e : Listed(<<a, b, c, d, e>>)
BY DEF Listed

(* The methods of KIP7 have overloads for their arguments.                *)
LEMMA Kip7Serves ==
  ASSUME NEW m \in Kip7Reads \union Kip7Sends, NEW name \in m.names
  PROVE  Shaped("KIP7", m) /\ Serves("KIP7", m.params, Kip7Inputs(name))
<1> DEFINE kinds == m.params
           inputs == Kip7Inputs(name)
<1>1. CASE m = Reads({"name", "symbol", "decimals", "totalSupply", "paused"},
               << >>)
  <2>1. m.does = "call" /\ kinds = << >>
        /\ inputs = << << >> >>
    BY <1>1 DEF Reads, Methods, Kip7Inputs
  <2> HIDE DEF kinds, inputs
  <2>2. Len(kinds) = 0 /\ DOMAIN kinds = 1 .. 0
    BY <2>1
  <2>3. Shaped("KIP7", m)
    BY <2>1, <2>2 DEF kinds, Shaped, Given, Optional
  <2>4. Wanted(kinds) = << >>
    BY <2>2, TypeForIs DEF Wanted
  <2>5. Serves("KIP7", kinds, inputs)
    BY <2>1, <2>2, <2>4, TuplesListed DEF Serves, MayBeLeftOut
  <2> QED BY <2>1, <2>3, <2>5 DEF kinds, inputs
<1>2. CASE m = Reads({"balanceOf", "isMinter", "isPauser"}, <<"address">>)
  <2>1. m.does = "call" /\ kinds = <<"address">>
        /\ inputs = << <<"address">> >>
    BY <1>2 DEF Reads, Methods, Kip7Inputs
  <2> HIDE DEF kinds, inputs
  <2>2. Len(kinds) = 1 /\ DOMAIN kinds = 1 .. 1 /\ kinds[1] = "address"
    BY <2>1
  <2>3. Shaped("KIP7", m)
    BY <2>1, <2>2 DEF kinds, Shaped, Given, Optional
  <2>4. Wanted(kinds) = <<"address">>
    BY <2>2, TypeForIs DEF Wanted
  <2>5. Serves("KIP7", kinds, inputs)
    BY <2>1, <2>2, <2>4, TuplesListed DEF Serves, MayBeLeftOut
  <2> QED BY <2>1, <2>3, <2>5 DEF kinds, inputs
<1>3. CASE m = Reads({"allowance"}, <<"address", "address">>)
  <2>1. m.does = "call" /\ kinds = <<"address", "address">>
        /\ inputs = << <<"address", "address">> >>
    BY <1>3 DEF Reads, Methods, Kip7Inputs
  <2> HIDE DEF kinds, inputs
  <2>2. Len(kinds) = 2 /\ DOMAIN kinds = 1 .. 2 /\ kinds[1] = "address" /\
        kinds[2] = "address"
    BY <2>1
  <2>3. Shaped("KIP7", m)
    BY <2>1, <2>2 DEF kinds, Shaped, Given, Optional
  <2>4. Wanted(kinds) = <<"address", "address">>
    BY <2>2, TypeForIs DEF Wanted
  <2>5. Serves("KIP7", kinds, inputs)
    BY <2>1, <2>2, <2>4, TuplesListed DEF Serves, MayBeLeftOut
  <2> QED BY <2>1, <2>3, <2>5 DEF kinds, inputs
<1>4. CASE m = Reads({"supportsInterface"}, <<"bytes4">>)
  <2>1. m.does = "call" /\ kinds = <<"bytes4">>
        /\ inputs = << <<"bytes4">> >>
    BY <1>4 DEF Reads, Methods, Kip7Inputs
  <2> HIDE DEF kinds, inputs
  <2>2. Len(kinds) = 1 /\ DOMAIN kinds = 1 .. 1 /\ kinds[1] = "bytes4"
    BY <2>1
  <2>3. Shaped("KIP7", m)
    BY <2>1, <2>2 DEF kinds, Shaped, Given, Optional
  <2>4. Wanted(kinds) = <<"bytes4">>
    BY <2>2, TypeForIs DEF Wanted
  <2>5. Serves("KIP7", kinds, inputs)
    BY <2>1, <2>2, <2>4, TuplesListed DEF Serves, MayBeLeftOut
  <2> QED BY <2>1, <2>3, <2>5 DEF kinds, inputs
<1>5. CASE m = Sends({"pause", "unpause", "renounceMinter", "renouncePauser"},
               << >>)
  <2>1. m.does = "send" /\ kinds = << >>
        /\ inputs = << << >> >>
    BY <1>5 DEF Sends, Methods, Kip7Inputs
  <2> HIDE DEF kinds, inputs
  <2>2. Len(kinds) = 0 /\ DOMAIN kinds = 1 .. 0
    BY <2>1
  <2>3. Shaped("KIP7", m)
    BY <2>1, <2>2 DEF kinds, Shaped, Given, Optional
  <2>4. Wanted(kinds) = << >>
    BY <2>2, TypeForIs DEF Wanted
  <2>5. Serves("KIP7", kinds, inputs)
    BY <2>1, <2>2, <2>4, TuplesListed DEF Serves, MayBeLeftOut
  <2> QED BY <2>1, <2>3, <2>5 DEF kinds, inputs
<1>6. CASE m = Sends({"addMinter", "addPauser"}, <<"address">>)
  <2>1. m.does = "send" /\ kinds = <<"address">>
        /\ inputs = << <<"address">> >>
    BY <1>6 DEF Sends, Methods, Kip7Inputs
  <2> HIDE DEF kinds, inputs
  <2>2. Len(kinds) = 1 /\ DOMAIN kinds = 1 .. 1 /\ kinds[1] = "address"
    BY <2>1
  <2>3. Shaped("KIP7", m)
    BY <2>1, <2>2 DEF kinds, Shaped, Given, Optional
  <2>4. Wanted(kinds) = <<"address">>
    BY <2>2, TypeForIs DEF Wanted
  <2>5. Serves("KIP7", kinds, inputs)
    BY <2>1, <2>2, <2>4, TuplesListed DEF Serves, MayBeLeftOut
  <2> QED BY <2>1, <2>3, <2>5 DEF kinds, inputs
<1>7. CASE m = Sends({"burn"}, <<"uint256">>)
  <2>1. m.does = "send" /\ kinds = <<"uint256">>
        /\ inputs = << <<"uint256">> >>
    BY <1>7 DEF Sends, Methods, Kip7Inputs
  <2> HIDE DEF kinds, inputs
  <2>2. Len(kinds) = 1 /\ DOMAIN kinds = 1 .. 1 /\ kinds[1] = "uint256"
    BY <2>1
  <2>3. Shaped("KIP7", m)
    BY <2>1, <2>2 DEF kinds, Shaped, Given, Optional
  <2>4. Wanted(kinds) = <<"uint256">>
    BY <2>2, TypeForIs DEF Wanted
  <2>5. Serves("KIP7", kinds, inputs)
    BY <2>1, <2>2, <2>4, TuplesListed DEF Serves, MayBeLeftOut
  <2> QED BY <2>1, <2>3, <2>5 DEF kinds, inputs
<1>8. CASE m = Sends({"approve", "transfer", "mint", "burnFrom"},
               <<"address", "uint256">>)
  <2>1. m.does = "send" /\ kinds = <<"address", "uint256">>
        /\ inputs = << <<"address", "uint256">> >>
    BY <1>8 DEF Sends, Methods, Kip7Inputs
  <2> HIDE DEF kinds, inputs
  <2>2. Len(kinds) = 2 /\ DOMAIN kinds = 1 .. 2 /\ kinds[1] = "address" /\
        kinds[2] = "uint256"
    BY <2>1
  <2>3. Shaped("KIP7", m)
    BY <2>1, <2>2 DEF kinds, Shaped, Given, Optional
  <2>4. Wanted(kinds) = <<"address", "uint256">>
    BY <2>2, TypeForIs DEF Wanted
  <2>5. Serves("KIP7", kinds, inputs)
    BY <2>1, <2>2, <2>4, TuplesListed DEF Serves, MayBeLeftOut
  <2> QED BY <2>1, <2>3, <2>5 DEF kinds, inputs
<1>9. CASE m = Sends({"transferFrom"}, <<"address", "address", "uint256">>)
  <2>1. m.does = "send" /\ kinds = <<"address", "address", "uint256">>
        /\ inputs = << <<"address", "address", "uint256">> >>
    BY <1>9 DEF Sends, Methods, Kip7Inputs
  <2> HIDE DEF kinds, inputs
  <2>2. Len(kinds) = 3 /\ DOMAIN kinds = 1 .. 3 /\ kinds[1] = "address" /\
        kinds[2] = "address" /\ kinds[3] = "uint256"
    BY <2>1
  <2>3. Shaped("KIP7", m)
    BY <2>1, <2>2 DEF kinds, Shaped, Given, Optional
  <2>4. Wanted(kinds) = <<"address", "address", "uint256">>
    BY <2>2, TypeForIs DEF Wanted
  <2>5. Serves("KIP7", kinds, inputs)
    BY <2>1, <2>2, <2>4, TuplesListed DEF Serves, MayBeLeftOut
  <2> QED BY <2>1, <2>3, <2>5 DEF kinds, inputs
<1>10. CASE m = Sends({"safeTransfer"}, <<"address", "uint256", "data">>)
  <2>1. m.does = "send" /\ kinds = <<"address", "uint256", "data">>
        /\ inputs = << <<"address", "uint256">>,
                       <<"address", "uint256", "bytes">> >>
    BY <1>10 DEF Sends, Methods, Kip7Inputs
  <2> HIDE DEF kinds, inputs
  <2>2. Len(kinds) = 3 /\ DOMAIN kinds = 1 .. 3 /\ kinds[1] = "address" /\
        kinds[2] = "uint256" /\ kinds[3] = "data"
    BY <2>1
  <2>3. Shaped("KIP7", m)
    BY <2>1, <2>2 DEF kinds, Shaped, Given, Optional
  <2>4. Wanted(kinds) = <<"address", "uint256", "bytes">>
    BY <2>2, TypeForIs DEF Wanted
  <2>5. WantedShort(kinds) = <<"address", "uint256">>
    BY <2>2, TypeForIs DEF WantedShort
  <2>6. Serves("KIP7", kinds, inputs)
    BY <2>1, <2>2, <2>4, <2>5, TuplesListed DEF Serves, MayBeLeftOut
  <2> QED BY <2>1, <2>3, <2>6 DEF kinds, inputs
<1>11. CASE m = Sends({"safeTransferFrom"},
               <<"address", "address", "uint256", "data">>)
  <2>1. m.does = "send" /\ kinds = <<"address", "address", "uint256", "data">>
        /\ inputs = << <<"address", "address", "uint256">>,
                       <<"address", "address", "uint256", "bytes">> >>
    BY <1>11 DEF Sends, Methods, Kip7Inputs
  <2> HIDE DEF kinds, inputs
  <2>2. Len(kinds) = 4 /\ DOMAIN kinds = 1 .. 4 /\ kinds[1] = "address" /\
        kinds[2] = "address" /\ kinds[3] = "uint256" /\ kinds[4] = "data"
    BY <2>1
  <2>3. Shaped("KIP7", m)
    BY <2>1, <2>2 DEF kinds, Shaped, Given, Optional
  <2>4. Wanted(kinds) = <<"address", "address", "uint256", "bytes">>
    BY <2>2, TypeForIs DEF Wanted
  <2>5. WantedShort(kinds) = <<"address", "address", "uint256">>
    BY <2>2, TypeForIs DEF WantedShort
  <2>6. Serves("KIP7", kinds, inputs)
    BY <2>1, <2>2, <2>4, <2>5, TuplesListed DEF Serves, MayBeLeftOut
  <2> QED BY <2>1, <2>3, <2>6 DEF kinds, inputs
<1> QED BY <1>1, <1>2, <1>3, <1>4, <1>5, <1>6, <1>7, <1>8, <1>9, <1>10, <1>11
       DEF Kip7Reads, Kip7Sends

(* The methods of KIP17 have overloads for their arguments.                *)
LEMMA Kip17Serves ==
  ASSUME NEW m \in Kip17Reads \union Kip17Sends, NEW name \in m.names
  PROVE  Shaped("KIP17", m) /\ Serves("KIP17", m.params, Kip17Inputs(name))
<1> DEFINE kinds == m.params
           inputs == Kip17Inputs(name)
<1>1. CASE m = Reads({"name", "symbol", "totalSupply", "paused"}, << >>)
  <2>1. m.does = "call" /\ kinds = << >>
        /\ inputs = << << >> >>
    BY <1>1 DEF Reads, Methods, Kip17Inputs
  <2> HIDE DEF kinds, inputs
  <2>2. Len(kinds) = 0 /\ DOMAIN kinds = 1 .. 0
    BY <2>1
  <2>3. Shaped("KIP17", m)
    BY <2>1, <2>2 DEF kinds, Shaped, Given, Optional
  <2>4. Wanted(kinds) = << >>
    BY <2>2, TypeForIs DEF Wanted
  <2>5. Serves("KIP17", kinds, inputs)
    BY <2>1, <2>2, <2>4, TuplesListed DEF Serves, MayBeLeftOut
  <2> QED BY <2>1, <2>3, <2>5 DEF kinds, inputs
<1>2. CASE m = Reads({"balanceOf", "isMinter", "isPauser"}, <<"address">>)
  <2>1. m.does = "call" /\ kinds = <<"address">>
        /\ inputs = << <<"address">> >>
    BY <1>2 DEF Reads, Methods, Kip17Inputs
  <2> HIDE DEF kinds, inputs
  <2>2. Len(kinds) = 1 /\ DOMAIN kinds = 1 .. 1 /\ kinds[1] = "address"
    BY <2>1
  <2>3. Shaped("KIP17", m)
    BY <2>1, <2>2 DEF kinds, Shaped, Given, Optional
  <2>4. Wanted(kinds) = <<"address">>
    BY <2>2, TypeForIs DEF Wanted
  <2>5. Serves("KIP17", kinds, inputs)
    BY <2>1, <2>2, <2>4, TuplesListed DEF Serves, MayBeLeftOut
  <2> QED BY <2>1, <2>3, <2>5 DEF kinds, inputs
<1>3. CASE m = Reads({"tokenURI", "tokenByIndex", "ownerOf", "getApproved"},
               <<"uint256">>)
  <2>1. m.does = "call" /\ kinds = <<"uint256">>
        /\ inputs = << <<"uint256">> >>
    BY <1>3 DEF Reads, Methods, Kip17Inputs
  <2> HIDE DEF kinds, inputs
  <2>2. Len(kinds) = 1 /\ DOMAIN kinds = 1 .. 1 /\ kinds[1] = "uint256"
    BY <2>1
  <2>3. Shaped("KIP17", m)
    BY <2>1, <2>2 DEF kinds, Shaped, Given, Optional
  <2>4. Wanted(kinds) = <<"uint256">>
    BY <2>2, TypeForIs DEF Wanted
  <2>5. Serves("KIP17", kinds, inputs)
    BY <2>1, <2>2, <2>4, TuplesListed DEF Serves, MayBeLeftOut
  <2> QED BY <2>1, <2>3, <2>5 DEF kinds, inputs
<1>4. CASE m = Reads({"tokenOfOwnerByIndex"}, <<"address", "uint256">>)
  <2>1. m.does = "call" /\ kinds = <<"address", "uint256">>
        /\ inputs = << <<"address", "uint256">> >>
    BY <1>4 DEF Reads, Methods, Kip17Inputs
  <2> HIDE DEF kinds, inputs
  <2>2. Len(kinds) = 2 /\ DOMAIN kinds = 1 .. 2 /\ kinds[1] = "address" /\
        kinds[2] = "uint256"
    BY <2>1
  <2>3. Shaped("KIP17", m)
    BY <2>1, <2>2 DEF kinds, Shaped, Given, Optional
  <2>4. Wanted(kinds) = <<"address", "uint256">>
    BY <2>2, TypeForIs DEF Wanted
  <2>5. Serves("KIP17", kinds, inputs)
    BY <2>1, <2>2, <2>4, TuplesListed DEF Serves, MayBeLeftOut
  <2> QED BY <2>1, <2>3, <2>5 DEF kinds, inputs
<1>5. CASE m = Reads({"isApprovedForAll"}, <<"address", "address">>)
  <2>1. m.does = "call" /\ kinds = <<"address", "address">>
        /\ inputs = << <<"address", "address">> >>
    BY <1>5 DEF Reads, Methods, Kip17Inputs
  <2> HIDE DEF kinds, inputs
  <2>2. Len(kinds) = 2 /\ DOMAIN kinds = 1 .. 2 /\ kinds[1] = "address" /\
        kinds[2] = "address"
    BY <2>1
  <2>3. Shaped("KIP17", m)
    BY <2>1, <2>2 DEF kinds, Shaped, Given, Optional
  <2>4. Wanted(kinds) = <<"address", "address">>
    BY <2>2, TypeForIs DEF Wanted
  <2>5. Serves("KIP17", kinds, inputs)
    BY <2>1, <2>2, <2>4, TuplesListed DEF Serves, MayBeLeftOut
  <2> QED BY <2>1, <2>3, <2>5 DEF kinds, inputs
<1>6. CASE m = Reads({"supportsInterface"}, <<"bytes4">>)
  <2>1. m.does = "call" /\ kinds = <<"bytes4">>
        /\ inputs = << <<"bytes4">> >>
    BY <1>6 DEF Reads, Methods, Kip17Inputs
  <2> HIDE DEF kinds, inputs
  <2>2. Len(kinds) = 1 /\ DOMAIN kinds = 1 .. 1 /\ kinds[1] = "bytes4"
    BY <2>1
  <2>3. Shaped("KIP17", m)
    BY <2>1, <2>2 DEF kinds, Shaped, Given, Optional
  <2>4. Wanted(kinds) = <<"bytes4">>
    BY <2>2, TypeForIs DEF Wanted
  <2>5. Serves("KIP17", kinds, inputs)
    BY <2>1, <2>2, <2>4, TuplesListed DEF Serves, MayBeLeftOut
  <2> QED BY <2>1, <2>3, <2>5 DEF kinds, inputs
<1>7. CASE m = Sends({"pause", "unpause", "renounceMinter", "renouncePauser"},
               << >>)
  <2>1. m.does = "send" /\ kinds = << >>
        /\ inputs = << << >> >>
    BY <1>7 DEF Sends, Methods, Kip17Inputs
  <2> HIDE DEF kinds, inputs
  <2>2. Len(kinds) = 0 /\ DOMAIN kinds = 1 .. 0
    BY <2>1
  <2>3. Shaped("KIP17", m)
    BY <2>1, <2>2 DEF kinds, Shaped, Given, Optional
  <2>4. Wanted(kinds) = << >>
    BY <2>2, TypeForIs DEF Wanted
  <2>5. Serves("KIP17", kinds, inputs)
    BY <2>1, <2>2, <2>4, TuplesListed DEF Serves, MayBeLeftOut
  <2> QED BY <2>1, <2>3, <2>5 DEF kinds, inputs
<1>8. CASE m = Sends({"addMinter", "addPauser"}, <<"address">>)
  <2>1. m.does = "send" /\ kinds = <<"address">>
        /\ inputs = << <<"address">> >>
    BY <1>8 DEF Sends, Methods, Kip17Inputs
  <2> HIDE DEF kinds, inputs
  <2>2. Len(kinds) = 1 /\ DOMAIN kinds = 1 .. 1 /\ kinds[1] = "address"
    BY <2>1
  <2>3. Shaped("KIP17", m)
    BY <2>1, <2>2 DEF kinds, Shaped, Given, Optional
  <2>4. Wanted(kinds) = <<"address">>
    BY <2>2, TypeForIs DEF Wanted
  <2>5. Serves("KIP17", kinds, inputs)
    BY <2>1, <2>2, <2>4, TuplesListed DEF Serves, MayBeLeftOut
  <2> QED BY <2>1, <2>3, <2>5 DEF kinds, inputs
<1>9. CASE m = Sends({"burn"}, <<"uint256">>)
  <2>1. m.does = "send" /\ kinds = <<"uint256">>
        /\ inputs = << <<"uint256">> >>
    BY <1>9 DEF Sends, Methods, Kip17Inputs
  <2> HIDE DEF kinds, inputs
  <2>2. Len(kinds) = 1 /\ DOMAIN kinds = 1 .. 1 /\ kinds[1] = "uint256"
    BY <2>1
  <2>3. Shaped("KIP17", m)
    BY <2>1, <2>2 DEF kinds, Shaped, Given, Optional
  <2>4. Wanted(kinds) = <<"uint256">>
    BY <2>2, TypeForIs DEF Wanted
  <2>5. Serves("KIP17", kinds, inputs)
    BY <2>1, <2>2, <2>4, TuplesListed DEF Serves, MayBeLeftOut
  <2> QED BY <2>1, <2>3, <2>5 DEF kinds, inputs
<1>10. CASE m = Sends({"approve", "mint"}, <<"address", "uint256">>)
  <2>1. m.does = "send" /\ kinds = <<"address", "uint256">>
        /\ inputs = << <<"address", "uint256">> >>
    BY <1>10 DEF Sends, Methods, Kip17Inputs
  <2> HIDE DEF kinds, inputs
  <2>2. Len(kinds) = 2 /\ DOMAIN kinds = 1 .. 2 /\ kinds[1] = "address" /\
        kinds[2] = "uint256"
    BY <2>1
  <2>3. Shaped("KIP17", m)
    BY <2>1, <2>2 DEF kinds, Shaped, Given, Optional
  <2>4. Wanted(kinds) = <<"address", "uint256">>
    BY <2>2, TypeForIs DEF Wanted
  <2>5. Serves("KIP17", kinds, inputs)
    BY <2>1, <2>2, <2>4, TuplesListed DEF Serves, MayBeLeftOut
  <2> QED BY <2>1, <2>3, <2>5 DEF kinds, inputs
<1>11. CASE m = Sends({"setApprovalForAll"}, <<"address", "flag">>)
  <2>1. m.does = "send" /\ kinds = <<"address", "flag">>
        /\ inputs = << <<"address", "bool">> >>
    BY <1>11 DEF Sends, Methods, Kip17Inputs
  <2> HIDE DEF kinds, inputs
  <2>2. Len(kinds) = 2 /\ DOMAIN kinds = 1 .. 2 /\ kinds[1] = "address" /\
        kinds[2] = "flag"
    BY <2>1
  <2>3. Shaped("KIP17", m)
    BY <2>1, <2>2 DEF kinds, Shaped, Given, Optional
  <2>4. Wanted(kinds) = <<"address", "bool">>
    BY <2>2, TypeForIs DEF Wanted
  <2>5. Serves("KIP17", kinds, inputs)
    BY <2>1, <2>2, <2>4, TuplesListed DEF Serves, MayBeLeftOut
  <2> QED BY <2>1, <2>3, <2>5 DEF kinds, inputs
<1>12. CASE m = Sends({"mintWithTokenURI"}, <<"address", "uint256", "text">>)
  <2>1. m.does = "send" /\ kinds = <<"address", "uint256", "text">>
        /\ inputs = << <<"address", "uint256", "string">> >>
    BY <1>12 DEF Sends, Methods, Kip17Inputs
  <2> HIDE DEF kinds, inputs
  <2>2. Len(kinds) = 3 /\ DOMAIN kinds = 1 .. 3 /\ kinds[1] = "address" /\
        kinds[2] = "uint256" /\ kinds[3] = "text"
    BY <2>1
  <2>3. Shaped("KIP17", m)
    BY <2>1, <2>2 DEF kinds, Shaped, Given, Optional
  <2>4. Wanted(kinds) = <<"address", "uint256", "string">>
    BY <2>2, TypeForIs DEF Wanted
  <2>5. Serves("KIP17", kinds, inputs)
    BY <2>1, <2>2, <2>4, TuplesListed DEF Serves, MayBeLeftOut
  <2> QED BY <2>1, <2>3, <2>5 DEF kinds, inputs
<1>13. CASE m = Sends({"transferFrom"}, <<"address", "address", "uint256">>)
  <2>1. m.does = "send" /\ kinds = <<"address", "address", "uint256">>
        /\ inputs = << <<"address", "address", "uint256">> >>
    BY <1>13 DEF Sends, Methods, Kip17Inputs
  <2> HIDE DEF kinds, inputs
  <2>2. Len(kinds) = 3 /\ DOMAIN kinds = 1 .. 3 /\ kinds[1] = "address" /\
        kinds[2] = "address" /\ kinds[3] = "uint256"
    BY <2>1
  <2>3. Shaped("KIP17", m)
    BY <2>1, <2>2 DEF kinds, Shaped, Given, Optional
  <2>4. Wanted(kinds) = <<"address", "address", "uint256">>
    BY <2>2, TypeForIs DEF Wanted
  <2>5. Serves("KIP17", kinds, inputs)
    BY <2>1, <2>2, <2>4, TuplesListed DEF Serves, MayBeLeftOut
  <2> QED BY <2>1, <2>3, <2>5 DEF kinds, inputs
<1>14. CASE m = Sends({"safeTransferFrom"},
               <<"address", "address", "uint256", "data">>)
  <2>1. m.does = "send" /\ kinds = <<"address", "address", "uint256", "data">>
        /\ inputs = << <<"address", "address", "uint256">>,
                       <<"address", "address", "uint256", "bytes">> >>
    BY <1>14 DEF Sends, Methods, Kip17Inputs
  <2> HIDE DEF kinds, inputs
  <2>2. Len(kinds) = 4 /\ DOMAIN kinds = 1 .. 4 /\ kinds[1] = "address" /\
        kinds[2] = "address" /\ kinds[3] = "uint256" /\ kinds[4] = "data"
    BY <2>1
  <2>3. Shaped("KIP17", m)
    BY <2>1, <2>2 DEF kinds, Shaped, Given, Optional
  <2>4. Wanted(kinds) = <<"address", "address", "uint256", "bytes">>
    BY <2>2, TypeForIs DEF Wanted
  <2>5. WantedShort(kinds) = <<"address", "address", "uint256">>
    BY <2>2, TypeForIs DEF WantedShort
  <2>6. Serves("KIP17", kinds, inputs)
    BY <2>1, <2>2, <2>4, <2>5, TuplesListed DEF Serves, MayBeLeftOut
  <2> QED BY <2>1, <2>3, <2>6 DEF kinds, inputs
<1> QED BY <1>1, <1>2, <1>3, <1>4, <1>5, <1>6, <1>7, <1>8, <1>9, <1>10, <1>11,
           <1>12, <1>13, <1>14
       DEF Kip17Reads, Kip17Sends

(* The methods of KIP37 have overloads for their arguments.                *)
LEMMA Kip37Serves ==
  ASSUME NEW m \in Kip37Reads \union Kip37Sends, NEW name \in m.names, name # "mint"
  PROVE  Shaped("KIP37", m) /\ Serves("KIP37", m.params, Kip37Inputs(name))
<1> DEFINE kinds == m.params
           inputs == Kip37Inputs(name)
<1>1. CASE m = Reads({"isMinter", "isPauser"}, <<"address">>)
  <2>1. m.does = "call" /\ kinds = <<"address">>
        /\ inputs = << <<"address">> >>
    BY <1>1 DEF Reads, Methods, Kip37Inputs
  <2> HIDE DEF kinds, inputs
  <2>2. Len(kinds) = 1 /\ DOMAIN kinds = 1 .. 1 /\ kinds[1] = "address"
    BY <2>1
  <2>3. Shaped("KIP37", m)
    BY <2>1, <2>2 DEF kinds, Shaped, Given, Optional
  <2>4. Wanted(kinds) = <<"address">>
    BY <2>2, TypeForIs DEF Wanted
  <2>5. Serves("KIP37", kinds, inputs)
    BY <2>1, <2>2, <2>4, TuplesListed DEF Serves, MayBeLeftOut
  <2> QED BY <2>1, <2>3, <2>5 DEF kinds, inputs
<1>2. CASE m = Reads({"uri", "totalSupply"}, <<"uint256">>)
  <2>1. m.does = "call" /\ kinds = <<"uint256">>
        /\ inputs = << <<"uint256">> >>
    BY <1>2 DEF Reads, Methods, Kip37Inputs
  <2> HIDE DEF kinds, inputs
  <2>2. Len(kinds) = 1 /\ DOMAIN kinds = 1 .. 1 /\ kinds[1] = "uint256"
    BY <2>1
  <2>3. Shaped("KIP37", m)
    BY <2>1, <2>2 DEF kinds, Shaped, Given, Optional
  <2>4. Wanted(kinds) = <<"uint256">>
    BY <2>2, TypeForIs DEF Wanted
  <2>5. Serves("KIP37", kinds, inputs)
    BY <2>1, <2>2, <2>4, TuplesListed DEF Serves, MayBeLeftOut
  <2> QED BY <2>1, <2>3, <2>5 DEF kinds, inputs
<1>3. CASE m = Reads({"paused"}, <<"pausedId">>)
  <2>1. m.does = "call" /\ kinds = <<"pausedId">>
        /\ inputs = << <<"uint256">>, << >> >>
    BY <1>3 DEF Reads, Methods, Kip37Inputs
  <2> HIDE DEF kinds, inputs
  <2>2. Len(kinds) = 1 /\ DOMAIN kinds = 1 .. 1 /\ kinds[1] = "pausedId"
    BY <2>1
  <2>3. Shaped("KIP37", m)
    BY <2>1, <2>2 DEF kinds, Shaped, Given, Optional
  <2>4. Wanted(kinds) = <<"uint256">>
    BY <2>2, TypeForIs DEF Wanted
  <2>5. WantedShort(kinds) = << >>
    BY <2>2, TypeForIs DEF WantedShort
  <2>6. Serves("KIP37", kinds, inputs)
    BY <2>1, <2>2, <2>4, <2>5, TuplesListed DEF Serves, MayBeLeftOut
  <2> QED BY <2>1, <2>3, <2>6 DEF kinds, inputs
<1>4. CASE m = Reads({"balanceOf"}, <<"address", "uint256">>)
  <2>1. m.does = "call" /\ kinds = <<"address", "uint256">>
        /\ inputs = << <<"address", "uint256">> >>
    BY <1>4 DEF Reads, Methods, Kip37Inputs
  <2> HIDE DEF kinds, inputs
  <2>2. Len(kinds) = 2 /\ DOMAIN kinds = 1 .. 2 /\ kinds[1] = "address" /\
        kinds[2] = "uint256"
    BY <2>1
  <2>3. Shaped("KIP37", m)
    BY <2>1, <2>2 DEF kinds, Shaped, Given, Optional
  <2>4. Wanted(kinds) = <<"address", "uint256">>
    BY <2>2, TypeForIs DEF Wanted
  <2>5. Serves("KIP37", kinds, inputs)
    BY <2>1, <2>2, <2>4, TuplesListed DEF Serves, MayBeLeftOut
  <2> QED BY <2>1, <2>3, <2>5 DEF kinds, inputs
<1>5. CASE m = Reads({"balanceOfBatch"}, <<"addresses", "uint256s">>)
  <2>1. m.does = "call" /\ kinds = <<"addresses", "uint256s">>
        /\ inputs = << <<"address[]", "uint256[]">> >>
    BY <1>5 DEF Reads, Methods, Kip37Inputs
  <2> HIDE DEF kinds, inputs
  <2>2. Len(kinds) = 2 /\ DOMAIN kinds = 1 .. 2 /\ kinds[1] = "addresses" /\
        kinds[2] = "uint256s"
    BY <2>1
  <2>3. Shaped("KIP37", m)
    BY <2>1, <2>2 DEF kinds, Shaped, Given, Optional
  <2>4. Wanted(kinds) = <<"address[]", "uint256[]">>
    BY <2>2, TypeForIs DEF Wanted
  <2>5. Serves("KIP37", kinds, inputs)
    BY <2>1, <2>2, <2>4, TuplesListed DEF Serves, MayBeLeftOut
  <2> QED BY <2>1, <2>3, <2>5 DEF kinds, inputs
<1>6. CASE m = Reads({"isApprovedForAll"}, <<"address", "address">>)
  <2>1. m.does = "call" /\ kinds = <<"address", "address">>
        /\ inputs = << <<"address", "address">> >>
    BY <1>6 DEF Reads, Methods, Kip37Inputs
  <2> HIDE DEF kinds, inputs
  <2>2. Len(kinds) = 2 /\ DOMAIN kinds = 1 .. 2 /\ kinds[1] = "address" /\
        kinds[2] = "address"
    BY <2>1
  <2>3. Shaped("KIP37", m)
    BY <2>1, <2>2 DEF kinds, Shaped, Given, Optional
  <2>4. Wanted(kinds) = <<"address", "address">>
    BY <2>2, TypeForIs DEF Wanted
  <2>5. Serves("KIP37", kinds, inputs)
    BY <2>1, <2>2, <2>4, TuplesListed DEF Serves, MayBeLeftOut
  <2> QED BY <2>1, <2>3, <2>5 DEF kinds, inputs
<1>7. CASE m = Reads({"supportsInterface"}, <<"bytes4">>)
  <2>1. m.does = "call" /\ kinds = <<"bytes4">>
        /\ inputs = << <<"bytes4">> >>
    BY <1>7 DEF Reads, Methods, Kip37Inputs
  <2> HIDE DEF kinds, inputs
  <2>2. Len(kinds) = 1 /\ DOMAIN kinds = 1 .. 1 /\ kinds[1] = "bytes4"
    BY <2>1
  <2>3. Shaped("KIP37", m)
    BY <2>1, <2>2 DEF kinds, Shaped, Given, Optional
  <2>4. Wanted(kinds) = <<"bytes4">>
    BY <2>2, TypeForIs DEF Wanted
  <2>5. Serves("KIP37", kinds, inputs)
    BY <2>1, <2>2, <2>4, TuplesListed DEF Serves, MayBeLeftOut
  <2> QED BY <2>1, <2>3, <2>5 DEF kinds, inputs
<1>8. CASE m = Sends({"renounceMinter", "renouncePauser"}, << >>)
  <2>1. m.does = "send" /\ kinds = << >>
        /\ inputs = << << >> >>
    BY <1>8 DEF Sends, Methods, Kip37Inputs
  <2> HIDE DEF kinds, inputs
  <2>2. Len(kinds) = 0 /\ DOMAIN kinds = 1 .. 0
    BY <2>1
  <2>3. Shaped("KIP37", m)
    BY <2>1, <2>2 DEF kinds, Shaped, Given, Optional
  <2>4. Wanted(kinds) = << >>
    BY <2>2, TypeForIs DEF Wanted
  <2>5. Serves("KIP37", kinds, inputs)
    BY <2>1, <2>2, <2>4, TuplesListed DEF Serves, MayBeLeftOut
  <2> QED BY <2>1, <2>3, <2>5 DEF kinds, inputs
<1>9. CASE m = Sends({"addMinter", "addPauser"}, <<"address">>)
  <2>1. m.does = "send" /\ kinds = <<"address">>
        /\ inputs = << <<"address">> >>
    BY <1>9 DEF Sends, Methods, Kip37Inputs
  <2> HIDE DEF kinds, inputs
  <2>2. Len(kinds) = 1 /\ DOMAIN kinds = 1 .. 1 /\ kinds[1] = "address"
    BY <2>1
  <2>3. Shaped("KIP37", m)
    BY <2>1, <2>2 DEF kinds, Shaped, Given, Optional
  <2>4. Wanted(kinds) = <<"address">>
    BY <2>2, TypeForIs DEF Wanted
  <2>5. Serves("KIP37", kinds, inputs)
    BY <2>1, <2>2, <2>4, TuplesListed DEF Serves, MayBeLeftOut
  <2> QED BY <2>1, <2>3, <2>5 DEF kinds, inputs
<1>10. CASE m = Sends({"pause", "unpause"}, <<"id">>)
  <2>1. m.does = "send" /\ kinds = <<"id">>
        /\ (inputs = << <<"uint256">>,
                       << >> >> \/ inputs = << << >>,
                       <<"uint256">> >>)
    BY <1>10 DEF Sends, Methods, Kip37Inputs
  <2> HIDE DEF kinds, inputs
  <2>2. Len(kinds) = 1 /\ DOMAIN kinds = 1 .. 1 /\ kinds[1] = "id"
    BY <2>1
  <2>3. Shaped("KIP37", m)
    BY <2>1, <2>2 DEF kinds, Shaped, Given, Optional
  <2>4. Wanted(kinds) = <<"uint256">>
    BY <2>2, TypeForIs DEF Wanted
  <2>5. WantedShort(kinds) = << >>
    BY <2>2, TypeForIs DEF WantedShort
  <2>6. Serves("KIP37", kinds, inputs)
    BY <2>1, <2>2, <2>4, <2>5, TuplesListed DEF Serves, MayBeLeftOut
  <2> QED BY <2>1, <2>3, <2>6 DEF kinds, inputs
<1>11. CASE m = Sends({"setApprovalForAll"}, <<"address", "flag">>)
  <2>1. m.does = "send" /\ kinds = <<"address", "flag">>
        /\ inputs = << <<"address", "bool">> >>
    BY <1>11 DEF Sends, Methods, Kip37Inputs
  <2> HIDE DEF kinds, inputs
  <2>2. Len(kinds) = 2 /\ DOMAIN kinds = 1 .. 2 /\ kinds[1] = "address" /\
        kinds[2] = "flag"
    BY <2>1
  <2>3. Shaped("KIP37", m)
    BY <2>1, <2>2 DEF kinds, Shaped, Given, Optional
  <2>4. Wanted(kinds) = <<"address", "bool">>
    BY <2>2, TypeForIs DEF Wanted
  <2>5. Serves("KIP37", kinds, inputs)
    BY <2>1, <2>2, <2>4, TuplesListed DEF Serves, MayBeLeftOut
  <2> QED BY <2>1, <2>3, <2>5 DEF kinds, inputs
<1>12. CASE m = Sends({"create"}, <<"uint256", "uint256", "uri">>)
  <2>1. m.does = "send" /\ kinds = <<"uint256", "uint256", "uri">>
        /\ inputs = << <<"uint256", "uint256", "string">> >>
    BY <1>12 DEF Sends, Methods, Kip37Inputs
  <2> HIDE DEF kinds, inputs
  <2>2. Len(kinds) = 3 /\ DOMAIN kinds = 1 .. 3 /\ kinds[1] = "uint256" /\
        kinds[2] = "uint256" /\ kinds[3] = "uri"
    BY <2>1
  <2>3. Shaped("KIP37", m)
    BY <2>1, <2>2 DEF kinds, Shaped, Given, Optional
  <2>4. Wanted(kinds) = <<"uint256", "uint256", "string">>
    BY <2>2, TypeForIs DEF Wanted
  <2>5. Serves("KIP37", kinds, inputs)
    BY <2>1, <2>2, <2>4, TuplesListed DEF Serves, MayBeLeftOut
  <2> QED BY <2>1, <2>3, <2>5 DEF kinds, inputs
<1>13. CASE m = Sends({"burn"}, <<"address", "uint256", "uint256">>)
  <2>1. m.does = "send" /\ kinds = <<"address", "uint256", "uint256">>
        /\ inputs = << <<"address", "uint256", "uint256">> >>
    BY <1>13 DEF Sends, Methods, Kip37Inputs
  <2> HIDE DEF kinds, inputs
  <2>2. Len(kinds) = 3 /\ DOMAIN kinds = 1 .. 3 /\ kinds[1] = "address" /\
        kinds[2] = "uint256" /\ kinds[3] = "uint256"
    BY <2>1
  <2>3. Shaped("KIP37", m)
    BY <2>1, <2>2 DEF kinds, Shaped, Given, Optional
  <2>4. Wanted(kinds) = <<"address", "uint256", "uint256">>
    BY <2>2, TypeForIs DEF Wanted
  <2>5. Serves("KIP37", kinds, inputs)
    BY <2>1, <2>2, <2>4, TuplesListed DEF Serves, MayBeLeftOut
  <2> QED BY <2>1, <2>3, <2>5 DEF kinds, inputs
<1>14. CASE m = Sends({"mint"}, <<"addressOrArray", "uint256", "uint256OrArray">>)
  BY <1>14 DEF Sends, Methods
<1>15. CASE m = Sends({"mintBatch", "burnBatch"},
               <<"address", "uint256s", "uint256s">>)
  <2>1. m.does = "send" /\ kinds = <<"address", "uint256s", "uint256s">>
        /\ inputs = << <<"address", "uint256[]", "uint256[]">> >>
    BY <1>15 DEF Sends, Methods, Kip37Inputs
  <2> HIDE DEF kinds, inputs
  <2>2. Len(kinds) = 3 /\ DOMAIN kinds = 1 .. 3 /\ kinds[1] = "address" /\
        kinds[2] = "uint256s" /\ kinds[3] = "uint256s"
    BY <2>1
  <2>3. Shaped("KIP37", m)
    BY <2>1, <2>2 DEF kinds, Shaped, Given, Optional
  <2>4. Wanted(kinds) = <<"address", "uint256[]", "uint256[]">>
    BY <2>2, TypeForIs DEF Wanted
  <2>5. Serves("KIP37", kinds, inputs)
    BY <2>1, <2>2, <2>4, TuplesListed DEF Serves, MayBeLeftOut
  <2> QED BY <2>1, <2>3, <2>5 DEF kinds, inputs
<1>16. CASE m = Sends({"safeTransferFrom"},
               <<"address", "address", "uint256", "uint256", "data">>)
  <2>1. m.does = "send" /\ kinds = <<"address", "address", "uint256", "uint256", "data">>
        /\ inputs = << <<"address", "address", "uint256", "uint256", "bytes">> >>
    BY <1>16 DEF Sends, Methods, Kip37Inputs
  <2> HIDE DEF kinds, inputs
  <2>2. Len(kinds) = 5 /\ DOMAIN kinds = 1 .. 5 /\ kinds[1] = "address" /\
        kinds[2] = "address" /\ kinds[3] = "uint256" /\ kinds[4] = "uint256" /\
        kinds[5] = "data"
    BY <2>1
  <2>3. Shaped("KIP37", m)
    BY <2>1, <2>2 DEF kinds, Shaped, Given, Optional
  <2>4. Wanted(kinds) = <<"address", "address", "uint256", "uint256", "bytes">>
    BY <2>2, TypeForIs DEF Wanted
  <2>5. Serves("KIP37", kinds, inputs)
    BY <2>1, <2>2, <2>4, TuplesListed DEF Serves, MayBeLeftOut
  <2> QED BY <2>1, <2>3, <2>5 DEF kinds, inputs
<1>17. CASE m = Sends({"safeBatchTransferFrom"},
               <<"address", "address", "uint256s", "uint256s", "data">>)
  <2>1. m.does = "send" /\ kinds = <<"address", "address", "uint256s", "uint256s", "data">>
        /\ inputs = << <<"address", "address", "uint256[]", "uint256[]", "bytes">> >>
    BY <1>17 DEF Sends, Methods, Kip37Inputs
  <2> HIDE DEF kinds, inputs
  <2>2. Len(kinds) = 5 /\ DOMAIN kinds = 1 .. 5 /\ kinds[1] = "address" /\
        kinds[2] = "address" /\ kinds[3] = "uint256s" /\ kinds[4] = "uint256s" /\
        kinds[5] = "data"
    BY <2>1
  <2>3. Shaped("KIP37", m)
    BY <2>1, <2>2 DEF kinds, Shaped, Given, Optional
  <2>4. Wanted(kinds) = <<"address", "address", "uint256[]", "uint256[]", "bytes">>
    BY <2>2, TypeForIs DEF Wanted
  <2>5. Serves("KIP37", kinds, inputs)
    BY <2>1, <2>2, <2>4, TuplesListed DEF Serves, MayBeLeftOut
  <2> QED BY <2>1, <2>3, <2>5 DEF kinds, inputs
<1> QED BY <1>1, <1>2, <1>3, <1>4, <1>5, <1>6, <1>7, <1>8, <1>9, <1>10, <1>11,
           <1>12, <1>13, <1>14, <1>15, <1>16, <1>17
       DEF Kip37Reads, Kip37Sends

(* What an argument of a kind is, and as which type it is encoded.         *)
LEMMA FormsOf == \A t : One(t).is = t /\ One(t).length = 0
BY DEF One

(* What is given for a parameter that cannot be left out is encoded as     *)
(* the type of the parameter.                                              *)
LEMMA OfferedGiven ==
  ASSUME NEW kind \in Given, NEW a \in Offered(kind)
  PROVE  /\ TypeOf(kind, a) = TypeFor(kind)
         /\ a.is \notin {"undefined", "empty", "options", "object"}
<1>1. CASE kind = "address"
  <2>1. a = One("address")
    BY <1>1 DEF Offered
  <2> QED BY <1>1, <2>1, FormsOf DEF TypeOf, EncodedAs, TypeFor
<1>2. CASE kind = "uint256"
  <2>1. a \in Numbers
    BY <1>2 DEF Offered
  <2> QED BY <1>2, <2>1, FormsOf DEF TypeOf, EncodedAs, TypeFor, Numbers
<1>3. CASE kind = "flag"
  <2>1. a = One("flag")
    BY <1>3 DEF Offered
  <2> QED BY <1>3, <2>1, FormsOf DEF TypeOf, EncodedAs, TypeFor
<1>4. CASE kind = "text"
  <2>1. a = One("text")
    BY <1>4 DEF Offered
  <2> QED BY <1>4, <2>1, FormsOf DEF TypeOf, EncodedAs, TypeFor
<1>5. CASE kind = "bytes4"
  <2>1. a = One("bytes4")
    BY <1>5 DEF Offered
  <2> QED BY <1>5, <2>1, FormsOf DEF TypeOf, EncodedAs, TypeFor
<1>6. CASE kind = "addresses"
  <2>1. a \in Many("address")
    BY <1>6 DEF Offered
  <2>2. a.is = "address" /\ a.length > 0
    BY <2>1 DEF Many
  <2> QED BY <1>6, <2>2 DEF TypeOf, TypeFor
<1>7. CASE kind = "uint256s"
  <2>1. a \in Many("number")
    BY <1>7 DEF Offered
  <2>2. a.is = "number" /\ a.length > 0
    BY <2>1 DEF Many
  <2> QED BY <1>7, <2>2 DEF TypeOf, TypeFor
<1> QED BY <1>1, <1>2, <1>3, <1>4, <1>5, <1>6, <1>7 DEF Given

(* What is given for a parameter that may be left out is encoded as its    *)
(* type, unless it is nothing or an object: then it is not encoded.        *)
LEMMA OfferedOptional ==
  ASSUME NEW kind \in Optional, NEW a \in Offered(kind)
  PROVE  /\ a = One(a.is)
         /\ a.is \in {"undefined", "empty", "options", "object"} => TypeOf(kind, a) = "none"
         /\ a.is \notin {"undefined", "empty", "options", "object"} => TypeOf(kind, a) = TypeFor(kind)
         /\ kind = "data" => a.is \in {"bytes", "empty", "undefined", "options", "object"}
         /\ kind = "uri" => a.is \in {"text", "undefined", "options", "object"}
         /\ kind = "id" => a.is \in {"number", "bigNumber", "undefined", "options", "object"}
         /\ kind = "pausedId" => a.is \in {"number", "bigNumber", "undefined"}
<1> DEFINE forms == CASE kind = "data" -> {"bytes", "empty", "undefined", "options", "object"}
                      [] kind = "uri" -> {"text", "undefined", "options", "object"}
                      [] kind = "id" -> {"number", "bigNumber", "undefined", "options", "object"}
                      [] OTHER -> {"number", "bigNumber", "undefined"}
<1>1. \E t \in forms : a = One(t)
  BY DEF Offered, Optional, Numbers, OptionObjects, Omitted
<1> HIDE DEF forms
<1>2. PICK t \in forms : a = One(t)
  BY <1>1
<1>3. a.is = t /\ a.length = 0
  BY <1>2, FormsOf
<1>4. TypeOf(kind, a) = EncodedAs(t)
  BY <1>3 DEF TypeOf, Optional
<1> QED BY <1>2, <1>3, <1>4 DEF EncodedAs, TypeFor, Optional, forms

(* How a method encodes its arguments: the definitions of CallToken, by    *)
(* name.  NotGiven are the forms of arguments that are none.               *)
NotGiven == {"undefined", "empty", "options", "object"}
Taken(kinds, args, sendParam) ==
  LET n == Len(kinds) IN n > 0 /\ TakesAsOptions(kinds[n], args[n], sendParam)
Effective(standard, kinds, args, sendParam) ==
  LET n == Len(kinds)
  IN IF Taken(kinds, args, sendParam)
     THEN [args EXCEPT ![n] = Default(standard, kinds[n])] ELSE args
KeptOf(standard, kinds, args, sendParam) ==
  LET n == Len(kinds)
  IN IF n > 0 /\ LeftOut(standard, kinds[n], Effective(standard, kinds, args, sendParam)[n])
     THEN n - 1 ELSE n
Encoding(standard, kinds, args, sendParam) ==
  [i \in 1 .. KeptOf(standard, kinds, args, sendParam) |->
     TypeOf(kinds[i], Effective(standard, kinds, args, sendParam)[i])]

(* The arguments of a method, but for mint of KIP37 and deploy.            *)
Asked(standard, m, args, sendParam) ==
  /\ Shaped(standard, m)
  /\ DOMAIN args = DOMAIN m.params
  /\ \A i \in DOMAIN m.params : args[i] \in Offered(m.params[i])
  /\ sendParam \in {"none", "options", "object"}

(* They are encoded as the parameters say; without the last one that may   *)
(* be left out; with a default in the place of the options; or they cannot *)
(* be encoded.                                                             *)
Complete(standard, m, args, sendParam) ==
  /\ ~Taken(m.params, args, sendParam)
  /\ Encoding(standard, m.params, args, sendParam) = Wanted(m.params)
  /\ \A i \in DOMAIN args : args[i].is \notin NotGiven
Shortened(standard, m, args, sendParam) ==
  LET n == Len(m.params)
      taken == Taken(m.params, args, sendParam)
      last == args[n].is
  IN /\ n > 0 /\ m.params[n] \in MayBeLeftOut(standard)
     /\ Encoding(standard, m.params, args, sendParam) = WantedShort(m.params)
     /\ \/ last \in {"undefined", "empty"} /\ ~taken
        \/ last \in {"options", "object"} /\ taken /\ sendParam = "none"
        \/ last = "bigNumber" /\ taken /\ sendParam = "none" /\ m.does = "send"
Defaulted(standard, m, args, sendParam) ==
  LET n == Len(m.params)
  IN /\ n > 0 /\ m.params[n] \in {"data", "uri"} /\ args[n].is = "options"
     /\ Taken(m.params, args, sendParam) /\ sendParam = "none"
     /\ Encoding(standard, m.params, args, sendParam) = Wanted(m.params)
Unencodable(standard, m, args, sendParam) ==
  LET n == Len(m.params)
      types == Encoding(standard, m.params, args, sendParam)
  IN /\ n > 0 /\ n \in DOMAIN types /\ types[n] = "none"
     /\ args[n].is \in NotGiven
     /\ args[n].is = "options" => sendParam # "none"
     /\ args[n].is \in {"undefined", "empty"} => standard = "KIP37"

(* How the arguments asked for are encoded: completely, without the last,  *)
(* with a default for the last, or not at all.                             *)
LEMMA EncodingIs ==
  ASSUME NEW standard \in Standards, NEW m, NEW args, NEW sendParam,
         Asked(standard, m, args, sendParam)
  PROVE  /\ \/ Complete(standard, m, args, sendParam)
            \/ Shortened(standard, m, args, sendParam)
            \/ Defaulted(standard, m, args, sendParam)
            \/ Unencodable(standard, m, args, sendParam)
         /\ \A i \in DOMAIN args : i # Len(m.params) =>
              /\ TypeOf(m.params[i], args[i]) = TypeFor(m.params[i])
              /\ args[i].is \notin NotGiven
         /\ \A i \in DOMAIN args : args[i].is \notin NotGiven =>
              TypeOf(m.params[i], args[i]) = TypeFor(m.params[i])
<1> DEFINE kinds == m.params
           n == Len(kinds)
           taken == Taken(kinds, args, sendParam)
           effective == Effective(standard, kinds, args, sendParam)
           kept == KeptOf(standard, kinds, args, sendParam)
           types == Encoding(standard, kinds, args, sendParam)
<1>1. /\ n \in Nat /\ DOMAIN kinds = 1 .. n /\ DOMAIN args = 1 .. n
      /\ \A i \in 1 .. n : kinds[i] \in Given \/ (i = n /\ kinds[i] \in Optional)
      /\ n > 0 /\ kinds[n] = "uri" => standard = "KIP37"
      /\ m.does \in {"call", "send"}
      /\ m.does = "call" => \A i \in 1 .. n : kinds[i] \notin {"data", "uri", "id"}
  BY DEF Asked, Shaped
<1>2. (\A i \in 1 .. n : args[i] \in Offered(kinds[i])) /\ sendParam \in {"none", "options", "object"}
  BY <1>1 DEF Asked
<1>3. ASSUME NEW i \in 1 .. n, kinds[i] \in Given
      PROVE  TypeOf(kinds[i], args[i]) = TypeFor(kinds[i]) /\ args[i].is \notin NotGiven
  BY <1>2, <1>3, OfferedGiven DEF NotGiven
<1>4. ASSUME NEW i \in 1 .. n, i # n
      PROVE  TypeOf(kinds[i], args[i]) = TypeFor(kinds[i]) /\ args[i].is \notin NotGiven
  BY <1>1, <1>3, <1>4
<1>5. taken <=> n > 0 /\ TakesAsOptions(kinds[n], args[n], sendParam)
  BY DEF Taken
<1>6. /\ DOMAIN effective = 1 .. n
      /\ \A i \in 1 .. n : i # n => effective[i] = args[i]
      /\ n > 0 => effective[n] = IF taken THEN Default(standard, kinds[n]) ELSE args[n]
  BY <1>1 DEF Effective
<1>7. kept = IF n > 0 /\ LeftOut(standard, kinds[n], effective[n]) THEN n - 1 ELSE n
  BY DEF KeptOf
<1>8. types = [i \in 1 .. kept |-> TypeOf(kinds[i], effective[i])]
  BY DEF Encoding
<1>9. Wanted(kinds) = [i \in 1 .. n |-> TypeFor(kinds[i])]
      /\ WantedShort(kinds) = [i \in 1 .. n - 1 |-> TypeFor(kinds[i])]
  BY <1>1 DEF Wanted, WantedShort
<1> HIDE DEF kinds, n, taken, effective, kept, types
<1>10. ASSUME kept = n, n > 0 => TypeOf(kinds[n], effective[n]) = TypeFor(kinds[n])
       PROVE  types = Wanted(kinds)
  <2>1. \A i \in 1 .. n : TypeOf(kinds[i], effective[i]) = TypeFor(kinds[i])
    BY <1>1, <1>4, <1>6, <1>10
  <2> QED BY <1>8, <1>9, <1>10, <2>1
<1>11. ASSUME kept = n - 1
       PROVE  types = WantedShort(kinds)
  <2>1. \A i \in 1 .. n - 1 : TypeOf(kinds[i], effective[i]) = TypeFor(kinds[i])
    BY <1>1, <1>4, <1>6
  <2> QED BY <1>8, <1>9, <1>11, <2>1
<1>12. CASE n = 0 \/ kinds[n] \in Given
  <2>1. ~taken
    BY <1>5, <1>12 DEF TakesAsOptions, Given
  <2>2. kept = n
    BY <1>7, <1>12 DEF LeftOut, Given
  <2>3. types = Wanted(kinds)
    BY <1>1, <1>3, <1>6, <1>10, <1>12, <2>1, <2>2
  <2>4. \A i \in 1 .. n : args[i].is \notin NotGiven
            /\ TypeOf(kinds[i], args[i]) = TypeFor(kinds[i])
    BY <1>1, <1>3, <1>4, <1>12
  <2> QED BY <1>1, <1>4, <2>1, <2>3, <2>4 DEF Complete, kinds, n, taken, types
<1>13. CASE n > 0 /\ kinds[n] \in Optional
  <2> DEFINE last == args[n]
  <2>1. /\ last = One(last.is)
        /\ last.is \in NotGiven => TypeOf(kinds[n], last) = "none"
        /\ last.is \notin NotGiven => TypeOf(kinds[n], last) = TypeFor(kinds[n])
        /\ kinds[n] = "data" => last.is \in {"bytes", "empty", "undefined", "options", "object"}
        /\ kinds[n] = "uri" => last.is \in {"text", "undefined", "options", "object"}
        /\ kinds[n] = "id" => last.is \in {"number", "bigNumber", "undefined", "options", "object"}
        /\ kinds[n] = "pausedId" => last.is \in {"number", "bigNumber", "undefined"}
    BY <1>1, <1>2, <1>13, OfferedOptional DEF NotGiven
  <2>2. kinds[n] \in {"data", "uri", "id", "pausedId"}
    BY <1>13 DEF Optional
  <2>3. taken <=> /\ sendParam = "none"
                  /\ \/ kinds[n] \in {"data", "uri"} /\ last.is = "options"
                     \/ kinds[n] = "id" /\ last.is \in {"options", "object", "bigNumber"}
    BY <1>5, <1>13 DEF TakesAsOptions, IsObject
  <2> HIDE DEF last
  <2>4. ASSUME NEW t, NEW u PROVE One(t) = One(u) <=> t = u
    BY FormsOf
  <2>5. ~taken => effective[n] = last
    BY <1>6, <1>13 DEF last
  <2>6. ~taken => (kept = n - 1 <=> \/ kinds[n] \in {"id", "pausedId"} /\ last.is = "undefined"
                                    \/ kinds[n] = "data" /\ standard # "KIP37" /\ last.is \in {"undefined", "empty"})
    BY <1>1, <1>7, <1>13, <2>1, <2>4, <2>5 DEF LeftOut, Omitted
  <2>7. kept \in {n, n - 1}
    BY <1>7
  <2>8. taken => effective[n] = Default(standard, kinds[n])
    BY <1>6, <1>13
  <2>9. \A i \in 1 .. n : i # n => args[i].is \notin NotGiven
    BY <1>4
  <2>10. \A i \in 1 .. n : args[i].is \notin NotGiven =>
              TypeOf(kinds[i], args[i]) = TypeFor(kinds[i])
    BY <1>4, <2>1 DEF last
  <2>11. kinds[n] \in {"id", "pausedId"} \/ (kinds[n] = "data" /\ standard # "KIP37")
           => kinds[n] \in MayBeLeftOut(standard)
    BY DEF MayBeLeftOut
  <2>12. CASE ~taken /\ last.is \notin NotGiven
    <3>1. kept = n
      BY <2>6, <2>7, <2>12 DEF NotGiven
    <3>2. types = Wanted(kinds)
      BY <1>10, <2>1, <2>5, <2>12, <3>1
    <3>3. \A i \in 1 .. n : args[i].is \notin NotGiven
      BY <2>9, <2>12 DEF last
    <3> QED BY <1>1, <1>4, <2>10, <2>12, <3>2, <3>3 DEF Complete, kinds, n, taken, types
  <2>13. CASE ~taken /\ last.is \in NotGiven /\ kept = n - 1
    <3>1. types = WantedShort(kinds)
      BY <1>11, <2>13
    <3>2. last.is \in {"undefined", "empty"} /\ kinds[n] \in MayBeLeftOut(standard)
      BY <2>6, <2>11, <2>13
    <3> QED BY <1>1, <1>4, <1>13, <2>10, <2>13, <3>1, <3>2 DEF Shortened, kinds, n, taken, types, last
  <2>14. CASE ~taken /\ last.is \in NotGiven /\ kept = n
    <3>1. n \in DOMAIN types /\ types[n] = "none"
      BY <1>1, <1>8, <1>13, <2>1, <2>5, <2>14
    <3>2. last.is = "options" => sendParam # "none"
      BY <2>1, <2>2, <2>3, <2>14
    <3>3. last.is \in {"undefined", "empty"} => standard = "KIP37"
      BY <1>1, <1>13, <2>1, <2>2, <2>6, <2>14
    <3> QED BY <1>1, <1>4, <1>13, <2>10, <2>14, <3>1, <3>2, <3>3
            DEF Unencodable, kinds, n, types, last
  <2>15. CASE taken /\ kinds[n] = "id"
    <3>1. kept = n - 1
      BY <1>7, <1>13, <2>8, <2>15 DEF LeftOut, Default
    <3>2. types = WantedShort(kinds)
      BY <1>11, <3>1
    <3>3. m.does = "send" /\ sendParam = "none"
          /\ last.is \in {"options", "object", "bigNumber"}
      BY <1>1, <1>13, <2>3, <2>15
    <3> QED BY <1>1, <1>4, <1>13, <2>10, <2>11, <2>15, <3>2, <3>3
            DEF Shortened, kinds, n, taken, types, last
  <2>16. CASE taken /\ kinds[n] = "data" /\ standard # "KIP37"
    <3>1. kept = n - 1
      BY <1>7, <1>13, <2>8, <2>16 DEF LeftOut, Default
    <3>2. types = WantedShort(kinds)
      BY <1>11, <3>1
    <3>3. sendParam = "none" /\ last.is = "options"
      BY <2>3, <2>16
    <3> QED BY <1>1, <1>4, <1>13, <2>10, <2>11, <2>16, <3>2, <3>3
            DEF Shortened, kinds, n, taken, types, last
  <2>17. CASE taken /\ (kinds[n] = "uri" \/ (kinds[n] = "data" /\ standard = "KIP37"))
    <3>1. effective[n] = One(IF kinds[n] = "uri" THEN "text" ELSE "bytes")
      BY <2>8, <2>17 DEF Default
    <3>2. kept = n
      BY <1>7, <2>17 DEF LeftOut
    <3>3. TypeOf(kinds[n], effective[n]) = TypeFor(kinds[n])
      BY <2>17, <3>1, FormsOf DEF TypeOf, EncodedAs, TypeFor
    <3>4. types = Wanted(kinds)
      BY <1>10, <3>2, <3>3
    <3>5. sendParam = "none" /\ last.is = "options"
      BY <2>3, <2>17
    <3> QED BY <1>1, <1>4, <1>13, <2>10, <2>17, <3>4, <3>5
            DEF Defaulted, kinds, n, taken, types, last
  <2> QED BY <2>2, <2>3, <2>7, <2>12, <2>13, <2>14, <2>15, <2>16, <2>17
<1> QED BY <1>1, <1>12, <1>13

(* Arguments that can be encoded as one type each fit these types alone.   *)
LEMMA OnlyAsTypes ==
  ASSUME NEW entry, NEW types, Listed(entry.inputs), Listed(types)
  PROVE  Encodable(entry, OnlyAs(types)) <=> entry.inputs = types
<1> DEFINE n == Len(types)
           inputs == entry.inputs
<1>1. /\ n \in Nat /\ DOMAIN types = 1 .. n /\ types = [i \in 1 .. n |-> types[i]]
      /\ inputs = [i \in 1 .. Len(inputs) |-> inputs[i]]
  BY DEF Listed
<1>2. Len(OnlyAs(types)) = n /\ DOMAIN OnlyAs(types) = 1 .. n
      /\ \A i \in 1 .. n : OnlyAs(types)[i] = {types[i]}
  BY <1>1 DEF OnlyAs
<1>3. Encodable(entry, OnlyAs(types)) <=> Len(inputs) = n /\ \A i \in 1 .. n : inputs[i] = types[i]
  BY <1>2 DEF Encodable
<1> HIDE DEF n, inputs
<1>4. Len(inputs) = n /\ (\A i \in 1 .. n : inputs[i] = types[i]) => inputs = types
  BY <1>1
<1>5. inputs = types => Len(inputs) = n
  BY DEF n
<1> QED BY <1>3, <1>4, <1>5 DEF inputs

(* The overload that a method chooses is one of its function, and takes    *)
(* the types if one of them does.                                          *)
HasOverloads(inputs) ==
  /\ Len(inputs) \in Nat \ {0} /\ DOMAIN inputs = 1 .. Len(inputs)
  /\ \A j \in DOMAIN inputs : Listed(inputs[j])
Fits(entry, inputs, types) ==
  /\ \E j \in DOMAIN inputs : entry.inputs = inputs[j]
  /\ Encodable(entry, OnlyAs(types)) <=> entry.inputs = types
  /\ (\E j \in DOMAIN inputs : inputs[j] = types) => entry.inputs = types

LEMMA OverloadFits ==
  ASSUME NEW standard, NEW name, NEW types, Listed(types),
         HasOverloads(InputsOf(standard, name))
  PROVE  Fits(Resolved(Overloaded(standard, name), name, OnlyAs(types)),
              InputsOf(standard, name), types)
<1> DEFINE inputs == InputsOf(standard, name)
           interface == Overloaded(standard, name)
           S == {Method(name, inputs[j]) : j \in DOMAIN inputs}
           entry == Resolved(interface, name, OnlyAs(types))
<1>1. interface = [i \in 1 .. Len(inputs) |-> Method(name, inputs[i])]
  BY DEF Overloaded
<1>2. \A i : /\ Method(name, inputs[i]).type = "function"
             /\ Method(name, inputs[i]).name = name
             /\ Method(name, inputs[i]).inputs = inputs[i]
  BY DEF Method
<1>0. /\ Len(inputs) \in Nat \ {0} /\ DOMAIN inputs = 1 .. Len(inputs)
      /\ \A j \in DOMAIN inputs : Listed(inputs[j])
  BY DEF HasOverloads
<1> HIDE DEF interface
<1>3. interface \in Seq(S) /\ DOMAIN interface = DOMAIN inputs
  BY <1>0, <1>1
<1>4. Named(interface, "function", name) = DOMAIN inputs
  BY <1>1, <1>2, <1>3 DEF Named, PlacesOf
<1>5. Named(interface, "function", name) # {}
  <2>1. 1 \in 1 .. Len(inputs)
    BY <1>0
  <2> QED BY <1>0, <1>4, <2>1
<1>6. /\ \E i \in DOMAIN inputs : entry = interface[i]
      /\ (\E i \in DOMAIN inputs : Encodable(interface[i], OnlyAs(types)))
           => Encodable(entry, OnlyAs(types))
  BY <1>3, <1>4, <1>5, ResolvedFits
<1> HIDE DEF entry
<1>7. \A i \in DOMAIN inputs : interface[i].inputs = inputs[i]
  BY <1>1, <1>2, <1>3
<1>8. \A i \in DOMAIN inputs : Encodable(interface[i], OnlyAs(types)) <=> inputs[i] = types
  BY <1>0, <1>7, OnlyAsTypes
<1>9. Encodable(entry, OnlyAs(types)) <=> entry.inputs = types
  BY <1>0, <1>6, <1>7, OnlyAsTypes
<1> QED BY <1>6, <1>7, <1>8, <1>9 DEF entry, interface, Fits

(* A call of a method, but for mint of KIP37 and deploy, is made of all    *)
(* its arguments, or cannot be made of them.                               *)
LEMMA OrdinaryCall ==
  ASSUME NEW standard \in Standards, NEW m, NEW name, NEW args, NEW sendParam,
         NEW defaultFrom \in BOOLEAN,
         Asked(standard, m, args, sendParam),
         Serves(standard, m.params, InputsOf(standard, name)),
         ~(standard = "KIP37" /\ name = "mint"),
         CallToken(standard, m, name, args, sendParam, defaultFrom)
  PROVE  TokenCallMade' /\ TokenCallPossible'
<1> DEFINE kinds == m.params
           n == Len(kinds)
           taken == Taken(kinds, args, sendParam)
           types == Encoding(standard, kinds, args, sendParam)
           entry == Resolved(Overloaded(standard, name), name, OnlyAs(types))
           chosen == IF taken THEN args[n].is ELSE sendParam
           fromKnown == \/ m.does = "call" \/ chosen = "options"
                        \/ m.does = "send" /\ defaultFrom
           c == tokenCall'
<1>1. /\ n \in Nat /\ DOMAIN kinds = 1 .. n /\ DOMAIN args = 1 .. n /\ Len(args) = n
      /\ m.does \in {"call", "send"} /\ sendParam \in {"none", "options", "object"}
  BY DEF Asked, Shaped
<1>2. /\ c.phase = IF fromKnown /\ EqualLengths(args) /\ Encodable(entry, OnlyAs(types))
                   THEN "made" ELSE "refused"
      /\ c.standard = standard /\ c.name = name /\ c.kinds = kinds /\ c.args = args
      /\ c.sendParam = sendParam /\ c.defaultFrom = defaultFrom
      /\ c.entry = entry /\ c.options = chosen
  BY <1>1 DEF CallToken, Reordered, Encoding, KeptOf, Effective, Taken
<1>3. /\ \E j \in DOMAIN InputsOf(standard, name) : entry.inputs = InputsOf(standard, name)[j]
      /\ Encodable(entry, OnlyAs(types)) <=> entry.inputs = types
      /\ (\E j \in DOMAIN InputsOf(standard, name) : InputsOf(standard, name)[j] = types)
           => entry.inputs = types
  <2>1. /\ Len(InputsOf(standard, name)) \in Nat \ {0}
        /\ DOMAIN InputsOf(standard, name) = 1 .. Len(InputsOf(standard, name))
        /\ \A j \in DOMAIN InputsOf(standard, name) : Listed(InputsOf(standard, name)[j])
    BY DEF Serves
  <2>2. Listed(types)
    BY <1>1 DEF Encoding, KeptOf, Listed
  <2> HIDE DEF types
  <2>3. HasOverloads(InputsOf(standard, name))
    BY <2>1 DEF HasOverloads
  <2>4. Fits(Resolved(Overloaded(standard, name), name, OnlyAs(types)),
             InputsOf(standard, name), types)
    BY <2>2, <2>3, OverloadFits
  <2> QED BY <2>4 DEF Fits
<1>4. \A i \in DOMAIN entry.inputs : entry.inputs[i] # "none"
  BY <1>3 DEF Serves
<1>5. \/ Complete(standard, m, args, sendParam)
      \/ Shortened(standard, m, args, sendParam)
      \/ Defaulted(standard, m, args, sendParam)
      \/ Unencodable(standard, m, args, sendParam)
  BY EncodingIs
<1>6. \A i \in 1 .. n : i # n => args[i].is \notin NotGiven
  BY <1>1, EncodingIs
<1>7. \A i \in 1 .. n : args[i].is \notin NotGiven =>
                           TypeOf(kinds[i], args[i]) = TypeFor(kinds[i])
  BY <1>1, EncodingIs
<1>8. Wanted(kinds) = [i \in 1 .. n |-> TypeFor(kinds[i])]
      /\ WantedShort(kinds) = [i \in 1 .. n - 1 |-> TypeFor(kinds[i])]
  BY <1>1 DEF Wanted, WantedShort
<1>9. /\ Complete(standard, m, args, sendParam) \/ Defaulted(standard, m, args, sendParam)
           => types = Wanted(kinds)
      /\ Shortened(standard, m, args, sendParam) =>
           types = WantedShort(kinds) /\ n > 0 /\ kinds[n] \in MayBeLeftOut(standard)
  BY DEF Complete, Defaulted, Shortened
<1>10. ~Unencodable(standard, m, args, sendParam) => Encodable(entry, OnlyAs(types))
  BY <1>3, <1>5, <1>9 DEF Serves
<1>11. Encodable(entry, OnlyAs(types)) => ~Unencodable(standard, m, args, sendParam)
  BY <1>3, <1>4 DEF Unencodable
<1> DEFINE supplied == {i \in 1 .. n : args[i].is \notin NotGiven}
<1>12. GivenTypes(c) = [i \in supplied |-> TypeFor(kinds[i])]
  <2>1. GivenTypes(c) = [i \in supplied |-> TypeOf(kinds[i], args[i])]
    BY <1>1, <1>2 DEF GivenTypes, NotGiven
  <2> QED BY <1>7, <2>1
<1>13. OptionsGiven(c) = {args[i].is : i \in 1 .. n} \intersect {"options", "object"}
  BY <1>1, <1>2 DEF OptionsGiven
<1>14. Complete(standard, m, args, sendParam) => ~taken /\ supplied = 1 .. n
  BY <1>1 DEF Complete
<1>15. n > 0 /\ args[n].is \in NotGiven => supplied = 1 .. n - 1
  BY <1>1, <1>6
<1>16. OptionsGiven(c) = IF n > 0 /\ args[n].is \in {"options", "object"}
                         THEN {args[n].is} ELSE {}
  BY <1>1, <1>6, <1>13 DEF NotGiven
<1>17. Shortened(standard, m, args, sendParam) =>
         \/ args[n].is \in {"undefined", "empty"} /\ ~taken
         \/ args[n].is \in {"options", "object"} /\ taken /\ sendParam = "none"
         \/ args[n].is = "bigNumber" /\ taken /\ sendParam = "none" /\ m.does = "send"
  BY DEF Shortened
<1>18. Defaulted(standard, m, args, sendParam) =>
         /\ n > 0 /\ args[n].is = "options" /\ taken /\ sendParam = "none"
         /\ \A i \in 1 .. n - 1 : TypeFor(kinds[i]) # TypeFor(kinds[n])
  <2>1. Defaulted(standard, m, args, sendParam) =>
         /\ n > 0 /\ args[n].is = "options" /\ taken /\ sendParam = "none"
         /\ kinds[n] \in {"data", "uri"}
    BY DEF Defaulted
  <2>2. n > 0 /\ kinds[n] \in {"data", "uri"} =>
          \A i \in 1 .. n : i # n => kinds[i] \in {"address", "uint256", "uint256s"}
    BY DEF Asked, Shaped
  <2> QED BY <1>1, <2>1, <2>2, TypeForIs
<1>19. Unencodable(standard, m, args, sendParam) =>
         /\ n > 0 /\ args[n].is \in NotGiven
         /\ args[n].is = "options" => sendParam # "none"
         /\ args[n].is \in {"undefined", "empty"} => standard = "KIP37"
  BY DEF Unencodable
<1> HIDE DEF kinds, n, taken, types, entry, supplied, c
<1>20. TokenCallMade'
  <2> SUFFICES ASSUME c.phase = "made"
               PROVE  /\ chosen \in IF sendParam # "none" THEN {sendParam}
                                     ELSE OptionsGiven(c) \union
                                            (IF OptionsGiven(c) = {} THEN {"none", "bigNumber"} ELSE {})
                      /\ \A t \in Range(GivenTypes(c)) :
                           Occurrences(t, GivenTypes(c)) = Occurrences(t, entry.inputs)
                           \/ chosen = "bigNumber"
    BY <1>2 DEF TokenCallMade, c
  <2>1. entry.inputs = types /\ ~Unencodable(standard, m, args, sendParam)
    BY <1>2, <1>3, <1>11
  <2>2. CASE Complete(standard, m, args, sendParam)
    <3>1. GivenTypes(c) = types
      BY <1>8, <1>9, <1>12, <1>14, <2>2
    <3>2. OptionsGiven(c) = {}
      BY <1>1, <1>14, <1>16, <2>2 DEF NotGiven, supplied
    <3> QED BY <1>1, <1>14, <2>1, <2>2, <3>1, <3>2
  <2>3. CASE Shortened(standard, m, args, sendParam)
    <3>1. args[n].is # "bigNumber" => GivenTypes(c) = types
      BY <1>8, <1>9, <1>12, <1>15, <1>17, <2>3 DEF NotGiven
    <3>2. CASE args[n].is = "bigNumber"
      BY <1>16, <1>17, <2>3, <3>2
    <3>3. CASE args[n].is # "bigNumber"
      BY <1>1, <1>9, <1>16, <1>17, <2>1, <2>3, <3>1, <3>3
    <3> QED BY <3>2, <3>3
  <2>4. CASE Defaulted(standard, m, args, sendParam)
    <3>1. chosen \in OptionsGiven(c) /\ sendParam = "none"
      BY <1>16, <1>18, <2>4
    <3>2. GivenTypes(c) = [i \in 1 .. n - 1 |-> TypeFor(kinds[i])]
          /\ types = [i \in 1 .. n |-> TypeFor(kinds[i])]
      BY <1>8, <1>9, <1>12, <1>15, <1>18, <2>4 DEF NotGiven
    <3>3. ASSUME NEW t \in Range(GivenTypes(c))
          PROVE  {i \in DOMAIN GivenTypes(c) : GivenTypes(c)[i] = t}
                   = {i \in DOMAIN types : types[i] = t}
      <4>1. PICK k \in 1 .. n - 1 : t = TypeFor(kinds[k])
        BY <3>2 DEF Range
      <4>2. TypeFor(kinds[n]) # t
        BY <1>18, <2>4, <4>1
      <4> QED BY <1>1, <3>2, <4>2
    <3> QED BY <2>1, <3>1, <3>3 DEF Occurrences
  <2> QED BY <1>5, <2>1, <2>2, <2>3, <2>4
<1>21. TokenCallPossible'
  <2> SUFFICES ASSUME c.phase = "refused",
                      ~(Cardinality(OptionsGiven(c)) > 0
                          /\ (sendParam # "none" \/ args[n].is = "object")),
                      EqualLengths(args),
                      ~(standard = "KIP37" /\ args[n].is \in {"undefined", "empty"})
               PROVE  /\ sendParam # "options" /\ "options" \notin OptionsGiven(c)
                      /\ ~defaultFrom
    BY <1>1, <1>2 DEF TokenCallPossible, c
  <2>1. n > 0 /\ args[n].is \in {"options", "object"} => Cardinality(OptionsGiven(c)) > 0
    <3>1. n > 0 /\ args[n].is \in {"options", "object"} =>
            OptionsGiven(c) = {args[n].is}
      BY <1>16
    <3>2. \A x : Cardinality({x}) = 1
      BY FS_Singleton
    <3> QED BY <3>1, <3>2
  <2>2. ~Unencodable(standard, m, args, sendParam)
    BY <1>19, <2>1 DEF NotGiven
  <2>3. ~fromKnown
    BY <1>2, <1>10, <2>2
  <2>4. chosen # "options" /\ ~defaultFrom
    BY <1>1, <2>3
  <2>5. CASE Complete(standard, m, args, sendParam)
    BY <1>1, <1>14, <1>16, <2>4, <2>5 DEF NotGiven, supplied
  <2>6. CASE Shortened(standard, m, args, sendParam)
    BY <1>9, <1>16, <1>17, <2>4, <2>6
  <2>7. CASE Defaulted(standard, m, args, sendParam)
    BY <1>18, <2>4, <2>7
  <2> QED BY <1>5, <2>2, <2>5, <2>6, <2>7
<1> QED BY <1>20, <1>21

(* mint of KIP37, for one or several receivers of a new supply: its id     *)
(* comes first in the function.                                            *)
LEMMA MintCall ==
  ASSUME NEW m, NEW args, NEW sendParam \in {"none", "options", "object"},
         NEW defaultFrom \in BOOLEAN,
         m = Sends({"mint"}, <<"addressOrArray", "uint256", "uint256OrArray">>),
         DOMAIN args = DOMAIN m.params,
         \A i \in DOMAIN m.params : args[i] \in Offered(m.params[i]),
         CallToken("KIP37", m, "mint", args, sendParam, defaultFrom)
  PROVE  TokenCallMade' /\ TokenCallPossible'
<1> DEFINE kinds == m.params
           inputs == InputsOf("KIP37", "mint")
           typeOf(i) == TypeOf(kinds[i], args[i])
           types == <<typeOf(2), typeOf(1), typeOf(3)>>
           entry == Resolved(Overloaded("KIP37", "mint"), "mint", OnlyAs(types))
           fromKnown == sendParam = "options" \/ defaultFrom
           c == tokenCall'
<1>1. /\ m.does = "send" /\ Len(kinds) = 3 /\ DOMAIN kinds = 1 .. 3
      /\ kinds[1] = "addressOrArray" /\ kinds[2] = "uint256" /\ kinds[3] = "uint256OrArray"
  BY DEF Sends, Methods
<1>2. DOMAIN args = 1 .. 3 /\ Len(args) = 3
      /\ args[1] \in Offered("addressOrArray") /\ args[2] \in Offered("uint256")
      /\ args[3] \in Offered("uint256OrArray")
  BY <1>1
<1>3. /\ args[1].is = "address" /\ args[1].length \in 0 .. 2
      /\ typeOf(1) = IF args[1].length = 0 THEN "address" ELSE "address[]"
  <2>1. args[1] \in {One("address")} \union Many("address")
    BY <1>2 DEF Offered
  <2>2. args[1].is = "address" /\ args[1].length \in 0 .. 2
    BY <2>1 DEF One, Many
  <2> QED BY <1>1, <2>2 DEF TypeOf, EncodedAs
<1>4. args[2].is \in {"number", "bigNumber"} /\ args[2].length = 0 /\ typeOf(2) = "uint256"
  <2>1. args[2] \in Numbers
    BY <1>2 DEF Offered
  <2>2. args[2].is \in {"number", "bigNumber"} /\ args[2].length = 0
    BY <2>1 DEF One, Numbers
  <2> QED BY <1>1, <2>2 DEF TypeOf, EncodedAs
<1>5. /\ args[3].is = "number" /\ args[3].length \in 0 .. 2
      /\ typeOf(3) = IF args[3].length = 0 THEN "uint256" ELSE "uint256[]"
  <2>1. args[3] \in {One("number")} \union Many("number")
    BY <1>2 DEF Offered
  <2>2. args[3].is = "number" /\ args[3].length \in 0 .. 2
    BY <2>1 DEF One, Many
  <2> QED BY <1>1, <2>2 DEF TypeOf, EncodedAs
<1>6. inputs = << <<"uint256", "address", "uint256">>, <<"uint256", "address[]", "uint256[]">> >>
  BY DEF InputsOf, Kip37Inputs
<1> HIDE DEF kinds, typeOf, inputs
<1>7. ~TakesAsOptions(kinds[3], args[3], sendParam) /\ ~LeftOut("KIP37", kinds[3], args[3])
  BY <1>1 DEF TakesAsOptions, LeftOut
<1>8. Reordered("KIP37", "mint", [i \in 1 .. 3 |-> TypeOf(kinds[i], args[i])]) = types
  BY DEF Reordered, typeOf
<1>9. /\ c.phase = IF fromKnown /\ EqualLengths(args) /\ Encodable(entry, OnlyAs(types))
                   THEN "made" ELSE "refused"
      /\ c.standard = "KIP37" /\ c.name = "mint" /\ c.kinds = kinds /\ c.args = args
      /\ c.sendParam = sendParam /\ c.defaultFrom = defaultFrom
      /\ c.entry = entry /\ c.options = sendParam
  <2> HIDE DEF types
  <2> QED BY <1>1, <1>7, <1>8 DEF CallToken, kinds
<1>10. /\ \E j \in DOMAIN inputs : entry.inputs = inputs[j]
       /\ Encodable(entry, OnlyAs(types)) <=> entry.inputs = types
       /\ (\E j \in DOMAIN inputs : inputs[j] = types) => entry.inputs = types
  <2>1. /\ Len(inputs) \in Nat \ {0} /\ DOMAIN inputs = 1 .. Len(inputs)
        /\ \A j \in DOMAIN inputs : Listed(inputs[j])
    BY <1>6, TuplesListed
  <2>2. Listed(types)
    BY TuplesListed
  <2> HIDE DEF types
  <2>3. HasOverloads(inputs)
    BY <2>1 DEF HasOverloads
  <2>4. Fits(entry, inputs, types)
    BY <2>2, <2>3, OverloadFits DEF inputs, entry
  <2> QED BY <2>4 DEF Fits
<1>11. \A i \in 1 .. 3 : args[i].is \notin NotGiven
  BY <1>3, <1>4, <1>5 DEF NotGiven
<1>12. GivenTypes(c) = [i \in 1 .. 3 |-> typeOf(i)]
  BY <1>2, <1>9, <1>11 DEF GivenTypes, NotGiven, typeOf
<1>13. OptionsGiven(c) = {}
  BY <1>2, <1>9, <1>11 DEF OptionsGiven, NotGiven
<1> HIDE DEF c, entry
<1>14. TokenCallMade'
  <2> SUFFICES ASSUME c.phase = "made", NEW t
               PROVE  Occurrences(t, GivenTypes(c)) = Occurrences(t, entry.inputs)
    BY <1>9, <1>13 DEF TokenCallMade, c
  <2>1. entry.inputs = types
    BY <1>9, <1>10
  <2> DEFINE S == {i \in DOMAIN GivenTypes(c) : GivenTypes(c)[i] = t}
             T == {i \in DOMAIN types : types[i] = t}
             f == [i \in S |-> IF i = 1 THEN 2 ELSE IF i = 2 THEN 1 ELSE 3]
  <2>2. S = {i \in 1 .. 3 : typeOf(i) = t}
    BY <1>12
  <2>3. T = {i \in 1 .. 3 : <<typeOf(2), typeOf(1), typeOf(3)>>[i] = t}
    OBVIOUS
  <2>4. f \in Bijection(S, T) /\ S \subseteq 1 .. 3
    BY <2>2, <2>3 DEF Bijection, Injection, Surjection, IsInjective
  <2> HIDE DEF S, T, f
  <2>5. IsFiniteSet(S)
    BY <2>4, FS_Interval, FS_Subset
  <2>6. ExistsBijection(S, T)
    BY <2>4 DEF ExistsBijection
  <2>7. Cardinality(S) = Cardinality(T)
    BY <2>5, <2>6, FS_Bijection
  <2> QED BY <2>1, <2>7 DEF Occurrences, S, T
<1>15. TokenCallPossible'
  <2> SUFFICES ASSUME c.phase = "refused", EqualLengths(args),
                      ~((args[1].length = 0) # (args[3].length = 0))
               PROVE  sendParam # "options" /\ ~defaultFrom
    BY <1>9, <1>13 DEF TokenCallPossible, c
  <2>1. (args[1].length = 0) <=> (args[3].length = 0)
    OBVIOUS
  <2>2. \E j \in DOMAIN inputs : inputs[j] = types
    <3>1. CASE args[1].length = 0
      BY <1>3, <1>4, <1>5, <1>6, <2>1, <3>1
    <3>2. CASE args[1].length # 0
      BY <1>3, <1>4, <1>5, <1>6, <2>1, <3>2
    <3> QED BY <3>1, <3>2
  <2> QED BY <1>9, <1>10, <2>2
<1> QED BY <1>14, <1>15

(* A deployment of a token, with its name, symbol and the like.            *)
Deployed(standard, m) ==
  \/ standard = "KIP7" /\ m \in Kip7Deploys
  \/ standard = "KIP17" /\ m \in Kip17Deploys
  \/ standard = "KIP37" /\ m \in Kip37Deploys
KindOf(type) ==
  CASE type = "string" -> "name" [] type = "uint8" -> "decimals" [] OTHER -> "uint256"
(* The inputs of a token's constructor are those of its deployment.        *)
LEMMA DeployKinds ==
  ASSUME NEW standard, NEW m, Deployed(standard, m)
  PROVE  /\ m.does = "deploy" /\ Len(m.params) \in Nat \ {0}
         /\ DOMAIN m.params = 1 .. Len(m.params)
         /\ DOMAIN DeployInputs[standard] = 1 .. Len(m.params)
         /\ \A i \in 1 .. Len(m.params) :
              /\ DeployInputs[standard][i] \in {"string", "uint8", "uint256"}
              /\ m.params[i] = KindOf(DeployInputs[standard][i])
         /\ DeployInputs[standard] = [i \in 1 .. Len(m.params) |-> DeployInputs[standard][i]]
<1>1. KindOf("string") = "name" /\ KindOf("uint8") = "decimals" /\ KindOf("uint256") = "uint256"
  BY DEF KindOf
<1>2. CASE standard = "KIP7"
  <2>1. m.does = "deploy" /\ m.params = <<"name", "name", "decimals", "uint256">>
    BY <1>2 DEF Deployed, Kip7Deploys, Deploys, Methods
  <2>2. DeployInputs[standard] = <<"string", "string", "uint8", "uint256">>
    BY <1>2 DEF DeployInputs
  <2> QED BY <1>1, <2>1, <2>2
<1>3. CASE standard = "KIP17"
  <2>1. m.does = "deploy" /\ m.params = <<"name", "name">>
    BY <1>3 DEF Deployed, Kip17Deploys, Deploys, Methods
  <2>2. DeployInputs[standard] = <<"string", "string">>
    BY <1>3 DEF DeployInputs
  <2> QED BY <1>1, <2>1, <2>2
<1>4. CASE standard = "KIP37"
  <2>1. m.does = "deploy" /\ m.params = <<"name">>
    BY <1>4 DEF Deployed, Kip37Deploys, Deploys, Methods
  <2>2. DeployInputs[standard] = <<"string">>
    BY <1>4 DEF DeployInputs
  <2> QED BY <1>1, <2>1, <2>2
<1> QED BY <1>2, <1>3, <1>4 DEF Deployed

(* A deployment of a token is made, and can be made, as it was asked.      *)
LEMMA DeployCall ==
  ASSUME NEW standard, NEW m, NEW args,
         NEW sendParam \in {"none", "options", "object"}, NEW defaultFrom \in BOOLEAN,
         Deployed(standard, m), DOMAIN args = DOMAIN m.params,
         \A i \in DOMAIN m.params : args[i] \in Offered(m.params[i]),
         CallToken(standard, m, "deploy", args, sendParam, defaultFrom)
  PROVE  TokenCallMade' /\ TokenCallPossible'
<1> DEFINE kinds == m.params
           n == Len(kinds)
           inputs == DeployInputs[standard]
           types == [i \in 1 .. n |-> TypeOf(kinds[i], args[i])]
           entry == Constructor(inputs)
           c == tokenCall'
<1>1. /\ m.does = "deploy" /\ n \in Nat \ {0} /\ DOMAIN kinds = 1 .. n
      /\ DOMAIN args = 1 .. n /\ Len(args) = n
  <2>1. m.does = "deploy" /\ n \in Nat \ {0} /\ DOMAIN kinds = 1 .. n
    BY DeployKinds
  <2> HIDE DEF n
  <2> QED BY <2>1
<1>2. /\ DOMAIN inputs = 1 .. n /\ inputs = [i \in 1 .. n |-> inputs[i]]
      /\ \A i \in 1 .. n : /\ inputs[i] \in {"string", "uint8", "uint256"}
                          /\ kinds[i] = KindOf(inputs[i])
  BY DeployKinds
<1>3. \A i \in 1 .. n : args[i] \in Offered(kinds[i])
  BY <1>1
<1>4. entry.inputs = inputs
  BY DEF Constructor
<1> HIDE DEF inputs, kinds, n
<1>5. ASSUME NEW i \in 1 .. n
      PROVE  /\ TypeOf(kinds[i], args[i]) \in {inputs[i], "none"}
             /\ args[i].is \in NotGiven => TypeOf(kinds[i], args[i]) = "none"
             /\ args[i].is \notin {"options", "object"}
             /\ kinds[i] \in {"name", "decimals", "uint256"}
  <2>1. CASE inputs[i] = "string"
    <3>1. kinds[i] = "name"
      BY <1>2, <2>1 DEF KindOf
    <3>2. args[i] \in {One("text"), One("empty")}
      BY <1>3, <3>1 DEF Offered
    <3> QED BY <2>1, <3>1, <3>2, FormsOf DEF TypeOf, EncodedAs, NotGiven
  <2>2. CASE inputs[i] = "uint8"
    <3>1. kinds[i] = "decimals"
      BY <1>2, <2>2 DEF KindOf
    <3>2. args[i] \in Numbers
      BY <1>3, <3>1 DEF Offered
    <3> QED BY <2>2, <3>1, <3>2, FormsOf DEF TypeOf, NotGiven, Numbers
  <2>3. CASE inputs[i] = "uint256"
    <3>1. kinds[i] = "uint256"
      BY <1>2, <2>3 DEF KindOf
    <3>2. args[i] \in Numbers
      BY <1>3, <3>1 DEF Offered
    <3> QED BY <2>3, <3>1, <3>2, FormsOf DEF TypeOf, EncodedAs, NotGiven, Numbers
  <2> QED BY <1>2, <2>1, <2>2, <2>3
<1>6. ~TakesAsOptions(kinds[n], args[n], sendParam) /\ ~LeftOut(standard, kinds[n], args[n])
  <2>1. kinds[n] \in {"name", "decimals", "uint256"}
    BY <1>1, <1>5
  <2> QED BY <2>1 DEF TakesAsOptions, LeftOut
<1>7. Reordered(standard, "deploy", types) = types
  BY DEF Reordered
<1>8. /\ c.phase = IF sendParam = "options" /\ EqualLengths(args)
                      /\ Encodable(entry, OnlyAs(types))
                   THEN "made" ELSE "refused"
      /\ c.name = "deploy" /\ c.kinds = kinds /\ c.args = args
      /\ c.sendParam = sendParam /\ c.entry = entry /\ c.options = sendParam
  <2> HIDE DEF types
  <2>1. [i \in 1 .. n |-> TypeOf(kinds[i], args[i])] = types
    BY DEF types
  <2> QED BY <1>1, <1>6, <1>7, <2>1 DEF CallToken, kinds, n, inputs
<1>9. OptionsGiven(c) = {}
  BY <1>1, <1>5, <1>8 DEF OptionsGiven
<1>12. Encodable(entry, OnlyAs(types)) <=> entry.inputs = types
  <2>1. Listed(inputs)
    <3>1. Len(inputs) = n
      BY <1>1, <1>2
    <3> QED BY <1>1, <1>2, <3>1 DEF Listed
  <2>2. Listed(types)
    BY <1>1 DEF Listed
  <2> HIDE DEF types, entry
  <2> QED BY <1>4, <2>1, <2>2, OnlyAsTypes
<1> HIDE DEF c, entry
<1>10. TokenCallMade'
  <2> SUFFICES ASSUME c.phase = "made", NEW t
               PROVE  Occurrences(t, GivenTypes(c)) = Occurrences(t, entry.inputs)
    BY <1>8, <1>9 DEF TokenCallMade, c
  <2>1. entry.inputs = types
    BY <1>8, <1>12
  <2>2. \A i \in 1 .. n : args[i].is \notin NotGiven
    BY <1>2, <1>4, <1>5, <2>1
  <2>3. GivenTypes(c) = types
    BY <1>1, <1>8, <2>2 DEF GivenTypes, NotGiven
  <2> QED BY <2>1, <2>3
<1>11. TokenCallPossible'
  <2> SUFFICES ASSUME c.phase = "refused", EqualLengths(args),
                      \A i \in 1 .. n : TypeOf(kinds[i], args[i]) # "none"
               PROVE  sendParam # "options"
    BY <1>1, <1>8, <1>9 DEF TokenCallPossible, c
  <2>1. types = inputs
    BY <1>2, <1>5
  <2> QED BY <1>4, <1>8, <1>12, <2>1
<1> QED BY <1>10, <1>11

(* So of every method of a token.                                          *)
LEMMA AnyCall == CallAnyMethod => TokenCallMade' /\ TokenCallPossible'
<1> SUFFICES ASSUME NEW standard \in Standards, NEW m \in ClassOf(standard), NEW name \in m.names,
                    NEW args, NEW defaultFrom \in BOOLEAN,
                    NEW sendParam \in {"none", "options", "object"},
                    DOMAIN args = DOMAIN m.params,
                    \A i \in DOMAIN m.params : args[i] \in Offered(m.params[i]),
                    CallToken(standard, m, name, args, sendParam, defaultFrom)
             PROVE  TokenCallMade' /\ TokenCallPossible'
  BY DEF CallAnyMethod
<1>1. standard \in {"KIP7", "KIP17", "KIP37"}
  BY DEF Standards
<1>2. CASE Deployed(standard, m)
  <2>1. name = "deploy"
    BY <1>2 DEF Deployed, Kip7Deploys, Kip17Deploys, Kip37Deploys, Deploys, Methods
  <2> QED BY <1>2, <2>1, DeployCall
<1>3. ASSUME Shaped(standard, m), Serves(standard, m.params, InputsOf(standard, name)),
             ~(standard = "KIP37" /\ name = "mint")
      PROVE  TokenCallMade' /\ TokenCallPossible'
  <2>1. Asked(standard, m, args, sendParam)
    BY <1>3 DEF Asked
  <2> QED BY <1>3, <2>1, OrdinaryCall
<1>4. CASE standard = "KIP7" /\ ~Deployed(standard, m)
  <2>1. m \in Kip7Reads \union Kip7Sends
    BY <1>4 DEF ClassOf, Deployed
  <2>2. Shaped("KIP7", m) /\ Serves("KIP7", m.params, Kip7Inputs(name))
    BY <2>1, Kip7Serves
  <2> QED BY <1>3, <1>4, <2>2 DEF InputsOf
<1>5. CASE standard = "KIP17" /\ ~Deployed(standard, m)
  <2>1. m \in Kip17Reads \union Kip17Sends
    BY <1>5 DEF ClassOf, Deployed
  <2>2. Shaped("KIP17", m) /\ Serves("KIP17", m.params, Kip17Inputs(name))
    BY <2>1, Kip17Serves
  <2> QED BY <1>3, <1>5, <2>2 DEF InputsOf
<1>6. CASE standard = "KIP37" /\ ~Deployed(standard, m)
  <2>1. m \in Kip37Reads \union Kip37Sends
    BY <1>6 DEF ClassOf, Deployed
  <2>2. CASE name # "mint"
    <3>1. Shaped("KIP37", m) /\ Serves("KIP37", m.params, Kip37Inputs(name))
      BY <2>1, <2>2, Kip37Serves
    <3> QED BY <1>3, <1>6, <2>2, <3>1 DEF InputsOf
  <2>3. CASE name = "mint"
    <3>1. m = Sends({"mint"}, <<"addressOrArray", "uint256", "uint256OrArray">>)
      BY <2>1, <2>3 DEF Kip37Reads, Kip37Sends, Reads, Sends, Methods
    <3> QED BY <1>6, <2>3, <3>1, MintCall
  <2> QED BY <2>2, <2>3
<1> QED BY <1>1, <1>2, <1>4, <1>5, <1>6

(* What tokens make of a call is right of the last call.                   *)
TokenInv == TokenCallMade /\ TokenCallPossible

(* Nothing is called, initially.                                           *)
LEMMA TokenInitially == TokenInit => TokenInv
BY DEF TokenInit, NoTokenCall, TokenInv, TokenCallMade, TokenCallPossible

(* The last call of a token is what it was while a contract is asked for   *)
(* its interfaces, or nothing happens.                                     *)
LEMMA TokenStays == TokenInv /\ UNCHANGED tokenCall => TokenInv'
BY DEF TokenInv, TokenCallMade, TokenCallPossible, GivenTypes, OptionsGiven

(* Each call of a token is what it should be.                              *)
LEMMA TokenStep == ASSUME TokenInv, TokenNext PROVE TokenInv'
<1>1. CASE CallAnyMethod
  BY <1>1, AnyCall DEF TokenInv
<1>2. ASSUME NEW s, NEW c, Detect(s, c) PROVE TokenInv'
  BY <1>2, TokenStays DEF Detect
<1>3. CASE DetectStep
  BY <1>3, TokenStays DEF DetectStep
<1> QED BY <1>1, <1>2, <1>3 DEF TokenNext

-----------------------------------------------------------------------------
(* The two wallets, a Contract object and a token together. *)

KeyHoldersInv == WalletInv /\ CallInv /\ LegacyInv /\ ObjectInv /\ DetectionInv /\ TokenInv

(* The six invariants hold initially.                                     *)
LEMMA Initially == Init => KeyHoldersInv
BY WalletInitially, CallInitially, LegacyInitially, ObjectInitially, DetectionInitially,
   TokenInitially
   DEF Init, KeyHoldersInv

(* Each is about variables of its own.                                     *)
LEMMA WalletStays == WalletInv /\ UNCHANGED walletVars => WalletInv'
BY DEF walletVars, WalletInv, KeyringsTyped, ChainAnswers, UpdateCarried

(* The same of a call,                                                     *)
LEMMA CallStays == CallInv /\ UNCHANGED contractVars => CallInv'
BY DEF contractVars, CallInv, SignedByCaptured

(* of the legacy wallet,                                                   *)
LEMMA LegacyStays == LegacyInv /\ UNCHANGED legacyVars => LegacyInv'
BY DEF legacyVars, LegacyInv, WalletInvOf, RequestInv, LegacyCallSigned

(* of the Contract object                                                  *)
LEMMA ObjectStays == ObjectInv /\ UNCHANGED objectVars => ObjectInv'
BY DEF objectVars, ObjectInv, ObjectTyped, MethodResolved, DeployedAsGiven, FilteredAsAsked

(* and of a detection.                                                     *)
LEMMA DetectionStays == DetectionInv /\ UNCHANGED tokenVars => DetectionInv'
BY DEF tokenVars, DetectionInv, DetectionTyped, Supports

(* Every step keeps them.                                                  *)
LEMMA Kept == KeyHoldersInv /\ [Next]_vars => KeyHoldersInv'
<1> SUFFICES ASSUME KeyHoldersInv, [Next]_vars PROVE KeyHoldersInv'
  OBVIOUS
<1>1. WalletInv /\ CallInv /\ LegacyInv /\ ObjectInv /\ DetectionInv /\ TokenInv
  BY DEF KeyHoldersInv
<1>2. CASE WalletNext /\ UNCHANGED <<contractVars, legacyVars, objectVars, tokenVars>>
  BY <1>1, <1>2, WalletStep, CallStays, LegacyStays, ObjectStays, DetectionStays, TokenStays
     DEF KeyHoldersInv, tokenVars
<1>3. CASE ContractNext /\ UNCHANGED <<walletVars, legacyVars, objectVars, tokenVars>>
  BY <1>1, <1>3, CallStep, WalletStays, LegacyStays, ObjectStays, DetectionStays, TokenStays
     DEF KeyHoldersInv, tokenVars
<1>4. CASE LegacyNext /\ UNCHANGED <<walletVars, contractVars, objectVars, tokenVars>>
  BY <1>1, <1>4, LegacyStep, WalletStays, CallStays, ObjectStays, DetectionStays, TokenStays
     DEF KeyHoldersInv, tokenVars
<1>5. CASE ObjectNext /\ UNCHANGED <<walletVars, contractVars, legacyVars, tokenVars>>
  BY <1>1, <1>5, ObjectStep, WalletStays, CallStays, LegacyStays, DetectionStays, TokenStays
     DEF KeyHoldersInv, tokenVars
<1>6. CASE TokenNext /\ UNCHANGED <<walletVars, contractVars, legacyVars, objectVars>>
  BY <1>1, <1>6, DetectionStep, TokenStep, WalletStays, CallStays, LegacyStays, ObjectStays
     DEF KeyHoldersInv
<1>7. CASE UNCHANGED vars
  BY <1>1, <1>7, WalletStays, CallStays, LegacyStays, ObjectStays, DetectionStays, TokenStays
     DEF KeyHoldersInv, tokenVars, vars
<1> QED BY <1>2, <1>3, <1>4, <1>5, <1>6, <1>7 DEF Next

(* They say what TypeOK says, and more.                                    *)
LEMMA TypesFollow == KeyHoldersInv => TypeOK
<1> SUFFICES ASSUME KeyHoldersInv PROVE TypeOK
  OBVIOUS
<1>1. ASSUME NEW a \in Addresses
      PROVE  /\ IsExisted(a) => keyrings[a].kind \in {"single", "multiple", "roleBased"}
             /\ accountKey[a].type \in {"legacy", "public", "multisig", "roleBased"}
             /\ \A r \in RolesOf(accountKey[a]) :
                  accountKey[a].keys[r].type \in {"legacy", "public", "multisig"}
  <2>1. keyrings[a] \in AllKeyrings \union {NoKeyring} /\ HeldKey(accountKey[a])
    BY DEF KeyHoldersInv, WalletInv, KeyringsTyped, ChainAnswers
  <2>2. \A keyring \in AllKeyrings : keyring.kind \in {"single", "multiple", "roleBased"}
    BY DEF AllKeyrings
  <2> QED BY <2>1, <2>2 DEF HeldKey, HeldRole, IsExisted
<1>2. /\ update.phase \in {"none", "signing", "sent"} /\ operations \in 0 .. MaxOperations
      /\ options \in Options /\ settings \in 0 .. MaxSettings
      /\ call.phase \in {"none", "estimating", "made", "looked", "signing", "filling",
                         "payerLooked", "payerSigning", "nodePays", "nodeSigns", "sent",
                         "returned", "validating", "validated", "accepted", "rejected"}
  BY DEF KeyHoldersInv, WalletInv, KeyringsTyped, UpdateCarried, CallInv, Executing
<1>3. TypedWallet(wallet) /\ Counting(wallet) /\ Indexing(wallet) /\ RequestInv
        /\ legacyCalls \in 0 .. MaxLegacy
  BY DEF KeyHoldersInv, LegacyInv, WalletInvOf
<1>4. /\ \A i \in Indexes : wallet.slots[i] \in Accounts \union {Nothing}
      /\ wallet.lastIndex \in Indexes \union {-1}
      /\ request.phase \in {"none", "pricing", "sent"}
  BY <1>3 DEF TypedWallet, Counting, Slots, RequestInv
<1>5. ASSUME NEW n \in InUse(wallet)
      PROVE  /\ wallet.account[n].index \in Indexes
             /\ wallet.refers[n] \in KeyObjects \union {Nothing}
  <2>1. n \in Accounts /\ Standing(wallet, n)
    BY <1>3, AccountsInUse
  <2>2. wallet.account[n].index \in Slots(wallet)
    BY <1>3, <2>1, AccountsInUse
  <2> QED BY <1>3, <2>1, <2>2 DEF TypedWallet, Slots
<1>6. /\ object.interface \in Interfaces \union {<< >>}
      /\ object.deployData \in Codes \union {Absent}
      /\ contractCalls \in 0 .. MaxContract
  BY DEF KeyHoldersInv, ObjectInv, ObjectTyped
<1> QED BY <1>1, <1>2, <1>3, <1>4, <1>5, <1>6 DEF TypeOK

(* The inductive invariant of the two wallets, the Contract object and the *)
(* token is an invariant.                                                  *)
THEOREM KeyHoldersInvariant == Spec => []KeyHoldersInv
BY Initially, Kept, PTL DEF Spec

(* TypeOK: the wallets hold keyrings and account objects of their kinds,   *)
(* and what is under way with them is in one of its phases.                *)
THEOREM TypeCorrect == Spec => []TypeOK
BY KeyHoldersInvariant, TypesFollow, PTL

(* SignedIsAccepted: what caver.wallet signs with the keyring from which   *)
(* an account's key was made, the node accepts from that account           *)
(* (toAccount, getKeyByRole, caver.wallet.sign).                           *)
THEOREM SignaturesAccepted == Spec => []SignedIsAccepted
<1>1. KeyHoldersInv => SignedIsAccepted
  BY AcceptedFollows DEF KeyHoldersInv
<1> QED BY <1>1, KeyHoldersInvariant, PTL

(* ValidatorAgrees: the Validator decides a signed transaction as the node *)
(* would, whatever the weights and the threshold, and however many keys    *)
(* sign (validateWithAccountKeyAndRole, refineSignatures).                 *)
THEOREM ValidationAgrees == Spec => []ValidatorAgrees
<1>1. KeyHoldersInv => ValidatorAgrees
  BY DEF KeyHoldersInv, CallInv, ValidatorAgrees, Agreed, SenderAgreed, PayerAgreed
<1> QED BY <1>1, KeyHoldersInvariant, PTL

(* LegacyFaithful: whatever calls of add, updateAccountKey, remove, clear  *)
(* and decrypt there were, the wallet of caver.klay.accounts counts its    *)
(* accounts right, and finds an address under its index and with the key   *)
(* it was given last, and signs contract calls with that key, unless the   *)
(* address was in it twice or shares an AccountKey.                        *)
THEOREM LegacyWalletFaithful == Spec => []LegacyFaithful
<1>1. KeyHoldersInv => LegacyFaithful
  BY FaithfulFollows DEF KeyHoldersInv
<1> QED BY <1>1, KeyHoldersInvariant, PTL

(* ContractAsAsked: a Contract object calls a method that takes the        *)
(* arguments if it has one, deploys first what it was given, and reports   *)
(* only events that were asked for; a token's method calls the overload    *)
(* that takes all it was given, and refuses only what it cannot send; and  *)
(* detectInterface tells what a contract is, in whatever order the answers *)
(* come; but in the cases the parts name.                                  *)
THEOREM ContractDoesAsAsked == Spec => []ContractAsAsked
<1>1. KeyHoldersInv => ContractAsAsked
  BY DetectedFollows DEF KeyHoldersInv, ObjectInv, TokenInv, ContractAsAsked
<1> QED BY <1>1, KeyHoldersInvariant, PTL

=============================================================================
