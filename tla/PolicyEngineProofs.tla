------------------------- MODULE PolicyEngineProofs -------------------------
(***************************************************************************)
(* The policy engine decides as its reference definitions say, for every   *)
(* registry, request and file system.                                      *)
(***************************************************************************)
EXTENDS PolicyEngine, WellFoundedInduction, TLAPS

\* A non-empty set of naturals has a least element.
LEMMA LeastNatural ==
  ASSUME NEW T, T \subseteq Nat, T # {}
  PROVE  \E x \in T : \A y \in T : x <= y
<1> DEFINE R == OpToRel(<, Nat)
<1>1. IsWellFoundedOn(R, Nat)
  BY NatLessThanWellFounded, Zenon
<1>2. \A x, y \in Nat : x < y => <<x, y>> \in R
  BY Zenon DEF OpToRel
<1> HIDE DEF R
<1>3. PICK x \in T : \A y \in T : ~ (<<y, x>> \in R)
  BY <1>1, WFMin, Zenon
<1>4. ASSUME NEW y \in T PROVE x <= y
  <2>1. x \in Nat /\ y \in Nat
    BY Zenon
  <2>2. ~ (y < x)
    BY <1>2, <1>3, <2>1, Zenon
  <2> QED
    BY <2>1, <2>2
<1> QED
  BY <1>4, Zenon

\* Induction up to a bound, on a set of naturals.
LEMMA UpTo ==
  ASSUME NEW N \in Nat, NEW T, 0 \in T,
         \A n \in 0..N - 1 : n \in T => n + 1 \in T
  PROVE  \A n \in 0..N : n \in T
<1> DEFINE M == {n \in 0..N : n \notin T}
<1> SUFFICES ASSUME M # {} PROVE FALSE
  BY Zenon
<1>1. PICK x \in M : \A y \in M : x <= y
  <2>1. M \subseteq Nat
    OBVIOUS
  <2> HIDE DEF M
  <2> QED
    BY <2>1, LeastNatural, Zenon
<1>2. x \in 1..N /\ x \notin T
  BY <1>1
<1>3. x - 1 \notin M /\ x - 1 \in 0..N - 1
  BY <1>1, <1>2
<1>4. x - 1 \in T
  BY <1>3
<1>5. (x - 1) + 1 = x
  BY <1>2
<1> QED
  BY <1>2, <1>3, <1>4, <1>5, Zenon

\* A walk of N steps from b, and a recursive function that follows it as long
\* as its values stay in V.
Steps(N, V) == [(1..N) \X V -> V]

IsWalk(g, V, N, b, step) ==
    /\ g \in [0..N -> V]
    /\ g[0] = b
    /\ \A n \in 1..N : g[n] = step[<<n, g[n - 1]>>]

SolvesWalk(f, V, N, b, step) ==
    /\ f = [n \in 0..N |-> f[n]]
    /\ f[0] = b
    /\ \A n \in 1..N : f[n - 1] \in V => f[n] = step[<<n, f[n - 1]>>]

\* A recursive function on an interval exists, step by step.
LEMMA Recursion ==
  ASSUME NEW V, NEW N \in Nat, NEW b \in V, NEW step \in Steps(N, V)
  PROVE  \E g : IsWalk(g, V, N, b, step)
<1> USE DEF Steps
<1> DEFINE Ok(n) == \E g \in [0..n -> V] :
                      g[0] = b /\ \A i \in 1..n : g[i] = step[<<i, g[i - 1]>>]
           T == {n \in 0..N : Ok(n)}
<1>1. 0 \in T
  <2> DEFINE h == [i \in 0..0 |-> b]
  <2>1. h \in [0..0 -> V] /\ h[0] = b /\ \A i \in 1..0 : h[i] = step[<<i, h[i - 1]>>]
    OBVIOUS
  <2>2. Ok(0)
    <3> HIDE DEF h
    <3> QED
      BY <2>1, Zenon
  <2> QED
    BY <2>2
<1>2. ASSUME NEW n \in 0..N - 1, n \in T PROVE n + 1 \in T
  <2>1. PICK g \in [0..n -> V] : g[0] = b /\ \A i \in 1..n : g[i] = step[<<i, g[i - 1]>>]
    BY <1>2, Zenon
  <2> DEFINE h == [i \in 0..n + 1 |-> IF i = n + 1 THEN step[<<n + 1, g[n]>>] ELSE g[i]]
  <2>2. step[<<n + 1, g[n]>>] \in V
    OBVIOUS
  <2>3. h \in [0..n + 1 -> V] /\ h[0] = b
    BY <2>1, <2>2
  <2>4. ASSUME NEW i \in 1..n + 1 PROVE h[i] = step[<<i, h[i - 1]>>]
    <3>1. h[i - 1] = g[i - 1]
      OBVIOUS
    <3>2. CASE i = n + 1
      <4>1. h[i] = step[<<n + 1, g[n]>>] /\ i - 1 = n
        BY <3>2
      <4> HIDE DEF h
      <4> QED
        BY <3>1, <3>2, <4>1, Zenon
    <3>3. CASE i # n + 1
      BY <2>1, <3>1, <3>3
    <3> QED
      BY <3>2, <3>3, Zenon
  <2>5. Ok(n + 1)
    <3> HIDE DEF h
    <3> QED
      BY <2>3, <2>4, Zenon
  <2> QED
    BY <2>5
<1> HIDE DEF T
<1>3. N \in T
  BY <1>1, <1>2, UpTo
<1>4. PICK g \in [0..N -> V] :
        g[0] = b /\ \A i \in 1..N : g[i] = step[<<i, g[i - 1]>>]
  BY <1>3, Zenon DEF T
<1>5. IsWalk(g, V, N, b, step)
  BY <1>4, Zenon DEF IsWalk
<1> QED
  BY <1>5, Zenon

\* What solves the equation of a walk is the walk.
LEMMA WalkSettles ==
  ASSUME NEW V, NEW N \in Nat, NEW b \in V, NEW step \in Steps(N, V), NEW f,
         SolvesWalk(f, V, N, b, step)
  PROVE  IsWalk(f, V, N, b, step)
<1> DEFINE T == {n \in 0..N : f[n] \in V}
<1> USE DEF SolvesWalk
<1>1. 0 \in T
  OBVIOUS
<1>2. ASSUME NEW n \in 0..N - 1, n \in T PROVE n + 1 \in T
  <2>1. n + 1 \in 1..N /\ n + 1 \in 0..N /\ (n + 1) - 1 = n /\ f[n] \in V
    BY <1>2
  <2>2. f[n + 1] = step[<<n + 1, f[n]>>]
    BY <2>1, Zenon
  <2>3. f[n + 1] \in V
    BY <2>1, <2>2, Zenon DEF Steps
  <2> QED
    BY <2>1, <2>3, Zenon
<1>3. \A n \in 0..N : n \in T
  <2> HIDE DEF T
  <2> QED
    BY <1>1, <1>2, UpTo, Zenon
<1>4. f \in [0..N -> V]
  BY <1>3, Zenon
<1>5. ASSUME NEW n \in 1..N PROVE f[n] = step[<<n, f[n - 1]>>]
  <2>1. n - 1 \in 0..N
    OBVIOUS
  <2> QED
    BY <1>4, <2>1, Zenon
<1> QED
  BY <1>4, <1>5, Zenon DEF IsWalk

\* Canonicalize walks the components in order, one Enter each.
LEMMA CanonicalizeWalk ==
  ASSUME NEW V, NEW C, NEW path \in Seq(C), <<>> \in V,
         \A at \in V, c \in C : Enter(at, c) \in V
  PROVE  \E g \in [0..Len(path) -> V] :
           /\ g[0] = <<>>
           /\ \A n \in 1..Len(path) : g[n] = Enter(g[n - 1], path[n])
           /\ Canonicalize(path) = g[Len(path)]
<1>0. PICK N \in Nat : N = Len(path)
  OBVIOUS
<1> DEFINE Go(at, c) == Enter(at, c)
           steps == [k \in (1..N) \X V |-> Go(k[2], path[k[1]])]
           Eq(h) == h = [n \in 0..Len(path) |-> IF n = 0 THEN <<>> ELSE Go(h[n - 1], path[n])]
           f == CHOOSE h : Eq(h)
<1>1. \A i \in 1..N : path[i] \in C
  BY <1>0
<1>2. Canonicalize(path) = f[N]
  BY <1>0, Zenon DEF Canonicalize, InOrder
<1>a. \A at \in V, c \in C : Go(at, c) \in V
  BY Zenon
<1>b. <<>> \in V
  BY Zenon
<1> HIDE DEF Go
<1>3. PICK step \in Steps(N, V) :
        \A n \in 1..N, x \in V : step[<<n, x>>] = Go(x, path[n])
  <2>1. steps \in Steps(N, V)
    BY <1>1, <1>a, Zenon DEF Steps
  <2>2. \A n \in 1..N, x \in V : steps[<<n, x>>] = Go(x, path[n])
    BY Zenon
  <2> HIDE DEF steps
  <2> QED
    BY <2>1, <2>2, Zenon
<1>4. Eq(f)
  <2>1. PICK h : IsWalk(h, V, N, <<>>, step)
    BY <1>b, Recursion, Zenon
  <2>2. h = [n \in 0..N |-> h[n]]
    BY <2>1, Zenon DEF IsWalk
  <2>3. ASSUME NEW n \in 0..N
        PROVE  h[n] = IF n = 0 THEN <<>> ELSE Go(h[n - 1], path[n])
    <3>1. CASE n = 0
      BY <2>1, <3>1, Zenon DEF IsWalk
    <3>2. CASE n # 0
      <4>1. n \in 1..N /\ h[n - 1] \in V
        BY <2>1, <3>2 DEF IsWalk
      <4> QED
        BY <1>3, <2>1, <3>2, <4>1, Zenon DEF IsWalk
    <3> QED
      BY <3>1, <3>2, Zenon
  <2>4. Eq(h)
    BY <1>0, <2>2, <2>3, Zenon
  <2> HIDE DEF Eq
  <2> QED
    BY <2>4, Zenon
<1> HIDE DEF f
<1>5. IsWalk(f, V, N, <<>>, step)
  <2>1. f = [n \in 0..N |-> f[n]] /\ f[0] = <<>>
    BY <1>0, <1>4
  <2>2. \A n \in 1..N : f[n] = Go(f[n - 1], path[n])
    BY <1>0, <1>4
  <2>3. SolvesWalk(f, V, N, <<>>, step)
    BY <1>3, <2>1, <2>2, Zenon DEF SolvesWalk
  <2> QED
    BY <1>b, <2>3, WalkSettles, Zenon
<1>6. f \in [0..N -> V] /\ f[0] = <<>>
  BY <1>5, Zenon DEF IsWalk
<1>7. \A n \in 1..N : f[n] = Enter(f[n - 1], path[n])
  <2> SUFFICES ASSUME NEW n \in 1..N PROVE f[n] = Go(f[n - 1], path[n])
    BY Zenon DEF Go
  <2>1. f[n - 1] \in V
    BY <1>6
  <2> QED
    BY <1>3, <1>5, <2>1, Zenon DEF IsWalk
<1> QED
  BY <1>0, <1>2, <1>6, <1>7, Zenon

\* lexical_normalize takes the components in order, one Push each.
LEMMA LexicalWalk ==
  ASSUME NEW V, NEW C, NEW path \in Seq(C), <<>> \in V,
         \A at \in V, c \in C : Push(at, c) \in V
  PROVE  \E g \in [0..Len(path) -> V] :
           /\ g[0] = <<>>
           /\ \A n \in 1..Len(path) : g[n] = Push(g[n - 1], path[n])
           /\ LexicalNormalize(path) = g[Len(path)]
<1>0. PICK N \in Nat : N = Len(path)
  OBVIOUS
<1> DEFINE Go(at, c) == Push(at, c)
           steps == [k \in (1..N) \X V |-> Go(k[2], path[k[1]])]
           Eq(h) == h = [n \in 0..Len(path) |-> IF n = 0 THEN <<>> ELSE Go(h[n - 1], path[n])]
           f == CHOOSE h : Eq(h)
<1>1. \A i \in 1..N : path[i] \in C
  BY <1>0
<1>2. LexicalNormalize(path) = f[N]
  BY <1>0, Zenon DEF LexicalNormalize, InOrder
<1>a. \A at \in V, c \in C : Go(at, c) \in V
  BY Zenon
<1>b. <<>> \in V
  BY Zenon
<1> HIDE DEF Go
<1>3. PICK step \in Steps(N, V) :
        \A n \in 1..N, x \in V : step[<<n, x>>] = Go(x, path[n])
  <2>1. steps \in Steps(N, V)
    BY <1>1, <1>a, Zenon DEF Steps
  <2>2. \A n \in 1..N, x \in V : steps[<<n, x>>] = Go(x, path[n])
    BY Zenon
  <2> HIDE DEF steps
  <2> QED
    BY <2>1, <2>2, Zenon
<1>4. Eq(f)
  <2>1. PICK h : IsWalk(h, V, N, <<>>, step)
    BY <1>b, Recursion, Zenon
  <2>2. h = [n \in 0..N |-> h[n]]
    BY <2>1, Zenon DEF IsWalk
  <2>3. ASSUME NEW n \in 0..N
        PROVE  h[n] = IF n = 0 THEN <<>> ELSE Go(h[n - 1], path[n])
    <3>1. CASE n = 0
      BY <2>1, <3>1, Zenon DEF IsWalk
    <3>2. CASE n # 0
      <4>1. n \in 1..N /\ h[n - 1] \in V
        BY <2>1, <3>2 DEF IsWalk
      <4> QED
        BY <1>3, <2>1, <3>2, <4>1, Zenon DEF IsWalk
    <3> QED
      BY <3>1, <3>2, Zenon
  <2>4. Eq(h)
    BY <1>0, <2>2, <2>3, Zenon
  <2> HIDE DEF Eq
  <2> QED
    BY <2>4, Zenon
<1> HIDE DEF f
<1>5. IsWalk(f, V, N, <<>>, step)
  <2>1. f = [n \in 0..N |-> f[n]] /\ f[0] = <<>>
    BY <1>0, <1>4
  <2>2. \A n \in 1..N : f[n] = Go(f[n - 1], path[n])
    BY <1>0, <1>4
  <2>3. SolvesWalk(f, V, N, <<>>, step)
    BY <1>3, <2>1, <2>2, Zenon DEF SolvesWalk
  <2> QED
    BY <1>b, <2>3, WalkSettles, Zenon
<1>6. f \in [0..N -> V] /\ f[0] = <<>>
  BY <1>5, Zenon DEF IsWalk
<1>7. \A n \in 1..N : f[n] = Push(f[n - 1], path[n])
  <2> SUFFICES ASSUME NEW n \in 1..N PROVE f[n] = Go(f[n - 1], path[n])
    BY Zenon DEF Go
  <2>1. f[n - 1] \in V
    BY <1>6
  <2> QED
    BY <1>3, <1>5, <2>1, Zenon DEF IsWalk
<1> QED
  BY <1>0, <1>2, <1>6, <1>7, Zenon

\* The system walks the components in order, one Walk each.
LEMMA ArrivalWalk ==
  ASSUME NEW V, NEW C, NEW path \in Seq(C), <<>> \in V,
         \A at \in V, c \in C : Walk(at, c) \in V
  PROVE  \E g \in [0..Len(path) -> V] :
           /\ g[0] = <<>>
           /\ \A n \in 1..Len(path) : g[n] = Walk(g[n - 1], path[n])
           /\ Arrival(path) = g[Len(path)]
<1>0. PICK N \in Nat : N = Len(path)
  OBVIOUS
<1> DEFINE Go(at, c) == Walk(at, c)
           steps == [k \in (1..N) \X V |-> Go(k[2], path[k[1]])]
           Eq(h) == h = [n \in 0..Len(path) |-> IF n = 0 THEN <<>> ELSE Go(h[n - 1], path[n])]
           f == CHOOSE h : Eq(h)
<1>1. \A i \in 1..N : path[i] \in C
  BY <1>0
<1>2. Arrival(path) = f[N]
  BY <1>0, Zenon DEF Arrival, InOrder
<1>a. \A at \in V, c \in C : Go(at, c) \in V
  BY Zenon
<1>b. <<>> \in V
  BY Zenon
<1> HIDE DEF Go
<1>3. PICK step \in Steps(N, V) :
        \A n \in 1..N, x \in V : step[<<n, x>>] = Go(x, path[n])
  <2>1. steps \in Steps(N, V)
    BY <1>1, <1>a, Zenon DEF Steps
  <2>2. \A n \in 1..N, x \in V : steps[<<n, x>>] = Go(x, path[n])
    BY Zenon
  <2> HIDE DEF steps
  <2> QED
    BY <2>1, <2>2, Zenon
<1>4. Eq(f)
  <2>1. PICK h : IsWalk(h, V, N, <<>>, step)
    BY <1>b, Recursion, Zenon
  <2>2. h = [n \in 0..N |-> h[n]]
    BY <2>1, Zenon DEF IsWalk
  <2>3. ASSUME NEW n \in 0..N
        PROVE  h[n] = IF n = 0 THEN <<>> ELSE Go(h[n - 1], path[n])
    <3>1. CASE n = 0
      BY <2>1, <3>1, Zenon DEF IsWalk
    <3>2. CASE n # 0
      <4>1. n \in 1..N /\ h[n - 1] \in V
        BY <2>1, <3>2 DEF IsWalk
      <4> QED
        BY <1>3, <2>1, <3>2, <4>1, Zenon DEF IsWalk
    <3> QED
      BY <3>1, <3>2, Zenon
  <2>4. Eq(h)
    BY <1>0, <2>2, <2>3, Zenon
  <2> HIDE DEF Eq
  <2> QED
    BY <2>4, Zenon
<1> HIDE DEF f
<1>5. IsWalk(f, V, N, <<>>, step)
  <2>1. f = [n \in 0..N |-> f[n]] /\ f[0] = <<>>
    BY <1>0, <1>4
  <2>2. \A n \in 1..N : f[n] = Go(f[n - 1], path[n])
    BY <1>0, <1>4
  <2>3. SolvesWalk(f, V, N, <<>>, step)
    BY <1>3, <2>1, <2>2, Zenon DEF SolvesWalk
  <2> QED
    BY <1>b, <2>3, WalkSettles, Zenon
<1>6. f \in [0..N -> V] /\ f[0] = <<>>
  BY <1>5, Zenon DEF IsWalk
<1>7. \A n \in 1..N : f[n] = Walk(f[n - 1], path[n])
  <2> SUFFICES ASSUME NEW n \in 1..N PROVE f[n] = Go(f[n - 1], path[n])
    BY Zenon DEF Go
  <2>1. f[n - 1] \in V
    BY <1>6
  <2> QED
    BY <1>3, <1>5, <2>1, Zenon DEF IsWalk
<1> QED
  BY <1>0, <1>2, <1>6, <1>7, Zenon

-----------------------------------------------------------------------------
(* Path arguments and the bases they rest on                               *)

\* The path arguments of a contract ToolEffectContract::new has taken.
SoundPaths(paths) ==
    /\ paths \subseteq PathArgument
    /\ \A p \in paths : p.argument # None /\ PathArgumentOk(p)
    /\ \A p, o \in paths : p.argument = o.argument => p = o
    /\ DependenciesOk(paths)

LEMMA PathOfFacts ==
  ASSUME NEW paths, SoundPaths(paths)
  PROVE  /\ \A a \in PathNames(paths) :
              /\ PathOf(paths, a) \in paths /\ PathOf(paths, a).argument = a
              /\ a # None /\ a \notin Looping(paths)
              /\ \/ PathOf(paths, a).base = None
                 \/ PathOf(paths, a).base \in PathNames(paths)
         /\ \A p \in paths : p.argument \in PathNames(paths) /\ PathOf(paths, p.argument) = p
<1>1. ASSUME NEW p \in paths
      PROVE  p.argument \in PathNames(paths) /\ PathOf(paths, p.argument) = p
  BY <1>1, Zenon DEF SoundPaths, PathNames, PathOf
<1>2. ASSUME NEW a \in PathNames(paths)
      PROVE  PathOf(paths, a) \in paths /\ PathOf(paths, a).argument = a
  BY <1>2, Zenon DEF PathNames, PathOf
<1>3. ASSUME NEW a \in PathNames(paths)
      PROVE  /\ a # None /\ a \notin Looping(paths)
             /\ \/ PathOf(paths, a).base = None
                \/ PathOf(paths, a).base \in PathNames(paths)
  BY <1>2, <1>3, Zenon DEF SoundPaths, DependenciesOk
<1> QED
  BY <1>1, <1>2, <1>3, Zenon

\* Bases first: what an argument has once its base has it, all arguments have.
\* Those that lack it would rest on one another, and validate_path_dependencies
\* has found no such arguments.
LEMMA ChainInduction ==
  ASSUME NEW paths, SoundPaths(paths), NEW T,
         \A a \in PathNames(paths) :
            PathOf(paths, a).base = None \/ PathOf(paths, a).base \in T => a \in T
  PROVE  PathNames(paths) \subseteq T
<1> DEFINE S == PathNames(paths) \ T
<1>1. \A a \in S : PathOf(paths, a).base \in S
  BY PathOfFacts, Zenon
<1>2. S \subseteq Looping(paths)
  <2>1. S \in SUBSET PathNames(paths)
    BY Zenon
  <2> HIDE DEF S
  <2> QED
    BY <1>1, <2>1, Zenon DEF Looping
<1> QED
  BY <1>2, PathOfFacts, Zenon

\* A recursion along the bases: from an argument and the answer for its base,
\* the answer for the argument.
Climbs(paths, V) == [PathNames(paths) \X V -> V]

Below(paths, a, top, answer) ==
    IF PathOf(paths, a).base = None THEN top ELSE answer[PathOf(paths, a).base]

\* The recursion answered for the arguments of a set, their bases among them.
IsPart(g, U, paths, V, top, step) ==
    /\ U \subseteq PathNames(paths)
    /\ \A a \in U : PathOf(paths, a).base = None \/ PathOf(paths, a).base \in U
    /\ g \in [U -> V]
    /\ \A a \in U : g[a] = step[<<a, Below(paths, a, top, g)>>]

LEMMA PartsAgree ==
  ASSUME NEW paths, SoundPaths(paths), NEW V, NEW top, NEW step, NEW g, NEW U, NEW h, NEW W,
         IsPart(g, U, paths, V, top, step), IsPart(h, W, paths, V, top, step),
         NEW a \in U \cap W
  PROVE  g[a] = h[a]
<1> DEFINE T == {x \in PathNames(paths) : x \in U /\ x \in W => g[x] = h[x]}
<1>1. ASSUME NEW x \in PathNames(paths),
             PathOf(paths, x).base = None \/ PathOf(paths, x).base \in T
      PROVE  x \in T
  <2> SUFFICES ASSUME x \in U, x \in W PROVE g[x] = h[x]
    BY Zenon
  <2>1. Below(paths, x, top, g) = Below(paths, x, top, h)
    BY <1>1, Zenon DEF IsPart, Below
  <2> QED
    BY <2>1, Zenon DEF IsPart
<1>2. PathNames(paths) \subseteq T
  <2> HIDE DEF T
  <2> QED
    BY <1>1, ChainInduction, Zenon
<1> QED
  BY <1>2, Zenon DEF IsPart

\* The answer for one more argument.
LEMMA PartGrows ==
  ASSUME NEW paths, SoundPaths(paths), NEW V, NEW top \in V, NEW step \in Climbs(paths, V),
         NEW g, NEW U, IsPart(g, U, paths, V, top, step),
         NEW a \in PathNames(paths), a \notin U,
         PathOf(paths, a).base = None \/ PathOf(paths, a).base \in U
  PROVE  \E h : IsPart(h, U \cup {a}, paths, V, top, step)
<1> DEFINE v == step[<<a, Below(paths, a, top, g)>>]
           h == [x \in U \cup {a} |-> IF x = a THEN v ELSE g[x]]
<1>1. v \in V
  <2>1. Below(paths, a, top, g) \in V
    BY Zenon DEF Below, IsPart
  <2> QED
    BY <2>1, Zenon DEF Climbs
<1>2. h[a] = v /\ \A x \in U : h[x] = g[x]
  BY Zenon
<1>3. h \in [U \cup {a} -> V]
  <2> HIDE DEF v
  <2> QED
    BY <1>1, Zenon DEF IsPart
<1> HIDE DEF h
<1>4. ASSUME NEW x \in U \cup {a}
      PROVE  Below(paths, x, top, h) = Below(paths, x, top, g)
  BY <1>2, Zenon DEF Below, IsPart
<1>5. ASSUME NEW x \in U \cup {a}
      PROVE  h[x] = step[<<x, Below(paths, x, top, h)>>]
  BY <1>2, <1>4, Zenon DEF IsPart
<1>6. IsPart(h, U \cup {a}, paths, V, top, step)
  <2>1. U \cup {a} \subseteq PathNames(paths)
    BY Zenon DEF IsPart
  <2>2. \A x \in U \cup {a} :
          PathOf(paths, x).base = None \/ PathOf(paths, x).base \in U \cup {a}
    BY Zenon DEF IsPart
  <2> QED
    BY <1>3, <1>5, <2>1, <2>2, Zenon DEF IsPart
<1> QED
  BY <1>6, Zenon

LEMMA PartsExist ==
  ASSUME NEW paths, SoundPaths(paths), NEW V, NEW top \in V, NEW step \in Climbs(paths, V),
         NEW a \in PathNames(paths)
  PROVE  \E U, g : a \in U /\ IsPart(g, U, paths, V, top, step)
<1> DEFINE Has(x) == \E U, g : x \in U /\ IsPart(g, U, paths, V, top, step)
           T == {x \in PathNames(paths) : Has(x)}
<1>1. \E g : IsPart(g, {}, paths, V, top, step)
  <2>1. IsPart([x \in {} |-> x], {}, paths, V, top, step)
    BY Zenon DEF IsPart
  <2> QED
    BY <2>1, Zenon
<1>2. ASSUME NEW x \in PathNames(paths),
             PathOf(paths, x).base = None \/ PathOf(paths, x).base \in T
      PROVE  x \in T
  <2>1. PICK U, g : /\ IsPart(g, U, paths, V, top, step)
                    /\ PathOf(paths, x).base = None \/ PathOf(paths, x).base \in U
    BY <1>1, <1>2, Zenon
  <2>2. CASE x \in U
    BY <2>1, <2>2, Zenon
  <2>3. CASE x \notin U
    <3>1. PICK h : IsPart(h, U \cup {x}, paths, V, top, step)
      BY <2>1, <2>3, PartGrows, Zenon
    <3>2. x \in U \cup {x}
      BY Zenon
    <3> QED
      BY <3>1, <3>2, Zenon
  <2> QED
    BY <2>2, <2>3, Zenon
<1>3. PathNames(paths) \subseteq T
  <2> HIDE DEF T
  <2> QED
    BY <1>2, ChainInduction, Zenon
<1> QED
  BY <1>3, Zenon

\* What the recursion answers for an argument, told by what it answers for the
\* base.
IsSettled(R, paths, V, top, step) ==
    /\ R \in [PathNames(paths) -> V]
    /\ \A a \in PathNames(paths) : R[a] = step[<<a, Below(paths, a, top, R)>>]

\* The recursion has a solution.
LEMMA ChainRecursion ==
  ASSUME NEW paths, SoundPaths(paths), NEW V, NEW top \in V, NEW step \in Climbs(paths, V)
  PROVE  \E R : IsSettled(R, paths, V, top, step)
<1> DEFINE Part(g, U) == IsPart(g, U, paths, V, top, step)
           R == [a \in PathNames(paths) |-> CHOOSE v : \E U, g : a \in U /\ Part(g, U) /\ v = g[a]]
<1>1. ASSUME NEW U, NEW g, Part(g, U), NEW a \in U
      PROVE  R[a] = g[a]
  <2>1. a \in PathNames(paths)
    BY <1>1, Zenon DEF IsPart
  <2>2. \A W, h : a \in W /\ Part(h, W) => h[a] = g[a]
    <3> SUFFICES ASSUME NEW W, NEW h, a \in W, Part(h, W) PROVE h[a] = g[a]
      BY Zenon
    <3>1. a \in W \cap U
      BY <1>1, Zenon
    <3> QED
      BY <1>1, <3>1, PartsAgree
  <2> HIDE DEF Part
  <2>3. \A v : (\E W, h : a \in W /\ Part(h, W) /\ v = h[a]) <=> v = g[a]
    BY <1>1, <2>2, Zenon
  <2> QED
    BY <2>1, <2>3, Zenon
<1> HIDE DEF R
<1>2. ASSUME NEW a \in PathNames(paths)
      PROVE  R[a] \in V /\ R[a] = step[<<a, Below(paths, a, top, R)>>]
  <2>1. PICK U, g : a \in U /\ Part(g, U)
    BY PartsExist, Zenon
  <2>2. \A x \in U : R[x] = g[x]
    BY <1>1, <2>1, Zenon
  <2>3. Below(paths, a, top, R) = Below(paths, a, top, g)
    BY <2>1, <2>2, Zenon DEF Below, IsPart
  <2> QED
    BY <2>1, <2>2, <2>3, Zenon DEF IsPart
<1>3. R = [a \in PathNames(paths) |-> R[a]]
  BY DEF R
<1>4. IsSettled(R, paths, V, top, step)
  BY <1>2, <1>3, Zenon DEF IsSettled
<1> QED
  BY <1>4, Zenon

\* Whatever satisfies the recursion's equation where it is given an answer for
\* the base is a solution.
SolvesChain(f, paths, V, top, step) ==
    /\ f = [a \in PathNames(paths) |-> f[a]]
    /\ \A a \in PathNames(paths) :
          Below(paths, a, top, f) \in V => f[a] = step[<<a, Below(paths, a, top, f)>>]

LEMMA ChainSettles ==
  ASSUME NEW paths, SoundPaths(paths), NEW V, NEW top \in V, NEW step \in Climbs(paths, V),
         NEW f, SolvesChain(f, paths, V, top, step)
  PROVE  IsSettled(f, paths, V, top, step)
<1> DEFINE T == {a \in PathNames(paths) : f[a] \in V}
<1>1. ASSUME NEW a \in PathNames(paths),
             PathOf(paths, a).base = None \/ PathOf(paths, a).base \in T
      PROVE  a \in T
  <2>1. Below(paths, a, top, f) \in V
    BY <1>1, Zenon DEF Below
  <2> QED
    BY <2>1, Zenon DEF SolvesChain, Climbs
<1>2. \A a \in PathNames(paths) : f[a] \in V
  <2>1. PathNames(paths) \subseteq T
    <3> HIDE DEF T
    <3> QED
      BY <1>1, ChainInduction, Zenon
  <2> QED
    BY <2>1, Zenon
<1>3. \A a \in PathNames(paths) : Below(paths, a, top, f) \in V
  BY <1>2, PathOfFacts, Zenon DEF Below
<1> QED
  BY <1>2, <1>3, Zenon DEF SolvesChain, IsSettled

-----------------------------------------------------------------------------
(* resolve_path_argument                                                   *)

Errors == {None, "MissingRequiredPathArgument", "InvalidPathValue",
           "InvalidPathDependency", "UnsupportedPathSyntax"}
Result == [error : Errors, paths : SUBSET Paths, touched : SUBSET (Name \X Paths)]

\* The effects of an argument fall on each of the places it names, and nowhere
\* else.
LEMMA EffectsOnFacts ==
  ASSUME NEW effects, NEW places
  PROVE  \A x : x \in EffectsOn(effects, places) <=>
                  \E e, w : x = <<e, w>> /\ e \in effects /\ w \in places
BY DEF EffectsOn

LEMMA AtRootType == AtRoot \in Result
BY FileSystemAssumption, Zenon DEF AtRoot, Result, Errors

LEMMA FailedType ==
  ASSUME NEW e \in Errors
  PROVE  Failed(e) \in Result
BY Zenon DEF Failed, Result

\* The text of an argument, given or by default.
LEMMA RawPathsType ==
  ASSUME NEW p \in PathArgument, NEW v, IsValue(v)
  PROVE  RawPaths(p, v) \subseteq RawPath /\ RawError(p, v) \in Errors
<1>1. p.default \subseteq RawPath
  BY Zenon DEF PathArgument
<1>2. v.items \in Seq(RawPath)
  BY Zenon DEF IsValue
<1>3. Range(v.items) \subseteq RawPath
  BY <1>2 DEF Range
<1>4. RawPaths(p, v) \subseteq RawPath
  BY <1>1, <1>3, Zenon DEF RawPaths
<1>5. RawError(p, v) \in Errors
  BY Zenon DEF RawError, Errors
<1> QED
  BY <1>4, <1>5, Zenon

LEMMA JoinedType ==
  ASSUME NEW t \in RawPath, NEW b \in Paths
  PROVE  Joined(t, b) \in Paths
<1>1. t.parts \in Paths
  BY Zenon DEF RawPath
<1> HIDE DEF Name
<1>2. b \o t.parts \in Paths
  BY <1>1 DEF Paths
<1> QED
  BY <1>1, <1>2, Zenon DEF Joined

LEMMA ResolveOnType ==
  ASSUME NEW paths, SoundPaths(paths), NEW args, NEW a \in PathNames(paths),
         IsValue(args[a]), NEW base \in Result
  PROVE  ResolveOn(paths, args, a, base) \in Result
<1>1. PICK p \in PathArgument : p = PathOf(paths, a)
  BY PathOfFacts, Zenon DEF SoundPaths
<1>2. PICK raw \in SUBSET RawPath : raw = RawPaths(p, args[a])
  BY RawPathsType, Zenon
<1>3. PICK e \in Errors : e = RawError(p, args[a])
  BY RawPathsType, Zenon
<1>4. base.error \in Errors /\ base.paths \subseteq Paths /\ base.touched \subseteq Name \X Paths
  BY Zenon DEF Result
<1> DEFINE joined == {Joined(t, b) : t \in raw, b \in base.paths}
<1>5. joined \subseteq Paths
  BY <1>4, JoinedType
<1>6. p.effects \subseteq Name
  BY Zenon DEF PathArgument
<1> HIDE DEF joined
<1>7. base.touched \cup EffectsOn(p.effects, joined) \subseteq Name \X Paths
  BY <1>4, <1>5, <1>6, Zenon DEF EffectsOn
<1>8. [error |-> None, paths |-> joined,
       touched |-> base.touched \cup EffectsOn(p.effects, joined)] \in Result
  BY <1>5, <1>7, Zenon DEF Result, Errors
<1>9. ResolveOn(paths, args, a, base) \in
        {Failed(x) : x \in Errors} \cup
        {[error |-> None, paths |-> joined,
          touched |-> base.touched \cup EffectsOn(p.effects, joined)]}
  BY <1>1, <1>2, <1>3, <1>4 DEF ResolveOn, Errors, joined
<1> QED
  BY <1>8, <1>9, FailedType, Zenon

\* The recursion answers for every argument, and for each from its base.
LEMMA ResolutionSettles ==
  ASSUME NEW c, SoundPaths(c.paths), NEW args,
         \A a \in PathNames(c.paths) : IsValue(args[a])
  PROVE  /\ Resolution(c, args) \in [PathNames(c.paths) -> Result]
         /\ \A a \in PathNames(c.paths) :
              Resolution(c, args)[a] =
                ResolveOn(c.paths, args, a, Below(c.paths, a, AtRoot, Resolution(c, args)))
<1>0. PICK paths : paths = c.paths
  BY Zenon
<1>1. SoundPaths(paths) /\ \A a \in PathNames(paths) : IsValue(args[a])
  BY <1>0, Zenon
<1>2. PICK top \in Result : top = AtRoot
  BY AtRootType, Zenon
<1> DEFINE steps == [k \in PathNames(paths) \X Result |-> ResolveOn(paths, args, k[1], k[2])]
           Base(a) == PathOf(paths, a).base
           Eq(r) == r = [a \in PathNames(paths) |->
                          ResolveOn(paths, args, a,
                              IF Base(a) = None THEN top
                              ELSE IF a \in Looping(paths) THEN Failed("InvalidPathDependency")
                              ELSE r[Base(a)])]
           f == CHOOSE r : Eq(r)
<1>3. PICK step \in Climbs(paths, Result) :
        \A a \in PathNames(paths), b \in Result : step[<<a, b>>] = ResolveOn(paths, args, a, b)
  <2>1. \A a \in PathNames(paths), b \in Result : ResolveOn(paths, args, a, b) \in Result
    BY <1>1, ResolveOnType, Zenon
  <2>2. steps \in Climbs(paths, Result)
    BY <2>1, Zenon DEF Climbs
  <2>3. \A a \in PathNames(paths), b \in Result : steps[<<a, b>>] = ResolveOn(paths, args, a, b)
    BY Zenon
  <2> HIDE DEF steps
  <2> QED
    BY <2>2, <2>3, Zenon
<1>4. Resolution(c, args) = f
  BY <1>0, <1>2, Zenon DEF Resolution
<1>5. \A r : Eq(r) <=> r = [a \in PathNames(paths) |->
                            ResolveOn(paths, args, a, Below(paths, a, top, r))]
  BY <1>1, PathOfFacts, Zenon DEF Below
<1>6. Eq(f)
  <2>1. PICK r : IsSettled(r, paths, Result, top, step)
    BY <1>1, ChainRecursion, Zenon
  <2>2. ASSUME NEW a \in PathNames(paths)
        PROVE  r[a] = ResolveOn(paths, args, a, Below(paths, a, top, r))
    <3>1. Below(paths, a, top, r) \in Result
      BY <1>1, <2>1, PathOfFacts, Zenon DEF Below, IsSettled
    <3> QED
      BY <1>3, <2>1, <3>1, Zenon DEF IsSettled
  <2>3. r = [a \in PathNames(paths) |-> ResolveOn(paths, args, a, Below(paths, a, top, r))]
    BY <2>1, <2>2, Zenon DEF IsSettled
  <2> HIDE DEF Eq
  <2>4. Eq(r)
    BY <1>5, <2>3, Zenon
  <2> QED
    BY <2>4, Zenon
<1> HIDE DEF f, Eq
<1>7. f = [a \in PathNames(paths) |-> ResolveOn(paths, args, a, Below(paths, a, top, f))]
  BY <1>5, <1>6, Zenon
<1>8. IsSettled(f, paths, Result, top, step)
  <2>1. SolvesChain(f, paths, Result, top, step)
    BY <1>3, <1>7, Zenon DEF SolvesChain
  <2> QED
    BY <1>1, <2>1, ChainSettles, Zenon
<1>9. f \in [PathNames(paths) -> Result]
  BY <1>8, Zenon DEF IsSettled
<1>10. \A a \in PathNames(paths) : f[a] = ResolveOn(paths, args, a, Below(paths, a, AtRoot, f))
  BY <1>2, <1>7, Zenon
<1> QED
  BY <1>0, <1>4, <1>9, <1>10, Zenon

-----------------------------------------------------------------------------
(* Where a call's path arguments lead                                      *)

Spots(paths, args, a, from) ==
    {Joined(t, b) : t \in RawPaths(PathOf(paths, a), args[a]), b \in from}

Spotted == SUBSET Paths

LEMMA SpotsType ==
  ASSUME NEW paths, SoundPaths(paths), NEW args, NEW a \in PathNames(paths),
         IsValue(args[a]), NEW from \in SUBSET Paths
  PROVE  Spots(paths, args, a, from) \in SUBSET Paths
<1>1. PathOf(paths, a) \in PathArgument
  BY PathOfFacts, Zenon DEF SoundPaths
<1>2. RawPaths(PathOf(paths, a), args[a]) \subseteq RawPath
  BY <1>1, RawPathsType, Zenon
<1> QED
  BY <1>2, JoinedType DEF Spots

LEMMA LocationsSettle ==
  ASSUME NEW paths, SoundPaths(paths), NEW args,
         \A a \in PathNames(paths) : IsValue(args[a])
  PROVE  /\ Locations(paths, args) \in [PathNames(paths) -> SUBSET Paths]
         /\ \A a \in PathNames(paths) :
              Locations(paths, args)[a] =
                Spots(paths, args, a, Below(paths, a, {Root}, Locations(paths, args)))
<1>1. SoundPaths(paths) /\ \A a \in PathNames(paths) : IsValue(args[a])
  BY Zenon
<1>2. PICK top \in Spotted : top = {Root}
  BY FileSystemAssumption, Zenon DEF Spotted
<1> DEFINE steps == [k \in PathNames(paths) \X Spotted |-> Spots(paths, args, k[1], k[2])]
           Base(a) == PathOf(paths, a).base
           Eq(r) == r = [a \in PathNames(paths) |->
                          Spots(paths, args, a,
                              IF Base(a) = None THEN top
                              ELSE IF a \in Looping(paths) THEN {}
                              ELSE r[Base(a)])]
           f == CHOOSE r : Eq(r)
<1>3. PICK step \in Climbs(paths, Spotted) :
        \A a \in PathNames(paths), b \in Spotted : step[<<a, b>>] = Spots(paths, args, a, b)
  <2>1. \A a \in PathNames(paths), b \in Spotted : Spots(paths, args, a, b) \in Spotted
    BY <1>1, SpotsType, Zenon DEF Spotted
  <2>2. steps \in Climbs(paths, Spotted)
    BY <2>1, Zenon DEF Climbs
  <2>3. \A a \in PathNames(paths), b \in Spotted : steps[<<a, b>>] = Spots(paths, args, a, b)
    BY Zenon
  <2> HIDE DEF steps
  <2> QED
    BY <2>2, <2>3, Zenon
<1>4. Locations(paths, args) = f
  BY <1>2 DEF Locations, Spots
<1>5. \A r : Eq(r) <=> r = [a \in PathNames(paths) |->
                            Spots(paths, args, a, Below(paths, a, top, r))]
  BY <1>1, PathOfFacts, Zenon DEF Below
<1>6. Eq(f)
  <2>1. PICK r : IsSettled(r, paths, Spotted, top, step)
    BY <1>1, ChainRecursion, Zenon
  <2>2. ASSUME NEW a \in PathNames(paths)
        PROVE  r[a] = Spots(paths, args, a, Below(paths, a, top, r))
    <3>1. Below(paths, a, top, r) \in Spotted
      BY <1>1, <2>1, PathOfFacts, Zenon DEF Below, IsSettled
    <3> QED
      BY <1>3, <2>1, <3>1, Zenon DEF IsSettled
  <2>3. r = [a \in PathNames(paths) |-> Spots(paths, args, a, Below(paths, a, top, r))]
    BY <2>1, <2>2, Zenon DEF IsSettled
  <2> HIDE DEF Eq
  <2>4. Eq(r)
    BY <1>5, <2>3, Zenon
  <2> QED
    BY <2>4, Zenon
<1> HIDE DEF f, Eq
<1>7. f = [a \in PathNames(paths) |-> Spots(paths, args, a, Below(paths, a, top, f))]
  BY <1>5, <1>6, Zenon
<1>8. IsSettled(f, paths, Spotted, top, step)
  <2>1. SolvesChain(f, paths, Spotted, top, step)
    BY <1>3, <1>7, Zenon DEF SolvesChain
  <2> QED
    BY <1>1, <2>1, ChainSettles, Zenon
<1>9. f \in [PathNames(paths) -> Spotted]
  BY <1>8, Zenon DEF IsSettled
<1>10. \A a \in PathNames(paths) : f[a] = Spots(paths, args, a, Below(paths, a, {Root}, f))
  BY <1>2, <1>7, Zenon
<1> QED
  BY <1>4, <1>9, <1>10, Zenon DEF Spotted

-----------------------------------------------------------------------------
(* The boundary                                                            *)

LEMMA EnterType ==
  ASSUME NEW at \in Paths, NEW c \in Name
  PROVE  Enter(at, c) \in Paths
<1> HIDE DEF Name
<1>1. Append(at, c) \in Paths
  BY DEF Paths
<1>2. Append(at, c) \in DOMAIN Links => Links[Append(at, c)] \in Paths
  BY FileSystemAssumption, Zenon
<1> QED
  BY <1>1, <1>2, Zenon DEF Enter

LEMMA PushType ==
  ASSUME NEW done \in Paths, NEW c \in Name
  PROVE  Push(done, c) \in Paths
<1> HIDE DEF Name
<1>1. Append(done, c) \in Paths
  BY DEF Paths
<1>2. done # <<>> => SubSeq(done, 1, Len(done) - 1) \in Paths
  BY DEF Paths
<1> QED
  BY <1>1, <1>2, Zenon DEF Push

LEMMA WalkType ==
  ASSUME NEW at \in Paths, NEW c \in Name
  PROVE  Walk(at, c) \in Paths
BY PushType, EnterType, Zenon DEF Walk

\* The canonical forms of a path's beginnings, each from the one before.
LEMMA CanonicalPrefixes ==
  ASSUME NEW path \in Paths
  PROVE  \E g \in [0..Len(path) -> Paths] :
           /\ g[0] = <<>>
           /\ \A n \in 1..Len(path) : g[n] = Enter(g[n - 1], path[n])
           /\ \A n \in 0..Len(path) : Canonicalize(SubSeq(path, 1, n)) = g[n]
           /\ Canonicalize(path) = g[Len(path)]
<1> HIDE DEF Name
<1>0. path \in Seq(Name) /\ <<>> \in Paths
  BY DEF Paths
<1>1. PICK K \in Nat : K = Len(path)
  BY <1>0
<1>2. \A at \in Paths, c \in Name : Enter(at, c) \in Paths
  BY EnterType, Zenon
<1>3. PICK g \in [0..K -> Paths] :
           /\ g[0] = <<>>
           /\ \A n \in 1..K : g[n] = Enter(g[n - 1], path[n])
           /\ Canonicalize(path) = g[K]
  BY <1>0, <1>1, <1>2, CanonicalizeWalk, Zenon
<1>4. ASSUME NEW n \in 0..K PROVE Canonicalize(SubSeq(path, 1, n)) = g[n]
  <2>1. PICK s \in Seq(Name) : s = SubSeq(path, 1, n)
    BY <1>0, <1>1
  <2>2. Len(s) = n /\ \A i \in 1..n : s[i] = path[i]
    BY <1>0, <1>1, <2>1
  <2>3. PICK h \in [0..n -> Paths] :
           /\ h[0] = <<>>
           /\ \A i \in 1..n : h[i] = Enter(h[i - 1], s[i])
           /\ Canonicalize(s) = h[n]
    BY <1>0, <1>2, <2>2, CanonicalizeWalk, Zenon
  <2> DEFINE T == {i \in 0..n : h[i] = g[i]}
  <2>4. 0 \in T
    BY <1>3, <2>3
  <2>5. ASSUME NEW i \in 0..n - 1, i \in T PROVE i + 1 \in T
    <3>1. i + 1 \in 1..n /\ i + 1 \in 1..K /\ (i + 1) - 1 = i /\ i + 1 \in 0..n
      BY <1>1
    <3>2. h[i + 1] = Enter(h[i], path[i + 1])
      BY <2>2, <2>3, <3>1, Zenon
    <3>3. g[i + 1] = Enter(g[i], path[i + 1])
      BY <1>3, <3>1, Zenon
    <3> QED
      BY <2>5, <3>1, <3>2, <3>3, Zenon
  <2>6. n \in T
    <3>1. n \in Nat
      BY <1>1
    <3> HIDE DEF T
    <3>2. \A i \in 0..n : i \in T
      BY <2>4, <2>5, <3>1, UpTo, Zenon
    <3> QED
      BY <3>1, <3>2
  <2> QED
    BY <2>1, <2>3, <2>6, Zenon
<1> QED
  BY <1>1, <1>3, <1>4, Zenon

\* The text of a path's beginnings, each from the one before.
LEMMA LexicalPrefixes ==
  ASSUME NEW path \in Paths
  PROVE  \E g \in [0..Len(path) -> Paths] :
           /\ g[0] = <<>>
           /\ \A n \in 1..Len(path) : g[n] = Push(g[n - 1], path[n])
           /\ \A n \in 0..Len(path) : LexicalNormalize(SubSeq(path, 1, n)) = g[n]
           /\ LexicalNormalize(path) = g[Len(path)]
<1> HIDE DEF Name
<1>0. path \in Seq(Name) /\ <<>> \in Paths
  BY DEF Paths
<1>1. PICK K \in Nat : K = Len(path)
  BY <1>0
<1>2. \A at \in Paths, c \in Name : Push(at, c) \in Paths
  BY PushType, Zenon
<1>3. PICK g \in [0..K -> Paths] :
           /\ g[0] = <<>>
           /\ \A n \in 1..K : g[n] = Push(g[n - 1], path[n])
           /\ LexicalNormalize(path) = g[K]
  BY <1>0, <1>1, <1>2, LexicalWalk, Zenon
<1>4. ASSUME NEW n \in 0..K PROVE LexicalNormalize(SubSeq(path, 1, n)) = g[n]
  <2>1. PICK s \in Seq(Name) : s = SubSeq(path, 1, n)
    BY <1>0, <1>1
  <2>2. Len(s) = n /\ \A i \in 1..n : s[i] = path[i]
    BY <1>0, <1>1, <2>1
  <2>3. PICK h \in [0..n -> Paths] :
           /\ h[0] = <<>>
           /\ \A i \in 1..n : h[i] = Push(h[i - 1], s[i])
           /\ LexicalNormalize(s) = h[n]
    BY <1>0, <1>2, <2>2, LexicalWalk, Zenon
  <2> DEFINE T == {i \in 0..n : h[i] = g[i]}
  <2>4. 0 \in T
    BY <1>3, <2>3
  <2>5. ASSUME NEW i \in 0..n - 1, i \in T PROVE i + 1 \in T
    <3>1. i + 1 \in 1..n /\ i + 1 \in 1..K /\ (i + 1) - 1 = i /\ i + 1 \in 0..n
      BY <1>1
    <3>2. h[i + 1] = Push(h[i], path[i + 1])
      BY <2>2, <2>3, <3>1, Zenon
    <3>3. g[i + 1] = Push(g[i], path[i + 1])
      BY <1>3, <3>1, Zenon
    <3> QED
      BY <2>5, <3>1, <3>2, <3>3, Zenon
  <2>6. n \in T
    <3>1. n \in Nat
      BY <1>1
    <3> HIDE DEF T
    <3>2. \A i \in 0..n : i \in T
      BY <2>4, <2>5, <3>1, UpTo, Zenon
    <3> QED
      BY <3>1, <3>2
  <2> QED
    BY <2>1, <2>3, <2>6, Zenon
<1> QED
  BY <1>1, <1>3, <1>4, Zenon

\* Where a path's beginnings arrive, each from the one before.
LEMMA ArrivalPrefixes ==
  ASSUME NEW path \in Paths
  PROVE  \E g \in [0..Len(path) -> Paths] :
           /\ g[0] = <<>>
           /\ \A n \in 1..Len(path) : g[n] = Walk(g[n - 1], path[n])
           /\ \A n \in 0..Len(path) : Arrival(SubSeq(path, 1, n)) = g[n]
           /\ Arrival(path) = g[Len(path)]
<1> HIDE DEF Name
<1>0. path \in Seq(Name) /\ <<>> \in Paths
  BY DEF Paths
<1>1. PICK K \in Nat : K = Len(path)
  BY <1>0
<1>2. \A at \in Paths, c \in Name : Walk(at, c) \in Paths
  BY WalkType, Zenon
<1>3. PICK g \in [0..K -> Paths] :
           /\ g[0] = <<>>
           /\ \A n \in 1..K : g[n] = Walk(g[n - 1], path[n])
           /\ Arrival(path) = g[K]
  BY <1>0, <1>1, <1>2, ArrivalWalk, Zenon
<1>4. ASSUME NEW n \in 0..K PROVE Arrival(SubSeq(path, 1, n)) = g[n]
  <2>1. PICK s \in Seq(Name) : s = SubSeq(path, 1, n)
    BY <1>0, <1>1
  <2>2. Len(s) = n /\ \A i \in 1..n : s[i] = path[i]
    BY <1>0, <1>1, <2>1
  <2>3. PICK h \in [0..n -> Paths] :
           /\ h[0] = <<>>
           /\ \A i \in 1..n : h[i] = Walk(h[i - 1], s[i])
           /\ Arrival(s) = h[n]
    BY <1>0, <1>2, <2>2, ArrivalWalk, Zenon
  <2> DEFINE T == {i \in 0..n : h[i] = g[i]}
  <2>4. 0 \in T
    BY <1>3, <2>3
  <2>5. ASSUME NEW i \in 0..n - 1, i \in T PROVE i + 1 \in T
    <3>1. i + 1 \in 1..n /\ i + 1 \in 1..K /\ (i + 1) - 1 = i /\ i + 1 \in 0..n
      BY <1>1
    <3>2. h[i + 1] = Walk(h[i], path[i + 1])
      BY <2>2, <2>3, <3>1, Zenon
    <3>3. g[i + 1] = Walk(g[i], path[i + 1])
      BY <1>3, <3>1, Zenon
    <3> QED
      BY <2>5, <3>1, <3>2, <3>3, Zenon
  <2>6. n \in T
    <3>1. n \in Nat
      BY <1>1
    <3> HIDE DEF T
    <3>2. \A i \in 0..n : i \in T
      BY <2>4, <2>5, <3>1, UpTo, Zenon
    <3> QED
      BY <3>1, <3>2
  <2> QED
    BY <2>1, <2>3, <2>6, Zenon
<1> QED
  BY <1>1, <1>3, <1>4, Zenon

\* split_existing_prefix finds the longest beginning that exists.
LEMMA ExistingLengthFacts ==
  ASSUME NEW path \in Paths
  PROVE  /\ ExistingLength(path) \in 0..Len(path)
         /\ \A m \in ExistingLength(path) + 1..Len(path) : ~Exists(SubSeq(path, 1, m))
<1>1. PICK K \in Nat : K = Len(path)
  BY DEF Paths
<1> DEFINE Found(n) == n = 0 \/ Exists(SubSeq(path, 1, n))
           M == {n \in 0..K : Found(K - n)}
<1>2. K \in M
  <2>1. K - K = 0
    OBVIOUS
  <2> QED
    BY <2>1
<1>3. PICK x \in M : \A y \in M : x <= y
  <2>1. M \subseteq Nat /\ M # {}
    BY <1>2
  <2> HIDE DEF M
  <2> QED
    BY <2>1, LeastNatural, Zenon
<1>4. K - x \in 0..K /\ Found(K - x)
  BY <1>3
<1>5. ASSUME NEW m \in (K - x) + 1..K PROVE ~Exists(SubSeq(path, 1, m))
  <2>1. SUFFICES ASSUME Exists(SubSeq(path, 1, m)) PROVE FALSE
    BY Zenon
  <2>2. K - (K - m) = m /\ K - m \in 0..K
    BY <1>4
  <2>3. Found(K - (K - m))
    BY <2>1, <2>2, Zenon
  <2>4. K - m \in M
    <3> HIDE DEF Found
    <3> QED
      BY <2>2, <2>3, Zenon
  <2>5. x <= K - m
    BY <1>3, <2>4, Zenon
  <2> QED
    BY <1>3, <2>5
<1> DEFINE P(n) == /\ Found(n)
                   /\ \A m \in n + 1..K : ~Exists(SubSeq(path, 1, m))
<1>6. \E n \in 0..K : P(n)
  <2> HIDE DEF Found
  <2> QED
    BY <1>4, <1>5, Zenon
<1>7. ExistingLength(path) = CHOOSE n \in 0..K : P(n)
  BY <1>1, Zenon DEF ExistingLength
<1> HIDE DEF P
<1>8. ExistingLength(path) \in 0..K /\ P(ExistingLength(path))
  BY <1>6, <1>7, Zenon
<1> QED
  BY <1>1, <1>8, Zenon DEF P

LEMMA SameSequence ==
  ASSUME NEW C, NEW l \in Seq(C), NEW r \in Seq(C),
         Len(l) = Len(r) /\ \A i \in 1..Len(l) : l[i] = r[i]
  PROVE  l = r
OBVIOUS

LEMMA AppendSubSeq ==
  ASSUME NEW C, NEW s \in Seq(C), NEW path \in Seq(C),
         NEW n \in 0..Len(path), NEW m \in n..Len(path) - 1
  PROVE  Append(s \o SubSeq(path, n + 1, m), path[m + 1]) = s \o SubSeq(path, n + 1, m + 1)
<1>1. PICK K \in Nat : K = Len(path)
  OBVIOUS
<1>2. m \in Nat /\ n \in Nat /\ n <= m /\ m + 1 <= K /\ m + 1 \in 1..K
  BY <1>1
<1>3. \A i \in 1..K : path[i] \in C
  BY <1>1
<1>4. PICK u \in Seq(C) : u = SubSeq(path, n + 1, m)
  <2>1. \A i \in n + 1..m : path[i] \in C
    BY <1>2, <1>3
  <2>2. n + 1 \in Int /\ m \in Int
    BY <1>2
  <2>3. SubSeq(path, n + 1, m) \in Seq(C)
    BY <1>2, <2>1
  <2> QED
    BY <2>3, Zenon
<1>5. PICK w \in Seq(C) : w = SubSeq(path, n + 1, m + 1)
  <2>1. \A i \in n + 1..m + 1 : path[i] \in C
    BY <1>2, <1>3
  <2>2. n + 1 \in Int /\ m + 1 \in Int
    BY <1>2
  <2>3. SubSeq(path, n + 1, m + 1) \in Seq(C)
    BY <1>2, <2>1
  <2> QED
    BY <2>3, Zenon
<1>6. Len(u) = m - n /\ \A i \in 1..m - n : u[i] = path[n + i]
  BY <1>1, <1>2, <1>4
<1>7. Len(w) = (m + 1) - n /\ \A i \in 1..(m + 1) - n : w[i] = path[n + i]
  BY <1>1, <1>2, <1>5
<1>8. Append(u, path[m + 1]) = w
  <2>1. Append(u, path[m + 1]) \in Seq(C) /\ Len(Append(u, path[m + 1])) = Len(w)
    <3>1. path[m + 1] \in C
      BY <1>2, <1>3, Zenon
    <3>2. Append(u, path[m + 1]) \in Seq(C) /\ Len(Append(u, path[m + 1])) = Len(u) + 1
      BY <3>1
    <3>3. Len(u) + 1 = Len(w)
      BY <1>2, <1>6, <1>7
    <3> QED
      BY <3>2, <3>3, Zenon
  <2>2. ASSUME NEW i \in 1..Len(w) PROVE Append(u, path[m + 1])[i] = w[i]
    <3>1. CASE i = (m + 1) - n
      <4>1. i = Len(u) + 1 /\ n + i = m + 1
        BY <1>2, <1>6, <3>1
      <4> QED
        BY <1>2, <1>7, <4>1
    <3>2. CASE i # (m + 1) - n
      <4>1. i \in 1..m - n /\ i \in 1..Len(u) /\ i \in 1..(m + 1) - n
        BY <1>2, <1>6, <1>7, <3>2
      <4> QED
        BY <1>6, <1>7, <4>1
    <3> QED
      BY <3>1, <3>2, Zenon
  <2> QED
    BY <2>1, <2>2
<1>9. Append(s \o u, path[m + 1]) = s \o Append(u, path[m + 1])
  <2>1. PICK x \in C : x = path[m + 1]
    BY <1>2, <1>3, Zenon
  <2>2. Append(s \o u, x) = s \o Append(u, x)
    <3>1. PICK y \in Seq(C) : y = s \o u /\ Len(y) = Len(s) + Len(u)
      <4>1. s \o u \in Seq(C) /\ Len(s \o u) = Len(s) + Len(u)
        OBVIOUS
      <4> QED
        BY <4>1, Zenon
    <3>2. PICK z \in Seq(C) : z = Append(u, x) /\ Len(z) = Len(u) + 1
      <4>1. Append(u, x) \in Seq(C) /\ Len(Append(u, x)) = Len(u) + 1
        OBVIOUS
      <4> QED
        BY <4>1, Zenon
    <3>3. /\ Append(y, x) \in Seq(C) /\ s \o z \in Seq(C)
          /\ Len(Append(y, x)) = (Len(s) + Len(u)) + 1
          /\ Len(s \o z) = (Len(s) + Len(u)) + 1
      BY <3>1, <3>2
    <3>4. ASSUME NEW i \in 1..(Len(s) + Len(u)) + 1 PROVE Append(y, x)[i] = (s \o z)[i]
      <4>1. CASE i <= Len(s)
        BY <3>1, <3>2, <4>1
      <4>2. CASE Len(s) < i /\ i <= Len(s) + Len(u)
        BY <3>1, <3>2, <4>2
      <4>3. CASE i = (Len(s) + Len(u)) + 1
        BY <3>1, <3>2, <4>3
      <4>4. Len(s) \in Nat /\ Len(u) \in Nat
        OBVIOUS
      <4>5. \/ i <= Len(s)
            \/ Len(s) < i /\ i <= Len(s) + Len(u)
            \/ i = (Len(s) + Len(u)) + 1
        <5>1. \A a, b \in Nat : \A j \in 1..(a + b) + 1 :
                j <= a \/ (a < j /\ j <= a + b) \/ j = (a + b) + 1
          OBVIOUS
        <5> QED
          BY <4>4, <5>1, Zenon
      <4> QED
        BY <4>1, <4>2, <4>3, <4>5, Zenon
    <3>5. Append(y, x) = s \o z
      <4>1. PICK l \in Seq(C) : l = Append(y, x)
        BY <3>3, Zenon
      <4>2. PICK r \in Seq(C) : r = s \o z
        BY <3>3, Zenon
      <4>3. Len(l) = Len(r) /\ \A i \in 1..Len(l) : l[i] = r[i]
        BY <3>3, <3>4, <4>1, <4>2, Zenon
      <4>4. l = r
        BY <4>3, SameSequence, Zenon
      <4> QED
        BY <4>1, <4>2, <4>4, Zenon
    <3> QED
      BY <3>1, <3>2, <3>5, Zenon
  <2> QED
    BY <2>1, <2>2, Zenon
<1> QED
  BY <1>4, <1>5, <1>8, <1>9, Zenon

\* The beginning of a path.
LEMMA PrefixFacts ==
  ASSUME NEW C, NEW path \in Seq(C), NEW n \in 0..Len(path)
  PROVE  /\ SubSeq(path, 1, n) \in Seq(C) /\ Len(SubSeq(path, 1, n)) = n
         /\ \A i \in 1..n : SubSeq(path, 1, n)[i] = path[i]
<1>1. PICK K \in Nat : K = Len(path)
  OBVIOUS
<1>2. \A i \in 1..K : path[i] \in C
  BY <1>1
<1>3. n \in Nat /\ n <= K /\ \A i \in 1..n : path[i] \in C
  BY <1>1, <1>2
<1>4. SubSeq(path, 1, n) \in Seq(C)
  BY <1>3
<1>5. Len(SubSeq(path, 1, n)) = n
  BY <1>1, <1>3
<1>6. \A i \in 1..n : SubSeq(path, 1, n)[i] = path[i]
  BY <1>1, <1>3
<1> QED
  BY <1>4, <1>5, <1>6, Zenon

LEMMA WholePrefix ==
  ASSUME NEW C, NEW path \in Seq(C)
  PROVE  SubSeq(path, 1, Len(path)) = path /\ SubSeq(path, 1, 0) = <<>>
<1>1. Len(path) \in 0..Len(path)
  OBVIOUS
<1>2. PICK u \in Seq(C) : /\ u = SubSeq(path, 1, Len(path)) /\ Len(u) = Len(path)
                          /\ \A i \in 1..Len(path) : u[i] = path[i]
  BY <1>1, PrefixFacts, Zenon
<1>3. u = path
  BY <1>2, SameSequence, Zenon
<1>4. SubSeq(path, 1, 0) = <<>>
  OBVIOUS
<1> QED
  BY <1>2, <1>3, <1>4, Zenon

\* Sequences that agree on their first n components begin alike.
LEMMA PrefixesAgree ==
  ASSUME NEW C, NEW s \in Seq(C), NEW t \in Seq(C), NEW n \in 0..Len(s), n \in 0..Len(t),
         \A i \in 1..n : s[i] = t[i]
  PROVE  SubSeq(s, 1, n) = SubSeq(t, 1, n)
<1>1. PICK l \in Seq(C) : l = SubSeq(s, 1, n) /\ Len(l) = n /\ \A i \in 1..n : l[i] = s[i]
  <2>1. /\ SubSeq(s, 1, n) \in Seq(C) /\ Len(SubSeq(s, 1, n)) = n
        /\ \A i \in 1..n : SubSeq(s, 1, n)[i] = s[i]
    BY PrefixFacts, ZenonT(60)
  <2> QED
    BY <2>1, Zenon
<1>2. PICK r \in Seq(C) : r = SubSeq(t, 1, n) /\ Len(r) = n /\ \A i \in 1..n : r[i] = t[i]
  <2>1. /\ SubSeq(t, 1, n) \in Seq(C) /\ Len(SubSeq(t, 1, n)) = n
        /\ \A i \in 1..n : SubSeq(t, 1, n)[i] = t[i]
    BY PrefixFacts, ZenonT(60)
  <2> QED
    BY <2>1, Zenon
<1>3. l = r
  BY <1>1, <1>2, SameSequence, Zenon
<1> QED
  BY <1>1, <1>2, <1>3, Zenon

LEMMA AppendBasics ==
  ASSUME NEW C, NEW path \in Seq(C), NEW c \in C
  PROVE  /\ Append(path, c) \in Seq(C) /\ Len(Append(path, c)) = Len(path) + 1
         /\ \A i \in 1..Len(path) : Append(path, c)[i] = path[i]
         /\ Append(path, c)[Len(path) + 1] = c
<1>1. Append(path, c) \in Seq(C) /\ Len(Append(path, c)) = Len(path) + 1
  OBVIOUS
<1>2. \A i \in 1..Len(path) : Append(path, c)[i] = path[i]
  OBVIOUS
<1>3. Append(path, c)[Len(path) + 1] = c
  OBVIOUS
<1> QED
  BY <1>1, <1>2, <1>3, Zenon

\* A beginning and the component after it.
LEMMA PrefixGrows ==
  ASSUME NEW C, NEW path \in Seq(C), NEW m \in 0..Len(path) - 1
  PROVE  Append(SubSeq(path, 1, m), path[m + 1]) = SubSeq(path, 1, m + 1)
<1>1. PICK K \in Nat : K = Len(path)
  OBVIOUS
<1>2. m \in 0..K /\ m + 1 \in 0..K /\ m + 1 \in 1..K /\ m \in Nat
  BY <1>1
<1>3. PICK u \in Seq(C) : u = SubSeq(path, 1, m) /\ Len(u) = m /\ \A i \in 1..m : u[i] = path[i]
  BY <1>1, <1>2, PrefixFacts, Zenon
<1>4. PICK w \in Seq(C) : /\ w = SubSeq(path, 1, m + 1) /\ Len(w) = m + 1
                          /\ \A i \in 1..m + 1 : w[i] = path[i]
  BY <1>1, <1>2, PrefixFacts, Zenon
<1>5. PICK x \in C : x = path[m + 1]
  <2>1. path[m + 1] \in C
    BY <1>1, <1>2
  <2> QED
    BY <2>1, Zenon
<1>6. PICK v \in Seq(C) : /\ v = Append(u, x) /\ Len(v) = m + 1
                          /\ \A i \in 1..m : v[i] = u[i]
                          /\ v[m + 1] = x
  <2>1. /\ Append(u, x) \in Seq(C) /\ Len(Append(u, x)) = Len(u) + 1
        /\ \A i \in 1..Len(u) : Append(u, x)[i] = u[i]
        /\ Append(u, x)[Len(u) + 1] = x
    BY AppendBasics, Zenon
  <2> QED
    BY <1>3, <2>1, Zenon
<1>7. ASSUME NEW i \in 1..m + 1 PROVE v[i] = w[i]
  <2>1. CASE i = m + 1
    BY <1>4, <1>5, <1>6, <2>1, Zenon
  <2>2. CASE i # m + 1
    <3>1. i \in 1..m
      BY <1>2, <2>2
    <3> QED
      BY <1>3, <1>4, <1>6, <3>1, Zenon
  <2> QED
    BY <2>1, <2>2, Zenon
<1>8. v = w
  BY <1>4, <1>6, <1>7, SameSequence, Zenon
<1> QED
  BY <1>3, <1>4, <1>5, <1>6, <1>8, Zenon

\* What a path without its last component begins with.
LEMMA FrontFacts ==
  ASSUME NEW C, NEW path \in Seq(C), path # <<>>
  PROVE  LET front == SubSeq(path, 1, Len(path) - 1)
         IN  \A n \in 1..Len(front) : n \in 1..Len(path) /\ SubSeq(front, 1, n) = SubSeq(path, 1, n)
<1>1. PICK K \in Nat : K = Len(path)
  OBVIOUS
<1>2. K > 0 /\ K - 1 \in 0..K
  BY <1>1
<1>3. PICK u \in Seq(C) : /\ u = SubSeq(path, 1, K - 1) /\ Len(u) = K - 1
                          /\ \A i \in 1..K - 1 : u[i] = path[i]
  <2>1. PICK n \in 0..Len(path) : n = K - 1
    BY <1>1, <1>2, Zenon
  <2>2. /\ SubSeq(path, 1, n) \in Seq(C) /\ Len(SubSeq(path, 1, n)) = n
        /\ \A i \in 1..n : SubSeq(path, 1, n)[i] = path[i]
    BY PrefixFacts, ZenonT(60)
  <2> QED
    BY <2>1, <2>2, Zenon
<1>4. ASSUME NEW n \in 1..K - 1 PROVE n \in 1..K /\ SubSeq(u, 1, n) = SubSeq(path, 1, n)
  <2>1. n \in 1..K /\ n \in 0..K /\ n \in 0..K - 1 /\ \A i \in 1..n : i \in 1..K - 1
    BY <1>2
  <2>2. \A i \in 1..n : u[i] = path[i]
    BY <1>3, <2>1, Zenon
  <2>3. SubSeq(u, 1, n) = SubSeq(path, 1, n)
    <3>1. n \in 0..Len(u) /\ n \in 0..Len(path)
      BY <1>1, <1>3, <2>1, Zenon
    <3> QED
      BY <2>2, <3>1, PrefixesAgree, ZenonT(60)
  <2> QED
    BY <2>1, <2>3, Zenon
<1> QED
  BY <1>1, <1>3, <1>4, Zenon

\* What a path with one more component begins with.
LEMMA AppendFacts ==
  ASSUME NEW C, NEW path \in Seq(C), NEW c \in C
  PROVE  LET more == Append(path, c)
         IN  /\ more \in Seq(C) /\ Len(more) = Len(path) + 1 /\ more[Len(path) + 1] = c
             /\ \A i \in 1..Len(path) : more[i] = path[i]
             /\ \A n \in 0..Len(path) : SubSeq(more, 1, n) = SubSeq(path, 1, n)
             /\ SubSeq(more, 1, Len(path)) = path /\ SubSeq(more, 1, Len(path) + 1) = more
<1>1. PICK K \in Nat : K = Len(path)
  OBVIOUS
<1>2. PICK u \in Seq(C) : /\ u = Append(path, c) /\ Len(u) = K + 1 /\ u[K + 1] = c
                          /\ \A i \in 1..K : u[i] = path[i]
  <2>1. /\ Append(path, c) \in Seq(C) /\ Len(Append(path, c)) = Len(path) + 1
        /\ \A i \in 1..Len(path) : Append(path, c)[i] = path[i]
        /\ Append(path, c)[Len(path) + 1] = c
    BY AppendBasics, Zenon
  <2> QED
    BY <1>1, <2>1, Zenon
<1>3. ASSUME NEW n \in 0..K PROVE SubSeq(u, 1, n) = SubSeq(path, 1, n)
  <2>1. n \in 0..K + 1 /\ \A i \in 1..n : i \in 1..K
    BY <1>1
  <2>2. \A i \in 1..n : u[i] = path[i]
    BY <1>2, <2>1, Zenon
  <2> QED
    BY <1>1, <1>2, <2>1, <2>2, PrefixesAgree, Zenon
<1>4. SubSeq(path, 1, K) = path
  BY <1>1, WholePrefix, Zenon
<1>5. SubSeq(u, 1, K + 1) = u
  BY <1>2, WholePrefix, Zenon
<1>6. K \in 0..K
  OBVIOUS
<1>7. SubSeq(u, 1, K) = path
  BY <1>3, <1>4, <1>6, Zenon
<1> QED
  BY <1>1, <1>2, <1>3, <1>5, <1>7, Zenon

\* No link on the walk along a path leads nowhere.
Sound(path) ==
    \A m \in 1..Len(path) :
        LET step == Append(Canonicalize(SubSeq(path, 1, m - 1)), path[m])
        IN  step \in DOMAIN Links => Links[step] \in Dirs

\* A path on which no link lies is its own canonical form.
LEMMA LinkFreeFixed ==
  ASSUME NEW path \in Paths, LinkFree(path)
  PROVE  Canonicalize(path) = path /\ Sound(path)
<1> HIDE DEF Name
<1>0. path \in Seq(Name)
  BY DEF Paths
<1>1. PICK K \in Nat : K = Len(path)
  BY <1>0
<1>2. PICK g \in [0..K -> Paths] :
           /\ g[0] = <<>>
           /\ \A n \in 1..K : g[n] = Enter(g[n - 1], path[n])
           /\ \A n \in 0..K : Canonicalize(SubSeq(path, 1, n)) = g[n]
           /\ Canonicalize(path) = g[K]
  BY <1>1, CanonicalPrefixes, Zenon
<1>3. ASSUME NEW m \in 0..K - 1
      PROVE  /\ Append(SubSeq(path, 1, m), path[m + 1]) = SubSeq(path, 1, m + 1)
             /\ SubSeq(path, 1, m + 1) \notin DOMAIN Links
  <2>1. m + 1 \in 1..K
    BY <1>1
  <2> QED
    BY <1>0, <1>1, <2>1, PrefixGrows, Zenon DEF LinkFree
<1> DEFINE T == {m \in 0..K : g[m] = SubSeq(path, 1, m)}
<1>4. 0 \in T
  <2>1. 0 \in 0..K
    BY <1>1
  <2> QED
    BY <1>0, <1>2, <2>1, WholePrefix, Zenon
<1>5. ASSUME NEW m \in 0..K - 1, m \in T PROVE m + 1 \in T
  <2>1. m + 1 \in 0..K /\ m + 1 \in 1..K /\ (m + 1) - 1 = m
    BY <1>1
  <2>2. g[m + 1] = Enter(SubSeq(path, 1, m), path[m + 1])
    BY <1>2, <1>5, <2>1, Zenon
  <2> QED
    BY <1>3, <2>1, <2>2, Zenon DEF Enter
<1>6. \A m \in 0..K : m \in T
  <2> HIDE DEF T
  <2> QED
    BY <1>4, <1>5, UpTo, Zenon
<1>7. Canonicalize(path) = path
  <2>1. K \in 0..K
    BY <1>1
  <2>2. SubSeq(path, 1, K) = path
    BY <1>0, <1>1, WholePrefix, Zenon
  <2> QED
    BY <1>2, <1>6, <2>1, <2>2, Zenon
<1>8. ASSUME NEW m \in 1..K
      PROVE  Append(Canonicalize(SubSeq(path, 1, m - 1)), path[m]) \notin DOMAIN Links
  <2>1. PICK k \in 0..K - 1 : k = m - 1 /\ m = k + 1 /\ k \in 0..K
    BY <1>1
  <2>2. Canonicalize(SubSeq(path, 1, k)) = SubSeq(path, 1, k)
    BY <1>2, <1>6, <2>1, Zenon
  <2> QED
    BY <1>3, <2>1, <2>2, Zenon
<1> QED
  BY <1>1, <1>7, <1>8, Zenon DEF Sound

\* Where a walk arrives no link is left to follow.
LEMMA EnterLinkFree ==
  ASSUME NEW at \in Paths, LinkFree(at), NEW c \in Name
  PROVE  LinkFree(Enter(at, c))
<1> HIDE DEF Name
<1>1. PICK more : more = Append(at, c)
  BY Zenon
<1>2. CASE more \in DOMAIN Links
  BY <1>1, <1>2, FileSystemAssumption, Zenon DEF Enter
<1>3. CASE more \notin DOMAIN Links
  <2>0. at \in Seq(Name)
    BY DEF Paths
  <2>1. PICK K \in Nat : K = Len(at)
    BY <2>0
  <2>a. Append(at, c) \in Seq(Name) /\ Len(Append(at, c)) = Len(at) + 1
    BY <2>0, AppendFacts, Zenon
  <2>b. \A n \in 0..Len(at) : SubSeq(Append(at, c), 1, n) = SubSeq(at, 1, n)
    BY <2>0, AppendFacts, Zenon
  <2>2. /\ Len(more) = K + 1
        /\ \A n \in 0..K : SubSeq(more, 1, n) = SubSeq(at, 1, n)
        /\ SubSeq(more, 1, K + 1) = more
    BY <1>1, <2>1, <2>a, <2>b, WholePrefix, Zenon
  <2>3. ASSUME NEW n \in 1..K + 1 PROVE SubSeq(more, 1, n) \notin DOMAIN Links
    <3>1. CASE n = K + 1
      BY <1>3, <2>2, <3>1, Zenon
    <3>2. CASE n # K + 1
      <4>1. n \in 1..K /\ n \in 0..K
        BY <2>1, <3>2
      <4> QED
        BY <2>1, <2>2, <4>1, Zenon DEF LinkFree
    <3> QED
      BY <3>1, <3>2, Zenon
  <2>4. LinkFree(more)
    BY <2>2, <2>3, Zenon DEF LinkFree
  <2> QED
    BY <1>1, <1>3, <2>4, Zenon DEF Enter
<1> QED
  BY <1>2, <1>3, Zenon

LEMMA PopLinkFree ==
  ASSUME NEW at \in Paths, LinkFree(at)
  PROVE  LinkFree(Push(at, ".."))
<1> HIDE DEF Name
<1>1. CASE at = <<>>
  BY <1>1, Zenon DEF Push
<1>2. CASE at # <<>>
  <2>1. PICK front : front = SubSeq(at, 1, Len(at) - 1)
    BY Zenon
  <2>2. \A n \in 1..Len(front) : n \in 1..Len(at) /\ SubSeq(front, 1, n) = SubSeq(at, 1, n)
    BY <1>2, <2>1, FrontFacts, Zenon DEF Paths
  <2>3. LinkFree(front)
    BY <2>2, Zenon DEF LinkFree
  <2> QED
    BY <1>2, <2>1, <2>3, Zenon DEF Push
<1> QED
  BY <1>1, <1>2, Zenon

\* One component more on a path: one Enter more, and one link more that must
\* lead somewhere.
LEMMA NameKeeps ==
  ASSUME NEW path \in Paths, Sound(path), NEW c \in Name,
         LET step == Append(Canonicalize(path), c)
         IN  step \in DOMAIN Links => Links[step] \in Dirs
  PROVE  /\ Canonicalize(Append(path, c)) = Enter(Canonicalize(path), c)
         /\ Sound(Append(path, c))
<1> HIDE DEF Name
<1>0. path \in Seq(Name)
  BY DEF Paths
<1>1. PICK K \in Nat : K = Len(path)
  BY <1>0
<1>2. PICK more \in Paths :
        /\ more = Append(path, c) /\ Len(more) = K + 1 /\ more[K + 1] = c
        /\ \A i \in 1..K : more[i] = path[i]
        /\ \A n \in 0..K : SubSeq(more, 1, n) = SubSeq(path, 1, n)
        /\ SubSeq(more, 1, K) = path
  BY <1>0, <1>1, AppendFacts, Zenon DEF Paths
<1>3. PICK g \in [0..K + 1 -> Paths] :
           /\ \A n \in 1..K + 1 : g[n] = Enter(g[n - 1], more[n])
           /\ \A n \in 0..K + 1 : Canonicalize(SubSeq(more, 1, n)) = g[n]
           /\ Canonicalize(more) = g[K + 1]
  BY <1>2, CanonicalPrefixes, Zenon
<1>4. Canonicalize(more) = Enter(Canonicalize(path), c)
  <2>1. K + 1 \in 1..K + 1 /\ (K + 1) - 1 = K /\ K \in 0..K + 1
    BY <1>1
  <2> QED
    BY <1>2, <1>3, <2>1, Zenon
<1>5. ASSUME NEW m \in 1..K + 1, Append(Canonicalize(SubSeq(more, 1, m - 1)), more[m]) \in DOMAIN Links
      PROVE  Links[Append(Canonicalize(SubSeq(more, 1, m - 1)), more[m])] \in Dirs
  <2>1. CASE m = K + 1
    <3>1. m - 1 = K
      BY <1>1, <2>1
    <3> QED
      BY <1>2, <1>5, <2>1, <3>1, Zenon
  <2>2. CASE m # K + 1
    <3>1. m \in 1..K /\ m - 1 \in 0..K
      BY <1>1, <2>2
    <3> QED
      BY <1>1, <1>2, <1>5, <3>1, Zenon DEF Sound
  <2> QED
    BY <2>1, <2>2, Zenon
<1> QED
  BY <1>2, <1>4, <1>5, Zenon DEF Sound

\* resolve_within compares the root with the text as it would be walked: past
\* the longest beginning that exists no component is a link, so appending the
\* rest as text is what walking it would give.
LEMMA CandidateIsCanonical ==
  ASSUME NEW path \in Paths, Sound(LexicalNormalize(path))
  PROVE  Candidate(path) = Canonicalize(LexicalNormalize(path))
<1> HIDE DEF Name
<1>1. PICK norm \in Paths : norm = LexicalNormalize(path)
  <2>1. PICK K \in Nat : K = Len(path)
    BY DEF Paths
  <2>2. K \in 0..K
    OBVIOUS
  <2> QED
    BY <2>1, <2>2, LexicalPrefixes, Zenon
<1>2. PICK K \in Nat : K = Len(norm)
  BY DEF Paths
<1>3. PICK g \in [0..K -> Paths] :
           /\ g[0] = <<>>
           /\ \A n \in 1..K : g[n] = Enter(g[n - 1], norm[n])
           /\ \A n \in 0..K : Canonicalize(SubSeq(norm, 1, n)) = g[n]
           /\ Canonicalize(norm) = g[K]
  BY <1>2, CanonicalPrefixes, Zenon
<1>4. PICK n \in 0..K : n = ExistingLength(norm)
  BY <1>2, ExistingLengthFacts, Zenon
<1>5. \A m \in n + 1..K : g[m] \notin Dirs
  <2> SUFFICES ASSUME NEW m \in n + 1..K PROVE g[m] \notin Dirs
    BY Zenon
  <2>1. m \in 0..K
    BY <1>2
  <2>2. ~Exists(SubSeq(norm, 1, m))
    BY <1>2, <1>4, ExistingLengthFacts, Zenon
  <2> QED
    BY <1>3, <2>1, <2>2, Zenon DEF Exists
<1> DEFINE T == {m \in 0..K : n <= m => g[m] = g[n] \o SubSeq(norm, n + 1, m)}
<1>6. g[n] \o SubSeq(norm, n + 1, n) = g[n]
  <2>1. g[n] \in Seq(Name) /\ norm \in Seq(Name)
    BY <1>3, Zenon DEF Paths
  <2>2. SubSeq(norm, n + 1, n) = <<>>
    BY <1>2, <2>1
  <2> QED
    BY <2>1, <2>2
<1>7. 0 \in T
  <2>1. CASE n = 0
    BY <1>6, <2>1, Zenon
  <2>2. CASE n # 0
    BY <1>2, <2>2
  <2> QED
    BY <2>1, <2>2, Zenon
<1>8. ASSUME NEW m \in 0..K - 1, m \in T PROVE m + 1 \in T
  <2>1. m + 1 \in 0..K /\ m + 1 \in 1..K /\ (m + 1) - 1 = m
    BY <1>2
  <2>2. CASE n <= m
    <3>1. g[m] = g[n] \o SubSeq(norm, n + 1, m)
      BY <1>8, <2>2, Zenon
    <3>2. g[m + 1] = Enter(g[m], norm[m + 1]) /\ g[m + 1] \notin Dirs
      <4>1. m + 1 \in n + 1..K
        BY <1>2, <2>2
      <4> QED
        BY <1>3, <1>5, <2>1, <4>1, Zenon
    <3>3. g[m + 1] = Append(g[m], norm[m + 1])
      <4>1. m + 1 \in 1..Len(norm) /\ m \in 0..K
        BY <1>2, <2>1
      <4>2. Canonicalize(SubSeq(norm, 1, (m + 1) - 1)) = g[m]
        BY <1>3, <2>1, <4>1, Zenon
      <4>3. Append(g[m], norm[m + 1]) \in DOMAIN Links => Links[Append(g[m], norm[m + 1])] \in Dirs
        BY <1>1, <4>1, <4>2, Zenon DEF Sound
      <4> QED
        BY <3>2, <4>3, Zenon DEF Enter
    <3>4. g[m + 1] = g[n] \o SubSeq(norm, n + 1, m + 1)
      <4>1. g[n] \in Seq(Name) /\ norm \in Seq(Name)
        BY <1>3, Zenon DEF Paths
      <4>2. m \in n..K - 1
        BY <1>2, <2>2
      <4> QED
        <5>1. n \in 0..Len(norm) /\ m \in n..Len(norm) - 1
          BY <1>2, <4>2, Zenon
        <5>2. Append(g[n] \o SubSeq(norm, n + 1, m), norm[m + 1]) =
                g[n] \o SubSeq(norm, n + 1, m + 1)
          BY <4>1, <5>1, AppendSubSeq, Zenon
        <5> QED
          BY <3>1, <3>3, <5>2, Zenon
    <3> QED
      BY <2>1, <3>4, Zenon
  <2>3. CASE n = m + 1
    BY <1>6, <2>1, <2>3, Zenon
  <2>4. CASE ~(n <= m) /\ n # m + 1
    BY <1>2, <2>1, <2>4
  <2> QED
    BY <2>2, <2>3, <2>4, Zenon
<1>9. K \in T
  <2> HIDE DEF T
  <2>1. \A m \in 0..K : m \in T
    BY <1>7, <1>8, UpTo, Zenon
  <2> QED
    BY <2>1
<1>10. n <= K
  BY <1>2
<1>11. g[K] = g[n] \o SubSeq(norm, n + 1, K)
  BY <1>9, <1>10, Zenon
<1> QED
  BY <1>1, <1>2, <1>3, <1>4, <1>11, Zenon DEF Candidate

\* The text of a straight path, made canonical, is where the system arrives.
LEMMA StraightArrives ==
  ASSUME NEW path \in Paths, Straight(path)
  PROVE  /\ Arrival(path) = Canonicalize(LexicalNormalize(path))
         /\ Sound(LexicalNormalize(path))
<1> HIDE DEF Name
<1>0. path \in Seq(Name)
  BY DEF Paths
<1>1. PICK K \in Nat : K = Len(path)
  BY <1>0
<1>2. PICK a \in [0..K -> Paths] :
           /\ a[0] = <<>>
           /\ \A n \in 1..K : a[n] = Walk(a[n - 1], path[n])
           /\ \A n \in 0..K : Arrival(SubSeq(path, 1, n)) = a[n]
           /\ Arrival(path) = a[K]
  BY <1>1, ArrivalPrefixes, Zenon
<1>3. PICK l \in [0..K -> Paths] :
           /\ l[0] = <<>>
           /\ \A n \in 1..K : l[n] = Push(l[n - 1], path[n])
           /\ \A n \in 0..K : LexicalNormalize(SubSeq(path, 1, n)) = l[n]
           /\ LexicalNormalize(path) = l[K]
  BY <1>1, LexicalPrefixes, Zenon
<1> DEFINE Holds(n) == a[n] = Canonicalize(l[n]) /\ LinkFree(a[n]) /\ Sound(l[n])
           T == {n \in 0..K : Holds(n)}
<1>4. 0 \in T
  <2>1. <<>> \in Paths /\ LinkFree(<<>>) /\ 0 \in 0..K
    BY <1>1 DEF Paths, LinkFree
  <2> QED
    BY <1>2, <1>3, <2>1, LinkFreeFixed, Zenon
<1>5. ASSUME NEW n \in 0..K - 1, n \in T PROVE n + 1 \in T
  <2>1. n + 1 \in 0..K /\ n + 1 \in 1..K /\ (n + 1) - 1 = n /\ n \in 0..K
    BY <1>1
  <2>2. PICK c \in Name : c = path[n + 1]
    BY <1>0, <1>1, <2>1
  <2>3. PICK at \in Paths : at = a[n]
    BY <2>1, Zenon
  <2>4. PICK text \in Paths : text = l[n]
    BY <2>1, Zenon
  <2>5. at = Canonicalize(text) /\ LinkFree(at) /\ Sound(text)
    BY <1>5, <2>3, <2>4, Zenon
  <2>6. a[n + 1] = Walk(at, c) /\ l[n + 1] = Push(text, c)
    BY <1>2, <1>3, <2>1, <2>2, <2>3, <2>4, Zenon
  <2>7. /\ c = ".." => at = text
        /\ Append(at, c) \in DOMAIN Links => Links[Append(at, c)] \in Dirs
    BY <1>1, <1>2, <1>3, <2>1, <2>2, <2>3, <2>4, Zenon DEF Straight
  <2> SUFFICES /\ Walk(at, c) = Canonicalize(Push(text, c))
               /\ LinkFree(Walk(at, c)) /\ Sound(Push(text, c))
    BY <2>1, <2>6, Zenon
  <2>8. CASE c = "."
    BY <2>5, <2>8 DEF Walk, Push
  <2>9. CASE c = ".."
    <3>1. Walk(at, c) = Push(at, "..") /\ Push(text, c) = Push(at, "..")
      BY <2>7, <2>9, Zenon DEF Walk
    <3>2. Push(at, "..") \in Paths
      BY <2>9, PushType, Zenon
    <3>3. LinkFree(Push(at, ".."))
      BY <2>5, PopLinkFree, Zenon
    <3> QED
      BY <3>1, <3>2, <3>3, LinkFreeFixed, Zenon
  <2>10. CASE c # "." /\ c # ".."
    <3>1. Walk(at, c) = Enter(at, c) /\ Push(text, c) = Append(text, c)
      BY <2>10 DEF Walk, Push
    <3>2. Canonicalize(Append(text, c)) = Enter(at, c) /\ Sound(Append(text, c))
      BY <2>5, <2>7, NameKeeps, Zenon
    <3>3. LinkFree(Enter(at, c))
      BY <2>5, EnterLinkFree, Zenon
    <3> QED
      BY <3>1, <3>2, <3>3, Zenon
  <2> QED
    BY <2>8, <2>9, <2>10, Zenon
<1>6. K \in T
  <2> HIDE DEF T
  <2>1. \A n \in 0..K : n \in T
    BY <1>4, <1>5, UpTo, Zenon
  <2> QED
    BY <2>1
<1> QED
  BY <1>2, <1>3, <1>6, Zenon

\* resolve_within accepts exactly the paths that are Confined.
LEMMA ResolvesIsConfined ==
  ASSUME NEW path \in Paths
  PROVE  ResolvesWithin(path) <=> Confined(path)
<1>1. CASE Straight(path)
  <2>1. Candidate(path) = Arrival(path)
    BY <1>1, StraightArrives, CandidateIsCanonical, Zenon
  <2> QED
    BY <1>1, <2>1, Zenon DEF ResolvesWithin, Inside, Confined
<1>2. CASE ~Straight(path)
  BY <1>2, Zenon DEF Confined
<1> QED
  BY <1>1, <1>2, Zenon

-----------------------------------------------------------------------------
(* assess_operation_risk                                                   *)

RuleErrors == {None, "RequiredEffectMissing", "MalformedArgument"}
Assessed == [error : RuleErrors, risk : RiskLevels]

AssessOne(a, r, args, touched) ==
    IF a.error # None THEN a
    ELSE IF RuleError(r, args, touched) # None
         THEN [a EXCEPT !.error = RuleError(r, args, touched)]
    ELSE IF Applies(r, args) /\ r.escalate > a.risk THEN [a EXCEPT !.risk = r.escalate]
    ELSE a

LEMMA AssessOneType ==
  ASSUME NEW a \in Assessed, NEW r, r.escalate \in RiskLevels, NEW args, NEW touched
  PROVE  AssessOne(a, r, args, touched) \in Assessed
<1>1. PICK e \in RuleErrors : e = RuleError(r, args, touched)
  BY Zenon DEF RuleError, RuleErrors
<1> QED
  BY <1>1, Zenon DEF AssessOne, Assessed

\* The rules in file order, one after the other.
WalksRules(g, t, args, touched) ==
    /\ g \in [0..Len(t.rules) -> Assessed]
    /\ g[0] = [error |-> None, risk |-> t.risk]
    /\ \A n \in 1..Len(t.rules) : g[n] = AssessOne(g[n - 1], t.rules[n], args, touched)
    /\ Assessment(t, args, touched) = g[Len(t.rules)]

LEMMA AssessmentWalk ==
  ASSUME NEW t, NEW D, t.rules \in Seq(D), t.risk \in RiskLevels, NEW args, NEW touched,
         \A i \in 1..Len(t.rules) : t.rules[i].escalate \in RiskLevels
  PROVE  \E g : WalksRules(g, t, args, touched)
<1>r. PICK rules \in Seq(D) : rules = t.rules
  BY Zenon
<1>0. PICK N \in Nat : N = Len(rules)
  OBVIOUS
<1>v. PICK V : V = Assessed
  BY Zenon
<1>b. PICK b \in V : b = [error |-> None, risk |-> t.risk]
  BY <1>v, Zenon DEF Assessed, RuleErrors
<1> DEFINE One(a, r) == AssessOne(a, r, args, touched)
           steps == [k \in (1..N) \X V |-> One(k[2], rules[k[1]])]
           Eq(h) == h = [n \in 0..Len(rules) |-> IF n = 0 THEN b ELSE One(h[n - 1], rules[n])]
           f == CHOOSE h : Eq(h)
<1>1. \A i \in 1..N : rules[i].escalate \in RiskLevels
  BY <1>r, <1>0, Zenon
<1>2. Assessment(t, args, touched) = f[N]
  BY <1>r, <1>0, <1>b DEF Assessment, InOrder, AssessOne
<1>a. \A n \in 1..N, x \in V : One(x, rules[n]) \in V
  BY <1>1, <1>v, AssessOneType, Zenon
<1> HIDE DEF One
<1>3. PICK step \in Steps(N, V) :
        \A n \in 1..N, x \in V : step[<<n, x>>] = One(x, rules[n])
  <2>1. steps \in Steps(N, V)
    BY <1>1, <1>a, Zenon DEF Steps
  <2>2. \A n \in 1..N, x \in V : steps[<<n, x>>] = One(x, rules[n])
    BY Zenon
  <2> HIDE DEF steps
  <2> QED
    BY <2>1, <2>2, Zenon
<1>4. Eq(f)
  <2>1. PICK h : IsWalk(h, V, N, b, step)
    BY <1>b, Recursion, Zenon
  <2>2. h = [n \in 0..N |-> h[n]]
    BY <2>1, Zenon DEF IsWalk
  <2>3. ASSUME NEW n \in 0..N
        PROVE  h[n] = IF n = 0 THEN b ELSE One(h[n - 1], rules[n])
    <3>1. CASE n = 0
      BY <2>1, <3>1, Zenon DEF IsWalk
    <3>2. CASE n # 0
      <4>1. n \in 1..N /\ h[n - 1] \in V
        BY <2>1, <3>2 DEF IsWalk
      <4> QED
        BY <1>3, <2>1, <3>2, <4>1, Zenon DEF IsWalk
    <3> QED
      BY <3>1, <3>2, Zenon
  <2>4. Eq(h)
    BY <1>0, <2>2, <2>3, Zenon
  <2> HIDE DEF Eq
  <2> QED
    BY <2>4, Zenon
<1> HIDE DEF f
<1>5. IsWalk(f, V, N, b, step)
  <2>1. f = [n \in 0..N |-> f[n]] /\ f[0] = b
    BY <1>0, <1>4
  <2>2. ASSUME NEW n \in 1..N PROVE f[n] = One(f[n - 1], rules[n])
    <3>1. n \in 0..Len(rules) /\ n # 0
      BY <1>0
    <3> QED
      BY <1>4, <3>1, Zenon
  <2>3. SolvesWalk(f, V, N, b, step)
    BY <1>3, <2>1, <2>2, Zenon DEF SolvesWalk
  <2> QED
    BY <1>b, <2>3, WalkSettles, Zenon
<1>6. f \in [0..N -> V] /\ f[0] = b
  BY <1>5, Zenon DEF IsWalk
<1>7. \A n \in 1..N : f[n] = AssessOne(f[n - 1], rules[n], args, touched)
  <2> SUFFICES ASSUME NEW n \in 1..N PROVE f[n] = One(f[n - 1], rules[n])
    BY Zenon DEF One
  <2>1. f[n - 1] \in V
    BY <1>6
  <2> QED
    BY <1>3, <1>5, <2>1, Zenon DEF IsWalk
<1>8. WalksRules(f, t, args, touched)
  BY <1>r, <1>0, <1>v, <1>b, <1>2, <1>6, <1>7, Zenon DEF WalksRules
<1> QED
  BY <1>8, Zenon

\* The assessment fails with the error of some rule, or with none if no rule
\* has one; then the risk is the highest any rule that applies raises to.
IsAssessment(a, t, args, touched) ==
    /\ a \in Assessed
    /\ a.error = None =>
          /\ \A r \in Range(t.rules) : RuleError(r, args, touched) = None
          /\ a.risk \in Raised(t, args)
          /\ \A y \in Raised(t, args) : y <= a.risk
    /\ a.error # None => \E r \in Range(t.rules) : a.error = RuleError(r, args, touched)

LEMMA AssessmentFacts ==
  ASSUME NEW t, NEW D, t.rules \in Seq(D), t.risk \in RiskLevels, NEW args, NEW touched,
         \A r \in Range(t.rules) : r.escalate \in RiskLevels
  PROVE  IsAssessment(Assessment(t, args, touched), t, args, touched)
<1>0. PICK rules \in Seq(D) : rules = t.rules
  BY Zenon
<1>1. PICK N \in Nat : N = Len(rules)
  OBVIOUS
<1>2. Range(rules) = {rules[i] : i \in 1..N}
  BY <1>1 DEF Range
<1>3. \A i \in 1..N : rules[i] \in Range(rules) /\ rules[i].escalate \in RiskLevels
  BY <1>0, <1>2, Zenon
<1>4. PICK g \in [0..N -> Assessed] :
           /\ g[0] = [error |-> None, risk |-> t.risk]
           /\ \A n \in 1..N : g[n] = AssessOne(g[n - 1], rules[n], args, touched)
           /\ Assessment(t, args, touched) = g[N]
  <2>1. \A i \in 1..Len(t.rules) : t.rules[i].escalate \in RiskLevels
    BY <1>0, <1>1, <1>3, Zenon
  <2>2. PICK g : WalksRules(g, t, args, touched)
    BY <2>1, AssessmentWalk, Zenon
  <2> QED
    BY <1>0, <1>1, <2>2, Zenon DEF WalksRules
<1> DEFINE Err(i) == RuleError(rules[i], args, touched)
           Fits(n) == /\ g[n].error = None =>
                           /\ \A i \in 1..n : Err(i) = None
                           /\ \/ g[n].risk = t.risk
                              \/ \E i \in 1..n : Applies(rules[i], args) /\ g[n].risk = rules[i].escalate
                           /\ t.risk <= g[n].risk
                           /\ \A i \in 1..n : Applies(rules[i], args) => rules[i].escalate <= g[n].risk
                      /\ g[n].error # None => \E i \in 1..n : g[n].error = Err(i)
           T == {n \in 0..N : Fits(n)}
<1>5. 0 \in T
  <2>1. g[0].error = None /\ g[0].risk = t.risk /\ t.risk <= t.risk
    BY <1>4 DEF RiskLevels
  <2> QED
    BY <2>1
<1>6. ASSUME NEW n \in 0..N - 1, n \in T PROVE n + 1 \in T
  <2>1. /\ n + 1 \in 1..N /\ n + 1 \in 0..N /\ (n + 1) - 1 = n
        /\ n + 1 \in 1..n + 1
    OBVIOUS
  <2>2. Fits(n)
    BY <1>6, Zenon
  <2>3. PICK a \in Assessed : a = g[n]
    OBVIOUS
  <2>4. PICK r : r = rules[n + 1]
    BY Zenon
  <2>5. g[n + 1] = AssessOne(a, r, args, touched) /\ r.escalate \in RiskLevels
    BY <1>3, <1>4, <2>1, <2>3, <2>4, Zenon
  <2>6. a.risk \in RiskLevels /\ t.risk \in RiskLevels
    BY Zenon DEF Assessed
  <2>7. \A i \in 1..n + 1 : i \in 1..n \/ i = n + 1
    OBVIOUS
  <2>8. \A i \in 1..n : i \in 1..n + 1 /\ i \in 1..N
    OBVIOUS
  <2>9. CASE a.error # None
    <3>1. g[n + 1] = a
      BY <2>5, <2>9, Zenon DEF AssessOne
    <3>2. PICK i \in 1..n : g[n].error = Err(i)
      BY <2>2, <2>3, <2>9, Zenon
    <3>3. Fits(n + 1)
      BY <2>3, <2>8, <2>9, <3>1, <3>2, Zenon
    <3> HIDE DEF Fits
    <3> QED
      BY <2>1, <3>3, Zenon
  <2>10. CASE a.error = None /\ Err(n + 1) # None
    <3>1. g[n + 1].error = Err(n + 1)
      BY <2>4, <2>5, <2>10, Zenon DEF AssessOne, Assessed
    <3>2. Fits(n + 1)
      BY <2>1, <2>10, <3>1, Zenon
    <3> HIDE DEF Fits
    <3> QED
      BY <2>1, <3>2, Zenon
  <2>11. CASE a.error = None /\ Err(n + 1) = None
    <3> DEFINE up == Applies(r, args) /\ r.escalate > a.risk
    <3>1. /\ g[n + 1].error = None
          /\ g[n + 1].risk = IF up THEN r.escalate ELSE a.risk
      BY <2>4, <2>5, <2>11, Zenon DEF AssessOne, Assessed
    <3>2. \A i \in 1..n + 1 : Err(i) = None
      BY <2>2, <2>3, <2>7, <2>11, Zenon
    <3>3. \/ g[n + 1].risk = t.risk
          \/ \E i \in 1..n + 1 : Applies(rules[i], args) /\ g[n + 1].risk = rules[i].escalate
      <4>1. CASE up
        BY <2>1, <2>4, <3>1, <4>1, Zenon
      <4>2. CASE ~up
        BY <2>2, <2>3, <2>8, <2>11, <3>1, <4>2, Zenon
      <4> QED
        BY <4>1, <4>2, Zenon
    <3>4. t.risk <= a.risk /\ a.risk <= g[n + 1].risk /\ g[n + 1].risk \in RiskLevels
      BY <2>2, <2>3, <2>5, <2>6, <2>11, <3>1 DEF RiskLevels
    <3>5. t.risk <= g[n + 1].risk
      BY <2>6, <3>4 DEF RiskLevels
    <3>6. ASSUME NEW i \in 1..n + 1, Applies(rules[i], args)
          PROVE  rules[i].escalate <= g[n + 1].risk
      <4>1. CASE i = n + 1
        BY <2>4, <2>5, <2>6, <3>1, <3>6, <4>1 DEF RiskLevels
      <4>2. CASE i \in 1..n
        <5>1. rules[i].escalate <= a.risk /\ rules[i].escalate \in RiskLevels
          BY <1>3, <2>2, <2>3, <2>8, <2>11, <3>6, <4>2, Zenon
        <5> QED
          BY <2>6, <3>4, <5>1 DEF RiskLevels
      <4> QED
        BY <2>7, <4>1, <4>2, Zenon
    <3>7. Fits(n + 1)
      BY <3>1, <3>2, <3>3, <3>5, <3>6, Zenon
    <3> HIDE DEF Fits
    <3> QED
      BY <2>1, <3>7, Zenon
  <2> QED
    BY <2>9, <2>10, <2>11, Zenon
<1>7. Fits(N)
  <2> HIDE DEF Fits
  <2>1. 0 \in T /\ \A n \in 0..N - 1 : n \in T => n + 1 \in T
    BY <1>5, <1>6, Zenon
  <2>2. \A n \in 0..N : n \in T
    <3> HIDE DEF T
    <3> QED
      BY <2>1, UpTo, Zenon
  <2> QED
    BY <2>2
<1>8. PICK a \in Assessed : a = g[N]
  OBVIOUS
<1>9. a.error = None =>
        /\ \A r \in Range(rules) : RuleError(r, args, touched) = None
        /\ a.risk \in Raised(t, args)
        /\ \A y \in Raised(t, args) : y <= a.risk
  <2> SUFFICES ASSUME a.error = None
               PROVE  /\ \A r \in Range(rules) : RuleError(r, args, touched) = None
                      /\ a.risk \in Raised(t, args)
                      /\ \A y \in Raised(t, args) : y <= a.risk
    BY Zenon
  <2>1. \A r \in Range(rules) : RuleError(r, args, touched) = None
    BY <1>2, <1>7, <1>8, Zenon
  <2>2. a.risk \in Raised(t, args)
    BY <1>0, <1>3, <1>7, <1>8, Zenon DEF Raised
  <2>3. \A y \in Raised(t, args) : y <= a.risk
    BY <1>0, <1>2, <1>7, <1>8, Zenon DEF Raised
  <2> QED
    BY <2>1, <2>2, <2>3, Zenon
<1>10. a.error # None => \E r \in Range(rules) : a.error = RuleError(r, args, touched)
  BY <1>3, <1>7, <1>8, Zenon
<1> QED
  BY <1>0, <1>4, <1>8, <1>9, <1>10, Zenon DEF IsAssessment

-----------------------------------------------------------------------------
(* Contracts of a registry that loaded                                     *)

\* What from_toml_str has checked of a tool with a contract, and what a call
\* brings to it.
LEMMA LoadedContract ==
  ASSUME NEW f \in RegistryFiles, NEW s, RegistryOk(f, s), NEW q \in Questions,
         NEW n \in ToolNames(f), HasContract(Tool(f, n))
  PROVE  /\ Tool(f, n) \in RegistryTool
         /\ ContractOf(Tool(f, n)).paths = Range(Tool(f, n).paths)
         /\ SoundPaths(Range(Tool(f, n).paths))
         /\ \A a \in PathNames(Range(Tool(f, n).paths)) :
              a \in DOMAIN q.args /\ IsValue(q.args[a])
         /\ Tool(f, n).risk \in RiskLevels
         /\ \A r \in Range(Tool(f, n).rules) : r.escalate \in RiskLevels
<1>1. PICK t \in Range(f.tools) : t = Tool(f, n)
  BY Zenon DEF ToolNames, Tool
<1>2. f.tools \in Seq(RegistryTool) /\ \A p \in Range(t.paths) : p.argument # None
  BY RegistryAssumption, Zenon
<1>3. PICK i \in DOMAIN f.tools : t = f.tools[i]
  BY Zenon DEF Range
<1>4. t \in RegistryTool
  BY <1>2, <1>3
<1>5. t.risk \in RiskLevels /\ EffectContractOk(f, t) /\ RiskRulesOk(t)
  BY <1>3, Zenon DEF RegistryOk
<1>6. /\ \A j \in DOMAIN t.paths : PathArgumentOk(t.paths[j])
      /\ ContractOk(t.arguments, t.effects, t.paths)
  BY <1>1, <1>5, Zenon DEF EffectContractOk
<1>7. t.paths \in Seq(PathArgument) /\ t.arguments \in Seq(Name)
  BY <1>4, Zenon DEF RegistryTool
<1>8. SoundPaths(Range(t.paths))
  <2>1. Range(t.paths) \subseteq PathArgument
    BY <1>7 DEF Range
  <2>3. \A p \in Range(t.paths) : PathArgumentOk(p)
    BY <1>6, Zenon DEF Range
  <2>4. \A p, o \in Range(t.paths) : p.argument = o.argument => p = o
    BY <1>6, Zenon DEF Range, ContractOk
  <2>5. DependenciesOk(Range(t.paths))
    BY <1>6, Zenon DEF ContractOk
  <2> QED
    BY <1>2, <2>1, <2>3, <2>4, <2>5, Zenon DEF SoundPaths
<1>9. ASSUME NEW a \in PathNames(Range(t.paths))
      PROVE  a \in DOMAIN q.args /\ IsValue(q.args[a])
  <2>1. a \in Range(t.arguments) /\ a # "" /\ a # None
    <3>1. PICK p \in Range(t.paths) : p.argument = a
      BY Zenon DEF PathNames
    <3>2. PICK j \in DOMAIN t.paths : p = t.paths[j]
      BY Zenon DEF Range
    <3>3. a \in Range(t.arguments) /\ "" \notin Range(t.arguments)
      BY <1>6, <3>1, <3>2, Zenon DEF ContractOk
    <3> QED
      BY <1>2, <3>1, <3>3, Zenon
  <2>2. a \in ArgumentNames
    <3>1. Range(t.arguments) \in {Range(x.arguments) : x \in Range(f.tools)}
      BY Zenon
    <3>2. a \in UNION {Range(x.arguments) : x \in Range(f.tools)}
      BY <2>1, <3>1, Zenon
    <3>3. UNION {Range(x.arguments) : x \in Range(f.tools)} \in
            {UNION {Range(x.arguments) : x \in Range(e.tools)} : e \in RegistryFiles}
      BY Zenon
    <3>4. a \in UNION {UNION {Range(x.arguments) : x \in Range(e.tools)} : e \in RegistryFiles}
      BY <3>2, <3>3, Zenon
    <3> QED
      BY <2>1, <3>4, Zenon DEF ArgumentNames
  <2> QED
    BY <2>2, QuestionAssumption, Zenon
<1>10. \A r \in Range(t.rules) : r.escalate \in RiskLevels
  <2>1. CASE t.rules = <<>>
    BY <2>1 DEF Range
  <2>2. CASE t.rules # <<>>
    BY <1>5, <2>2, Zenon DEF RiskRulesOk
  <2> QED
    BY <2>1, <2>2, Zenon
<1>11. ContractOf(t).paths = Range(t.paths)
  BY Zenon DEF ContractOf, Contract
<1> QED
  BY <1>1, <1>4, <1>5, <1>8, <1>9, <1>10, <1>11, Zenon

\* An argument that is required or has a default gives some text, unless it is
\* the empty list.
LEMMA DeterminateText ==
  ASSUME NEW p \in PathArgument, NEW v, IsValue(v), v # List(<<>>),
         p.required \/ p.default # {}, RawError(p, v) = None
  PROVE  RawPaths(p, v) # {}
<1>1. CASE v.kind \in {"absent", "null"}
  <2>1. v.items = <<>>
    BY <1>1, Zenon DEF IsValue
  <2>2. p.default # {}
    BY <1>1, Zenon DEF RawError, None
  <2> QED
    BY <1>1, <2>2, Zenon DEF RawPaths
<1>2. CASE v.kind \in {"true", "false", "other"}
  BY <1>2, Zenon DEF RawError, None
<1>3. CASE v.kind \in {"text", "list"}
  <2>1. v.items \in Seq(RawPath) /\ v.items # <<>>
    <3>1. v.items \in Seq(RawPath)
      BY Zenon DEF IsValue
    <3>2. CASE v.kind = "text"
      BY <3>1, <3>2 DEF IsValue
    <3>3. CASE v.kind = "list"
      <4>1. v = [kind |-> v.kind, items |-> v.items]
        BY Zenon DEF IsValue
      <4> QED
        BY <3>1, <3>3, <4>1, Zenon DEF List
    <3> QED
      BY <1>3, <3>1, <3>2, <3>3, Zenon
  <2>2. 1 \in DOMAIN v.items
    BY <2>1
  <2>3. v.items[1] \in Range(v.items)
    BY <2>2, Zenon DEF Range
  <2>4. RawPaths(p, v) = Range(v.items)
    BY <1>3, Zenon DEF RawPaths
  <2> QED
    BY <2>3, <2>4, Zenon
<1>4. v.kind \in {"absent", "null", "true", "false", "other", "text", "list"}
  BY Zenon DEF IsValue
<1> QED
  BY <1>1, <1>2, <1>3, <1>4, Zenon

\* Among the arguments of a constructed contract a dependency never fails a
\* call, unless a base is given as an empty list.
LEMMA DependenciesHold ==
  ASSUME NEW c, SoundPaths(c.paths), NEW args,
         \A a \in PathNames(c.paths) : IsValue(args[a]) /\ args[a] # List(<<>>)
  PROVE  \A a \in PathNames(c.paths) :
           Resolution(c, args)[a].error # "InvalidPathDependency"
<1>1. PICK paths : paths = c.paths
  BY Zenon
<1>2. PICK R \in [PathNames(paths) -> Result] :
        /\ R = Resolution(c, args)
        /\ \A a \in PathNames(paths) : R[a] = ResolveOn(paths, args, a, Below(paths, a, AtRoot, R))
  BY <1>1, ResolutionSettles, Zenon
<1> DEFINE Determinate(a) == PathOf(paths, a).required \/ PathOf(paths, a).default # {}
           T == {a \in PathNames(paths) :
                   /\ R[a].error # "InvalidPathDependency"
                   /\ Determinate(a) /\ R[a].error = None => R[a].paths # {}}
<1>3. ASSUME NEW a \in PathNames(paths),
             PathOf(paths, a).base = None \/ PathOf(paths, a).base \in T
      PROVE  a \in T
  <2>1. PICK p \in PathArgument : p = PathOf(paths, a)
    BY <1>1, PathOfFacts, Zenon DEF SoundPaths
  <2>2. p.base = None \/ p.base \in PathNames(paths)
    BY <1>1, <2>1, PathOfFacts, Zenon
  <2>3. p.base # None => Determinate(p.base)
    <3>1. p \in paths
      BY <1>1, <2>1, PathOfFacts, Zenon
    <3> QED
      BY <1>1, <3>1, Zenon DEF SoundPaths, DependenciesOk
  <2>4. PICK base \in Result : base = Below(paths, a, AtRoot, R)
    BY <1>1, <2>1, <2>2, AtRootType, Zenon DEF Below
  <2>5. base.error # "InvalidPathDependency"
    BY <1>3, <2>1, <2>4, Zenon DEF Below, AtRoot, None
  <2>6. base.error = None => base.paths # {}
    BY <1>3, <2>1, <2>3, <2>4, Zenon DEF Below, AtRoot
  <2>7. PICK raw : raw = RawPaths(p, args[a])
    BY Zenon
  <2> DEFINE joined == {Joined(t, b) : t \in raw, b \in base.paths}
  <2>9. ASSUME raw # {}, base.paths # {} PROVE joined # {}
    <3>1. PICK t \in raw : TRUE
      BY <2>9, Zenon
    <3>2. PICK b \in base.paths : TRUE
      BY <2>9, Zenon
    <3>3. Joined(t, b) \in joined
      OBVIOUS
    <3> HIDE DEF joined
    <3> QED
      BY <3>3, Zenon
  <2> HIDE DEF joined
  <2>10. Determinate(a) /\ RawError(p, args[a]) = None => raw # {}
    BY <1>1, <2>1, <2>7, DeterminateText, Zenon
  <2>11. RawError(p, args[a]) # "InvalidPathDependency"
    BY Zenon DEF RawError, None
  <2>12. R[a] = ResolveOn(paths, args, a, base)
    BY <1>2, <2>4, Zenon
  <2>13. CASE RawError(p, args[a]) # None
    <3>1. R[a].error = RawError(p, args[a])
      BY <2>1, <2>12, <2>13 DEF ResolveOn, Failed
    <3> QED
      BY <2>11, <2>13, <3>1, Zenon
  <2>14. CASE RawError(p, args[a]) = None /\ raw = {}
    <3>1. R[a].error = None /\ ~Determinate(a)
      BY <2>1, <2>7, <2>10, <2>12, <2>14 DEF ResolveOn, Failed
    <3> HIDE DEF Determinate
    <3> QED
      BY <3>1, Zenon DEF None
  <2>15. CASE RawError(p, args[a]) = None /\ raw # {} /\ base.error # None
    <3>1. R[a].error = base.error
      BY <2>1, <2>2, <2>7, <2>12, <2>15 DEF ResolveOn, Failed
    <3> QED
      BY <2>5, <2>15, <3>1, Zenon
  <2>16. CASE RawError(p, args[a]) = None /\ raw # {} /\ base.error = None /\ Refused \in raw
    <3>1. R[a].error = "UnsupportedPathSyntax"
      BY <2>1, <2>2, <2>6, <2>7, <2>12, <2>16 DEF ResolveOn, Failed
    <3> QED
      BY <3>1, Zenon DEF None
  <2>17. CASE RawError(p, args[a]) = None /\ raw # {} /\ base.error = None /\ Refused \notin raw
    <3>1. R[a].error = None /\ R[a].paths = joined
      BY <2>1, <2>2, <2>6, <2>7, <2>12, <2>17 DEF ResolveOn, joined
    <3> QED
      BY <2>6, <2>9, <2>17, <3>1, Zenon DEF None
  <2> QED
    BY <2>13, <2>14, <2>15, <2>16, <2>17, Zenon
<1>4. PathNames(paths) \subseteq T
  <2>1. SoundPaths(paths)
    BY <1>1, Zenon
  <2>2. \A a \in PathNames(paths) :
          PathOf(paths, a).base = None \/ PathOf(paths, a).base \in T => a \in T
    BY <1>3, Zenon
  <2> HIDE DEF T
  <2> QED
    BY <2>1, <2>2, ChainInduction, Zenon
<1> QED
  BY <1>1, <1>2, <1>4, Zenon

-----------------------------------------------------------------------------
(* The daemon and the reconciliation tool                                  *)

LEMMA PolicyInit == Init => PolicyInductive
BY Zenon DEF Init, PolicyInductive

LEMMA PolicyStep == PolicyInductive /\ [Next]_vars => PolicyInductive'
<1> SUFFICES ASSUME PolicyInductive, [Next]_vars PROVE PolicyInductive'
  BY Zenon
<1> HIDE DEF Nothing
<1>1. ASSUME NEW d \in References, Refresh(d) PROVE PolicyInductive'
  BY <1>1, Zenon DEF PolicyInductive, Refresh
<1>2. CASE Start
  BY <1>2, Zenon DEF PolicyInductive, Start
<1>3. ASSUME NEW m \in Manifests, Reconcile(m) PROVE PolicyInductive'
  <2>1. asked = {}
    BY <1>3, Zenon DEF PolicyInductive, Reconcile
  <2> QED
    BY <1>3, <2>1, Zenon DEF PolicyInductive, Reconcile
<1>4. ASSUME NEW q \in Questions, Ask(q) PROVE PolicyInductive'
  <2>1. compared = {} /\ outcome = Nothing
    BY <1>4, Zenon DEF PolicyInductive, Ask
  <2> QED
    BY <1>4, <2>1, Zenon DEF PolicyInductive, Ask
<1>5. CASE Evaluate
  <2>1. PICK q \in Questions : asked = {q} /\ stage = "serving" /\ compared = {}
    BY <1>5, Zenon DEF PolicyInductive, Evaluate
  <2>2. outcome' = EvaluateWithGrant(file, q)
    BY <1>5, <2>1, Zenon DEF Evaluate
  <2> QED
    BY <1>5, <2>1, <2>2, Zenon DEF PolicyInductive, Evaluate
<1>6. CASE Answered
  BY <1>6, Zenon DEF PolicyInductive, Answered
<1>7. CASE UNCHANGED vars
  BY <1>7, Zenon DEF PolicyInductive, vars
<1> QED
  BY <1>1, <1>2, <1>3, <1>4, <1>5, <1>6, <1>7, Zenon DEF Next

LEMMA PolicyAlways == Spec => []PolicyInductive
BY PolicyInit, PolicyStep, PTL DEF Spec

\* A daemon that serves was built with contracts reviewed at the snapshot's
\* commit, for tools of the snapshot only, and no contract of it fails a call
\* over how its path arguments depend on each other, whatever the registry,
\* the references that refresh the snapshot and the call, unless a base is
\* given as an empty list.
THEOREM ServingReviewed == Spec => []ServingIsReviewed
<1>1. PolicyInductive => ServingIsReviewed
  <2> SUFFICES ASSUME PolicyInductive, stage = "serving"
               PROVE  /\ file.source = snapshot.sha
                      /\ ToolNames(file) \subseteq snapshot.tools
                      /\ \A q \in asked :
                           (/\ q.tool \in ToolNames(file)
                            /\ HasContract(Tool(file, q.tool))
                            /\ List(<<>>) \notin {q.args[a] : a \in DOMAIN q.args}) =>
                               "InvalidPathDependency" \notin
                                 Normalize(ContractOf(Tool(file, q.tool)), q.args).errors
    BY Zenon DEF ServingIsReviewed
  <2>1. file \in RegistryFiles /\ EmbeddedOk(file, snapshot)
    BY Zenon DEF PolicyInductive
  <2>2. file.source = snapshot.sha /\ RegistryOk(file, snapshot)
    BY <2>1, Zenon DEF EmbeddedOk, RegistryOk, SourceOk
  <2>3. ToolNames(file) \subseteq snapshot.tools
    BY <2>1, Zenon DEF EmbeddedOk, Coverage
  <2>4. ASSUME NEW q \in asked, q.tool \in ToolNames(file), HasContract(Tool(file, q.tool)),
               List(<<>>) \notin {q.args[a] : a \in DOMAIN q.args}
        PROVE  "InvalidPathDependency" \notin
                 Normalize(ContractOf(Tool(file, q.tool)), q.args).errors
    <3>1. q \in Questions
      BY Zenon DEF PolicyInductive
    <3>2. PICK c : c = ContractOf(Tool(file, q.tool))
      BY Zenon
    <3>3. /\ SoundPaths(c.paths)
          /\ \A a \in PathNames(c.paths) : a \in DOMAIN q.args /\ IsValue(q.args[a])
      BY <2>1, <2>2, <2>4, <3>1, <3>2, LoadedContract, Zenon
    <3>4. \A a \in PathNames(c.paths) : q.args[a] # List(<<>>)
      BY <2>4, <3>3, Zenon
    <3>5. \A a \in PathNames(c.paths) :
            Resolution(c, q.args)[a].error # "InvalidPathDependency"
      BY <3>3, <3>4, DependenciesHold, Zenon
    <3>6. DOMAIN Resolution(c, q.args) = PathNames(c.paths)
      BY <3>3, ResolutionSettles, Zenon
    <3>7. "InvalidPathDependency" \notin
            {Resolution(c, q.args)[a].error : a \in DOMAIN Resolution(c, q.args)}
      BY <3>5, <3>6, Zenon
    <3>8. PICK errors : errors = {Resolution(c, q.args)[a].error :
                                    a \in DOMAIN Resolution(c, q.args)} \ {None}
      BY Zenon
    <3>9. Normalize(c, q.args).errors \in {{"UnknownArgument"}, errors, {"NoEffects"}, {}}
      BY <3>8, Zenon DEF Normalize
    <3> QED
      BY <3>2, <3>7, <3>8, <3>9
  <2> QED
    BY <2>2, <2>3, <2>4, Zenon
<1> QED
  BY <1>1, PolicyAlways, PTL

\* When the reconciliation tool reports an exact match, the upstream contract
\* and the registry's make the same of every call, and no risk rule finds the
\* argument of a call malformed that keeps to the declared shapes, whatever
\* the registry, the manifest and the call.
THEOREM ExactMatchHolds == Spec => []ExactMatchAgrees
<1>1. PolicyInductive => ExactMatchAgrees
  <2> SUFFICES ASSUME PolicyInductive, outcome.kind = "exact",
                      NEW m \in compared, NEW n \in ToolNames(m), NEW q \in Questions
               PROVE  LET up == Tool(m, n)
                          down == Tool(file, n)
                          effects == Normalize(ContractOf(down), q.args)
                      IN  /\ Normalize(ContractOf(up), q.args) = effects
                          /\ effects.errors = {} /\ Conforms(up, q.args) =>
                               Assessment(down, q.args, effects.touched).error # "MalformedArgument"
    BY Zenon DEF ExactMatchAgrees
  <2>1. file \in RegistryFiles /\ Reconciliation(file, snapshot, m) = "exact"
    BY DEF PolicyInductive
  <2>2. /\ EmbeddedOk(file, snapshot) /\ ToolNames(m) \subseteq ToolNames(file)
        /\ IsExactMatch(Differences(file, m))
    BY <2>1, Zenon DEF Reconciliation
  <2>3. PICK up : up = Tool(m, n)
    BY Zenon
  <2>4. PICK down : down = Tool(file, n)
    BY Zenon
  <2>5. n \in Coverage(file, {}).modelled
    BY <2>2, Zenon DEF IsExactMatch, Differences
  <2>6. n \in ToolNames(file) /\ HasContract(down)
    BY <2>4, <2>5, Zenon DEF Coverage
  <2>7. ContractOf(up) = ContractOf(down)
    BY <2>2, <2>3, <2>4, <2>5, Zenon DEF IsExactMatch, Differences
  <2>8. \A r \in Range(down.rules) : ShapeFits(up, r)
    BY <2>2, <2>3, <2>4, <2>5, Zenon DEF IsExactMatch, Differences
  <2>9. PICK touched : touched = Normalize(ContractOf(down), q.args).touched
    BY Zenon
  <2>10. ASSUME Conforms(up, q.args)
         PROVE  Assessment(down, q.args, touched).error # "MalformedArgument"
    <3>1. ASSUME NEW r \in Range(down.rules)
          PROVE  RuleError(r, q.args, touched) # "MalformedArgument"
      <4>1. PICK s \in Range(up.shapes) :
              /\ s.argument = r.argument
              /\ IF r.kind = "cardinality"
                 THEN s.kind = "Collection" /\ s.dimension = r.dimension
                 ELSE s.kind = "Boolean"
        BY <2>8, <3>1, Zenon DEF ShapeFits
      <4>2. IF r.kind = "cardinality" THEN q.args[r.argument].kind = "list"
            ELSE q.args[r.argument].kind \in {"absent", "true", "false"}
        BY <2>10, <4>1, Zenon DEF Conforms
      <4> QED
        BY <4>2, Zenon DEF RuleError, None
    <3>2. /\ down \in RegistryTool /\ down.risk \in RiskLevels
          /\ \A r \in Range(down.rules) : r.escalate \in RiskLevels
      BY <2>1, <2>2, <2>4, <2>6, LoadedContract, Zenon DEF EmbeddedOk
    <3>3. down.rules \in Seq(RiskRule)
      BY <3>2, Zenon DEF RegistryTool
    <3>4. IsAssessment(Assessment(down, q.args, touched), down, q.args, touched)
      BY <3>2, <3>3, AssessmentFacts, Zenon
    <3> QED
      BY <3>1, <3>4, Zenon DEF None, IsAssessment
  <2> QED
    BY <2>3, <2>4, <2>7, <2>9, <2>10, Zenon
<1> QED
  BY <1>1, PolicyAlways, PTL

-----------------------------------------------------------------------------
(* Effects: what normalize makes of a call                                 *)

\* The part of WellFormed that is about one path argument.
Shaped(paths, args, a) ==
    LET p == PathOf(paths, a)
        v == args[a]
    IN  /\ v.kind \in {"absent", "null", "text", "list"}
        /\ {Refused, NoText} \cap Range(v.items) = {}
        /\ v.kind \in {"absent", "null"} => p.default # {} \/ ~p.required
        /\ RawPaths(p, v) # {} /\ p.base # None =>
              RawPaths(PathOf(paths, p.base), args[p.base]) # {}

LEMMA WellFormedByName ==
  ASSUME NEW c, SoundPaths(c.paths), NEW args
  PROVE  WellFormed(c, args) <=>
           /\ \A a \in DOMAIN args : args[a] # Absent => a \in c.arguments
           /\ \A a \in PathNames(c.paths) : Shaped(c.paths, args, a)
<1> DEFINE Each(p) == LET v == args[p.argument]
                      IN  /\ v.kind \in {"absent", "null", "text", "list"}
                          /\ {Refused, NoText} \cap Range(v.items) = {}
                          /\ v.kind \in {"absent", "null"} => p.default # {} \/ ~p.required
                          /\ RawPaths(p, v) # {} /\ p.base # None =>
                               LET b == PathOf(c.paths, p.base)
                               IN  RawPaths(b, args[p.base]) # {}
<1>1. ASSUME NEW p \in c.paths
      PROVE  Each(p) <=> Shaped(c.paths, args, p.argument)
  <2>1. PathOf(c.paths, p.argument) = p
    BY PathOfFacts, Zenon
  <2> QED
    BY <2>1, Zenon DEF Shaped
<1>2. WellFormed(c, args) <=>
           /\ \A a \in DOMAIN args : args[a] # Absent => a \in c.arguments
           /\ \A p \in c.paths : Each(p)
  BY Zenon DEF WellFormed
<1> HIDE DEF Each
<1>3. (\A p \in c.paths : Each(p)) <=> \A a \in PathNames(c.paths) : Shaped(c.paths, args, a)
  <2>1. ASSUME \A p \in c.paths : Each(p), NEW a \in PathNames(c.paths)
        PROVE  Shaped(c.paths, args, a)
    <3>1. PathOf(c.paths, a) \in c.paths /\ PathOf(c.paths, a).argument = a
      BY PathOfFacts, Zenon
    <3> QED
      BY <1>1, <2>1, <3>1, Zenon
  <2>2. ASSUME \A a \in PathNames(c.paths) : Shaped(c.paths, args, a), NEW p \in c.paths
        PROVE  Each(p)
    <3>1. p.argument \in PathNames(c.paths)
      BY PathOfFacts, Zenon
    <3> QED
      BY <1>1, <2>2, <3>1, Zenon
  <2> QED
    BY <2>1, <2>2, Zenon
<1> QED
  BY <1>2, <1>3, Zenon

\* The text errors of an argument, against its shape.
LEMMA RawErrorFacts ==
  ASSUME NEW p \in PathArgument, PathArgumentOk(p), NEW v, IsValue(v)
  PROVE  /\ RawError(p, v) = None <=>
              /\ v.kind \in {"absent", "null", "text", "list"}
              /\ NoText \notin Range(v.items)
              /\ v.kind \in {"absent", "null"} => p.default # {} \/ ~p.required
         /\ Refused \in RawPaths(p, v) <=> Refused \in Range(v.items)
<1>1. v.kind \in {"absent", "null", "true", "false", "other", "text", "list"}
  BY Zenon DEF IsValue
<1>2. v.kind \in {"absent", "null"} => Range(v.items) = {}
  BY DEF IsValue, Range
<1>3. p.required \in BOOLEAN /\ Refused \notin p.default
  BY Zenon DEF PathArgument, PathArgumentOk
<1>4. RawError(p, v) = None <=>
              /\ v.kind \in {"absent", "null", "text", "list"}
              /\ NoText \notin Range(v.items)
              /\ v.kind \in {"absent", "null"} => p.default # {} \/ ~p.required
  <2>1. CASE v.kind \in {"absent", "null"}
    BY <1>2, <1>3, <2>1, Zenon DEF RawError, None
  <2>2. CASE v.kind \in {"true", "false", "other"}
    BY <2>2, Zenon DEF RawError, None
  <2>3. CASE v.kind \in {"text", "list"}
    BY <2>3, Zenon DEF RawError, None
  <2> QED
    BY <1>1, <2>1, <2>2, <2>3, Zenon
<1>5. Refused \in RawPaths(p, v) <=> Refused \in Range(v.items)
  BY <1>2, <1>3, Zenon DEF RawPaths
<1> QED
  BY <1>4, <1>5, Zenon

\* An argument that resolves leads to the places its bases name, and its
\* effects fall there.
Landed(paths, args, R, A, a) ==
    R[a].error = None =>
        /\ R[a].paths = A[a]
        /\ A[a] # {} <=> RawPaths(PathOf(paths, a), args[a]) # {}
        /\ EffectsOn(PathOf(paths, a).effects, A[a]) \subseteq R[a].touched
        /\ R[a].touched \subseteq
             UNION {EffectsOn(PathOf(paths, x).effects, A[x]) : x \in PathNames(paths)}

LEMMA SpotsFacts ==
  ASSUME NEW paths, NEW args, NEW a, NEW from
  PROVE  Spots(paths, args, a, from) # {} <=>
           RawPaths(PathOf(paths, a), args[a]) # {} /\ from # {}
<1>0. PICK raw : raw = RawPaths(PathOf(paths, a), args[a])
  BY Zenon
<1>1. ASSUME Spots(paths, args, a, from) # {}
      PROVE  raw # {} /\ from # {}
  <2>1. PICK x \in Spots(paths, args, a, from) : TRUE
    BY <1>1, Zenon
  <2>2. PICK t \in raw, b \in from : x = Joined(t, b)
    BY <1>0, <2>1 DEF Spots
  <2> QED
    BY <2>2, Zenon
<1>2. ASSUME raw # {}, from # {}
      PROVE  Spots(paths, args, a, from) # {}
  <2>1. PICK t \in raw : TRUE
    BY <1>2, Zenon
  <2>2. PICK b \in from : TRUE
    BY <1>2, Zenon
  <2>3. Joined(t, b) \in Spots(paths, args, a, from)
    BY <1>0 DEF Spots
  <2> QED
    BY <2>3, Zenon
<1> QED
  BY <1>0, <1>1, <1>2, Zenon

\* What a call brings to a constructed contract: a value for each of its paths.
Valued(paths, args) == \A a \in PathNames(paths) : IsValue(args[a])

\* resolve_path_argument succeeds exactly when its value is well-formed and, if
\* it names anything, stays below a base that was itself resolved to something.
LEMMA ResolveOnErrors ==
  ASSUME NEW paths, NEW args, NEW a, NEW base, NEW p, NEW raw, NEW r,
         p = PathOf(paths, a), raw = RawPaths(p, args[a]),
         p.base = None \/ p.base \in PathNames(paths),
         r = ResolveOn(paths, args, a, base)
  PROVE  r.error = None <=>
           /\ RawError(p, args[a]) = None
           /\ raw # {} => Refused \notin raw /\ base.error = None /\ base.paths # {}
<1>1. CASE RawError(p, args[a]) # None
  BY <1>1 DEF ResolveOn, Failed
<1>2. CASE RawError(p, args[a]) = None /\ raw = {}
  BY <1>2 DEF ResolveOn, Failed
<1>3. CASE RawError(p, args[a]) = None /\ raw # {}
  <2>1. CASE base.error # None
    BY <1>3, <2>1 DEF ResolveOn, Failed
  <2>2. CASE base.error = None /\ base.paths = {}
    BY <1>3, <2>2 DEF ResolveOn, Failed, None
  <2>3. CASE base.error = None /\ base.paths # {} /\ Refused \in raw
    BY <1>3, <2>3 DEF ResolveOn, Failed, None
  <2>4. CASE base.error = None /\ base.paths # {} /\ Refused \notin raw
    BY <1>3, <2>4 DEF ResolveOn
  <2> QED
    BY <2>1, <2>2, <2>3, <2>4, Zenon
<1> QED
  BY <1>1, <1>2, <1>3, Zenon

LEMMA Landing ==
  ASSUME NEW c, SoundPaths(c.paths), NEW args, Valued(c.paths, args)
  PROVE  \A a \in PathNames(c.paths) :
           Landed(c.paths, args, Resolution(c, args), Locations(c.paths, args), a)
<1>1. PICK paths : paths = c.paths
  BY Zenon
<1>2. PICK R \in [PathNames(paths) -> Result] :
        /\ R = Resolution(c, args)
        /\ \A a \in PathNames(paths) : R[a] = ResolveOn(paths, args, a, Below(paths, a, AtRoot, R))
  BY <1>1, ResolutionSettles, Zenon DEF Valued
<1>3. PICK A \in [PathNames(paths) -> SUBSET Paths] :
        /\ A = Locations(paths, args)
        /\ \A a \in PathNames(paths) : A[a] = Spots(paths, args, a, Below(paths, a, {Root}, A))
  BY <1>1, LocationsSettle, Zenon DEF Valued
<1> DEFINE T == {a \in PathNames(paths) : Landed(paths, args, R, A, a)}
<1>4. ASSUME NEW a \in PathNames(paths),
             PathOf(paths, a).base = None \/ PathOf(paths, a).base \in T
      PROVE  a \in T
  <2> SUFFICES ASSUME R[a].error = None
               PROVE  /\ R[a].paths = A[a]
                      /\ A[a] # {} <=> RawPaths(PathOf(paths, a), args[a]) # {}
                      /\ EffectsOn(PathOf(paths, a).effects, A[a]) \subseteq R[a].touched
                      /\ R[a].touched \subseteq
                           UNION {EffectsOn(PathOf(paths, x).effects, A[x]) : x \in PathNames(paths)}
    BY Zenon DEF Landed
  <2>1. PICK p \in PathArgument : p = PathOf(paths, a)
    BY <1>1, PathOfFacts, Zenon DEF SoundPaths
  <2>2. p.base = None \/ p.base \in PathNames(paths)
    BY <1>1, <2>1, PathOfFacts, Zenon
  <2>3. PICK raw : raw = RawPaths(p, args[a])
    BY Zenon
  <2>4. PICK base \in Result : base = Below(paths, a, AtRoot, R)
    BY <2>1, <2>2, AtRootType, Zenon DEF Below
  <2>5. PICK from : from = Below(paths, a, {Root}, A)
    BY Zenon
  <2>6. R[a] = ResolveOn(paths, args, a, base) /\ A[a] = Spots(paths, args, a, from)
    BY <1>2, <1>3, <2>4, <2>5, Zenon
  <2>7. A[a] = {Joined(t, b) : t \in raw, b \in from}
    BY <2>1, <2>3, <2>6 DEF Spots
  <2>8. A[a] # {} <=> raw # {} /\ from # {}
    BY <2>1, <2>3, <2>6, SpotsFacts
  <2>9. PICK reach : reach = UNION {EffectsOn(PathOf(paths, x).effects, A[x]) : x \in PathNames(paths)}
    BY Zenon
  <2>10. EffectsOn(p.effects, A[a]) \subseteq reach
    <3>1. EffectsOn(p.effects, A[a]) \in {EffectsOn(PathOf(paths, x).effects, A[x]) : x \in PathNames(paths)}
      BY <2>1, Zenon
    <3> QED
      BY <2>9, <3>1, Zenon
  <2>11. CASE raw = {}
    <3>1. A[a] = {}
      BY <2>8, <2>11, Zenon
    <3>2. R[a].paths = {} /\ R[a].touched = {}
      BY <2>1, <2>3, <2>6, <2>11 DEF ResolveOn, Failed
    <3>3. EffectsOn(p.effects, {}) = {}
      BY EffectsOnFacts
    <3> QED
      BY <2>1, <2>3, <2>11, <3>1, <3>2, <3>3, Zenon
  <2>12. CASE raw # {}
    <3>1. /\ base.error = None /\ base.paths # {}
          /\ RawError(p, args[a]) = None /\ Refused \notin raw
      BY <2>1, <2>2, <2>3, <2>6, <2>12, ResolveOnErrors
    <3>2. base.paths = from /\ base.touched \subseteq reach
      <4>1. CASE p.base = None
        BY <2>1, <2>4, <2>5, <4>1, Zenon DEF Below, AtRoot
      <4>2. CASE p.base # None
        <5>1. base = R[p.base] /\ from = A[p.base] /\ Landed(paths, args, R, A, p.base)
          BY <1>4, <2>1, <2>4, <2>5, <4>2, Zenon DEF Below
        <5> QED
          BY <2>9, <3>1, <5>1, Zenon DEF Landed
      <4> QED
        BY <4>1, <4>2, Zenon
    <3>3. R[a].paths = A[a] /\ R[a].touched = base.touched \cup EffectsOn(p.effects, A[a])
      BY <2>1, <2>2, <2>3, <2>6, <2>7, <2>12, <3>1, <3>2 DEF ResolveOn
    <3>4. A[a] # {}
      BY <2>8, <2>12, <3>1, <3>2, Zenon
    <3> QED
      BY <2>1, <2>3, <2>9, <2>10, <2>12, <3>2, <3>3, <3>4, Zenon
  <2> QED
    BY <2>11, <2>12, Zenon
<1>5. PathNames(paths) \subseteq T
  <2>1. SoundPaths(paths)
    BY <1>1, Zenon
  <2>2. \A a \in PathNames(paths) :
          PathOf(paths, a).base = None \/ PathOf(paths, a).base \in T => a \in T
    BY <1>4, Zenon
  <2> HIDE DEF T
  <2> QED
    BY <2>1, <2>2, ChainInduction, Zenon
<1> QED
  BY <1>1, <1>2, <1>3, <1>5, Zenon

\* No argument fails exactly when all of them are well formed.
LEMMA ErrorsAreShapes ==
  ASSUME NEW c, SoundPaths(c.paths), NEW args, Valued(c.paths, args)
  PROVE  (\A a \in PathNames(c.paths) : Resolution(c, args)[a].error = None) <=>
           \A a \in PathNames(c.paths) : Shaped(c.paths, args, a)
<1>1. PICK paths : paths = c.paths
  BY Zenon
<1>2. PICK R \in [PathNames(paths) -> Result] :
        /\ R = Resolution(c, args)
        /\ \A a \in PathNames(paths) : R[a] = ResolveOn(paths, args, a, Below(paths, a, AtRoot, R))
  BY <1>1, ResolutionSettles, Zenon DEF Valued
<1>3. PICK A : A = Locations(paths, args)
  BY Zenon
<1>4. \A a \in PathNames(paths) : Landed(paths, args, R, A, a)
  BY <1>1, <1>2, <1>3, Landing, Zenon
<1> DEFINE Raw(a) == RawPaths(PathOf(paths, a), args[a])
<1>5. ASSUME NEW a \in PathNames(paths)
      PROVE  R[a].error = None <=>
               /\ RawError(PathOf(paths, a), args[a]) = None
               /\ Raw(a) # {} =>
                    /\ Refused \notin Raw(a)
                    /\ PathOf(paths, a).base # None =>
                         /\ R[PathOf(paths, a).base].error = None
                         /\ R[PathOf(paths, a).base].paths # {}
  <2>1. PICK p \in PathArgument : p = PathOf(paths, a)
    BY <1>1, PathOfFacts, Zenon DEF SoundPaths
  <2>2. p.base = None \/ p.base \in PathNames(paths)
    BY <1>1, <2>1, PathOfFacts, Zenon
  <2>3. PICK raw : raw = RawPaths(p, args[a])
    BY Zenon
  <2>4. PICK base \in Result : base = Below(paths, a, AtRoot, R)
    BY <2>1, <2>2, AtRootType, Zenon DEF Below
  <2>5. R[a] = ResolveOn(paths, args, a, base)
    BY <1>2, <2>4, Zenon
  <2>6. (base.error = None /\ base.paths # {}) <=>
          (p.base # None => R[p.base].error = None /\ R[p.base].paths # {})
    BY <2>1, <2>4, Zenon DEF Below, AtRoot
  <2>7. R[a].error = None <=>
               /\ RawError(p, args[a]) = None
               /\ raw # {} => Refused \notin raw /\ base.error = None /\ base.paths # {}
    BY <2>1, <2>2, <2>3, <2>5, ResolveOnErrors
  <2>8. Raw(a) = raw
    BY <2>1, <2>3, Zenon
  <2> HIDE DEF Raw
  <2>9. R[a].error = None <=>
               /\ RawError(p, args[a]) = None
               /\ Raw(a) # {} =>
                    /\ Refused \notin Raw(a)
                    /\ p.base # None => R[p.base].error = None /\ R[p.base].paths # {}
    BY <2>6, <2>7, <2>8, Zenon
  <2> QED
    BY <2>1, <2>9, Zenon
<1>6. ASSUME NEW a \in PathNames(paths)
      PROVE  Shaped(paths, args, a) <=>
               /\ RawError(PathOf(paths, a), args[a]) = None
               /\ Refused \notin Raw(a)
               /\ Raw(a) # {} /\ PathOf(paths, a).base # None => Raw(PathOf(paths, a).base) # {}
  <2>1. PathOf(paths, a) \in PathArgument /\ PathArgumentOk(PathOf(paths, a)) /\ IsValue(args[a])
    BY <1>1, PathOfFacts, Zenon DEF SoundPaths, Valued
  <2>2. PICK p \in PathArgument : p = PathOf(paths, a)
    BY <2>1, Zenon
  <2>3. PICK v : v = args[a]
    BY Zenon
  <2>4. /\ RawError(p, v) = None <=>
              /\ v.kind \in {"absent", "null", "text", "list"}
              /\ NoText \notin Range(v.items)
              /\ v.kind \in {"absent", "null"} => p.default # {} \/ ~p.required
        /\ Refused \in RawPaths(p, v) <=> Refused \in Range(v.items)
    BY <2>1, <2>2, <2>3, RawErrorFacts, Zenon
  <2>5. {Refused, NoText} \cap Range(v.items) = {} <=>
          Refused \notin Range(v.items) /\ NoText \notin Range(v.items)
    BY Zenon
  <2>6. Shaped(paths, args, a) <=>
          /\ v.kind \in {"absent", "null", "text", "list"}
          /\ {Refused, NoText} \cap Range(v.items) = {}
          /\ v.kind \in {"absent", "null"} => p.default # {} \/ ~p.required
          /\ RawPaths(p, v) # {} /\ p.base # None =>
              RawPaths(PathOf(paths, p.base), args[p.base]) # {}
    BY <2>2, <2>3, Zenon DEF Shaped
  <2> QED
    BY <2>2, <2>3, <2>4, <2>5, <2>6, Zenon
<1>7. ASSUME \A a \in PathNames(paths) : R[a].error = None, NEW a \in PathNames(paths)
      PROVE  Shaped(paths, args, a)
  <2>1. PathOf(paths, a).base # None => PathOf(paths, a).base \in PathNames(paths)
    BY <1>1, PathOfFacts, Zenon
  <2>2. PathOf(paths, a).base # None =>
          (R[PathOf(paths, a).base].paths # {} <=> Raw(PathOf(paths, a).base) # {})
    BY <1>4, <1>7, <2>1, Zenon DEF Landed
  <2>3. Refused \notin Raw(a)
    BY <1>5, <1>7, Zenon
  <2> HIDE DEF Raw
  <2> QED
    BY <1>5, <1>6, <1>7, <2>2, <2>3, Zenon
<1>8. ASSUME \A a \in PathNames(paths) : Shaped(paths, args, a)
      PROVE  \A a \in PathNames(paths) : R[a].error = None
  <2> DEFINE T == {a \in PathNames(paths) : R[a].error = None}
  <2>1. ASSUME NEW a \in PathNames(paths),
               PathOf(paths, a).base = None \/ PathOf(paths, a).base \in T
        PROVE  a \in T
    <3>1. PathOf(paths, a).base # None =>
            /\ PathOf(paths, a).base \in PathNames(paths)
            /\ R[PathOf(paths, a).base].error = None
      BY <2>1, Zenon
    <3>2. PathOf(paths, a).base # None =>
            (R[PathOf(paths, a).base].paths # {} <=> Raw(PathOf(paths, a).base) # {})
      BY <1>4, <3>1, Zenon DEF Landed
    <3> HIDE DEF Raw
    <3>3. R[a].error = None
      BY <1>5, <1>6, <1>8, <3>1, <3>2, Zenon
    <3> QED
      BY <3>3, Zenon
  <2>2. PathNames(paths) \subseteq T
    <3>1. SoundPaths(paths)
      BY <1>1, Zenon
    <3>2. \A a \in PathNames(paths) :
            PathOf(paths, a).base = None \/ PathOf(paths, a).base \in T => a \in T
      BY <2>1, Zenon
    <3> HIDE DEF T
    <3> QED
      BY <3>1, <3>2, ChainInduction, Zenon
  <2> QED
    BY <2>2, Zenon
<1> QED
  BY <1>1, <1>2, <1>7, <1>8, Zenon

\* Effect e falls on place w: on the root for the whole tool, or on a place a
\* path argument with that effect names.
Falls(c, A, e, w) ==
    \/ e \in c.effects /\ w = Root
    \/ \E a \in PathNames(c.paths) : e \in PathOf(c.paths, a).effects /\ w \in A[a]

LEMMA TouchedFacts ==
  ASSUME NEW c, SoundPaths(c.paths), NEW args, Valued(c.paths, args),
         \A a \in PathNames(c.paths) : Resolution(c, args)[a].error = None
  PROVE  \A x : x \in Normalize(c, args).touched <=>
                  \E e, w : x = <<e, w>> /\ Falls(c, Locations(c.paths, args), e, w)
<1>1. PICK R : R = Resolution(c, args)
  BY Zenon
<1>2. PICK A : A = Locations(c.paths, args)
  BY Zenon
<1>3. PICK N : N = PathNames(c.paths)
  BY Zenon
<1>4. DOMAIN R = N
  BY <1>1, <1>3, ResolutionSettles, Zenon DEF Valued
<1>5. \A a \in N : Landed(c.paths, args, R, A, a)
  BY <1>1, <1>2, <1>3, Landing, Zenon
<1>6. \A a \in N : /\ EffectsOn(PathOf(c.paths, a).effects, A[a]) \subseteq R[a].touched
                   /\ R[a].touched \subseteq UNION {EffectsOn(PathOf(c.paths, x).effects, A[x]) : x \in N}
  BY <1>1, <1>3, <1>5, Zenon DEF Landed
<1>7. PICK own : own = EffectsOn(c.effects, {Root})
  BY Zenon
<1>8. PICK reach : reach = UNION {R[a].touched : a \in N}
  BY Zenon
<1>9. Normalize(c, args).touched = own \cup reach
  BY <1>1, <1>4, <1>7, <1>8 DEF Normalize
<1>10. \A x : x \in reach <=> \E a \in N : x \in EffectsOn(PathOf(c.paths, a).effects, A[a])
  <2>1. ASSUME NEW x, x \in reach
        PROVE  \E a \in N : x \in EffectsOn(PathOf(c.paths, a).effects, A[a])
    <3>1. PICK a \in N : x \in R[a].touched
      BY <1>8, <2>1, Zenon
    <3>2. x \in UNION {EffectsOn(PathOf(c.paths, y).effects, A[y]) : y \in N}
      BY <1>6, <3>1, Zenon
    <3> QED
      BY <3>2, Zenon
  <2>2. ASSUME NEW x, NEW a \in N, x \in EffectsOn(PathOf(c.paths, a).effects, A[a])
        PROVE  x \in reach
    <3>1. x \in R[a].touched
      BY <1>6, <2>2, Zenon
    <3>2. R[a].touched \in {R[b].touched : b \in N}
      BY Zenon
    <3> QED
      BY <1>8, <3>1, <3>2, Zenon
  <2> QED
    BY <2>1, <2>2, Zenon
<1>11. \A x : x \in own <=> \E e, w : x = <<e, w>> /\ e \in c.effects /\ w = Root
  <2>1. \A x : x \in EffectsOn(c.effects, {Root}) <=>
                 \E e, w : x = <<e, w>> /\ e \in c.effects /\ w \in {Root}
    BY EffectsOnFacts
  <2> QED
    BY <1>7, <2>1, Zenon
<1>12. \A x, a : x \in EffectsOn(PathOf(c.paths, a).effects, A[a]) <=>
                   \E e, w : x = <<e, w>> /\ e \in PathOf(c.paths, a).effects /\ w \in A[a]
  <2>1. ASSUME NEW a
        PROVE  \A x : x \in EffectsOn(PathOf(c.paths, a).effects, A[a]) <=>
                        \E e, w : x = <<e, w>> /\ e \in PathOf(c.paths, a).effects /\ w \in A[a]
    BY EffectsOnFacts
  <2> QED
    BY <2>1, Zenon
<1>13. \A x : x \in own \cup reach <=> \E e, w : x = <<e, w>> /\ Falls(c, A, e, w)
  <2>1. ASSUME NEW x, x \in own PROVE \E e, w : x = <<e, w>> /\ Falls(c, A, e, w)
    BY <1>11, <2>1, Zenon DEF Falls
  <2>2. ASSUME NEW x, x \in reach PROVE \E e, w : x = <<e, w>> /\ Falls(c, A, e, w)
    <3>1. PICK a \in N : x \in EffectsOn(PathOf(c.paths, a).effects, A[a])
      BY <1>10, <2>2, Zenon
    <3>2. PICK e, w : x = <<e, w>> /\ e \in PathOf(c.paths, a).effects /\ w \in A[a]
      BY <1>12, <3>1, Zenon
    <3>3. Falls(c, A, e, w)
      BY <1>3, <3>2, Zenon DEF Falls
    <3> QED
      BY <3>2, <3>3, Zenon
  <2>3. ASSUME NEW x, NEW e, NEW w, x = <<e, w>>, Falls(c, A, e, w)
        PROVE  x \in own \/ x \in reach
    <3>1. CASE e \in c.effects /\ w = Root
      BY <1>11, <2>3, <3>1, Zenon
    <3>2. CASE \E a \in N : e \in PathOf(c.paths, a).effects /\ w \in A[a]
      BY <1>10, <1>12, <2>3, <3>2, Zenon
    <3> QED
      BY <1>3, <2>3, <3>1, <3>2, Zenon DEF Falls
  <2> QED
    BY <2>1, <2>2, <2>3, Zenon
<1> QED
  BY <1>2, <1>9, <1>13, Zenon

\* Reached tells the same without an order.
LEMMA ReachedFacts ==
  ASSUME NEW c, SoundPaths(c.paths), NEW args, Valued(c.paths, args)
  PROVE  /\ \A e : e \in Reached(c, args).effects <=>
                     \E w : Falls(c, Locations(c.paths, args), e, w)
         /\ \A w : w \in Reached(c, args).where <=>
                     \E a \in PathNames(c.paths) : w \in Locations(c.paths, args)[a]
<1>1. PICK A : A = Locations(c.paths, args)
  BY Zenon
<1>2. DOMAIN A = PathNames(c.paths)
  BY <1>1, LocationsSettle, Zenon DEF Valued
<1>3. ASSUME NEW e
      PROVE  e \in Reached(c, args).effects <=> \E w : Falls(c, A, e, w)
  <2>1. PICK hit : hit = {x \in c.paths : A[x.argument] # {}}
    BY Zenon
  <2>2. Reached(c, args).effects = c.effects \cup UNION {p.effects : p \in hit}
    BY <1>1, <2>1, Zenon DEF Reached
  <2>3. e \in UNION {p.effects : p \in hit} <=> \E p \in hit : e \in p.effects
    <3>1. ASSUME NEW p \in hit, e \in p.effects PROVE e \in UNION {y.effects : y \in hit}
      <4>1. p.effects \in {y.effects : y \in hit}
        BY Zenon
      <4> QED
        BY <3>1, <4>1, Zenon
    <3> QED
      BY <3>1, Zenon
  <2>4. (\E p \in hit : e \in p.effects) <=>
          \E a \in PathNames(c.paths) : e \in PathOf(c.paths, a).effects /\ A[a] # {}
    <3>1. ASSUME NEW p \in hit, e \in p.effects
          PROVE  \E a \in PathNames(c.paths) : e \in PathOf(c.paths, a).effects /\ A[a] # {}
      <4>1. p \in c.paths /\ A[p.argument] # {}
        BY <2>1, Zenon
      <4>2. p.argument \in PathNames(c.paths) /\ PathOf(c.paths, p.argument) = p
        BY <4>1, PathOfFacts, Zenon
      <4> QED
        BY <3>1, <4>1, <4>2, Zenon
    <3>2. ASSUME NEW a \in PathNames(c.paths), e \in PathOf(c.paths, a).effects, A[a] # {}
          PROVE  \E p \in hit : e \in p.effects
      <4>1. PathOf(c.paths, a) \in c.paths /\ PathOf(c.paths, a).argument = a
        BY PathOfFacts, Zenon
      <4>2. PathOf(c.paths, a) \in hit
        BY <2>1, <3>2, <4>1, Zenon
      <4> QED
        BY <3>2, <4>2, Zenon
    <3> QED
      BY <3>1, <3>2, Zenon
  <2>5. \A a : A[a] # {} <=> \E w : w \in A[a]
    BY Zenon
  <2>6. (\E w : Falls(c, A, e, w)) <=>
          \/ e \in c.effects
          \/ \E a \in PathNames(c.paths) : e \in PathOf(c.paths, a).effects /\ \E w : w \in A[a]
    BY Zenon DEF Falls
  <2> QED
    BY <2>2, <2>3, <2>4, <2>5, <2>6, Zenon
<1>4. ASSUME NEW w
      PROVE  w \in Reached(c, args).where <=> \E a \in PathNames(c.paths) : w \in A[a]
  <2>1. Reached(c, args).where = UNION {A[a] : a \in PathNames(c.paths)}
    BY <1>1, <1>2, Zenon DEF Reached
  <2>2. ASSUME NEW a \in PathNames(c.paths), w \in A[a]
        PROVE  w \in UNION {A[b] : b \in PathNames(c.paths)}
    <3>1. A[a] \in {A[b] : b \in PathNames(c.paths)}
      BY Zenon
    <3> QED
      BY <2>2, <3>1, Zenon
  <2> QED
    BY <2>1, <2>2, Zenon
<1> QED
  BY <1>1, <1>3, <1>4, Zenon

LEMMA RootIsInside == ResolvesWithin(Root)
<1>1. Root \in Paths /\ Candidate(Root) = Root
  <2>1. Root \in Paths /\ LexicalNormalize(Root) = Root /\ LinkFree(Root)
    BY FileSystemAssumption, Zenon
  <2> QED
    BY <2>1, LinkFreeFixed, CandidateIsCanonical, Zenon
<1>2. IsContained(Root)
  BY <1>1 DEF IsContained, Paths
<1> QED
  BY <1>1, <1>2, Zenon DEF ResolvesWithin

\* normalize fails exactly when the call is not well formed or reaches
\* nothing; when it does not fail, the effects and the places are Reached's.
LEMMA NormalizeFacts ==
  ASSUME NEW c, SoundPaths(c.paths), NEW args, Valued(c.paths, args)
  PROVE  LET n == Normalize(c, args)
             reached == Reached(c, args)
         IN  /\ n.errors = {} <=> WellFormed(c, args) /\ reached.effects # {}
             /\ n.errors = {} =>
                  /\ \A e : (\E x \in n.touched : x[1] = e) <=> e \in reached.effects
                  /\ (\A x \in n.touched : ResolvesWithin(x[2])) <=>
                       \A path \in reached.where : Confined(path)
<1>1. PICK n : n = Normalize(c, args)
  BY Zenon
<1>2. PICK reached : reached = Reached(c, args)
  BY Zenon
<1> DEFINE R == Resolution(c, args)
<1>3. R = Resolution(c, args)
  BY Zenon
<1>4. PICK A : A = Locations(c.paths, args)
  BY Zenon
<1> DEFINE Clean == \A a \in PathNames(c.paths) : R[a].error = None
           Known == \A a \in DOMAIN args : args[a] # Absent => a \in c.arguments
<1>5. n.errors = {} <=> Known /\ Clean /\ n.touched # {}
  <2>1. DOMAIN R = PathNames(c.paths)
    BY <1>3, ResolutionSettles, Zenon DEF Valued
  <2> DEFINE errors == {R[a].error : a \in DOMAIN R} \ {None}
  <2>2. errors = {} <=> Clean
    BY <2>1, Zenon
  <2>3. ~Known <=> \E a \in DOMAIN args : args[a] # Absent /\ a \notin c.arguments
    BY Zenon
  <2> DEFINE touched == EffectsOn(c.effects, {Root}) \cup UNION {R[a].touched : a \in DOMAIN R}
  <2>5. n = [errors |-> IF \E a \in DOMAIN args : args[a] # Absent /\ a \notin c.arguments
                        THEN {"UnknownArgument"}
                        ELSE IF errors # {} THEN errors
                        ELSE IF touched = {} THEN {"NoEffects"} ELSE {},
             touched |-> touched]
    BY <1>1, Zenon DEF Normalize
  <2> HIDE DEF errors, touched, Clean, Known
  <2>6. n.errors = IF ~Known THEN {"UnknownArgument"}
                   ELSE IF errors # {} THEN errors
                   ELSE IF n.touched = {} THEN {"NoEffects"} ELSE {}
    BY <2>3, <2>5, Zenon
  <2> QED
    BY <2>2, <2>6, Zenon
<1> HIDE DEF R
<1>6. WellFormed(c, args) <=> Known /\ Clean
  <2>1. Clean <=> \A a \in PathNames(c.paths) : Shaped(c.paths, args, a)
    BY <1>3, ErrorsAreShapes, Zenon
  <2>2. WellFormed(c, args) <=>
           Known /\ \A a \in PathNames(c.paths) : Shaped(c.paths, args, a)
    BY WellFormedByName, Zenon
  <2> HIDE DEF Clean, Known
  <2> QED
    BY <2>1, <2>2, Zenon
<1>7. ASSUME Clean
      PROVE  \A x : x \in n.touched <=> \E e, w : x = <<e, w>> /\ Falls(c, A, e, w)
  BY <1>1, <1>3, <1>4, <1>7, TouchedFacts, Zenon
<1>8. /\ \A e : e \in reached.effects <=> \E w : Falls(c, A, e, w)
      /\ \A w : w \in reached.where <=> \E a \in PathNames(c.paths) : w \in A[a]
  BY <1>2, <1>4, ReachedFacts, Zenon
<1>9. ASSUME Clean, NEW e
      PROVE  (\E x \in n.touched : x[1] = e) <=> e \in reached.effects
  <2> HIDE DEF Clean
  <2>1. ASSUME NEW x \in n.touched, x[1] = e PROVE e \in reached.effects
    <3>1. PICK d, w : x = <<d, w>> /\ Falls(c, A, d, w)
      BY <1>7, <1>9, Zenon
    <3>2. d = e
      BY <2>1, <3>1, Zenon
    <3> QED
      BY <1>8, <3>1, <3>2, Zenon
  <2>2. ASSUME e \in reached.effects PROVE \E x \in n.touched : x[1] = e
    <3>1. PICK w : Falls(c, A, e, w)
      BY <1>8, <2>2, Zenon
    <3>2. <<e, w>> \in n.touched /\ <<e, w>>[1] = e
      BY <1>7, <1>9, <3>1, Zenon
    <3> QED
      BY <3>2, Zenon
  <2> QED
    BY <2>1, <2>2, Zenon
<1>10. ASSUME Clean
       PROVE  n.touched # {} <=> reached.effects # {}
  <2> HIDE DEF Clean
  <2>1. ASSUME n.touched # {} PROVE reached.effects # {}
    <3>1. PICK x \in n.touched : TRUE
      BY <2>1, Zenon
    <3>2. x[1] \in reached.effects
      BY <1>9, <1>10, Zenon
    <3> QED
      BY <3>2, Zenon
  <2>2. ASSUME reached.effects # {} PROVE n.touched # {}
    <3>1. PICK e \in reached.effects : TRUE
      BY <2>2, Zenon
    <3>2. \E x \in n.touched : x[1] = e
      BY <1>9, <1>10, Zenon
    <3> QED
      BY <3>2, Zenon
  <2> QED
    BY <2>1, <2>2, Zenon
<1>11. ASSUME Clean
       PROVE  (\A x \in n.touched : ResolvesWithin(x[2])) <=>
                 \A path \in reached.where : Confined(path)
  <2> HIDE DEF Clean
  <2>1. ASSUME NEW a \in PathNames(c.paths), NEW w \in A[a]
        PROVE  ResolvesWithin(w) <=> Confined(w)
    <3>1. w \in Paths
      <4>1. A \in [PathNames(c.paths) -> SUBSET Paths]
        BY <1>4, LocationsSettle, Zenon DEF Valued
      <4> QED
        BY <2>1, <4>1, Zenon
    <3> QED
      BY <3>1, ResolvesIsConfined, Zenon
  <2>2. ASSUME \A x \in n.touched : ResolvesWithin(x[2]), NEW path \in reached.where
        PROVE  Confined(path)
    <3>1. PICK a \in PathNames(c.paths) : path \in A[a]
      BY <1>8, Zenon
    <3>2. PICK e : e \in PathOf(c.paths, a).effects
      <4>1. PathArgumentOk(PathOf(c.paths, a))
        BY PathOfFacts, Zenon DEF SoundPaths
      <4> QED
        BY <4>1, Zenon DEF PathArgumentOk
    <3>3. Falls(c, A, e, path)
      BY <3>1, <3>2, Zenon DEF Falls
    <3>4. <<e, path>> \in n.touched /\ <<e, path>>[2] = path
      BY <1>7, <1>11, <3>3, Zenon
    <3> QED
      BY <2>1, <2>2, <3>1, <3>4, Zenon
  <2>3. ASSUME \A path \in reached.where : Confined(path), NEW x \in n.touched
        PROVE  ResolvesWithin(x[2])
    <3>1. PICK e, w : x = <<e, w>> /\ Falls(c, A, e, w)
      BY <1>7, <1>11, Zenon
    <3>2. x[2] = w
      BY <3>1, Zenon
    <3>3. CASE w = Root
      BY <3>2, <3>3, RootIsInside, Zenon
    <3>4. CASE \E a \in PathNames(c.paths) : w \in A[a]
      BY <1>8, <2>1, <2>3, <3>2, <3>4, Zenon
    <3> QED
      BY <3>1, <3>3, <3>4, Zenon DEF Falls
  <2> QED
    BY <2>2, <2>3, Zenon
<1> HIDE DEF Clean, Known
<1> QED
  BY <1>1, <1>2, <1>5, <1>6, <1>9, <1>10, <1>11, Zenon

-----------------------------------------------------------------------------
(* The decision                                                            *)

\* A rule is judged on its argument once the effect it needs is there.
LEMMA RuleErrorSplits ==
  ASSUME NEW r, NEW args, NEW touched
  PROVE  RuleError(r, args, touched) = None <=>
           /\ \E x \in touched : x[1] = r.requires
           /\ RuleError(r, args, EffectsOn({r.requires}, {Root})) = None
<1>1. \E x \in EffectsOn({r.requires}, {Root}) : x[1] = r.requires
  <2>1. <<r.requires, Root>> \in EffectsOn({r.requires}, {Root}) /\ <<r.requires, Root>>[1] = r.requires
    BY Zenon DEF EffectsOn
  <2> QED
    BY <2>1, Zenon
<1> DEFINE Malformed == IF r.kind = "cardinality" THEN args[r.argument].kind # "list"
                        ELSE args[r.argument].kind \notin {"absent", "true", "false"}
<1>2. RuleError(r, args, EffectsOn({r.requires}, {Root})) = IF Malformed THEN "MalformedArgument" ELSE None
  BY <1>1, Zenon DEF RuleError
<1>3. RuleError(r, args, touched) =
        IF ~\E x \in touched : x[1] = r.requires THEN "RequiredEffectMissing"
        ELSE IF Malformed THEN "MalformedArgument" ELSE None
  BY Zenon DEF RuleError
<1>4. None # "RequiredEffectMissing" /\ None # "MalformedArgument"
  BY Zenon DEF None
<1> HIDE DEF Malformed
<1> QED
  BY <1>2, <1>3, <1>4, Zenon

\* The second half of evaluate_with_grant, against Permitted.
LEMMA JudgeIsExact ==
  ASSUME NEW f \in RegistryFiles, NEW s, RegistryOk(f, s), NEW q \in Questions,
         q.tool \in ToolNames(f), HasContract(Tool(f, q.tool))
  PROVE  IF Permitted(Tool(f, q.tool), q)
         THEN LET risk == CHOOSE x \in Raised(Tool(f, q.tool), q.args) :
                             \A y \in Raised(Tool(f, q.tool), q.args) : y <= x
              IN  Judge(f, q) = [kind |-> IF risk >= High THEN "RequireApproval" ELSE "Allow",
                                 reason |-> None, risk |-> risk]
         ELSE Judge(f, q).kind = "Deny"
<1>1. PICK t : t = Tool(f, q.tool)
  BY Zenon
<1>2. PICK c : c = ContractOf(t)
  BY Zenon
<1>3. /\ t \in RegistryTool
      /\ SoundPaths(c.paths) /\ Valued(c.paths, q.args)
      /\ t.risk \in RiskLevels
      /\ \A r \in Range(t.rules) : r.escalate \in RiskLevels
  BY <1>1, <1>2, LoadedContract, Zenon DEF Valued
<1>4. PICK n : n = Normalize(c, q.args)
  BY Zenon
<1>5. PICK reached : reached = Reached(c, q.args)
  BY Zenon
<1>6. PICK a : a = Assessment(t, q.args, n.touched)
  BY Zenon
<1>7. PICK raised : raised = Raised(t, q.args)
  BY Zenon
<1>8. /\ n.errors = {} <=> WellFormed(c, q.args) /\ reached.effects # {}
      /\ n.errors = {} =>
           /\ \A e : (\E x \in n.touched : x[1] = e) <=> e \in reached.effects
           /\ (\A x \in n.touched : ResolvesWithin(x[2])) <=>
                \A path \in reached.where : Confined(path)
  <2>1. /\ Normalize(c, q.args).errors = {} <=>
             WellFormed(c, q.args) /\ Reached(c, q.args).effects # {}
        /\ Normalize(c, q.args).errors = {} =>
             /\ \A e : (\E x \in Normalize(c, q.args).touched : x[1] = e) <=>
                        e \in Reached(c, q.args).effects
             /\ (\A x \in Normalize(c, q.args).touched : ResolvesWithin(x[2])) <=>
                  \A path \in Reached(c, q.args).where : Confined(path)
    BY <1>3, NormalizeFacts, Zenon
  <2> QED
    BY <1>4, <1>5, <2>1, Zenon
<1>9. /\ a \in Assessed
      /\ a.error = None =>
           /\ \A r \in Range(t.rules) : RuleError(r, q.args, n.touched) = None
           /\ a.risk \in raised
           /\ \A y \in raised : y <= a.risk
      /\ a.error # None =>
           \E r \in Range(t.rules) : a.error = RuleError(r, q.args, n.touched)
  <2>1. t.rules \in Seq(RiskRule)
    BY <1>3, Zenon DEF RegistryTool
  <2>2. t.risk \in RiskLevels
    BY <1>3, Zenon
  <2>3. \A r \in Range(t.rules) : r.escalate \in RiskLevels
    BY <1>3, Zenon
  <2>4. IsAssessment(Assessment(t, q.args, n.touched), t, q.args, n.touched)
    BY <2>1, <2>2, <2>3, AssessmentFacts, Zenon
  <2> QED
    BY <1>6, <1>7, <2>4, Zenon DEF IsAssessment
<1>10. a.error = None <=> \A r \in Range(t.rules) : RuleError(r, q.args, n.touched) = None
  BY <1>9, Zenon
<1> DEFINE Judged == \A r \in Range(t.rules) :
                       /\ r.requires \in reached.effects
                       /\ RuleError(r, q.args, EffectsOn({r.requires}, {Root})) = None
           Verdict == [kind |-> IF a.risk >= High THEN "RequireApproval" ELSE "Allow",
                       reason |-> None, risk |-> a.risk]
<1>11. n.errors = {} => (a.error = None <=> Judged)
  <2> SUFFICES ASSUME n.errors = {} PROVE a.error = None <=> Judged
    BY Zenon
  <2>1. \A e : (\E x \in n.touched : x[1] = e) <=> e \in reached.effects
    BY <1>8, Zenon
  <2>2. ASSUME NEW r \in Range(t.rules)
        PROVE  RuleError(r, q.args, n.touched) = None <=>
                 /\ r.requires \in reached.effects
                 /\ RuleError(r, q.args, EffectsOn({r.requires}, {Root})) = None
    <3>1. (\E x \in n.touched : x[1] = r.requires) <=> r.requires \in reached.effects
      BY <2>1, Zenon
    <3>2. RuleError(r, q.args, n.touched) = None <=>
            /\ \E x \in n.touched : x[1] = r.requires
            /\ RuleError(r, q.args, EffectsOn({r.requires}, {Root})) = None
      BY RuleErrorSplits, Zenon
    <3> QED
      BY <3>1, <3>2, Zenon
  <2> QED
    BY <1>10, <2>2, Zenon
<1>12. Permitted(t, q) <=>
         /\ WellFormed(c, q.args)
         /\ reached.effects # {}
         /\ \A path \in reached.where : Confined(path)
         /\ t.capability \in q.grant.capabilities
         /\ Judged
  BY <1>2, <1>5, Zenon DEF Permitted
<1>13. Judge(f, q) =
         IF n.errors # {} THEN Deny(EffectsReason(n.errors))
         ELSE IF \E x \in n.touched : ~ResolvesWithin(x[2]) THEN Deny("PathEscapesWorkspace")
         ELSE IF t.capability \notin q.grant.capabilities THEN Deny("CapabilityNotGranted")
         ELSE IF a.error = "MalformedArgument" THEN Deny("MalformedToolArguments")
         ELSE IF a.error # None THEN Deny("UnmodelledToolContract")
         ELSE Verdict
  BY <1>1, <1>2, <1>4, <1>6, Zenon DEF Judge
<1>14. \A reason : Deny(reason).kind = "Deny"
  BY Zenon DEF Deny
<1>15. None # "MalformedArgument"
  BY Zenon DEF None
<1>16. ASSUME Permitted(t, q)
       PROVE  LET risk == CHOOSE x \in raised : \A y \in raised : y <= x
              IN  Judge(f, q) = [kind |-> IF risk >= High THEN "RequireApproval" ELSE "Allow",
                                 reason |-> None, risk |-> risk]
  <2> HIDE DEF Judged
  <2>1. n.errors = {} /\ (\A x \in n.touched : ResolvesWithin(x[2])) /\ a.error = None
    BY <1>8, <1>11, <1>12, <1>16, Zenon
  <2>2. t.capability \in q.grant.capabilities
    BY <1>12, <1>16, Zenon
  <2>3. Judge(f, q) = Verdict
    <3> HIDE DEF Verdict
    <3> QED
      BY <1>13, <1>15, <2>1, <2>2, Zenon
  <2>4. raised \subseteq RiskLevels
    BY <1>3, <1>7, Zenon DEF Raised
  <2>5. a.risk \in raised /\ \A y \in raised : y <= a.risk
    BY <1>9, <2>1, Zenon
  <2>6. \A x \in raised : (\A y \in raised : y <= x) => x = a.risk
    <3> SUFFICES ASSUME NEW x \in raised, \A y \in raised : y <= x PROVE x = a.risk
      BY Zenon
    <3>1. x \in 1..4 /\ a.risk \in 1..4
      BY <2>4, <2>5, Zenon DEF RiskLevels
    <3>2. x <= a.risk /\ a.risk <= x
      BY <2>5, Zenon
    <3> QED
      BY <3>1, <3>2
  <2>7. (CHOOSE x \in raised : \A y \in raised : y <= x) = a.risk
    BY <2>5, <2>6, Zenon
  <2> QED
    BY <2>3, <2>7, Zenon
<1>17. ASSUME ~Permitted(t, q)
       PROVE  Judge(f, q).kind = "Deny"
  <2> HIDE DEF Judged, Verdict
  <2>1. \/ n.errors # {}
        \/ \E x \in n.touched : ~ResolvesWithin(x[2])
        \/ t.capability \notin q.grant.capabilities
        \/ a.error # None
    BY <1>8, <1>11, <1>12, <1>17, Zenon
  <2> QED
    BY <1>13, <1>14, <2>1, Zenon
<1> QED
  BY <1>1, <1>7, <1>16, <1>17, Zenon

\* evaluate_with_grant's checks, one after the other with the first failure
\* deciding, come to exactly what the decision promises: for every registry
\* that loads, every question, any number of tools, path arguments, bases and
\* rules, and every file system whose links lead to canonical places.  Of a path
\* on which ".." follows a link, or a link leads nowhere, it says only that the
\* code's own reading decides.
THEOREM DecisionExact == Spec => []DecisionIsExact
<1>1. PolicyInductive => DecisionIsExact
  <2> SUFFICES ASSUME PolicyInductive, outcome # Nothing, NEW q \in asked
               PROVE  IF /\ Authority(q)
                         /\ q.tool # ""
                         /\ q.tool \in ToolNames(file)
                         /\ HasContract(Tool(file, q.tool))
                         /\ Permitted(Tool(file, q.tool), q)
                      THEN LET risk == CHOOSE x \in Raised(Tool(file, q.tool), q.args) :
                                          \A y \in Raised(Tool(file, q.tool), q.args) : y <= x
                           IN  outcome = [kind |-> IF risk >= High THEN "RequireApproval"
                                                   ELSE "Allow",
                                          reason |-> None, risk |-> risk]
                      ELSE outcome.kind = "Deny"
    BY Zenon DEF DecisionIsExact
  <2>1. /\ file \in RegistryFiles /\ stage = "serving" /\ q \in Questions
        /\ outcome = EvaluateWithGrant(file, q)
    BY DEF PolicyInductive
  <2>2. RegistryOk(file, snapshot)
    BY <2>1, Zenon DEF PolicyInductive, EmbeddedOk
  <2>3. \A reason : Deny(reason).kind = "Deny"
    BY Zenon DEF Deny
  <2>4. q.now < q.grant.expires <=> ~(q.now >= q.grant.expires)
    BY <2>1, QuestionAssumption
  <2> DEFINE Judged == /\ Authority(q)
                       /\ q.tool # ""
                       /\ q.tool \in ToolNames(file)
                       /\ HasContract(Tool(file, q.tool))
  <2>5. Judged => outcome = Judge(file, q)
    BY <2>1, <2>4, Zenon DEF EvaluateWithGrant, Authority
  <2>6. ~Judged => \E reason : outcome = Deny(reason)
    BY <2>1, <2>4, Zenon DEF EvaluateWithGrant, Authority
  <2>7. CASE ~Judged
    <3>1. outcome.kind = "Deny"
      BY <2>3, <2>6, <2>7, Zenon
    <3> QED
      BY <2>7, <3>1, Zenon
  <2>8. CASE Judged
    <3>1. IF Permitted(Tool(file, q.tool), q)
          THEN LET risk == CHOOSE x \in Raised(Tool(file, q.tool), q.args) :
                              \A y \in Raised(Tool(file, q.tool), q.args) : y <= x
               IN  Judge(file, q) = [kind |-> IF risk >= High THEN "RequireApproval" ELSE "Allow",
                                     reason |-> None, risk |-> risk]
          ELSE Judge(file, q).kind = "Deny"
      BY <2>1, <2>2, <2>8, JudgeIsExact, Zenon
    <3>2. outcome = Judge(file, q)
      BY <2>5, <2>8, Zenon
    <3> QED
      BY <2>8, <3>1, <3>2, Zenon
  <2> QED
    BY <2>7, <2>8, Zenon
<1> QED
  BY <1>1, PolicyAlways, PTL
=============================================================================
