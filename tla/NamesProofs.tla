----------------------------- MODULE NamesProofs -----------------------------
(* How a name is tied to a symbol, proved for every repository, every file under study and
   every scan: JsExports, the index of what JavaScript and TypeScript files offer, and
   NameScopes, the resolvers of the extractors. The theorem at the end speaks of the
   composed MCRetrieval, in which one part moves at a time. *)
EXTENDS RetrievalProofs

-----------------------------------------------------------------------------
(* Induction between two numbers. *)
LEMMA NumbersBetween ==
  ASSUME NEW lo \in Nat, NEW hi \in Nat, NEW second, second = lo + 1, NEW Those, lo \in Those,
         \A n \in second .. hi : n - 1 \in Those => n \in Those
  PROVE  lo .. hi \subseteq Those
  <1> DEFINE G == {n \in Nat : lo + n \in lo .. hi => lo + n \in Those}
  <1>1. 0 \in G
    OBVIOUS
  <1>2. ASSUME NEW n \in G PROVE n + 1 \in G
    <2> SUFFICES ASSUME lo + (n + 1) \in lo .. hi PROVE lo + (n + 1) \in Those
      OBVIOUS
    <2>1. lo + n \in lo .. hi /\ lo + (n + 1) \in second .. hi /\ (lo + (n + 1)) - 1 = lo + n
      OBVIOUS
    <2>2. lo + n \in Those
      BY <2>1
    <2> QED BY <2>1, <2>2
  <1> HIDE DEF G
  <1>3. G \in SUBSET Nat
    BY DEF G
  <1>4. G = Nat
    BY <1>1, <1>2, <1>3, NumbersFollow
  <1>5. ASSUME NEW n \in lo .. hi PROVE n \in Those
    <2>1. n - lo \in Nat /\ lo + (n - lo) = n
      OBVIOUS
    <2>2. n - lo \in G
      BY <1>4, <2>1
    <2> QED BY <2>1, <2>2 DEF G
  <1> QED BY <1>5

(* A run goes from the first value, by the rule of each place, to the next one. *)
Rules(Values, places) == [places -> [Values -> Values]]
Runs(g, Values, lo, hi, start, Step) ==
    g \in [lo .. hi -> Values] /\ g[lo] = start /\ \A n \in lo + 1 .. hi : g[n] = Step[n][g[n - 1]]

(* A value that a rule makes of the one before it, step by step. *)
LEMMA StepsExist ==
  ASSUME NEW Values, NEW lo \in Nat, NEW hi \in Nat, lo <= hi, NEW start \in Values,
         NEW Step, Step \in Rules(Values, lo + 1 .. hi)
  PROVE  \E g : Runs(g, Values, lo, hi, start, Step)
  <1>0. Step \in [lo + 1 .. hi -> [Values -> Values]]
    BY DEF Rules
  <1> DEFINE Good(g, k) == g[lo] = start /\ \A n \in lo + 1 .. k : g[n] = Step[n][g[n - 1]]
             H == {k \in lo .. hi : \E g \in [lo .. hi -> Values] : Good(g, k)}
  <1>1. lo \in H
    <2> DEFINE g == [n \in lo .. hi |-> start]
    <2>1. g \in [lo .. hi -> Values] /\ g[lo] = start /\ lo + 1 .. lo = {}
      OBVIOUS
    <2>2. Good(g, lo)
      BY <2>1
    <2> QED BY <2>1, <2>2
  <1>2. ASSUME NEW k \in lo + 1 .. hi, k - 1 \in H PROVE k \in H
    <2>1. PICK g \in [lo .. hi -> Values] : Good(g, k - 1)
      BY <1>2
    <2> DEFINE h == [g EXCEPT ![k] = Step[k][g[k - 1]]]
    <2>2. k \in lo .. hi /\ k - 1 \in lo .. hi /\ k # lo /\ k # k - 1
      OBVIOUS
    <2>3. g[k - 1] \in Values /\ Step[k] \in [Values -> Values]
      BY <1>0, <2>2
    <2>4. Step[k][g[k - 1]] \in Values
      BY <2>3
    <2>5. h \in [lo .. hi -> Values] /\ h[k] = Step[k][g[k - 1]] /\ \A n \in lo .. hi : n # k => h[n] = g[n]
      BY <2>2, <2>4
    <2>6. lo \in lo .. hi
      OBVIOUS
    <2> HIDE DEF h
    <2>7. ASSUME NEW n \in lo + 1 .. k PROVE h[n] = Step[n][h[n - 1]]
      <3>1. n \in lo .. hi /\ n - 1 \in lo .. hi /\ n - 1 # k
        OBVIOUS
      <3>2. h[n - 1] = g[n - 1]
        BY <2>5, <3>1
      <3>3. CASE n = k
        BY <2>5, <3>2, <3>3
      <3>4. CASE n # k
        <4>1. n \in lo + 1 .. k - 1
          BY <3>4
        <4> QED BY <2>1, <2>5, <3>1, <3>2, <3>4, <4>1
      <3> QED BY <3>3, <3>4
    <2>8. h[lo] = start
      BY <2>1, <2>2, <2>5, <2>6
    <2>9. Good(h, k)
      BY <2>7, <2>8
    <2> HIDE DEF Good
    <2> QED BY <2>2, <2>5, <2>9
  <1>3. hi \in H
    <2> HIDE DEF H
    <2>1. lo .. hi \subseteq H
      BY <1>1, <1>2, NumbersBetween
    <2> QED BY <2>1
  <1> QED BY <1>3 DEF Runs

(* What is so defined stays in its set. *)
LEMMA StepsAre ==
  ASSUME NEW Values, NEW lo \in Nat, NEW hi \in Nat, lo <= hi, NEW start \in Values,
         NEW Step, Step \in Rules(Values, lo + 1 .. hi),
         NEW chosen, chosen = [n \in lo .. hi |-> chosen[n]], chosen[lo] = start,
         \A n \in lo + 1 .. hi : chosen[n - 1] \in Values => chosen[n] = Step[n][chosen[n - 1]]
  PROVE  Runs(chosen, Values, lo, hi, start, Step)
  <1>0. Step \in [lo + 1 .. hi -> [Values -> Values]]
    BY DEF Rules
  <1> DEFINE H == {n \in lo .. hi : chosen[n] \in Values}
  <1>1. lo \in H
    OBVIOUS
  <1>2. ASSUME NEW n \in lo + 1 .. hi, n - 1 \in H PROVE n \in H
    <2>1. chosen[n] = Step[n][chosen[n - 1]] /\ Step[n] \in [Values -> Values] /\ chosen[n - 1] \in Values
      BY <1>0, <1>2
    <2>2. n \in lo .. hi
      OBVIOUS
    <2> QED BY <2>1, <2>2
  <1> HIDE DEF H
  <1>3. lo .. hi \subseteq H
    BY <1>1, <1>2, NumbersBetween
  <1>4. \A n \in lo .. hi : chosen[n] \in Values
    BY <1>3 DEF H
  <1>5. ASSUME NEW n \in lo + 1 .. hi PROVE chosen[n] = Step[n][chosen[n - 1]]
    <2>1. n - 1 \in lo .. hi
      OBVIOUS
    <2> QED BY <1>4, <2>1
  <1> QED BY <1>4, <1>5 DEF Runs

-----------------------------------------------------------------------------
(* What a sequence holds stands at one of its places. *)
LEMMA InSequence ==
  ASSUME NEW E, NEW q \in Seq(E)
  PROVE  /\ ToSet(q) \subseteq E
         /\ \A e : e \in ToSet(q) <=> \E i \in 1 .. Len(q) : e = q[i]
  BY DEF ToSet

(* The sequences of s one behind the other hold what each of them holds. *)
LEMMA FlattenIs ==
  ASSUME NEW E, NEW s \in Seq(Seq(E))
  PROVE  /\ FlattenSeq(s) \in Seq(E)
         /\ ToSet(FlattenSeq(s)) = UNION {ToSet(s[i]) : i \in DOMAIN s}
  <1> DEFINE L == Len(s)
  <1>1. L \in Nat /\ DOMAIN s = 1 .. L /\ \A i \in 1 .. L : s[i] \in Seq(E)
    OBVIOUS
  <1>2. CASE L = 0
    <2>1. s = <<>> /\ DOMAIN s = {} /\ Len(s) = 0 /\ <<>> \in Seq(E)
      BY <1>1, <1>2
    <2>2. FlattenSeq(s) = <<>>
      BY <2>1 DEF FlattenSeq
    <2>3. UNION {ToSet(s[i]) : i \in DOMAIN s} = {}
      BY <2>1
    <2>4. ToSet(<<>>) = {}
      BY DEF ToSet
    <2> QED BY <2>1, <2>2, <2>3, <2>4
  <1>3. CASE L # 0
    <2> DEFINE Value(g, i) == IF i = 1 THEN s[i] ELSE g[i - 1] \o s[i]
               t == CHOOSE g : g = [i \in 1 .. L |-> Value(g, i)]
               F == [n \in 2 .. L |-> [x \in Seq(E) |-> x \o s[n]]]
    <2>1. FlattenSeq(s) = t[L]
      BY <1>3 DEF FlattenSeq
    <2>2. 1 <= L /\ 1 \in 1 .. L /\ s[1] \in Seq(E)
      BY <1>1, <1>3
    <2>0. PICK one \in Nat, two \in Nat : one = 1 /\ two = 2 /\ two = one + 1
      OBVIOUS
    <2>3. F \in [2 .. L -> [Seq(E) -> Seq(E)]]
      <3>1. ASSUME NEW n \in 2 .. L, NEW x \in Seq(E) PROVE x \o s[n] \in Seq(E)
        <4>1. s[n] \in Seq(E)
          BY <1>1
        <4> QED BY <4>1
      <3> QED BY <3>1
    <2>4. \A n \in 2 .. L, x \in Seq(E) : F[n][x] = x \o s[n]
      OBVIOUS
    <2> HIDE DEF F
    <2>12. F \in Rules(Seq(E), one + 1 .. L)
      BY <2>0, <2>3 DEF Rules
    <2>5. \E g : g = [i \in 1 .. L |-> Value(g, i)]
      <3>1. PICK g \in [1 .. L -> Seq(E)] :
               g[1] = s[1] /\ \A n \in 2 .. L : g[n] = F[n][g[n - 1]]
        <4>1. /\ one <= L /\ s[one] \in Seq(E) /\ L \in Nat
              /\ F \in Rules(Seq(E), one + 1 .. L)
          BY <1>1, <2>0, <2>2, <2>12
        <4>2. \E g : Runs(g, Seq(E), one, L, s[one], F)
          BY <4>1, StepsExist
        <4> QED BY <2>0, <4>2 DEF Runs
      <3>2. ASSUME NEW i \in 1 .. L PROVE g[i] = Value(g, i)
        <4>1. CASE i = 1
          BY <3>1, <4>1
        <4>2. CASE i # 1
          <5>1. i \in 2 .. L /\ i - 1 \in 1 .. L
            BY <1>1, <4>2
          <5> QED BY <2>4, <3>1, <4>2, <5>1
        <4> QED BY <4>1, <4>2
      <3>3. g = [i \in 1 .. L |-> Value(g, i)]
        BY <3>1, <3>2
      <3> QED BY <3>3
    <2>6. t = [i \in 1 .. L |-> Value(t, i)]
      BY <2>5
    <2> HIDE DEF t
    <2>7. t = [n \in 1 .. L |-> t[n]] /\ t[1] = s[1]
          /\ \A n \in 2 .. L : t[n - 1] \in Seq(E) => t[n] = F[n][t[n - 1]]
      <3>1. DOMAIN t = 1 .. L /\ t = [n \in 1 .. L |-> t[n]]
        BY <2>6
      <3>2. \A i \in 1 .. L : t[i] = Value(t, i)
        BY <2>6
      <3>3. ASSUME NEW n \in 2 .. L, t[n - 1] \in Seq(E) PROVE t[n] = F[n][t[n - 1]]
        <4>1. n \in 1 .. L /\ n # 1
          BY <1>1
        <4>2. t[n] = t[n - 1] \o s[n]
          BY <3>2, <4>1
        <4>3. F[n][t[n - 1]] = t[n - 1] \o s[n]
          BY <2>4, <3>3
        <4> QED BY <4>2, <4>3
      <3> QED BY <2>2, <3>1, <3>2, <3>3
    <2> HIDE DEF Value
    <2>8. /\ t \in [1 .. L -> Seq(E)]
          /\ \A n \in 2 .. L : t[n] = F[n][t[n - 1]]
      <3>1. /\ one <= L /\ s[one] \in Seq(E) /\ L \in Nat
            /\ F \in Rules(Seq(E), one + 1 .. L)
        BY <1>1, <2>0, <2>2, <2>12
      <3>2. t = [n \in one .. L |-> t[n]] /\ t[one] = s[one]
            /\ \A n \in one + 1 .. L : t[n - 1] \in Seq(E) => t[n] = F[n][t[n - 1]]
        BY <2>0, <2>7
      <3>3. Runs(t, Seq(E), one, L, s[one], F)
        BY <3>1, <3>2, StepsAre
      <3> QED BY <2>0, <3>3 DEF Runs
    <2> DEFINE Held(n) == UNION {ToSet(s[i]) : i \in 1 .. n}
               H == {n \in 1 .. L : ToSet(t[n]) = Held(n)}
    <2>9. 1 \in H
      <3>1. 1 .. 1 = {1}
        OBVIOUS
      <3> QED BY <2>2, <2>7, <3>1
    <2>10. ASSUME NEW n \in 2 .. L, n - 1 \in H PROVE n \in H
      <3>1. n \in 1 .. L /\ n - 1 \in 1 .. L /\ 1 .. n = 1 .. n - 1 \union {n}
        BY <1>1
      <3>2. t[n] = t[n - 1] \o s[n] /\ t[n - 1] \in Seq(E) /\ s[n] \in Seq(E)
        BY <1>1, <2>4, <2>8, <3>1
      <3>3. ToSet(t[n]) = ToSet(t[n - 1]) \union ToSet(s[n])
        <4> DEFINE x == t[n - 1]
                   y == s[n]
        <4>1. /\ x \in Seq(E) /\ y \in Seq(E) /\ Len(x \o y) = Len(x) + Len(y)
              /\ Len(x) \in Nat /\ Len(y) \in Nat
          BY <3>2
        <4> HIDE DEF x, y
        <4>2. /\ \A i \in 1 .. Len(x) : (x \o y)[i] = x[i]
              /\ \A i \in 1 .. Len(y) : (x \o y)[Len(x) + i] = y[i]
          BY <4>1
        <4>3. /\ \A e : e \in ToSet(x) <=> \E i \in 1 .. Len(x) : e = x[i]
              /\ \A e : e \in ToSet(y) <=> \E i \in 1 .. Len(y) : e = y[i]
              /\ \A e : e \in ToSet(x \o y) <=> \E i \in 1 .. Len(x) + Len(y) : e = (x \o y)[i]
          <5>1. x \o y \in Seq(E)
            BY <4>1
          <5> QED BY <4>1, <5>1, InSequence
        <4>4. ASSUME NEW e, e \in ToSet(x) \/ e \in ToSet(y) PROVE e \in ToSet(x \o y)
          <5>1. CASE e \in ToSet(x)
            <6>1. PICK i \in 1 .. Len(x) : e = x[i]
              BY <4>3, <5>1
            <6>2. i \in 1 .. Len(x) + Len(y)
              BY <4>1
            <6> QED BY <4>2, <4>3, <6>1, <6>2
          <5>2. CASE e \in ToSet(y)
            <6>1. PICK i \in 1 .. Len(y) : e = y[i]
              BY <4>3, <5>2
            <6>2. Len(x) + i \in 1 .. Len(x) + Len(y)
              BY <4>1
            <6> QED BY <4>2, <4>3, <6>1, <6>2
          <5> QED BY <4>4, <5>1, <5>2
        <4>5. ASSUME NEW e, e \in ToSet(x \o y) PROVE e \in ToSet(x) \/ e \in ToSet(y)
          <5>1. PICK i \in 1 .. Len(x) + Len(y) : e = (x \o y)[i]
            BY <4>3, <4>5
          <5>2. CASE i <= Len(x)
            BY <4>1, <4>2, <4>3, <5>1, <5>2
          <5>3. CASE ~(i <= Len(x))
            <6>1. i - Len(x) \in 1 .. Len(y) /\ Len(x) + (i - Len(x)) = i
              BY <4>1, <5>3
            <6> QED BY <4>2, <4>3, <5>1, <6>1
          <5> QED BY <5>2, <5>3
        <4> QED BY <3>2, <4>4, <4>5 DEF x, y
      <3>4. Held(n) = Held(n - 1) \union ToSet(s[n])
        BY <3>1
      <3>5. ToSet(t[n - 1]) = Held(n - 1)
        BY <2>10
      <3> QED BY <3>1, <3>3, <3>4, <3>5
    <2>11. L \in H
      <3> HIDE DEF H
      <3>1. 1 .. L \subseteq H
        <4>1. one \in H /\ (\A n \in two .. L : n - 1 \in H => n \in H) /\ L \in Nat
          BY <1>1, <2>0, <2>9, <2>10
        <4>2. one .. L \subseteq H
          BY <2>0, <4>1, NumbersBetween, Zenon
        <4> QED BY <2>0, <4>2
      <3> QED BY <2>2, <3>1, <1>1
    <2>13. t[L] \in Seq(E) /\ ToSet(t[L]) = Held(L)
      <3>1. L \in 1 .. L
        BY <2>11
      <3> QED BY <2>8, <2>11, <3>1
    <2>14. Held(L) = UNION {ToSet(s[i]) : i \in DOMAIN s}
      BY <1>1
    <2> QED BY <2>1, <2>13, <2>14
  <1> QED BY <1>2, <1>3

-----------------------------------------------------------------------------
(* The files are a sequence, and what they say is about files and names there are. *)
Sourced ==
    /\ InRepository(jsFiles) /\ Len(jsFiles) \in Nat /\ JsFile = 1 .. Len(jsFiles)

(* There are finitely many names that a file may offer. *)
LEMMA NamesAreFinite ==
  ASSUME Sourced
  PROVE  IsFiniteSet(Exportable) /\ Cardinality(Exportable) \in Nat
  <1>0. Len(jsFiles) \in Nat
    BY DEF Sourced
  <1>1. IsFiniteSet(1 .. Len(jsFiles))
    BY <1>0, FS_Interval
  <1>2. IsFiniteSet(JsFile)
    BY <1>1 DEF Sourced
  <1>3. IsFiniteSet(ExportName)
    BY JsAssumption
  <1>4. IsFiniteSet(Exportable)
    BY <1>2, <1>3, FS_Product DEF Exportable
  <1> QED BY <1>4, FS_CardinalityType

(* What a re-export leads to is a name of a file. *)
LEMMA LeadsInside ==
  ASSUME Sourced, NEW v \in Exportable
  PROVE  Leads(v) \subseteq Exportable
  <1> DEFINE f == jsFiles[v[1]]
  <1>1. v[1] \in JsFile /\ v[2] \in ExportName
    BY DEF Exportable
  <1>2. /\ f.named \in Seq([owner : {v[1]}, target : JsFile, source : ExportName, name : ExportName])
        /\ f.stars \in Seq([owner : {v[1]}, target : JsFile])
    BY <1>1 DEF Sourced, InRepository, JsFile
  <1> HIDE DEF f
  <1>3. \A r \in ToSet(f.named) : r.target \in JsFile /\ r.source \in ExportName
    <2> DEFINE Records == [owner : {v[1]}, target : JsFile, source : ExportName, name : ExportName]
    <2>1. f.named \in Seq(Records)
      BY <1>2
    <2>2. \A r \in Records : r.target \in JsFile /\ r.source \in ExportName
      OBVIOUS
    <2> HIDE DEF Records
    <2>3. ToSet(f.named) \subseteq Records
      BY <2>1, InSequence
    <2> QED BY <2>2, <2>3
  <1>4. \A r \in ToSet(f.stars) : r.target \in JsFile
    <2> DEFINE Records == [owner : {v[1]}, target : JsFile]
    <2>1. f.stars \in Seq(Records)
      BY <1>2
    <2>2. \A r \in Records : r.target \in JsFile
      OBVIOUS
    <2> HIDE DEF Records
    <2>3. ToSet(f.stars) \subseteq Records
      BY <2>1, InSequence
    <2> QED BY <2>2, <2>3
  <1>5. Leads(v) = {<<r.target, r.source>> : r \in {q \in ToSet(f.named) : q.name = v[2]}}
        \union {<<r.target, v[2]>> :
                    r \in {q \in ToSet(f.stars) : v[2] \notin f.declares \union {"default"}}}
    BY DEF Leads, f
  <1> QED BY <1>1, <1>3, <1>4, <1>5 DEF Exportable

(* A set of names that re-exports do not leave. *)
Shut(S) == \A v \in S : Leads(v) \subseteq S

(* What is reached is the smallest set with the name that re-exports do not leave. *)
LEMMA ReachedAre ==
  ASSUME Sourced, NEW u \in Exportable
  PROVE  /\ u \in Reached(u) /\ Reached(u) \in SUBSET Exportable /\ Shut(Reached(u))
         /\ \A S : u \in S /\ Shut(S) => Reached(u) \subseteq S
  <1> DEFINE N == Cardinality(Exportable)
             Value(g, d) == IF d = 0 THEN {u} ELSE Further(g[d - 1])
             t == CHOOSE g : g = [d \in 0 .. N |-> Value(g, d)]
             V == SUBSET Exportable
             F == [n \in 1 .. N |-> [x \in V |-> Further(x)]]
  <1>1. Reached(u) = t[N]
    BY DEF Reached
  <1>2. N \in Nat /\ IsFiniteSet(Exportable)
    BY NamesAreFinite
  <1> HIDE DEF N
  <1>0. PICK zero \in Nat, one \in Nat : zero = 0 /\ one = 1 /\ one = zero + 1
    OBVIOUS
  <1>3. ASSUME NEW x \in V PROVE Further(x) \in V
    BY LeadsInside DEF Further
  <1>4. F \in Rules(V, zero + 1 .. N)
    BY <1>0, <1>3 DEF Rules
  <1>5. \A n \in 1 .. N, x \in V : F[n][x] = Further(x)
    OBVIOUS
  <1> HIDE DEF F
  <1>6. zero <= N /\ {u} \in V
    BY <1>0, <1>2
  <1> HIDE DEF V
  <1>7. \E g : g = [d \in 0 .. N |-> Value(g, d)]
    <2>1. \E g : Runs(g, V, zero, N, {u}, F)
      BY <1>2, <1>4, <1>6, StepsExist
    <2>2. PICK g \in [0 .. N -> V] : g[0] = {u} /\ \A n \in 1 .. N : g[n] = F[n][g[n - 1]]
      BY <1>0, <2>1 DEF Runs
    <2>3. ASSUME NEW d \in 0 .. N PROVE g[d] = Value(g, d)
      <3>1. CASE d = 0
        BY <2>2, <3>1
      <3>2. CASE d # 0
        <4>1. d \in 1 .. N /\ d - 1 \in 0 .. N
          BY <1>2, <3>2
        <4>2. g[d - 1] \in V
          BY <2>2, <4>1
        <4>3. g[d] = Further(g[d - 1])
          BY <1>5, <2>2, <4>1, <4>2
        <4> QED BY <3>2, <4>3
      <3> QED BY <3>1, <3>2
    <2>4. g = [d \in 0 .. N |-> Value(g, d)]
      BY <2>2, <2>3
    <2> QED BY <2>4
  <1>8. t = [d \in 0 .. N |-> Value(t, d)]
    BY <1>7
  <1> HIDE DEF t
  <1>9. /\ t = [d \in 0 .. N |-> t[d]] /\ t[0] = {u}
        /\ \A n \in 1 .. N : t[n] = Further(t[n - 1])
    <2>1. DOMAIN t = 0 .. N /\ t = [d \in 0 .. N |-> t[d]] /\ \A d \in 0 .. N : t[d] = Value(t, d)
      BY <1>8
    <2>2. 0 \in 0 .. N
      BY <1>2
    <2>3. ASSUME NEW n \in 1 .. N PROVE t[n] = Further(t[n - 1])
      <3>1. n \in 0 .. N /\ n # 0
        BY <1>2
      <3> QED BY <2>1, <3>1
    <2> QED BY <2>1, <2>2, <2>3
  <1> HIDE DEF Value
  <1>10. t \in [0 .. N -> V]
    <2>1. t = [d \in zero .. N |-> t[d]] /\ t[zero] = {u}
          /\ \A n \in zero + 1 .. N : t[n - 1] \in V => t[n] = F[n][t[n - 1]]
      BY <1>0, <1>5, <1>9
    <2>2. Runs(t, V, zero, N, {u}, F)
      BY <1>2, <1>4, <1>6, <2>1, StepsAre
    <2> QED BY <1>0, <2>2 DEF Runs
  <1>11. \A d \in 0 .. N : t[d] \subseteq Exportable /\ IsFiniteSet(t[d])
    BY <1>2, <1>10, FS_Subset DEF V
  <1> DEFINE H == {d \in 0 .. N : u \in t[d] /\ (Shut(t[d]) \/ Cardinality(t[d]) >= d + 1)}
  <1>12. zero \in H
    <2>1. Cardinality({u}) = 1
      BY FS_Singleton
    <2>2. zero \in 0 .. N /\ t[zero] = {u}
      BY <1>0, <1>2, <1>9
    <2>3. Cardinality(t[zero]) >= zero + 1
      BY <1>0, <2>1, <2>2
    <2>4. u \in t[zero]
      BY <2>2
    <2> QED BY <2>2, <2>3, <2>4
  <1>13. ASSUME NEW n \in one .. N, n - 1 \in H PROVE n \in H
    <2>1. n \in 1 .. N /\ n \in 0 .. N /\ n - 1 \in 0 .. N
      BY <1>0, <1>2
    <2>2. t[n] = Further(t[n - 1])
      BY <1>9, <2>1
    <2>3. t[n - 1] \subseteq t[n] /\ u \in t[n]
      BY <1>13, <2>2 DEF Further
    <2>4. CASE Shut(t[n - 1])
      <3>1. t[n] = t[n - 1]
        BY <2>2, <2>4 DEF Further, Shut
      <3>2. Shut(t[n])
        BY <2>4, <3>1
      <3> QED BY <2>1, <2>3, <3>2
    <2>5. CASE ~Shut(t[n - 1])
      <3>1. Cardinality(t[n - 1]) >= (n - 1) + 1
        BY <1>13, <2>5
      <3>2. t[n - 1] # t[n]
        BY <2>2, <2>5 DEF Further, Shut
      <3>3. IsFiniteSet(t[n]) /\ IsFiniteSet(t[n - 1])
        BY <1>11, <2>1
      <3>5. Cardinality(t[n]) \in Nat /\ Cardinality(t[n - 1]) \in Nat
        BY <3>3, FS_CardinalityType
      <3>7. t[n - 1] \in SUBSET t[n]
        BY <2>3
      <3>8. /\ Cardinality(t[n - 1]) <= Cardinality(t[n])
            /\ Cardinality(t[n]) = Cardinality(t[n - 1]) => t[n] = t[n - 1]
        BY <3>3, <3>7, FS_Subset
      <3>4. Cardinality(t[n - 1]) < Cardinality(t[n])
        BY <3>2, <3>5, <3>8
      <3>6. Cardinality(t[n]) >= n + 1
        BY <2>1, <3>1, <3>4, <3>5
      <3> QED BY <2>1, <2>3, <3>6
    <2> QED BY <2>4, <2>5
  <1>14. N \in 0 .. N /\ zero .. N = 0 .. N
    BY <1>0, <1>2
  <1>15. N \in H
    <2> HIDE DEF H
    <2>1. zero .. N \subseteq H
      BY <1>0, <1>2, <1>12, <1>13, NumbersBetween
    <2> QED BY <1>14, <2>1
  <1>16. Shut(t[N]) /\ u \in t[N]
    <2>1. t[N] \subseteq Exportable /\ Cardinality(t[N]) <= N
      BY <1>2, <1>11, <1>14, FS_Subset DEF N
    <2>2. Cardinality(t[N]) \in Nat
      BY <1>11, <1>14, FS_CardinalityType
    <2> QED BY <1>2, <1>15, <2>1, <2>2
  <1>17. ASSUME NEW S, u \in S, Shut(S) PROVE t[N] \subseteq S
    <2> DEFINE G == {d \in 0 .. N : t[d] \subseteq S}
    <2>1. zero \in G
      BY <1>0, <1>2, <1>9, <1>17
    <2>2. ASSUME NEW n \in one .. N, n - 1 \in G PROVE n \in G
      <3>1. n \in 1 .. N /\ n \in 0 .. N
        BY <1>0, <1>2
      <3>2. t[n] = Further(t[n - 1]) /\ t[n - 1] \subseteq S
        BY <1>9, <2>2, <3>1
      <3> QED BY <1>17, <3>1, <3>2 DEF Further, Shut
    <2>3. N \in G
      <3> HIDE DEF G
      <3>1. zero .. N \subseteq G
        BY <1>0, <1>2, <2>1, <2>2, NumbersBetween
      <3> QED BY <1>14, <3>1
    <2> QED BY <2>3
  <1>18. t[N] \in SUBSET Exportable
    BY <1>11, <1>14
  <1> QED BY <1>1, <1>16, <1>17, <1>18

(* Behind a re-export is what the name it leads to means. *)
LEMMA LeadsMean ==
  ASSUME Sourced, NEW u \in Exportable, NEW v \in Leads(u)
  PROVE  v \in Exportable /\ Means(v[1], v[2]) \subseteq Means(u[1], u[2])
  <1>1. v \in Exportable
    BY LeadsInside
  <1>2. u = <<u[1], u[2]>> /\ v = <<v[1], v[2]>>
    BY <1>1 DEF Exportable
  <1>3. v \in Reached(u) /\ Shut(Reached(u))
    BY ReachedAre DEF Shut
  <1>4. Reached(v) \subseteq Reached(u)
    BY <1>1, <1>3, ReachedAre
  <1> QED BY <1>1, <1>2, <1>4 DEF Means

(* A name that a file declares means what it declares. *)
LEMMA DeclaredMeans ==
  ASSUME Sourced, NEW i \in JsFile, NEW n \in jsFiles[i].declares
  PROVE  n \in ExportName /\ <<i, n>> \in Means(i, n)
  <1>1. n \in ExportName
    BY DEF Sourced, InRepository, JsFile
  <1>2. <<i, n>> \in Exportable
    BY <1>1 DEF Exportable
  <1> QED BY <1>1, <1>2, ReachedAre DEF Means

-----------------------------------------------------------------------------
(* Every repository of the instance is such a sequence of files, and so is the empty
   one. *)
LEMMA FilesAreSourced ==
  ASSUME jsFiles \in Repositories \union {<<>>}
  PROVE  Sourced
  <1>1. CASE jsFiles \in Repositories
    BY <1>1, JsAssumption DEF Sourced, JsFile
  <1>2. CASE jsFiles = <<>>
    <2>1. Len(jsFiles) = 0 /\ JsFile = {}
      BY <1>2 DEF JsFile
    <2> QED BY <2>1 DEF Sourced, InRepository, JsFile
  <1> QED BY <1>1, <1>2

(* A queue of what is put aside loses its head. *)
LEMMA HeadIsTaken ==
  ASSUME NEW E, NEW q \in Seq(E), q # <<>>
  PROVE  /\ Head(q) \in E /\ Tail(q) \in Seq(E)
         /\ \A e \in ToSet(q) : e = Head(q) \/ e \in ToSet(Tail(q))
  <1>1. /\ Len(q) \in Nat \ {0} /\ Head(q) = q[1] /\ Tail(q) \in Seq(E)
        /\ Len(Tail(q)) = Len(q) - 1 /\ \A i \in 1 .. Len(q) - 1 : Tail(q)[i] = q[i + 1]
    OBVIOUS
  <1>2. q[1] \in E
    BY <1>1
  <1>3. ASSUME NEW e \in ToSet(q), e # Head(q) PROVE e \in ToSet(Tail(q))
    <2>1. PICK i \in 1 .. Len(q) : e = q[i]
      BY <1>3, InSequence
    <2>2. i - 1 \in 1 .. Len(q) - 1 /\ (i - 1) + 1 = i
      BY <1>1, <1>3, <2>1
    <2>3. PICK behind \in Seq(E) : behind = Tail(q) /\ \E j \in 1 .. Len(behind) : e = behind[j]
      BY <1>1, <2>1, <2>2
    <2>4. e \in ToSet(behind)
      BY <2>3, InSequence
    <2> QED BY <2>3, <2>4
  <1> QED BY <1>1, <1>2, <1>3

(* A sequence is one of what it holds, and of more. *)
LEMMA SequenceOfItsOwn ==
  ASSUME NEW E, NEW q \in Seq(E), NEW D, ToSet(q) \subseteq D
  PROVE  q \in Seq(D)
  <1>1. Len(q) \in Nat /\ q = [i \in 1 .. Len(q) |-> q[i]]
    OBVIOUS
  <1>2. \A i \in 1 .. Len(q) : q[i] \in D
    BY InSequence
  <1> QED BY <1>1, <1>2

(* What the files re-export by name leads where the re-export says. *)
LEMMA NamedLead ==
  ASSUME Sourced, NEW r \in AllNamed
  PROVE  /\ r.owner \in JsFile /\ r.target \in JsFile
         /\ r.source \in ExportName /\ r.name \in ExportName
         /\ Means(r.target, r.source) \subseteq Means(r.owner, r.name)
  <1>1. PICK i \in JsFile : r \in ToSet(jsFiles[i].named)
    BY DEF AllNamed
  <1> DEFINE Records == [owner : {i}, target : JsFile, source : ExportName, name : ExportName]
  <1>2. jsFiles[i].named \in Seq(Records)
    BY DEF Sourced, InRepository, JsFile
  <1>3. \A e \in Records : e.owner = i /\ e.target \in JsFile /\ e.source \in ExportName /\ e.name \in ExportName
    OBVIOUS
  <1> HIDE DEF Records
  <1>4. r.owner = i /\ r.target \in JsFile /\ r.source \in ExportName /\ r.name \in ExportName
    BY <1>1, <1>2, <1>3, InSequence
  <1> DEFINE u == <<r.owner, r.name>>
             v == <<r.target, r.source>>
  <1>5. u \in Exportable /\ u[1] = i /\ u[2] = r.name /\ v[1] = r.target /\ v[2] = r.source
    BY <1>4 DEF Exportable
  <1>7. v \in {<<q.target, q.source>> : q \in {e \in ToSet(jsFiles[i].named) : e.name = r.name}}
    BY <1>1
  <1> HIDE DEF u
  <1>6. v \in Leads(u)
    BY <1>5, <1>7 DEF Leads
  <1> HIDE DEF v
  <1>8. Means(v[1], v[2]) \subseteq Means(u[1], u[2])
    BY <1>5, <1>6, LeadsMean
  <1> QED BY <1>4, <1>5, <1>8

(* What they re-export by a star leads to the same name, unless it is declared. *)
LEMMA StarsLead ==
  ASSUME Sourced, NEW r \in AllStars
  PROVE  /\ r.owner \in JsFile /\ r.target \in JsFile
         /\ \A n \in ExportName \ (jsFiles[r.owner].declares \union {"default"}) :
               Means(r.target, n) \subseteq Means(r.owner, n)
  <1>1. PICK i \in JsFile : r \in ToSet(jsFiles[i].stars)
    BY DEF AllStars
  <1> DEFINE Records == [owner : {i}, target : JsFile]
  <1>2. jsFiles[i].stars \in Seq(Records)
    BY DEF Sourced, InRepository, JsFile
  <1>3. \A e \in Records : e.owner = i /\ e.target \in JsFile
    OBVIOUS
  <1> HIDE DEF Records
  <1>4. r.owner = i /\ r.target \in JsFile
    BY <1>1, <1>2, <1>3, InSequence
  <1>5. ASSUME NEW n \in ExportName, n \notin jsFiles[i].declares \union {"default"}
        PROVE  Means(r.target, n) \subseteq Means(i, n)
    <2> DEFINE u == <<i, n>>
               v == <<r.target, n>>
    <2>1. u \in Exportable /\ u[1] = i /\ u[2] = n /\ v[1] = r.target /\ v[2] = n
      BY <1>4 DEF Exportable
    <2>2. v \in {<<q.target, n>> : q \in {e \in ToSet(jsFiles[i].stars) :
                                             n \notin jsFiles[i].declares \union {"default"}}}
      BY <1>1, <1>5
    <2> HIDE DEF u
    <2>3. v \in Leads(u)
      BY <2>1, <2>2 DEF Leads
    <2> HIDE DEF v
    <2>4. Means(v[1], v[2]) \subseteq Means(u[1], u[2])
      BY <2>1, <2>3, LeadsMean
    <2> QED BY <2>1, <2>4
  <1> QED BY <1>4, <1>5

-----------------------------------------------------------------------------
(* The re-exports of the files in one sequence. *)
LEMMA PendingAre ==
  ASSUME Sourced
  PROVE  /\ PendingNamed \in Seq(AllNamed) /\ ToSet(PendingNamed) = AllNamed
         /\ PendingStars \in Seq(AllStars) /\ ToSet(PendingStars) = AllStars
  <1> DEFINE s == [i \in JsFile |-> jsFiles[i].named]
             x == [i \in JsFile |-> jsFiles[i].stars]
  <1>0. Len(jsFiles) \in Nat /\ JsFile = 1 .. Len(jsFiles)
    BY DEF Sourced
  <1>1. ASSUME NEW i \in JsFile
        PROVE  jsFiles[i].named \in Seq(AllNamed) /\ jsFiles[i].stars \in Seq(AllStars)
    <2>1. /\ jsFiles[i].named \in Seq([owner : {i}, target : JsFile, source : ExportName, name : ExportName])
          /\ jsFiles[i].stars \in Seq([owner : {i}, target : JsFile])
      BY DEF Sourced, InRepository, JsFile
    <2>2. ToSet(jsFiles[i].named) \subseteq AllNamed /\ ToSet(jsFiles[i].stars) \subseteq AllStars
      BY DEF AllNamed, AllStars
    <2> QED BY <2>1, <2>2, SequenceOfItsOwn
  <1>2. s \in Seq(Seq(AllNamed)) /\ x \in Seq(Seq(AllStars))
    BY <1>0, <1>1
  <1>3. AllNamed = UNION {ToSet(s[i]) : i \in DOMAIN s} /\ AllStars = UNION {ToSet(x[i]) : i \in DOMAIN x}
    BY DEF AllNamed, AllStars
  <1>4. PendingNamed = FlattenSeq(s) /\ PendingStars = FlattenSeq(x)
    BY DEF PendingNamed, PendingStars
  <1> HIDE DEF s, x
  <1> QED BY <1>2, <1>3, <1>4, FlattenIs

(* When the files have been read, what the index holds is what they declare, and every
   re-export is put aside. *)
LEMMA ExportsStart ==
  ASSUME NEW readFiles \in Repositories \union {<<>>}, JsStart(readFiles)
  PROVE  JsIInv
  <1>1. jsFiles \in Repositories \union {<<>>} /\ Sourced
    BY FilesAreSourced DEF JsStart
  <1>2. DOMAIN exported = JsFile /\ \A i \in JsFile : exported[i] = [n \in jsFiles[i].declares |-> <<i, n>>]
    BY DEF JsStart, Declares
  <1>3. \A i \in JsFile : jsFiles[i].declares \subseteq ExportName
    BY <1>1 DEF Sourced, InRepository, JsFile
  <1>4. named = PendingNamed /\ stars = PendingStars
    BY DEF JsStart
  <1>5. /\ named \in Seq(AllNamed) /\ ToSet(named) = AllNamed
        /\ stars \in Seq(AllStars) /\ ToSet(stars) = AllStars
    BY <1>1, <1>4, PendingAre
  <1>6. JsTypes
    BY <1>1, <1>2, <1>3, <1>5 DEF JsTypes
  <1>7. PassesBring
    BY <1>5 DEF PassesBring
  <1>8. ExportsAreSound
    <2> SUFFICES ASSUME NEW i \in JsFile, NEW n \in DOMAIN exported[i]
                 PROVE  exported[i][n] \in Means(i, n)
      BY DEF ExportsAreSound
    <2>1. n \in jsFiles[i].declares /\ exported[i][n] = <<i, n>>
      BY <1>2
    <2> QED BY <1>1, <2>1, DeclaredMeans
  <1> QED BY <1>6, <1>7, <1>8 DEF JsIInv

(* Neither pass changes what the files say. *)
LEMMA FilesStay ==
  ASSUME jsFiles' = jsFiles
  PROVE  /\ JsFile' = JsFile /\ AllNamed' = AllNamed /\ AllStars' = AllStars
         /\ \A i, n : Means(i, n)' = Means(i, n)
  BY DEF JsFile, AllNamed, AllStars, Means, Reached, Further, Leads, Exportable

(* A named re-export brings what its target offers, and takes no declared name away.
   *)
LEMMA NamedPassKeeps ==
  ASSUME JsIInv, ResolveNamed
  PROVE  JsIInv'
  <1> DEFINE r == Head(named)
             found == r.source \in DOMAIN exported[r.target]
             symbol == exported[r.target][r.source]
  <1>1. /\ JsTypes /\ PassesBring /\ ExportsAreSound /\ named # <<>> /\ Sourced
        /\ jsFiles' = jsFiles /\ stars' = stars /\ named' = Tail(named)
    BY FilesAreSourced DEF JsIInv, JsTypes, ResolveNamed
  <1>2. /\ r \in AllNamed /\ named' \in Seq(AllNamed)
        /\ \A e \in ToSet(named) : e = r \/ e \in ToSet(named')
    BY <1>1, HeadIsTaken DEF JsTypes
  <1>3. exported' = IF found THEN [exported EXCEPT ![r.owner] = With(@, r.name, symbol)] ELSE exported
    BY DEF ResolveNamed
  <1> HIDE DEF r
  <1>4. /\ r.owner \in JsFile /\ r.target \in JsFile /\ r.name \in ExportName /\ r.source \in ExportName
        /\ Means(r.target, r.source) \subseteq Means(r.owner, r.name)
    BY <1>1, <1>2, NamedLead
  <1>5. DOMAIN exported = JsFile
    BY <1>1 DEF JsTypes
  <1>6. /\ DOMAIN exported' = JsFile
        /\ \A i \in JsFile : i # r.owner => exported'[i] = exported[i]
        /\ ~found => exported' = exported
        /\ found => exported'[r.owner] = With(exported[r.owner], r.name, symbol)
    BY <1>3, <1>4, <1>5
  <1> HIDE DEF symbol
  <1>7. found => /\ DOMAIN exported'[r.owner] = DOMAIN exported[r.owner] \union {r.name}
                 /\ exported'[r.owner][r.name] = symbol
                 /\ \A n \in DOMAIN exported[r.owner] : n # r.name =>
                       exported'[r.owner][n] = exported[r.owner][n]
    BY <1>6 DEF With
  <1>8. found => symbol \in Means(r.target, r.source)
    BY <1>1, <1>4 DEF ExportsAreSound, symbol
  <1>16. r.source \in jsFiles[r.target].declares => found
    BY <1>1, <1>4 DEF JsTypes
  <1> HIDE DEF found
  <1>9. \A i \in JsFile : /\ DOMAIN exported[i] \subseteq DOMAIN exported'[i]
                          /\ DOMAIN exported'[i] \subseteq DOMAIN exported[i] \union ExportName
    BY <1>4, <1>6, <1>7
  <1>10. /\ JsFile' = JsFile /\ AllNamed' = AllNamed /\ AllStars' = AllStars
         /\ \A i, n : Means(i, n)' = Means(i, n)
    BY <1>1, FilesStay
  <1>11. JsTypes'
    BY <1>1, <1>2, <1>6, <1>9, <1>10 DEF JsTypes
  <1>12. ASSUME NEW i \in JsFile, NEW n \in DOMAIN exported'[i] PROVE exported'[i][n] \in Means(i, n)
    <2>1. CASE i = r.owner /\ found /\ n = r.name
      BY <1>4, <1>7, <1>8, <2>1
    <2>2. CASE ~(i = r.owner /\ found /\ n = r.name)
      <3>1. n \in DOMAIN exported[i] /\ exported'[i][n] = exported[i][n]
        BY <1>6, <1>7, <1>12, <2>2
      <3> QED BY <1>1, <3>1 DEF ExportsAreSound
    <2> QED BY <2>1, <2>2
  <1>13. ExportsAreSound'
    BY <1>10, <1>12 DEF ExportsAreSound
  <1>14. ASSUME NEW q \in AllNamed, q \notin ToSet(named'), q.source \in jsFiles[q.target].declares
         PROVE  q.name \in DOMAIN exported'[q.owner]
    <2>1. CASE q = r
      BY <1>7, <1>14, <1>16, <2>1
    <2>2. CASE q # r
      <3>1. q \notin ToSet(named)
        BY <1>2, <1>14, <2>2
      <3>2. q.name \in DOMAIN exported[q.owner] /\ q.owner \in JsFile
        BY <1>1, <1>14, <3>1, NamedLead DEF PassesBring
      <3> QED BY <1>9, <3>2
    <2> QED BY <2>1, <2>2
  <1>15. PassesBring'
    <2>1. \A q \in AllStars : q \in ToSet(stars) \/
             jsFiles[q.target].declares \ {"default"} \subseteq DOMAIN exported'[q.owner]
      BY <1>1, <1>9, StarsLead DEF PassesBring
    <2> QED BY <1>1, <1>10, <1>14, <2>1 DEF PassesBring
  <1> QED BY <1>11, <1>13, <1>15 DEF JsIInv

(* A star brings the names that the file does not have, and changes none that it has.
   *)
LEMMA StarPassKeeps ==
  ASSUME JsIInv, ResolveStar
  PROVE  JsIInv'
  <1> DEFINE r == Head(stars)
             gets == [n \in DOMAIN exported[r.owner] \union Passed(r) |->
                         IF n \in DOMAIN exported[r.owner] THEN exported[r.owner][n]
                         ELSE exported[r.target][n]]
  <1>1. /\ JsTypes /\ PassesBring /\ ExportsAreSound /\ stars # <<>> /\ Sourced
        /\ jsFiles' = jsFiles /\ named' = named /\ stars' = Tail(stars)
    BY FilesAreSourced DEF JsIInv, JsTypes, ResolveStar
  <1>2. /\ r \in AllStars /\ stars' \in Seq(AllStars)
        /\ \A e \in ToSet(stars) : e = r \/ e \in ToSet(stars')
    BY <1>1, HeadIsTaken DEF JsTypes
  <1>3. exported' = [exported EXCEPT ![r.owner] = gets]
    BY DEF ResolveStar
  <1> HIDE DEF r
  <1>4. /\ r.owner \in JsFile /\ r.target \in JsFile
        /\ \A n \in ExportName \ (jsFiles[r.owner].declares \union {"default"}) :
              Means(r.target, n) \subseteq Means(r.owner, n)
    BY <1>1, <1>2, StarsLead
  <1>5. DOMAIN exported = JsFile /\ \A i \in JsFile : /\ DOMAIN exported[i] \subseteq ExportName
                                                    /\ jsFiles[i].declares \subseteq DOMAIN exported[i]
    BY <1>1 DEF JsTypes
  <1>6. /\ DOMAIN exported' = JsFile /\ exported'[r.owner] = gets
        /\ \A i \in JsFile : i # r.owner => exported'[i] = exported[i]
    BY <1>3, <1>4, <1>5
  <1>7. /\ DOMAIN exported'[r.owner] = DOMAIN exported[r.owner] \union Passed(r)
        /\ \A n \in DOMAIN exported[r.owner] : exported'[r.owner][n] = exported[r.owner][n]
        /\ \A n \in Passed(r) \ DOMAIN exported[r.owner] :
              exported'[r.owner][n] = exported[r.target][n]
    BY <1>6
  <1> HIDE DEF gets
  <1>8. Passed(r) \subseteq ExportName /\ Passed(r) = DOMAIN exported[r.target] \ {"default"}
    BY <1>4, <1>5 DEF Passed
  <1>9. \A i \in JsFile : /\ DOMAIN exported[i] \subseteq DOMAIN exported'[i]
                          /\ DOMAIN exported'[i] \subseteq ExportName
    BY <1>4, <1>5, <1>6, <1>7, <1>8
  <1>10. /\ JsFile' = JsFile /\ AllNamed' = AllNamed /\ AllStars' = AllStars
         /\ \A i, n : Means(i, n)' = Means(i, n)
    BY <1>1, FilesStay
  <1>11. JsTypes'
    BY <1>1, <1>2, <1>5, <1>6, <1>9, <1>10 DEF JsTypes
  <1>12. ASSUME NEW i \in JsFile, NEW n \in DOMAIN exported'[i] PROVE exported'[i][n] \in Means(i, n)
    <2>1. CASE n \in DOMAIN exported[i]
      <3>1. exported'[i][n] = exported[i][n]
        BY <1>6, <1>7, <2>1
      <3> QED BY <1>1, <2>1, <3>1 DEF ExportsAreSound
    <2>2. CASE n \notin DOMAIN exported[i]
      <3>1. i = r.owner /\ n \in Passed(r) \ DOMAIN exported[r.owner]
        BY <1>6, <1>7, <1>12, <2>2
      <3>2. n \in DOMAIN exported[r.target] /\ n \in ExportName
            /\ n \notin jsFiles[r.owner].declares \union {"default"}
        BY <1>4, <1>5, <1>8, <3>1
      <3>3. exported[r.target][n] \in Means(r.target, n)
        BY <1>1, <1>4, <3>2 DEF ExportsAreSound
      <3>4. Means(r.target, n) \subseteq Means(r.owner, n)
        BY <1>4, <3>2
      <3> QED BY <1>7, <3>1, <3>3, <3>4
    <2> QED BY <2>1, <2>2
  <1>13. ExportsAreSound'
    BY <1>10, <1>12 DEF ExportsAreSound
  <1>14. ASSUME NEW q \in AllStars, q \notin ToSet(stars')
         PROVE  jsFiles[q.target].declares \ {"default"} \subseteq DOMAIN exported'[q.owner]
    <2>1. CASE q = r
      BY <1>4, <1>5, <1>7, <1>8, <2>1
    <2>2. CASE q # r
      <3>1. q \notin ToSet(stars)
        BY <1>2, <1>14, <2>2
      <3>2. q.owner \in JsFile /\ jsFiles[q.target].declares \ {"default"} \subseteq DOMAIN exported[q.owner]
        BY <1>1, <1>14, <3>1, StarsLead DEF PassesBring
      <3> QED BY <1>9, <3>2
    <2> QED BY <2>1, <2>2
  <1>15. PassesBring'
    <2>1. \A q \in AllNamed : q \in ToSet(named) \/
             (q.source \in jsFiles[q.target].declares => q.name \in DOMAIN exported'[q.owner])
      BY <1>1, <1>9, NamedLead DEF PassesBring
    <2> QED BY <1>1, <1>10, <1>14, <2>1 DEF PassesBring
  <1> QED BY <1>11, <1>13, <1>15 DEF JsIInv

(* So both passes keep the invariant of the index. *)
LEMMA ExportsKeep ==
  ASSUME JsIInv, [JsNext]_jsVars
  PROVE  JsIInv'
  <1>1. CASE UNCHANGED jsVars
    <2>1. jsFiles' = jsFiles /\ exported' = exported /\ named' = named /\ stars' = stars
      BY <1>1 DEF jsVars
    <2>2. /\ JsFile' = JsFile /\ AllNamed' = AllNamed /\ AllStars' = AllStars
          /\ \A i, n : Means(i, n)' = Means(i, n)
      BY <2>1, FilesStay
    <2> QED BY <2>1, <2>2 DEF JsIInv, JsTypes, PassesBring, ExportsAreSound
  <1> QED BY <1>1, NamedPassKeeps, StarPassKeeps DEF JsNext

(* What is put aside is resolved in the end. *)
LEMMA ExportsAreFound ==
  ASSUME JsIInv
  PROVE  ExportsAreSound /\ DirectReexportsAreFound
  <1>1. ASSUME ExportsDone
        PROVE  /\ \A r \in AllNamed : r.source \in jsFiles[r.target].declares
                                        => r.name \in DOMAIN exported[r.owner]
               /\ \A r \in AllStars : jsFiles[r.target].declares \ {"default"}
                                        \subseteq DOMAIN exported[r.owner]
    <2>1. ToSet(named) = {} /\ ToSet(stars) = {}
      BY <1>1 DEF ExportsDone, ToSet
    <2> QED BY <2>1 DEF JsIInv, PassesBring
  <1>2. Sourced
    BY FilesAreSourced DEF JsIInv, JsTypes
  <1>3. ASSUME NEW i \in JsFile, NEW k \in DOMAIN jsFiles[i].named
        PROVE  jsFiles[i].named[k] \in AllNamed /\ jsFiles[i].named[k].owner = i
    <2>1. jsFiles[i].named[k] \in ToSet(jsFiles[i].named)
      BY DEF ToSet
    <2> DEFINE Records == [owner : {i}, target : JsFile, source : ExportName, name : ExportName]
    <2>2. jsFiles[i].named \in Seq(Records)
      BY <1>2 DEF Sourced, InRepository, JsFile
    <2>3. \A e \in Records : e.owner = i
      OBVIOUS
    <2> HIDE DEF Records
    <2>4. jsFiles[i].named[k] \in Records
      BY <2>1, <2>2, InSequence
    <2> QED BY <2>1, <2>3, <2>4 DEF AllNamed
  <1>4. ASSUME NEW i \in JsFile, NEW k \in DOMAIN jsFiles[i].stars
        PROVE  jsFiles[i].stars[k] \in AllStars /\ jsFiles[i].stars[k].owner = i
    <2>1. jsFiles[i].stars[k] \in ToSet(jsFiles[i].stars)
      BY DEF ToSet
    <2> DEFINE Records == [owner : {i}, target : JsFile]
    <2>2. jsFiles[i].stars \in Seq(Records)
      BY <1>2 DEF Sourced, InRepository, JsFile
    <2>3. \A e \in Records : e.owner = i
      OBVIOUS
    <2> HIDE DEF Records
    <2>4. jsFiles[i].stars[k] \in Records
      BY <2>1, <2>2, InSequence
    <2> QED BY <2>1, <2>3, <2>4 DEF AllStars
  <1>5. ASSUME ExportsDone, NEW i \in JsFile, NEW k \in DOMAIN jsFiles[i].named,
               jsFiles[i].named[k].source \in jsFiles[jsFiles[i].named[k].target].declares
        PROVE  jsFiles[i].named[k].name \in DOMAIN exported[i]
    BY <1>1, <1>3, <1>5
  <1>6. ASSUME ExportsDone, NEW i \in JsFile, NEW k \in DOMAIN jsFiles[i].stars
        PROVE  jsFiles[jsFiles[i].stars[k].target].declares \ {"default"} \subseteq DOMAIN exported[i]
    BY <1>1, <1>4, <1>6
  <1>7. DirectReexportsAreFound
    BY <1>5, <1>6 DEF DirectReexportsAreFound
  <1> QED BY <1>7 DEF JsIInv

-----------------------------------------------------------------------------
(* What is read of the file under study: its modules have names, and a static import is a
   package and a name. *)
ScopeFits ==
    /\ NoName \notin Modules
    /\ Len(scope.wildcards) \in Nat /\ DOMAIN scope.wildcards = 1 .. Len(scope.wildcards)
    /\ Len(scope.statics) \in Nat /\ DOMAIN scope.statics = 1 .. Len(scope.statics)
    /\ \A k \in DOMAIN scope.statics : scope.statics[k] = <<scope.statics[k][1], scope.statics[k][2]>>

(* Every file under study is of that form. *)
LEMMA ScopesFit ==
  ASSUME scope \in Scope
  PROVE  ScopeFits
  <1>1. /\ scope.wildcards \in Seq(STRING \ {NoName})
        /\ scope.statics \in Seq(STRING \X STRING)
    BY ScopeAssumption
  <1>2. \A k \in 1 .. Len(scope.wildcards) : scope.wildcards[k] # NoName
    BY <1>1
  <1>3. \A k \in 1 .. Len(scope.statics) : scope.statics[k] = <<scope.statics[k][1], scope.statics[k][2]>>
    BY <1>1
  <1>4. NoName \notin Modules
    BY <1>1, <1>2 DEF Modules
  <1> QED BY <1>1, <1>3, <1>4 DEF ScopeFits

(* The first of the rules that find something answers. *)
LEMMA LadderIs ==
  ASSUME NEW rules, NEW last \in Nat, DOMAIN rules = 1 .. last,
         NEW k \in 1 .. last, rules[k].is # {}, \A j \in 1 .. k - 1 : rules[j].is = {}
  PROVE  Ladder(rules) = rules[k]
  <1> DEFINE hits == {j \in DOMAIN rules : rules[j].is # {}}
  <1>1. k \in hits /\ \A j \in hits : k <= j
    <2>1. ASSUME NEW j \in hits, ~(k <= j) PROVE FALSE
      <3>1. j \in 1 .. k - 1
        BY <2>1
      <3> QED BY <2>1, <3>1
    <2> QED BY <2>1
  <1>2. ASSUME NEW j \in hits, \A l \in hits : j <= l PROVE j = k
    <2>1. j <= k /\ k <= j /\ j \in Nat
      BY <1>1, <1>2
    <2> QED BY <2>1
  <1>3. (CHOOSE j \in hits : \A l \in hits : j <= l) = k
    BY <1>1, <1>2
  <1> QED BY <1>1, <1>3 DEF Ladder

(* If no rule finds anything, the name stays unresolved. *)
LEMMA LadderIsEmpty ==
  ASSUME NEW rules, \A j \in DOMAIN rules : rules[j].is = {}
  PROVE  Ladder(rules) = [by |-> "unresolved", is |-> {}]
  BY DEF Ladder

(* There is a first rule that finds something, if any does. *)
LEMMA FirstHit ==
  ASSUME NEW rules, NEW last \in Nat, DOMAIN rules = 1 .. last,
         NEW some \in 1 .. last, rules[some].is # {}
  PROVE  \E k \in 1 .. last : rules[k].is # {} /\ \A j \in 1 .. k - 1 : rules[j].is = {}
  <1> DEFINE hits == {j \in 1 .. last : rules[j].is # {}}
  <1>1. hits \in SUBSET Nat /\ hits # {}
    OBVIOUS
  <1> HIDE DEF hits
  <1>2. PICK k \in hits : \A j \in hits : k <= j
    BY <1>1, SmallestOf
  <1>3. k \in 1 .. last /\ rules[k].is # {}
    BY DEF hits
  <1>4. ASSUME NEW j \in 1 .. k - 1 PROVE rules[j].is = {}
    <2>1. j \in 1 .. last /\ ~(k <= j)
      BY <1>3
    <2> QED BY <1>2, <2>1 DEF hits
  <1> QED BY <1>3, <1>4

-----------------------------------------------------------------------------
(* The only symbol of a name answers without a scope. *)
Unscoped == "global_unique"

(* Rules that only differ where no scope is asked, and there only while a later rule finds
   nothing, keep an answer that a scope explains. *)
LEMMA LadderStays ==
  ASSUME NEW old, NEW new, NEW last \in Nat, DOMAIN old = 1 .. last, DOMAIN new = 1 .. last,
         \A k \in 1 .. last : old[k].by # Unscoped => new[k] = old[k],
         \A k \in 1 .. last : /\ old[k].by = Unscoped /\ old[k].is = {}
                              /\ \E j \in k + 1 .. last : old[j].is # {}
                              => new[k].is = {},
         Scoped(Ladder(old))
  PROVE  Ladder(new) = Ladder(old)
  <1>1. \E k \in 1 .. last : old[k].is # {}
    <2>1. CASE \A k \in DOMAIN old : old[k].is = {}
      BY <2>1, LadderIsEmpty DEF Scoped
    <2> QED BY <2>1
  <1>2. PICK k \in 1 .. last : old[k].is # {} /\ \A j \in 1 .. k - 1 : old[j].is = {}
    BY <1>1, FirstHit
  <1>3. Ladder(old) = old[k]
    BY <1>2, LadderIs
  <1>4. old[k].by # Unscoped
    BY <1>3 DEF Scoped, Unscoped
  <1>5. new[k] = old[k]
    BY <1>4
  <1>6. ASSUME NEW j \in 1 .. k - 1 PROVE new[j].is = {}
    <2>1. j \in 1 .. last /\ old[j].is = {} /\ k \in j + 1 .. last
      BY <1>2
    <2> QED BY <1>2, <2>1
  <1>7. Ladder(new) = new[k]
    BY <1>2, <1>5, <1>6, LadderIs
  <1> QED BY <1>3, <1>5, <1>7

(* What the rules look for, written out. *)
LEMMA RulesAre ==
  /\ \A code, n : InFile(code, n) = {i \in DOMAIN code : code[i].file = scope.file /\ code[i].name = n}
  /\ \A code, p, n : Qualified(code, p, n) =
        IF p = NoName THEN {} ELSE Latest({i \in DOMAIN code : code[i].package = p /\ code[i].name = n})
  /\ \A code, p, n : QualifiedTop(code, p, n) =
        IF p = NoName THEN {}
        ELSE Latest({i \in DOMAIN code : code[i].package = p /\ code[i].name = n /\ code[i].owner = NoName})
  /\ \A code, p, n : QualifiedType(code, p, n) =
        IF p = NoName THEN {}
        ELSE Latest({i \in DOMAIN code : code[i].package = p /\ code[i].name = n /\ code[i].type})
  /\ \A code, n : Everywhere(code, n) = {i \in DOMAIN code : code[i].name = n}
  /\ \A code, n : EverywhereType(code, n) = {i \in DOMAIN code : code[i].name = n /\ code[i].type}
  /\ \A code, n : OfOwner(code, n) =
        IF scope.owner = NoName THEN {}
        ELSE {i \in DOMAIN code : code[i].name = n /\ code[i].owner = scope.owner}
  /\ \A code, S, packages : Within(code, S, packages) = {i \in S : code[i].package \in packages}
  BY DEF InFile, Qualified, QualifiedTop, QualifiedType, Everywhere, EverywhereType, OfOwner, Within, Where

(* A symbol out of sight is behind the others, and no scope of the file names it. *)
Beside(code, more) ==
    /\ Len(code) \in Nat /\ DOMAIN code = 1 .. Len(code)
    /\ DOMAIN more = 1 .. Len(code) + 1 /\ \A i \in DOMAIN code : more[i] = code[i]
    /\ ~Visible(more[Len(code) + 1])

(* The packages that the file names. *)
Named == {scope.package, scope.imported, scope.prefix} \union Modules

(* It is of no package that the file names. *)
LEMMA NotOfThePackage ==
  ASSUME NEW code, NEW more, Beside(code, more), NEW p \in Named, p # NoName
  PROVE  more[Len(code) + 1].package # p
  BY DEF Beside, Visible, Named

(* It is not in the file under study. *)
LEMMA FileStays ==
  ASSUME NEW code, NEW more, Beside(code, more), NEW n
  PROVE  InFile(more, n) = InFile(code, n)
  <1>1. more[Len(code) + 1].file # scope.file
    BY DEF Beside, Visible
  <1>2. DOMAIN more = DOMAIN code \union {Len(code) + 1}
    BY DEF Beside
  <1> QED BY <1>1, <1>2, RulesAre DEF Beside

(* What a package named by the file holds is what it held. *)
LEMMA PackageStays ==
  ASSUME NEW code, NEW more, Beside(code, more), NEW p \in Named, NEW n
  PROVE  /\ Qualified(more, p, n) = Qualified(code, p, n)
         /\ QualifiedTop(more, p, n) = QualifiedTop(code, p, n)
         /\ QualifiedType(more, p, n) = QualifiedType(code, p, n)
  <1>1. CASE p = NoName
    BY <1>1, RulesAre
  <1>2. CASE p # NoName
    <2>1. more[Len(code) + 1].package # p
      BY <1>2, NotOfThePackage
    <2>2. DOMAIN more = DOMAIN code \union {Len(code) + 1}
      BY DEF Beside
    <2>3. {i \in DOMAIN more : more[i].package = p /\ more[i].name = n}
            = {i \in DOMAIN code : code[i].package = p /\ code[i].name = n}
      BY <2>1, <2>2 DEF Beside
    <2>4. {i \in DOMAIN more : more[i].package = p /\ more[i].name = n /\ more[i].type}
            = {i \in DOMAIN code : code[i].package = p /\ code[i].name = n /\ code[i].type}
      BY <2>1, <2>2 DEF Beside
    <2>5. {i \in DOMAIN more : more[i].package = p /\ more[i].name = n /\ more[i].owner = NoName}
            = {i \in DOMAIN code : code[i].package = p /\ code[i].name = n /\ code[i].owner = NoName}
      BY <2>1, <2>2 DEF Beside
    <2> QED BY <1>2, <2>3, <2>4, <2>5, RulesAre
  <1> QED BY <1>1, <1>2

(* So is what a static import finds. *)
LEMMA StaticStays ==
  ASSUME NEW code, NEW more, Beside(code, more), ScopeFits, NEW k \in DOMAIN scope.statics
  PROVE  QualifiedType(more, scope.statics[k][1], scope.statics[k][2])
            = QualifiedType(code, scope.statics[k][1], scope.statics[k][2])
  <1> DEFINE p == scope.statics[k][1]
             n == scope.statics[k][2]
             s == more[Len(code) + 1]
  <1>1. ~(s.package = p /\ s.name = n)
    BY DEF Beside, Visible, ScopeFits
  <1>2. DOMAIN more = DOMAIN code \union {Len(code) + 1}
    BY DEF Beside
  <1>3. {i \in DOMAIN more : more[i].package = p /\ more[i].name = n /\ more[i].type}
            = {i \in DOMAIN code : code[i].package = p /\ code[i].name = n /\ code[i].type}
    BY <1>1, <1>2 DEF Beside
  <1> QED BY <1>3, RulesAre

(* Swift: what its owner and a module tell apart. *)
LEMMA OwnersStay ==
  ASSUME NEW code, NEW more, Beside(code, more), ScopeFits, NEW n, NEW packages,
         packages = Modules \/ (packages = {scope.prefix} /\ scope.prefix # NoName)
  PROVE  /\ Within(more, OfOwner(more, n), packages) = Within(code, OfOwner(code, n), packages)
         /\ Within(more, Everywhere(more, n), packages) = Within(code, Everywhere(code, n), packages)
         /\ \A S : Within(more, OfOwner(more, n) \ S, packages) = Within(code, OfOwner(code, n) \ S, packages)
  <1>1. \A p \in packages : p \in Named /\ p # NoName
    BY DEF Named, ScopeFits
  <1>2. more[Len(code) + 1].package \notin packages
    BY <1>1, NotOfThePackage
  <1>3. DOMAIN more = DOMAIN code \union {Len(code) + 1} /\ \A i \in DOMAIN code : more[i] = code[i]
    BY DEF Beside
  <1> QED BY <1>2, <1>3, RulesAre

(* Names of the repository may become more. *)
LEMMA OnlyIsOne ==
  ASSUME NEW S, IsFiniteSet(S)
  PROVE  /\ Only(S) = {} => Cardinality(S) # 1
         /\ Only(S) # {} => Cardinality(S) = 1
         /\ Only(S) \in {{}, S}
  <1>1. Cardinality(S) = 1 => S # {}
    BY FS_EmptySet
  <1> QED BY <1>1 DEF Only

(* A name that several symbols share is still shared by them when one more comes. *)
LEMMA StillNotUnique ==
  ASSUME NEW code, NEW more, Beside(code, more), NEW n,
         Only(Everywhere(code, n)) = {}, Everywhere(code, n) # {}
  PROVE  Only(Everywhere(more, n)) = {}
  <1> DEFINE S == Everywhere(code, n)
             T == Everywhere(more, n)
  <1>1. Len(code) \in Nat /\ IsFiniteSet(1 .. Len(code)) /\ IsFiniteSet(1 .. Len(code) + 1)
    BY FS_Interval DEF Beside
  <1>2. S \subseteq 1 .. Len(code) /\ T \subseteq 1 .. Len(code) + 1 /\ S \subseteq T
    BY RulesAre DEF Beside
  <1>3. IsFiniteSet(S) /\ IsFiniteSet(T)
    BY <1>1, <1>2, FS_Subset
  <1> HIDE DEF S, T
  <1>4. Cardinality(S) # 1 /\ Cardinality(S) # 0 /\ Cardinality(S) \in Nat /\ Cardinality(T) \in Nat
    BY <1>3, FS_EmptySet, FS_CardinalityType, OnlyIsOne DEF S
  <1>5. S \in SUBSET T
    BY <1>2
  <1>6. Cardinality(S) <= Cardinality(T)
    BY <1>3, <1>5, FS_Subset
  <1>7. Cardinality(T) # 1
    BY <1>4, <1>6
  <1> QED BY <1>7 DEF Only, T

-----------------------------------------------------------------------------
(* What the imports of the file find is what they found. *)
LEMMA ImportsStay ==
  ASSUME NEW code, NEW more, Beside(code, more), ScopeFits, NEW n
  PROVE  /\ WildcardTypes(more, n) = WildcardTypes(code, n)
         /\ WildcardNames(more, n) = WildcardNames(code, n)
         /\ StaticTypes(more) = StaticTypes(code)
  <1>1. \A k \in DOMAIN scope.wildcards : scope.wildcards[k] \in Named
    BY DEF Named, Modules
  <1>2. WildcardTypes(more, n) = WildcardTypes(code, n) /\ WildcardNames(more, n) = WildcardNames(code, n)
    BY <1>1, PackageStays DEF WildcardTypes, WildcardNames
  <1>3. StaticTypes(more) = StaticTypes(code)
    BY StaticStays DEF StaticTypes
  <1> QED BY <1>2, <1>3

(* So an answer from a scope stays: the languages in which the only symbol of a name is the
   last rule. *)
LEMMA JavaStays ==
  ASSUME NEW code, NEW more, Beside(code, more), ScopeFits, Scoped(JavaAnswer(code))
  PROVE  JavaAnswer(more) = JavaAnswer(code)
  <1> DEFINE n == scope.name
             AllRules(x) == <<
                Rule("fqcn", QualifiedType(x, scope.prefix, n)),
                Rule("local", Latest(InFile(x, n))),
                Rule("import", QualifiedType(x, scope.imported, n)),
                Rule("static_import", FirstOf(StaticTypes(x))),
                Rule("import_wildcard", FirstOf(WildcardTypes(x, n))),
                Rule("same_package", QualifiedType(x, scope.package, n)),
                Rule("global_unique", Only(EverywhereType(x, n))) >>
             old == AllRules(code)
             new == AllRules(more)
  <1>1. JavaAnswer(code) = Ladder(old) /\ JavaAnswer(more) = Ladder(new)
    BY DEF JavaAnswer
  <1>2. {scope.prefix, scope.imported, scope.package} \subseteq Named
    BY DEF Named
  <1>3. /\ QualifiedType(more, scope.prefix, n) = QualifiedType(code, scope.prefix, n)
        /\ QualifiedType(more, scope.imported, n) = QualifiedType(code, scope.imported, n)
        /\ QualifiedType(more, scope.package, n) = QualifiedType(code, scope.package, n)
        /\ InFile(more, n) = InFile(code, n)
        /\ StaticTypes(more) = StaticTypes(code) /\ WildcardTypes(more, n) = WildcardTypes(code, n)
    BY <1>2, PackageStays, FileStays, ImportsStay
  <1>4. /\ DOMAIN old = 1 .. 7 /\ DOMAIN new = 1 .. 7 /\ old[7].by = Unscoped
        /\ new[1] = old[1] /\ new[2] = old[2] /\ new[3] = old[3] /\ new[4] = old[4] /\ new[5] = old[5] /\ new[6] = old[6]
    BY <1>3 DEF Rule, Unscoped
  <1> HIDE DEF old, new
  <1>5. \A k \in 1 .. 7 : k = 1 \/ k = 2 \/ k = 3 \/ k = 4 \/ k = 5 \/ k = 6 \/ k = 7
    OBVIOUS
  <1>6. \A k \in 1 .. 7 : old[k].by # Unscoped => new[k] = old[k]
    BY <1>4, <1>5
  <1>7. \A k \in 1 .. 7 : old[k].by = Unscoped /\ (\E j \in k + 1 .. 7 : old[j].is # {}) => new[k] = old[k]
    <2>1. 7 + 1 .. 7 = {}
      OBVIOUS
    <2> QED BY <1>4, <1>5, <2>1
  <1>8. PICK last \in Nat : last = 7
    OBVIOUS
  <1>9. /\ DOMAIN old = 1 .. last /\ DOMAIN new = 1 .. last
        /\ \A k \in 1 .. last : old[k].by # Unscoped => new[k] = old[k]
        /\ \A k \in 1 .. last : old[k].by = Unscoped /\ old[k].is = {}
              /\ (\E j \in k + 1 .. last : old[j].is # {}) => new[k].is = {}
    BY <1>4, <1>6, <1>7, <1>8
  <1> QED BY <1>1, <1>9, LadderStays

(* The same, of Kotlin. *)
LEMMA KotlinStays ==
  ASSUME NEW code, NEW more, Beside(code, more), ScopeFits, Scoped(KotlinAnswer(code))
  PROVE  KotlinAnswer(more) = KotlinAnswer(code)
  <1> DEFINE n == scope.name
             AllRules(x) == <<
                Rule("import", QualifiedTop(x, scope.prefix, n)),
                Rule("local", Latest(InFile(x, n))),
                Rule("import", QualifiedTop(x, scope.imported, n)),
                Rule("same_package", QualifiedTop(x, scope.package, n)),
                Rule("import_wildcard", FirstOf(WildcardNames(x, n))),
                Rule("global_unique", Only(Everywhere(x, n))) >>
             old == AllRules(code)
             new == AllRules(more)
  <1>1. KotlinAnswer(code) = Ladder(old) /\ KotlinAnswer(more) = Ladder(new)
    BY DEF KotlinAnswer
  <1>2. {scope.prefix, scope.imported, scope.package} \subseteq Named
    BY DEF Named
  <1>3. /\ QualifiedTop(more, scope.prefix, n) = QualifiedTop(code, scope.prefix, n)
        /\ QualifiedTop(more, scope.imported, n) = QualifiedTop(code, scope.imported, n)
        /\ QualifiedTop(more, scope.package, n) = QualifiedTop(code, scope.package, n)
        /\ InFile(more, n) = InFile(code, n) /\ WildcardNames(more, n) = WildcardNames(code, n)
    BY <1>2, PackageStays, FileStays, ImportsStay
  <1>4. /\ DOMAIN old = 1 .. 6 /\ DOMAIN new = 1 .. 6 /\ old[6].by = Unscoped
        /\ new[1] = old[1] /\ new[2] = old[2] /\ new[3] = old[3] /\ new[4] = old[4] /\ new[5] = old[5]
    BY <1>3 DEF Rule, Unscoped
  <1> HIDE DEF old, new
  <1>5. \A k \in 1 .. 6 : k = 1 \/ k = 2 \/ k = 3 \/ k = 4 \/ k = 5 \/ k = 6
    OBVIOUS
  <1>6. \A k \in 1 .. 6 : old[k].by # Unscoped => new[k] = old[k]
    BY <1>4, <1>5
  <1>7. \A k \in 1 .. 6 : old[k].by = Unscoped /\ (\E j \in k + 1 .. 6 : old[j].is # {}) => new[k] = old[k]
    <2>1. 6 + 1 .. 6 = {}
      OBVIOUS
    <2> QED BY <1>4, <1>5, <2>1
  <1>8. PICK last \in Nat : last = 6
    OBVIOUS
  <1>9. /\ DOMAIN old = 1 .. last /\ DOMAIN new = 1 .. last
        /\ \A k \in 1 .. last : old[k].by # Unscoped => new[k] = old[k]
        /\ \A k \in 1 .. last : old[k].by = Unscoped /\ old[k].is = {}
              /\ (\E j \in k + 1 .. last : old[j].is # {}) => new[k].is = {}
    BY <1>4, <1>6, <1>7, <1>8
  <1> QED BY <1>1, <1>9, LadderStays

(* The same, of TypeScript and JavaScript. *)
LEMMA ScriptStays ==
  ASSUME NEW code, NEW more, Beside(code, more), ScopeFits, Scoped(ScriptAnswer(code))
  PROVE  ScriptAnswer(more) = ScriptAnswer(code)
  <1> DEFINE n == scope.name
             AllRules(x) == <<
                Rule("namespace_import", Qualified(x, scope.prefix, n)),
                Rule("import_binding", IF scope.prefix = NoName THEN Qualified(x, scope.imported, n) ELSE {}),
                Rule("local", IF scope.prefix = NoName THEN Earliest(InFile(x, n)) ELSE {}),
                Rule("global_unique", IF scope.prefix = NoName THEN Only(Everywhere(x, n)) ELSE {}) >>
             old == AllRules(code)
             new == AllRules(more)
  <1>1. ScriptAnswer(code) = Ladder(old) /\ ScriptAnswer(more) = Ladder(new)
    BY DEF ScriptAnswer
  <1>2. {scope.prefix, scope.imported, scope.package} \subseteq Named
    BY DEF Named
  <1>3. /\ Qualified(more, scope.prefix, n) = Qualified(code, scope.prefix, n)
        /\ Qualified(more, scope.imported, n) = Qualified(code, scope.imported, n)
        /\ InFile(more, n) = InFile(code, n)
    BY <1>2, PackageStays, FileStays, ImportsStay
  <1>4. /\ DOMAIN old = 1 .. 4 /\ DOMAIN new = 1 .. 4 /\ old[4].by = Unscoped
        /\ new[1] = old[1] /\ new[2] = old[2] /\ new[3] = old[3]
    BY <1>3 DEF Rule, Unscoped
  <1> HIDE DEF old, new
  <1>5. \A k \in 1 .. 4 : k = 1 \/ k = 2 \/ k = 3 \/ k = 4
    OBVIOUS
  <1>6. \A k \in 1 .. 4 : old[k].by # Unscoped => new[k] = old[k]
    BY <1>4, <1>5
  <1>7. \A k \in 1 .. 4 : old[k].by = Unscoped /\ (\E j \in k + 1 .. 4 : old[j].is # {}) => new[k] = old[k]
    <2>1. 4 + 1 .. 4 = {}
      OBVIOUS
    <2> QED BY <1>4, <1>5, <2>1
  <1>8. PICK last \in Nat : last = 4
    OBVIOUS
  <1>9. /\ DOMAIN old = 1 .. last /\ DOMAIN new = 1 .. last
        /\ \A k \in 1 .. last : old[k].by # Unscoped => new[k] = old[k]
        /\ \A k \in 1 .. last : old[k].by = Unscoped /\ old[k].is = {}
              /\ (\E j \in k + 1 .. last : old[j].is # {}) => new[k].is = {}
    BY <1>4, <1>6, <1>7, <1>8
  <1> QED BY <1>1, <1>9, LadderStays

(* The same, of Python. *)
LEMMA PythonStays ==
  ASSUME NEW code, NEW more, Beside(code, more), ScopeFits, Scoped(PythonAnswer(code))
  PROVE  PythonAnswer(more) = PythonAnswer(code)
  <1> DEFINE n == scope.name
             AllRules(x) == <<
                Rule("local", IF scope.prefix = NoName THEN Latest(InFile(x, n)) ELSE {}),
                Rule("alias", IF scope.prefix = NoName THEN Qualified(x, scope.imported, n) ELSE Qualified(x, scope.prefix, n)),
                Rule("qualified", Qualified(x, scope.prefix, n)),
                Rule("global_unique", Only(Everywhere(x, n))) >>
             old == AllRules(code)
             new == AllRules(more)
  <1>1. PythonAnswer(code) = Ladder(old) /\ PythonAnswer(more) = Ladder(new)
    BY DEF PythonAnswer
  <1>2. {scope.prefix, scope.imported, scope.package} \subseteq Named
    BY DEF Named
  <1>3. /\ Qualified(more, scope.prefix, n) = Qualified(code, scope.prefix, n)
        /\ Qualified(more, scope.imported, n) = Qualified(code, scope.imported, n)
        /\ InFile(more, n) = InFile(code, n)
    BY <1>2, PackageStays, FileStays, ImportsStay
  <1>4. /\ DOMAIN old = 1 .. 4 /\ DOMAIN new = 1 .. 4 /\ old[4].by = Unscoped
        /\ new[1] = old[1] /\ new[2] = old[2] /\ new[3] = old[3]
    BY <1>3 DEF Rule, Unscoped
  <1> HIDE DEF old, new
  <1>5. \A k \in 1 .. 4 : k = 1 \/ k = 2 \/ k = 3 \/ k = 4
    OBVIOUS
  <1>6. \A k \in 1 .. 4 : old[k].by # Unscoped => new[k] = old[k]
    BY <1>4, <1>5
  <1>7. \A k \in 1 .. 4 : old[k].by = Unscoped /\ (\E j \in k + 1 .. 4 : old[j].is # {}) => new[k] = old[k]
    <2>1. 4 + 1 .. 4 = {}
      OBVIOUS
    <2> QED BY <1>4, <1>5, <2>1
  <1>8. PICK last \in Nat : last = 4
    OBVIOUS
  <1>9. /\ DOMAIN old = 1 .. last /\ DOMAIN new = 1 .. last
        /\ \A k \in 1 .. last : old[k].by # Unscoped => new[k] = old[k]
        /\ \A k \in 1 .. last : old[k].by = Unscoped /\ old[k].is = {}
              /\ (\E j \in k + 1 .. last : old[j].is # {}) => new[k].is = {}
    BY <1>4, <1>6, <1>7, <1>8
  <1> QED BY <1>1, <1>9, LadderStays

-----------------------------------------------------------------------------
(* In Swift the only symbol of a name goes before the types of the receivers: one more
   symbol of a name that is not the only one leaves it so. *)
LEMMA SwiftStays ==
  ASSUME NEW code, NEW more, Beside(code, more), ScopeFits, Scoped(SwiftAnswer(code))
  PROVE  SwiftAnswer(more) = SwiftAnswer(code)
  <1> DEFINE n == scope.name
             Written(x) == IF scope.prefix = NoName THEN {} ELSE Within(x, OfOwner(x, n), {scope.prefix})
             Imported(x) == Within(x, OfOwner(x, n) \ Written(x), Modules)
             Elsewhere(x) == Within(x, Everywhere(x, n), Modules)
             AllRules(x) == <<
                Rule("local", Latest(InFile(x, n))),
                Rule("global_unique", Only(Everywhere(x, n))),
                Rule("owner_path", Only(Written(x))),
                Rule("owner_import_module_path", Only(Imported(x))),
                Rule("import_module_path", Only(Elsewhere(x))) >>
             old == AllRules(code)
             new == AllRules(more)
  <1>1. SwiftAnswer(code) = Ladder(old) /\ SwiftAnswer(more) = Ladder(new)
    BY DEF SwiftAnswer
  <1>2. InFile(more, n) = InFile(code, n)
    BY FileStays
  <1>3. Written(more) = Written(code)
    <2>1. CASE scope.prefix = NoName
      BY <2>1
    <2>2. CASE scope.prefix # NoName
      <3>1. Within(more, OfOwner(more, n), {scope.prefix}) = Within(code, OfOwner(code, n), {scope.prefix})
        BY <2>2, OwnersStay
      <3> QED BY <2>2, <3>1
    <2> QED BY <2>1, <2>2
  <1>4. \A taken : Within(more, OfOwner(more, n) \ taken, Modules) = Within(code, OfOwner(code, n) \ taken, Modules)
    <2>1. Within(more, OfOwner(more, n), Modules) = Within(code, OfOwner(code, n), Modules)
      BY OwnersStay
    <2>2. \A x, taken : Within(x, OfOwner(x, n) \ taken, Modules) = Within(x, OfOwner(x, n), Modules) \ taken
      BY RulesAre
    <2> QED BY <2>1, <2>2
  <1>5. Elsewhere(more) = Elsewhere(code)
    BY OwnersStay
  <1>6. /\ Written(code) \subseteq Everywhere(code, n) /\ Imported(code) \subseteq Everywhere(code, n)
        /\ Elsewhere(code) \subseteq Everywhere(code, n)
    BY RulesAre
  <1> HIDE DEF Written
  <1>7. Imported(more) = Imported(code)
    BY <1>3, <1>4
  <1> HIDE DEF Imported, Elsewhere
  <1>8. /\ DOMAIN old = 1 .. 5 /\ DOMAIN new = 1 .. 5 /\ old[2].by = Unscoped
        /\ old[2].is = Only(Everywhere(code, n)) /\ new[2].is = Only(Everywhere(more, n))
        /\ old[3].is = Only(Written(code)) /\ old[4].is = Only(Imported(code))
        /\ old[5].is = Only(Elsewhere(code))
    BY DEF Rule, Unscoped
  <1>9. /\ old[1].by # Unscoped /\ old[3].by # Unscoped /\ old[4].by # Unscoped /\ old[5].by # Unscoped
        /\ new[1] = old[1] /\ new[3] = old[3] /\ new[4] = old[4] /\ new[5] = old[5]
    BY <1>2, <1>3, <1>5, <1>7 DEF Rule, Unscoped
  <1> HIDE DEF old, new
  <1>10. \A k \in 1 .. 5 : k = 1 \/ k = 2 \/ k = 3 \/ k = 4 \/ k = 5
    OBVIOUS
  <1>11. \A k \in 1 .. 5 : old[k].by # Unscoped => new[k] = old[k]
    BY <1>8, <1>9, <1>10
  <1>12. ASSUME NEW k \in 1 .. 5, old[k].by = Unscoped, old[k].is = {},
                NEW j \in k + 1 .. 5, old[j].is # {}
         PROVE  new[k].is = {}
    <2>1. k = 2
      BY <1>9, <1>10, <1>12
    <2>2. j \in 1 .. 5 /\ j # 1 /\ j # 2
      BY <2>1
    <2>3. old[j].is \in {Only(Written(code)), Only(Imported(code)), Only(Elsewhere(code))}
      BY <1>8, <1>10, <2>2
    <2>4. \A set : Only(set) \in {{}, set}
      BY DEF Only
    <2>5. Everywhere(code, n) # {}
      BY <1>6, <1>12, <2>3, <2>4
    <2> QED BY <1>8, <1>12, <2>1, <2>5, StillNotUnique
  <1>13. PICK last \in Nat : last = 5
    OBVIOUS
  <1>14. /\ DOMAIN old = 1 .. last /\ DOMAIN new = 1 .. last
         /\ \A k \in 1 .. last : old[k].by # Unscoped => new[k] = old[k]
         /\ \A k \in 1 .. last : old[k].by = Unscoped /\ old[k].is = {}
               /\ (\E j \in k + 1 .. last : old[j].is # {}) => new[k].is = {}
    BY <1>8, <1>11, <1>12, <1>13
  <1> QED BY <1>1, <1>14, LadderStays

(* The same, of every language. *)
LEMMA AnswerStays ==
  ASSUME NEW code, NEW more, Beside(code, more), ScopeFits, NEW l \in Language, Scoped(Answer(l, code))
  PROVE  Answer(l, more) = Answer(l, code)
  BY JavaStays, KotlinStays, ScriptStays, PythonStays, SwiftStays DEF Answer, Language

(* The answers are read from the file under study and what was scanned. *)
LEMMA AnswerOfTheScan ==
  ASSUME scope' = scope, NEW l \in Language
  PROVE  Answer(l, scanned)' = Answer(l, scanned')
  <1>1. JavaAnswer(scanned)' = JavaAnswer(scanned')
    BY DEF JavaAnswer, InFile, Where, WildcardTypes, StaticTypes
  <1>2. KotlinAnswer(scanned)' = KotlinAnswer(scanned')
    BY DEF KotlinAnswer, InFile, Where, WildcardNames
  <1>3. ScriptAnswer(scanned)' = ScriptAnswer(scanned')
    BY DEF ScriptAnswer, InFile, Where
  <1>4. PythonAnswer(scanned)' = PythonAnswer(scanned')
    BY DEF PythonAnswer, InFile, Where
  <1>5. SwiftAnswer(scanned)' = SwiftAnswer(scanned')
    BY DEF SwiftAnswer, InFile, Where, OfOwner, Modules, Within
  <1> QED BY <1>1, <1>2, <1>3, <1>4, <1>5 DEF Answer, Language

(* So no step of the scan redirects an edge that a scope explains. *)
LEMMA EdgesStay ==
  ASSUME ScopeFits, scanned \in Seq(Symbol), [ScopeNext]_scopeVars
  PROVE  [ scanned' # scanned /\ ~Visible(scanned'[Len(scanned')]) =>
             \A l \in Language :
                Scoped(Answer(l, scanned)) => Answer(l, scanned)' = Answer(l, scanned) ]_scopeVars
  <1> SUFFICES ASSUME scanned' # scanned, ~Visible(scanned'[Len(scanned')]),
                      NEW l \in Language, Scoped(Answer(l, scanned))
               PROVE  Answer(l, scanned)' = Answer(l, scanned)
    OBVIOUS
  <1>1. PICK s \in Symbol : scanned' = Append(scanned, s) /\ scope' = scope
    BY DEF ScopeNext, Scan, scopeVars
  <1>2. /\ Len(scanned) \in Nat /\ DOMAIN scanned = 1 .. Len(scanned)
        /\ Len(scanned') = Len(scanned) + 1 /\ DOMAIN scanned' = 1 .. Len(scanned) + 1
        /\ \A i \in DOMAIN scanned : scanned'[i] = scanned[i]
    BY <1>1
  <1>3. Beside(scanned, scanned')
    BY <1>2 DEF Beside
  <1>4. Answer(l, scanned') = Answer(l, scanned)
    BY <1>3, AnswerStays
  <1> QED BY <1>1, <1>4, AnswerOfTheScan

-----------------------------------------------------------------------------
(* Rules that find one thing or nothing, and one of them before the last finds it. *)
LEMMA LadderPicks ==
  ASSUME NEW rules, NEW last \in Nat, DOMAIN rules = 1 .. last, NEW T,
         NEW some \in 1 .. last - 1, rules[some].is # {},
         \A k \in 1 .. last - 1 : rules[k].is \in {{}, T}
  PROVE  Ladder(rules).is = T
  <1>1. some \in 1 .. last
    OBVIOUS
  <1>2. PICK k \in 1 .. last : rules[k].is # {} /\ \A j \in 1 .. k - 1 : rules[j].is = {}
    BY <1>1, FirstHit
  <1>3. k \in 1 .. last - 1
    <2>1. CASE k > some
      <3>1. some \in 1 .. k - 1
        BY <2>1
      <3> QED BY <1>2, <3>1
    <2> QED BY <2>1
  <1>4. Ladder(rules) = rules[k]
    BY <1>2, LadderIs
  <1> QED BY <1>2, <1>3, <1>4

(* The first package of an import list that has the name finds that thing as well. *)
LEMMA FirstOfIsOne ==
  ASSUME NEW finds, NEW last \in Nat, DOMAIN finds = 1 .. last, NEW T,
         \A k \in 1 .. last : finds[k] \in {{}, T}
  PROVE  /\ FirstOf(finds) \in {{}, T}
         /\ (\E k \in 1 .. last : finds[k] # {}) => FirstOf(finds) # {}
  <1> DEFINE hits == {k \in DOMAIN finds : finds[k] # {}}
             first == CHOOSE k \in hits : \A l \in hits : k <= l
  <1>1. FirstOf(finds) = IF hits = {} THEN {} ELSE finds[first]
    BY DEF FirstOf
  <1>2. CASE hits # {}
    <2>1. hits \in SUBSET Nat
      OBVIOUS
    <2> HIDE DEF hits
    <2>2. \E k \in hits : \A l \in hits : k <= l
      BY <1>2, <2>1, SmallestOf
    <2>3. first \in hits
      BY <2>2
    <2> HIDE DEF first
    <2>4. first \in 1 .. last /\ finds[first] # {}
      BY <2>3 DEF hits
    <2> QED BY <1>1, <1>2, <2>4
  <1>3. CASE hits = {}
    BY <1>1, <1>3
  <1> QED BY <1>2, <1>3

(* Where only one symbol of the name is in sight, no rule that asks a scope finds another. *)
Sight(code) == {i \in DOMAIN code : code[i].name = scope.name /\ Visible(code[i])}
Lonely(code, w) ==
    /\ Len(code) \in Nat /\ DOMAIN code = 1 .. Len(code)
    /\ Sight(code) = {w} /\ w \in DOMAIN code /\ code[w].type /\ scope.statics = <<>>
    /\ code[w].owner = NoName

(* Of one symbol, the latest and the earliest are the same. *)
LEMMA OneIsLatest ==
  ASSUME NEW w \in Nat, NEW S \in SUBSET {w}
  PROVE  Latest(S) = S /\ Earliest(S) = S /\ S \in {{}, {w}}
  <1>1. CASE S = {}
    BY <1>1 DEF Latest, Earliest
  <1>2. CASE S = {w}
    <2>1. w <= w
      OBVIOUS
    <2> QED BY <1>2, <2>1 DEF Latest, Earliest
  <1> QED BY <1>1, <1>2

(* The file finds no other symbol, and finds this one if it is its own. *)
LEMMA LonelyInFile ==
  ASSUME NEW code, NEW w, Lonely(code, w)
  PROVE  /\ Latest(InFile(code, scope.name)) \in {{}, {w}}
         /\ code[w].file = scope.file => Latest(InFile(code, scope.name)) # {}
  <1>1. w \in Nat /\ code[w].name = scope.name
    BY DEF Lonely, Sight
  <1>2. InFile(code, scope.name) \subseteq Sight(code)
    BY RulesAre DEF Sight, Visible
  <1>3. InFile(code, scope.name) \in SUBSET {w}
    BY <1>2 DEF Lonely
  <1>4. Latest(InFile(code, scope.name)) = InFile(code, scope.name)
    BY <1>1, <1>3, OneIsLatest
  <1>5. code[w].file = scope.file => w \in InFile(code, scope.name)
    BY <1>1, RulesAre DEF Lonely
  <1>6. InFile(code, scope.name) \in {{}, {w}}
    BY <1>3
  <1> QED BY <1>4, <1>5, <1>6

(* A package named by the file finds no other, and finds this one if it holds it. *)
LEMMA LonelyInPackage ==
  ASSUME NEW code, NEW w, Lonely(code, w), NEW p \in Named
  PROVE  /\ QualifiedTop(code, p, scope.name) \in {{}, {w}}
         /\ QualifiedType(code, p, scope.name) \in {{}, {w}}
         /\ p # NoName /\ code[w].package = p =>
               QualifiedTop(code, p, scope.name) # {} /\ QualifiedType(code, p, scope.name) # {}
  <1>1. w \in Nat /\ code[w].name = scope.name
    BY DEF Lonely, Sight
  <1>2. CASE p = NoName
    BY <1>2, RulesAre
  <1>3. CASE p # NoName
    <2> DEFINE S == {i \in DOMAIN code : code[i].package = p /\ code[i].name = scope.name
                                        /\ code[i].owner = NoName}
               T == {i \in DOMAIN code : code[i].package = p /\ code[i].name = scope.name /\ code[i].type}
    <2>1. S \subseteq Sight(code) /\ T \subseteq Sight(code)
      BY <1>3 DEF Sight, Visible, Named
    <2>2. S \in SUBSET {w} /\ T \in SUBSET {w}
      BY <2>1 DEF Lonely
    <2>3. QualifiedTop(code, p, scope.name) = Latest(S) /\ QualifiedType(code, p, scope.name) = Latest(T)
      BY <1>3, RulesAre
    <2>4. code[w].package = p => w \in S /\ w \in T
      BY <1>1 DEF Lonely
    <2> HIDE DEF S, T
    <2>5. Latest(S) = S /\ Latest(T) = T /\ S \in {{}, {w}} /\ T \in {{}, {w}}
      BY <1>1, <2>2, OneIsLatest
    <2> QED BY <2>3, <2>4, <2>5
  <1> QED BY <1>2, <1>3

(* The wildcard imports find no other, and find this one if one of them names its
   package. *)
LEMMA LonelyByImport ==
  ASSUME NEW code, NEW w, Lonely(code, w), ScopeFits
  PROVE  /\ FirstOf(WildcardTypes(code, scope.name)) \in {{}, {w}}
         /\ FirstOf(WildcardNames(code, scope.name)) \in {{}, {w}}
         /\ code[w].package \in Modules => /\ FirstOf(WildcardTypes(code, scope.name)) # {}
                                           /\ FirstOf(WildcardNames(code, scope.name)) # {}
         /\ FirstOf(StaticTypes(code)) = {}
  <1> DEFINE types == WildcardTypes(code, scope.name)
             names == WildcardNames(code, scope.name)
  <1>1. PICK last \in Nat : last = Len(scope.wildcards)
    BY DEF ScopeFits
  <1>2. DOMAIN types = 1 .. last /\ DOMAIN names = 1 .. last /\ DOMAIN scope.wildcards = 1 .. last
    BY <1>1 DEF WildcardTypes, WildcardNames, ScopeFits
  <1>3. ASSUME NEW k \in 1 .. last
        PROVE  /\ types[k] \in {{}, {w}} /\ names[k] \in {{}, {w}}
               /\ code[w].package = scope.wildcards[k] => types[k] # {} /\ names[k] # {}
    <2>1. scope.wildcards[k] \in Named /\ scope.wildcards[k] # NoName
      BY <1>2 DEF Named, Modules, ScopeFits
    <2>2. /\ types[k] = QualifiedType(code, scope.wildcards[k], scope.name)
          /\ names[k] = QualifiedTop(code, scope.wildcards[k], scope.name)
      BY <1>2 DEF WildcardTypes, WildcardNames
    <2> QED BY <2>1, <2>2, LonelyInPackage
  <1> HIDE DEF types, names
  <1>4. FirstOf(types) \in {{}, {w}} /\ FirstOf(names) \in {{}, {w}}
    BY <1>2, <1>3, FirstOfIsOne
  <1>5. ASSUME code[w].package \in Modules PROVE FirstOf(types) # {} /\ FirstOf(names) # {}
    <2>1. PICK k \in 1 .. last : code[w].package = scope.wildcards[k]
      BY <1>2, <1>5 DEF Modules
    <2>2. types[k] # {} /\ names[k] # {}
      BY <1>3, <2>1
    <2>3. (\E j \in 1 .. last : types[j] # {}) /\ (\E j \in 1 .. last : names[j] # {})
      BY <2>2
    <2> QED BY <1>2, <1>3, <2>3, FirstOfIsOne
  <1>6. FirstOf(StaticTypes(code)) = {}
    <2>1. DOMAIN StaticTypes(code) = {}
      BY DEF StaticTypes, Lonely
    <2> QED BY <2>1 DEF FirstOf
  <1> QED BY <1>4, <1>5, <1>6 DEF types, names

(* One of the rules finds it. *)
LEMMA LonelyIsFound ==
  ASSUME NEW code, NEW w, Lonely(code, w), ScopeFits
  PROVE  \/ code[w].file = scope.file
         \/ \E p \in {scope.prefix, scope.imported, scope.package} : p # NoName /\ code[w].package = p
         \/ code[w].package \in Modules
  <1>1. Visible(code[w])
    BY DEF Lonely, Sight
  <1>2. DOMAIN scope.statics = {}
    BY DEF Lonely
  <1> QED BY <1>1, <1>2 DEF Visible

(* So the Java resolver answers with it. *)
LEMMA JavaTakesIt ==
  ASSUME NEW code, NEW w, Lonely(code, w), ScopeFits
  PROVE  JavaAnswer(code).is = {w}
  <1> DEFINE n == scope.name
             rules == <<
                Rule("fqcn", QualifiedType(code, scope.prefix, n)),
                Rule("local", Latest(InFile(code, n))),
                Rule("import", QualifiedType(code, scope.imported, n)),
                Rule("static_import", FirstOf(StaticTypes(code))),
                Rule("import_wildcard", FirstOf(WildcardTypes(code, n))),
                Rule("same_package", QualifiedType(code, scope.package, n)),
                Rule("global_unique", Only(EverywhereType(code, n))) >>
  <1>1. JavaAnswer(code) = Ladder(rules)
    BY DEF JavaAnswer
  <1>2. /\ DOMAIN rules = 1 .. 7
        /\ rules[1].is = QualifiedType(code, scope.prefix, n) /\ rules[2].is = Latest(InFile(code, n))
        /\ rules[3].is = QualifiedType(code, scope.imported, n) /\ rules[4].is = FirstOf(StaticTypes(code))
        /\ rules[5].is = FirstOf(WildcardTypes(code, n))
        /\ rules[6].is = QualifiedType(code, scope.package, n)
    BY DEF Rule
  <1> HIDE DEF rules
  <1>3. {scope.prefix, scope.imported, scope.package} \subseteq Named
    BY DEF Named
  <1>4. /\ rules[1].is \in {{}, {w}} /\ rules[2].is \in {{}, {w}} /\ rules[3].is \in {{}, {w}}
        /\ rules[4].is \in {{}, {w}} /\ rules[5].is \in {{}, {w}} /\ rules[6].is \in {{}, {w}}
    BY <1>2, <1>3, LonelyInFile, LonelyInPackage, LonelyByImport
  <1>5. \/ rules[1].is # {} \/ rules[2].is # {} \/ rules[3].is # {}
        \/ rules[5].is # {} \/ rules[6].is # {}
    BY <1>2, <1>3, LonelyIsFound, LonelyInFile, LonelyInPackage, LonelyByImport
  <1>6. PICK last \in Nat : last = 7
    OBVIOUS
  <1>7. \A k \in 1 .. last - 1 : k = 1 \/ k = 2 \/ k = 3 \/ k = 4 \/ k = 5 \/ k = 6
    BY <1>6
  <1>8. \A k \in 1 .. last - 1 : rules[k].is \in {{}, {w}}
    BY <1>4, <1>7
  <1>9. 1 \in 1 .. last - 1 /\ 2 \in 1 .. last - 1 /\ 3 \in 1 .. last - 1 /\ 5 \in 1 .. last - 1
        /\ 6 \in 1 .. last - 1
    BY <1>6
  <1>10. PICK some \in 1 .. last - 1 : rules[some].is # {}
    BY <1>5, <1>9
  <1>11. DOMAIN rules = 1 .. last
    BY <1>2, <1>6
  <1> QED BY <1>1, <1>8, <1>10, <1>11, LadderPicks

(* So does the one of Kotlin. *)
LEMMA KotlinTakesIt ==
  ASSUME NEW code, NEW w, Lonely(code, w), ScopeFits
  PROVE  KotlinAnswer(code).is = {w}
  <1> DEFINE n == scope.name
             rules == <<
                Rule("import", QualifiedTop(code, scope.prefix, n)),
                Rule("local", Latest(InFile(code, n))),
                Rule("import", QualifiedTop(code, scope.imported, n)),
                Rule("same_package", QualifiedTop(code, scope.package, n)),
                Rule("import_wildcard", FirstOf(WildcardNames(code, n))),
                Rule("global_unique", Only(Everywhere(code, n))) >>
  <1>1. KotlinAnswer(code) = Ladder(rules)
    BY DEF KotlinAnswer
  <1>2. /\ DOMAIN rules = 1 .. 6
        /\ rules[1].is = QualifiedTop(code, scope.prefix, n) /\ rules[2].is = Latest(InFile(code, n))
        /\ rules[3].is = QualifiedTop(code, scope.imported, n)
        /\ rules[4].is = QualifiedTop(code, scope.package, n)
        /\ rules[5].is = FirstOf(WildcardNames(code, n))
    BY DEF Rule
  <1> HIDE DEF rules
  <1>3. {scope.prefix, scope.imported, scope.package} \subseteq Named
    BY DEF Named
  <1>4. /\ rules[1].is \in {{}, {w}} /\ rules[2].is \in {{}, {w}} /\ rules[3].is \in {{}, {w}}
        /\ rules[4].is \in {{}, {w}} /\ rules[5].is \in {{}, {w}}
    BY <1>2, <1>3, LonelyInFile, LonelyInPackage, LonelyByImport
  <1>5. \/ rules[1].is # {} \/ rules[2].is # {} \/ rules[3].is # {}
        \/ rules[4].is # {} \/ rules[5].is # {}
    BY <1>2, <1>3, LonelyIsFound, LonelyInFile, LonelyInPackage, LonelyByImport
  <1>6. PICK last \in Nat : last = 6
    OBVIOUS
  <1>7. \A k \in 1 .. last - 1 : k = 1 \/ k = 2 \/ k = 3 \/ k = 4 \/ k = 5
    BY <1>6
  <1>8. \A k \in 1 .. last - 1 : rules[k].is \in {{}, {w}}
    BY <1>4, <1>7
  <1>9. 1 \in 1 .. last - 1 /\ 2 \in 1 .. last - 1 /\ 3 \in 1 .. last - 1 /\ 4 \in 1 .. last - 1
        /\ 5 \in 1 .. last - 1
    BY <1>6
  <1>10. PICK some \in 1 .. last - 1 : rules[some].is # {}
    BY <1>5, <1>9
  <1>11. DOMAIN rules = 1 .. last
    BY <1>2, <1>6
  <1> QED BY <1>1, <1>8, <1>10, <1>11, LadderPicks

(* A type that is the only one of its name in sight is the one a reference goes to. *)
LEMMA TheOneIsTaken ==
  ASSUME ScopeFits, scanned \in Seq(Symbol)
  PROVE  TheOneInSightIsTaken
  <1> SUFFICES ASSUME Cardinality(Sight(scanned)) = 1, scope.statics = <<>>,
                      \A i \in Sight(scanned) : scanned[i].type, NEW l \in {"java", "kotlin"}
               PROVE  Answer(l, scanned).is = Sight(scanned)
    BY DEF TheOneInSightIsTaken, Sight
  <1>1. Len(scanned) \in Nat /\ DOMAIN scanned = 1 .. Len(scanned) /\ IsFiniteSet(1 .. Len(scanned))
    BY FS_Interval
  <1>2. IsFiniteSet(Sight(scanned))
    BY <1>1, FS_Subset DEF Sight
  <1>3. \E w : Sight(scanned) = {w}
    BY <1>2, FS_Singleton
  <1>4. PICK w : Sight(scanned) = {w}
    BY <1>3
  <1>5. Lonely(scanned, w)
    <2>1. w \in DOMAIN scanned /\ scanned[w].type
      BY <1>4 DEF Sight
    <2>2. scanned[w] \in Symbol
      BY <1>1, <2>1
    <2>3. scanned[w].owner = NoName
      BY <2>1, <2>2, ScopeAssumption
    <2> QED BY <1>1, <1>4, <2>1, <2>3 DEF Lonely
  <1>6. CASE l = "java"
    BY <1>4, <1>5, <1>6, JavaTakesIt DEF Answer
  <1>7. CASE l = "kotlin"
    BY <1>4, <1>5, <1>7, KotlinTakesIt DEF Answer
  <1> QED BY <1>6, <1>7

-----------------------------------------------------------------------------
(* Two scans that differ in the order of two neighbours. *)
Turn(k, i) == IF i = k THEN k + 1 ELSE IF i = k + 1 THEN k ELSE i

Exchanged(code, swap, k) ==
    /\ Len(code) \in Nat /\ k \in 1 .. Len(code) - 1
    /\ DOMAIN code = 1 .. Len(code) /\ DOMAIN swap = DOMAIN code
    /\ \A i \in DOMAIN code : swap[i] = code[Turn(k, i)]
    /\ \A i, j \in DOMAIN code :
          i # j /\ code[i].name = code[j].name
            => code[i].file # code[j].file /\ code[i].package # code[j].package

(* T holds the places in the one scan of what S holds in the other. *)
Turns(code, k, S, T) ==
    /\ S \subseteq DOMAIN code /\ T \subseteq DOMAIN code
    /\ \A i \in DOMAIN code : i \in T <=> Turn(k, i) \in S

(* The exchange is its own inverse, and the one scan is read through it in the other.
   *)
LEMMA TurnIs ==
  ASSUME NEW code, NEW swap, NEW k, Exchanged(code, swap, k), NEW i \in DOMAIN code
  PROVE  /\ Turn(k, i) \in DOMAIN code /\ Turn(k, Turn(k, i)) = i /\ i \in Nat
         /\ swap[i] = code[Turn(k, i)] /\ swap[Turn(k, i)] = code[i]
  <1>1. Len(code) \in Nat /\ k \in 1 .. Len(code) - 1 /\ DOMAIN code = 1 .. Len(code)
    BY DEF Exchanged
  <1>2. PICK last \in Nat : last = Len(code)
    BY <1>1
  <1>3. /\ DOMAIN code = 1 .. last /\ k \in Nat /\ 1 <= k /\ k + 1 <= last /\ i \in Nat
        /\ k + 1 \in 1 .. last /\ k \in 1 .. last /\ k + 1 # k
    BY <1>1, <1>2
  <1>4. Turn(k, i) \in DOMAIN code /\ Turn(k, Turn(k, i)) = i
    <2>1. CASE i = k
      BY <1>3, <2>1 DEF Turn
    <2>2. CASE i = k + 1
      BY <1>3, <2>2 DEF Turn
    <2>3. CASE i # k /\ i # k + 1
      BY <1>3, <2>3 DEF Turn
    <2> QED BY <2>1, <2>2, <2>3
  <1>5. swap[i] = code[Turn(k, i)] /\ swap[Turn(k, i)] = code[Turn(k, Turn(k, i))]
    BY <1>4 DEF Exchanged
  <1> QED BY <1>3, <1>4, <1>5

(* The same, of every place at once. *)
LEMMA TurnsAre ==
  ASSUME NEW code, NEW swap, NEW k, Exchanged(code, swap, k)
  PROVE  /\ DOMAIN swap = DOMAIN code
         /\ \A i \in DOMAIN code : Turn(k, i) \in DOMAIN code /\ swap[i] = code[Turn(k, i)]
  <1>1. DOMAIN swap = DOMAIN code
    BY DEF Exchanged
  <1>2. ASSUME NEW i \in DOMAIN code
        PROVE  Turn(k, i) \in DOMAIN code /\ swap[i] = code[Turn(k, i)]
    BY <1>2, TurnIs
  <1> QED BY <1>1, <1>2

(* Nothing found is nothing found in either scan. *)
LEMMA EmptyTurns ==
  ASSUME NEW code, NEW k
  PROVE  Turns(code, k, {}, {})
  BY DEF Turns

(* A rule finds something in the one scan if it does in the other. *)
LEMMA SameEmptiness ==
  ASSUME NEW code, NEW swap, NEW k, Exchanged(code, swap, k), NEW S, NEW T, Turns(code, k, S, T)
  PROVE  S = {} <=> T = {}
  <1>1. ASSUME NEW i \in T PROVE S # {}
    BY <1>1 DEF Turns
  <1>2. ASSUME NEW i \in S PROVE T # {}
    <2>1. i \in DOMAIN code
      BY DEF Turns
    <2>2. Turn(k, i) \in DOMAIN code /\ Turn(k, Turn(k, i)) = i
      BY <2>1, TurnIs
    <2>3. Turn(k, i) \in T
      BY <2>2 DEF Turns
    <2> QED BY <2>3
  <1> QED BY <1>1, <1>2

(* Of one symbol at most the latest is the earliest. *)
LEMMA LatestOfOne ==
  ASSUME NEW S \in SUBSET Nat, \A i, j \in S : i = j
  PROVE  Latest(S) = S /\ Earliest(S) = S
  <1>1. \A i \in S : i <= i
    OBVIOUS
  <1> QED BY <1>1 DEF Latest, Earliest

(* Where the symbols of a name are told apart, which of them is kept is the same one.
   *)
LEMMA LatestTurns ==
  ASSUME NEW code, NEW swap, NEW k, Exchanged(code, swap, k), NEW S, NEW T, Turns(code, k, S, T),
         \A i, j \in S : i = j
  PROVE  Turns(code, k, Latest(S), Latest(T)) /\ Turns(code, k, Earliest(S), Earliest(T))
  <1>1. S \in SUBSET DOMAIN code /\ T \in SUBSET DOMAIN code
    BY DEF Turns
  <1>2. ASSUME NEW i \in T, NEW j \in T PROVE i = j
    <2>1. Turn(k, i) \in S /\ Turn(k, j) \in S
      BY <1>1 DEF Turns
    <2>2. Turn(k, i) = Turn(k, j)
      BY <2>1
    <2>3. Turn(k, Turn(k, i)) = i /\ Turn(k, Turn(k, j)) = j
      BY <1>1, TurnIs
    <2> QED BY <2>2, <2>3
  <1>3. DOMAIN code \subseteq Nat
    BY DEF Exchanged
  <1>4. S \in SUBSET Nat /\ T \in SUBSET Nat
    BY <1>1, <1>3
  <1>5. Latest(S) = S /\ Earliest(S) = S /\ Latest(T) = T /\ Earliest(T) = T
    BY <1>2, <1>4, LatestOfOne
  <1> QED BY <1>5

(* The only symbol of a name is the only one in either scan. *)
LEMMA OnlyTurns ==
  ASSUME NEW code, NEW swap, NEW k, Exchanged(code, swap, k), NEW S, NEW T, Turns(code, k, S, T)
  PROVE  Turns(code, k, Only(S), Only(T))
  <1>1. S \in SUBSET (1 .. Len(code)) /\ T \in SUBSET (1 .. Len(code)) /\ Len(code) \in Nat
    BY DEF Turns, Exchanged
  <1>2. IsFiniteSet(S) /\ IsFiniteSet(T)
    <2>1. IsFiniteSet(1 .. Len(code))
      BY <1>1, FS_Interval
    <2> QED BY <1>1, <2>1, FS_Subset
  <1>3. ASSUME NEW x, S = {x} PROVE T = {Turn(k, x)}
    <2>1. x \in DOMAIN code
      BY <1>3 DEF Turns
    <2>2. Turn(k, x) \in DOMAIN code /\ Turn(k, Turn(k, x)) = x
      BY <2>1, TurnIs
    <2>3. Turn(k, x) \in T
      BY <1>3, <2>2 DEF Turns
    <2>4. ASSUME NEW y \in T PROVE y = Turn(k, x)
      <3>1. y \in DOMAIN code /\ Turn(k, y) = x
        BY <1>3 DEF Turns
      <3>2. Turn(k, Turn(k, y)) = y
        BY <3>1, TurnIs
      <3> QED BY <3>1, <3>2
    <2> QED BY <2>3, <2>4
  <1>4. ASSUME NEW y, T = {y} PROVE S = {Turn(k, y)}
    <2>1. y \in DOMAIN code /\ Turn(k, y) \in S
      BY <1>4 DEF Turns
    <2>2. ASSUME NEW x \in S PROVE x = Turn(k, y)
      <3>1. x \in DOMAIN code
        BY DEF Turns
      <3>2. Turn(k, x) \in DOMAIN code /\ Turn(k, Turn(k, x)) = x
        BY <3>1, TurnIs
      <3>3. Turn(k, x) \in T
        BY <3>2 DEF Turns
      <3> QED BY <1>4, <3>2, <3>3
    <2> QED BY <2>1, <2>2
  <1>5. (Cardinality(S) = 1) <=> (Cardinality(T) = 1)
    <2>1. (Cardinality(S) = 1 <=> \E x : S = {x}) /\ (Cardinality(T) = 1 <=> \E x : T = {x})
      BY <1>2, FS_Singleton
    <2> QED BY <1>3, <1>4, <2>1
  <1>6. CASE Cardinality(S) = 1
    BY <1>5, <1>6 DEF Only
  <1>7. CASE Cardinality(S) # 1
    <2>1. Only(S) = {} /\ Only(T) = {}
      BY <1>5, <1>7 DEF Only
    <2> QED BY <2>1, EmptyTurns
  <1> QED BY <1>6, <1>7

-----------------------------------------------------------------------------
(* What each rule looks for turns with the scan. *)
LEMMA FileTurns ==
  ASSUME NEW code, NEW swap, NEW k, Exchanged(code, swap, k), NEW n
  PROVE  /\ Turns(code, k, Latest(InFile(code, n)), Latest(InFile(swap, n)))
         /\ Turns(code, k, Earliest(InFile(code, n)), Earliest(InFile(swap, n)))
  <1>1. Turns(code, k, InFile(code, n), InFile(swap, n))
    BY TurnsAre, RulesAre DEF Turns
  <1>2. \A i, j \in InFile(code, n) : i = j
    BY RulesAre DEF Exchanged
  <1> QED BY <1>1, <1>2, LatestTurns

(* The same of the indexes of qualified names. *)
LEMMA PackageTurns ==
  ASSUME NEW code, NEW swap, NEW k, Exchanged(code, swap, k), NEW p, NEW n
  PROVE  /\ Turns(code, k, Qualified(code, p, n), Qualified(swap, p, n))
         /\ Turns(code, k, QualifiedTop(code, p, n), QualifiedTop(swap, p, n))
         /\ Turns(code, k, QualifiedType(code, p, n), QualifiedType(swap, p, n))
  <1> DEFINE S(x) == {i \in DOMAIN x : x[i].package = p /\ x[i].name = n}
             T(x) == {i \in DOMAIN x : x[i].package = p /\ x[i].name = n /\ x[i].type}
             U(x) == {i \in DOMAIN x : x[i].package = p /\ x[i].name = n /\ x[i].owner = NoName}
  <1>1. /\ Turns(code, k, S(code), S(swap)) /\ Turns(code, k, T(code), T(swap))
        /\ Turns(code, k, U(code), U(swap))
    BY TurnsAre DEF Turns
  <1>2. /\ (\A i, j \in S(code) : i = j) /\ (\A i, j \in T(code) : i = j)
        /\ (\A i, j \in U(code) : i = j)
    BY DEF Exchanged
  <1>3. CASE p = NoName
    <2>1. /\ Qualified(code, p, n) = {} /\ Qualified(swap, p, n) = {}
          /\ QualifiedTop(code, p, n) = {} /\ QualifiedTop(swap, p, n) = {}
          /\ QualifiedType(code, p, n) = {} /\ QualifiedType(swap, p, n) = {}
      BY <1>3, RulesAre
    <2> QED BY <2>1, EmptyTurns
  <1>4. CASE p # NoName
    <2>1. /\ Qualified(code, p, n) = Latest(S(code)) /\ Qualified(swap, p, n) = Latest(S(swap))
          /\ QualifiedTop(code, p, n) = Latest(U(code)) /\ QualifiedTop(swap, p, n) = Latest(U(swap))
          /\ QualifiedType(code, p, n) = Latest(T(code)) /\ QualifiedType(swap, p, n) = Latest(T(swap))
      BY <1>4, RulesAre
    <2> HIDE DEF S, T, U
    <2> QED BY <1>1, <1>2, <2>1, LatestTurns
  <1> QED BY <1>3, <1>4

(* The same of the symbols of a name, and of those of an owner. *)
LEMMA NamesTurn ==
  ASSUME NEW code, NEW swap, NEW k, Exchanged(code, swap, k), NEW n
  PROVE  /\ Turns(code, k, Everywhere(code, n), Everywhere(swap, n))
         /\ Turns(code, k, EverywhereType(code, n), EverywhereType(swap, n))
         /\ Turns(code, k, OfOwner(code, n), OfOwner(swap, n))
  <1>1. /\ Turns(code, k, Everywhere(code, n), Everywhere(swap, n))
        /\ Turns(code, k, EverywhereType(code, n), EverywhereType(swap, n))
    BY TurnsAre, RulesAre DEF Turns
  <1>2. Turns(code, k, OfOwner(code, n), OfOwner(swap, n))
    BY TurnsAre, RulesAre DEF Turns
  <1> QED BY <1>1, <1>2

(* The same of those among them that are in some packages. *)
LEMMA WithinTurns ==
  ASSUME NEW code, NEW swap, NEW k, Exchanged(code, swap, k), NEW S, NEW T, Turns(code, k, S, T),
         NEW packages
  PROVE  Turns(code, k, Within(code, S, packages), Within(swap, T, packages))
  BY TurnsAre, RulesAre DEF Turns

(* The same of what is left of a set. *)
LEMMA RestTurns ==
  ASSUME NEW code, NEW swap, NEW k, Exchanged(code, swap, k), NEW S, NEW T, Turns(code, k, S, T),
         NEW A, NEW B, Turns(code, k, A, B)
  PROVE  Turns(code, k, S \ A, T \ B)
  BY DEF Turns

(* The same of the first package of an import list that has the name. *)
LEMMA FirstOfTurns ==
  ASSUME NEW code, NEW swap, NEW k, Exchanged(code, swap, k), NEW finds, NEW turned, NEW last \in Nat,
         DOMAIN finds = 1 .. last, DOMAIN turned = 1 .. last,
         \A j \in 1 .. last : Turns(code, k, finds[j], turned[j])
  PROVE  Turns(code, k, FirstOf(finds), FirstOf(turned))
  <1> DEFINE hits == {j \in DOMAIN finds : finds[j] # {}}
             turnedHits == {j \in DOMAIN turned : turned[j] # {}}
             First(those) == CHOOSE j \in those : \A l \in those : j <= l
  <1>1. /\ FirstOf(finds) = IF hits = {} THEN {} ELSE finds[First(hits)]
        /\ FirstOf(turned) = IF turnedHits = {} THEN {} ELSE turned[First(turnedHits)]
    BY DEF FirstOf
  <1>2. turnedHits = hits
    BY SameEmptiness
  <1>3. hits \in SUBSET (1 .. last)
    OBVIOUS
  <1> HIDE DEF hits, turnedHits
  <1>4. CASE hits = {}
    BY <1>1, <1>2, <1>4, EmptyTurns
  <1>5. CASE hits # {}
    <2>1. hits \in SUBSET Nat
      BY <1>3
    <2>2. \E j \in hits : \A l \in hits : j <= l
      BY <1>5, <2>1, SmallestOf
    <2>3. First(hits) \in 1 .. last
      BY <1>3, <2>2
    <2> HIDE DEF First
    <2> QED BY <1>1, <1>2, <1>5, <2>3
  <1> QED BY <1>4, <1>5

(* If every rule finds the same symbols in both scans, so does the first that finds
   any. *)
LEMMA LadderTurns ==
  ASSUME NEW code, NEW swap, NEW k, Exchanged(code, swap, k), NEW rules, NEW turned, NEW last \in Nat,
         DOMAIN rules = 1 .. last, DOMAIN turned = 1 .. last,
         \A j \in 1 .. last : Turns(code, k, rules[j].is, turned[j].is)
  PROVE  Turns(code, k, Ladder(rules).is, Ladder(turned).is)
  <1>1. \A j \in 1 .. last : rules[j].is = {} <=> turned[j].is = {}
    BY SameEmptiness
  <1>2. CASE \E j \in 1 .. last : rules[j].is # {}
    <2>1. PICK some \in 1 .. last : rules[some].is # {} /\ \A j \in 1 .. some - 1 : rules[j].is = {}
      BY <1>2, FirstHit
    <2>2. Ladder(rules) = rules[some]
      BY <2>1, LadderIs
    <2>3. turned[some].is # {} /\ \A j \in 1 .. some - 1 : turned[j].is = {}
      <3>1. \A j \in 1 .. some - 1 : j \in 1 .. last
        BY <2>1
      <3> QED BY <1>1, <2>1, <3>1
    <2>4. Ladder(turned) = turned[some]
      BY <2>3, LadderIs
    <2> QED BY <2>2, <2>4
  <1>3. CASE \A j \in 1 .. last : rules[j].is = {}
    <2>1. Ladder(rules).is = {} /\ Ladder(turned).is = {}
      BY <1>1, <1>3, LadderIsEmpty
    <2> QED BY <2>1, EmptyTurns
  <1> QED BY <1>2, <1>3

(* The same of the imports of the file. *)
LEMMA ImportsTurn ==
  ASSUME NEW code, NEW swap, NEW k, Exchanged(code, swap, k), ScopeFits, NEW n
  PROVE  /\ Turns(code, k, FirstOf(WildcardTypes(code, n)), FirstOf(WildcardTypes(swap, n)))
         /\ Turns(code, k, FirstOf(WildcardNames(code, n)), FirstOf(WildcardNames(swap, n)))
         /\ Turns(code, k, FirstOf(StaticTypes(code)), FirstOf(StaticTypes(swap)))
  <1>1. PICK last \in Nat, ends \in Nat : last = Len(scope.wildcards) /\ ends = Len(scope.statics)
    BY DEF ScopeFits
  <1>2. DOMAIN scope.wildcards = 1 .. last /\ DOMAIN scope.statics = 1 .. ends
    BY <1>1 DEF ScopeFits
  <1>3. /\ \A x : DOMAIN WildcardTypes(x, n) = 1 .. last /\ DOMAIN WildcardNames(x, n) = 1 .. last
                  /\ DOMAIN StaticTypes(x) = 1 .. ends
        /\ \A x : \A j \in 1 .. last :
              /\ WildcardTypes(x, n)[j] = QualifiedType(x, scope.wildcards[j], n)
              /\ WildcardNames(x, n)[j] = QualifiedTop(x, scope.wildcards[j], n)
        /\ \A x : \A j \in 1 .. ends :
              StaticTypes(x)[j] = QualifiedType(x, scope.statics[j][1], scope.statics[j][2])
    BY <1>2 DEF WildcardTypes, WildcardNames, StaticTypes
  <1>4. \A j \in 1 .. last : /\ Turns(code, k, WildcardTypes(code, n)[j], WildcardTypes(swap, n)[j])
                             /\ Turns(code, k, WildcardNames(code, n)[j], WildcardNames(swap, n)[j])
    BY <1>3, PackageTurns
  <1>5. \A j \in 1 .. ends : Turns(code, k, StaticTypes(code)[j], StaticTypes(swap)[j])
    BY <1>3, PackageTurns
  <1> QED BY <1>3, <1>4, <1>5, FirstOfTurns

-----------------------------------------------------------------------------
(* The one symbol of a name, where there is only one, turns as well. *)
LEMMA OnlyNamesTurn ==
  ASSUME NEW code, NEW swap, NEW k, Exchanged(code, swap, k), NEW n
  PROVE  /\ Turns(code, k, Only(Everywhere(code, n)), Only(Everywhere(swap, n)))
         /\ Turns(code, k, Only(EverywhereType(code, n)), Only(EverywhereType(swap, n)))
  BY NamesTurn, OnlyTurns

(* So the answers of every language turn with the scan. *)
LEMMA JavaTurns ==
  ASSUME NEW code, NEW swap, NEW k, Exchanged(code, swap, k), ScopeFits
  PROVE  Turns(code, k, JavaAnswer(code).is, JavaAnswer(swap).is)
  <1> DEFINE n == scope.name
             AllRules(x) == <<
                Rule("fqcn", QualifiedType(x, scope.prefix, n)),
                Rule("local", Latest(InFile(x, n))),
                Rule("import", QualifiedType(x, scope.imported, n)),
                Rule("static_import", FirstOf(StaticTypes(x))),
                Rule("import_wildcard", FirstOf(WildcardTypes(x, n))),
                Rule("same_package", QualifiedType(x, scope.package, n)),
                Rule("global_unique", Only(EverywhereType(x, n))) >>
             rules == AllRules(code)
             turned == AllRules(swap)
  <1>1. JavaAnswer(code) = Ladder(rules) /\ JavaAnswer(swap) = Ladder(turned)
    BY DEF JavaAnswer
  <1>3. /\ Turns(code, k, rules[1].is, turned[1].is)
        /\ Turns(code, k, rules[2].is, turned[2].is)
        /\ Turns(code, k, rules[3].is, turned[3].is)
        /\ Turns(code, k, rules[4].is, turned[4].is)
        /\ Turns(code, k, rules[5].is, turned[5].is)
        /\ Turns(code, k, rules[6].is, turned[6].is)
        /\ Turns(code, k, rules[7].is, turned[7].is)
    BY PackageTurns, FileTurns, ImportsTurn, OnlyNamesTurn DEF Rule
  <1>4. PICK last \in Nat : last = 7
    OBVIOUS
  <1>5. DOMAIN rules = 1 .. last /\ DOMAIN turned = 1 .. last
    BY <1>4
  <1> HIDE DEF rules, turned
  <1>6. \A j \in 1 .. last : j = 1 \/ j = 2 \/ j = 3 \/ j = 4 \/ j = 5 \/ j = 6 \/ j = 7
    BY <1>4
  <1>7. \A j \in 1 .. last : Turns(code, k, rules[j].is, turned[j].is)
    BY <1>3, <1>6
  <1>8. Turns(code, k, Ladder(rules).is, Ladder(turned).is)
    BY <1>5, <1>7, LadderTurns
  <1> QED BY <1>1, <1>8

(* The same, of Kotlin. *)
LEMMA KotlinTurns ==
  ASSUME NEW code, NEW swap, NEW k, Exchanged(code, swap, k), ScopeFits
  PROVE  Turns(code, k, KotlinAnswer(code).is, KotlinAnswer(swap).is)
  <1> DEFINE n == scope.name
             AllRules(x) == <<
                Rule("import", QualifiedTop(x, scope.prefix, n)),
                Rule("local", Latest(InFile(x, n))),
                Rule("import", QualifiedTop(x, scope.imported, n)),
                Rule("same_package", QualifiedTop(x, scope.package, n)),
                Rule("import_wildcard", FirstOf(WildcardNames(x, n))),
                Rule("global_unique", Only(Everywhere(x, n))) >>
             rules == AllRules(code)
             turned == AllRules(swap)
  <1>1. KotlinAnswer(code) = Ladder(rules) /\ KotlinAnswer(swap) = Ladder(turned)
    BY DEF KotlinAnswer
  <1>3. /\ Turns(code, k, rules[1].is, turned[1].is)
        /\ Turns(code, k, rules[2].is, turned[2].is)
        /\ Turns(code, k, rules[3].is, turned[3].is)
        /\ Turns(code, k, rules[4].is, turned[4].is)
        /\ Turns(code, k, rules[5].is, turned[5].is)
        /\ Turns(code, k, rules[6].is, turned[6].is)
    BY PackageTurns, FileTurns, ImportsTurn, OnlyNamesTurn DEF Rule
  <1>4. PICK last \in Nat : last = 6
    OBVIOUS
  <1>5. DOMAIN rules = 1 .. last /\ DOMAIN turned = 1 .. last
    BY <1>4
  <1> HIDE DEF rules, turned
  <1>6. \A j \in 1 .. last : j = 1 \/ j = 2 \/ j = 3 \/ j = 4 \/ j = 5 \/ j = 6
    BY <1>4
  <1>7. \A j \in 1 .. last : Turns(code, k, rules[j].is, turned[j].is)
    BY <1>3, <1>6
  <1>8. Turns(code, k, Ladder(rules).is, Ladder(turned).is)
    BY <1>5, <1>7, LadderTurns
  <1> QED BY <1>1, <1>8

(* The same, of TypeScript and JavaScript. *)
LEMMA ScriptTurns ==
  ASSUME NEW code, NEW swap, NEW k, Exchanged(code, swap, k), ScopeFits
  PROVE  Turns(code, k, ScriptAnswer(code).is, ScriptAnswer(swap).is)
  <1> DEFINE n == scope.name
             AllRules(x) == <<
                Rule("namespace_import", Qualified(x, scope.prefix, n)),
                Rule("import_binding", IF scope.prefix = NoName THEN Qualified(x, scope.imported, n) ELSE {}),
                Rule("local", IF scope.prefix = NoName THEN Earliest(InFile(x, n)) ELSE {}),
                Rule("global_unique", IF scope.prefix = NoName THEN Only(Everywhere(x, n)) ELSE {}) >>
             rules == AllRules(code)
             turned == AllRules(swap)
  <1>1. ScriptAnswer(code) = Ladder(rules) /\ ScriptAnswer(swap) = Ladder(turned)
    BY DEF ScriptAnswer
  <1>3. /\ Turns(code, k, rules[1].is, turned[1].is)
        /\ Turns(code, k, rules[2].is, turned[2].is)
        /\ Turns(code, k, rules[3].is, turned[3].is)
        /\ Turns(code, k, rules[4].is, turned[4].is)
    BY PackageTurns, FileTurns, OnlyNamesTurn, EmptyTurns DEF Rule
  <1>4. PICK last \in Nat : last = 4
    OBVIOUS
  <1>5. DOMAIN rules = 1 .. last /\ DOMAIN turned = 1 .. last
    BY <1>4
  <1> HIDE DEF rules, turned
  <1>6. \A j \in 1 .. last : j = 1 \/ j = 2 \/ j = 3 \/ j = 4
    BY <1>4
  <1>7. \A j \in 1 .. last : Turns(code, k, rules[j].is, turned[j].is)
    BY <1>3, <1>6
  <1>8. Turns(code, k, Ladder(rules).is, Ladder(turned).is)
    BY <1>5, <1>7, LadderTurns
  <1> QED BY <1>1, <1>8

(* The same, of Python. *)
LEMMA PythonTurns ==
  ASSUME NEW code, NEW swap, NEW k, Exchanged(code, swap, k), ScopeFits
  PROVE  Turns(code, k, PythonAnswer(code).is, PythonAnswer(swap).is)
  <1> DEFINE n == scope.name
             AllRules(x) == <<
                Rule("local", IF scope.prefix = NoName THEN Latest(InFile(x, n)) ELSE {}),
                Rule("alias", IF scope.prefix = NoName THEN Qualified(x, scope.imported, n)
                                              ELSE Qualified(x, scope.prefix, n)),
                Rule("qualified", Qualified(x, scope.prefix, n)),
                Rule("global_unique", Only(Everywhere(x, n))) >>
             rules == AllRules(code)
             turned == AllRules(swap)
  <1>1. PythonAnswer(code) = Ladder(rules) /\ PythonAnswer(swap) = Ladder(turned)
    BY DEF PythonAnswer
  <1>3. /\ Turns(code, k, rules[1].is, turned[1].is)
        /\ Turns(code, k, rules[2].is, turned[2].is)
        /\ Turns(code, k, rules[3].is, turned[3].is)
        /\ Turns(code, k, rules[4].is, turned[4].is)
    BY PackageTurns, FileTurns, OnlyNamesTurn, EmptyTurns DEF Rule
  <1>4. PICK last \in Nat : last = 4
    OBVIOUS
  <1>5. DOMAIN rules = 1 .. last /\ DOMAIN turned = 1 .. last
    BY <1>4
  <1> HIDE DEF rules, turned
  <1>6. \A j \in 1 .. last : j = 1 \/ j = 2 \/ j = 3 \/ j = 4
    BY <1>4
  <1>7. \A j \in 1 .. last : Turns(code, k, rules[j].is, turned[j].is)
    BY <1>3, <1>6
  <1>8. Turns(code, k, Ladder(rules).is, Ladder(turned).is)
    BY <1>5, <1>7, LadderTurns
  <1> QED BY <1>1, <1>8

(* The same, of Swift, where the owner and the module narrow what a name finds. *)
LEMMA SwiftTurns ==
  ASSUME NEW code, NEW swap, NEW k, Exchanged(code, swap, k), ScopeFits
  PROVE  Turns(code, k, SwiftAnswer(code).is, SwiftAnswer(swap).is)
  <1> DEFINE n == scope.name
             Written(x) == IF scope.prefix = NoName THEN {} ELSE Within(x, OfOwner(x, n), {scope.prefix})
             Imported(x) == Within(x, OfOwner(x, n) \ Written(x), Modules)
             Elsewhere(x) == Within(x, Everywhere(x, n), Modules)
             AllRules(x) == <<
                Rule("local", Latest(InFile(x, n))),
                Rule("global_unique", Only(Everywhere(x, n))),
                Rule("owner_path", Only(Written(x))),
                Rule("owner_import_module_path", Only(Imported(x))),
                Rule("import_module_path", Only(Elsewhere(x))) >>
             rules == AllRules(code)
             turned == AllRules(swap)
  <1>1. SwiftAnswer(code) = Ladder(rules) /\ SwiftAnswer(swap) = Ladder(turned)
    BY DEF SwiftAnswer
  <1>2. /\ Turns(code, k, Written(code), Written(swap))
        /\ Turns(code, k, Imported(code), Imported(swap))
        /\ Turns(code, k, Elsewhere(code), Elsewhere(swap))
    <2>1. Turns(code, k, Written(code), Written(swap))
      BY NamesTurn, WithinTurns, EmptyTurns
    <2> HIDE DEF Written
    <2>2. Turns(code, k, OfOwner(code, n) \ Written(code), OfOwner(swap, n) \ Written(swap))
      BY <2>1, NamesTurn, RestTurns
    <2>3. Turns(code, k, Imported(code), Imported(swap))
      BY <2>2, WithinTurns
    <2>4. Turns(code, k, Elsewhere(code), Elsewhere(swap))
      BY NamesTurn, WithinTurns
    <2> QED BY <2>1, <2>3, <2>4
  <1> HIDE DEF Written, Imported, Elsewhere
  <1>3. /\ Turns(code, k, rules[1].is, turned[1].is)
        /\ Turns(code, k, rules[2].is, turned[2].is)
        /\ Turns(code, k, rules[3].is, turned[3].is)
        /\ Turns(code, k, rules[4].is, turned[4].is)
        /\ Turns(code, k, rules[5].is, turned[5].is)
    BY <1>2, FileTurns, OnlyNamesTurn, OnlyTurns DEF Rule
  <1>4. PICK last \in Nat : last = 5
    OBVIOUS
  <1>5. DOMAIN rules = 1 .. last /\ DOMAIN turned = 1 .. last
    BY <1>4
  <1> HIDE DEF rules, turned
  <1>6. \A j \in 1 .. last : j = 1 \/ j = 2 \/ j = 3 \/ j = 4 \/ j = 5
    BY <1>4
  <1>7. \A j \in 1 .. last : Turns(code, k, rules[j].is, turned[j].is)
    BY <1>3, <1>6
  <1>8. Turns(code, k, Ladder(rules).is, Ladder(turned).is)
    BY <1>5, <1>7, LadderTurns
  <1> QED BY <1>1, <1>8

(* The same, of every language. *)
LEMMA AnswerTurns ==
  ASSUME NEW code, NEW swap, NEW k, Exchanged(code, swap, k), ScopeFits, NEW l \in Language
  PROVE  Turns(code, k, Answer(l, code).is, Answer(l, swap).is)
  BY JavaTurns, KotlinTurns, ScriptTurns, PythonTurns, SwiftTurns DEF Answer, Language

(* What the two scans answer is the same symbol. *)
SymbolsAt(code, S) == {code[i] : i \in S}

(* Places that turn with the scan hold the same symbols. *)
LEMMA SameSymbols ==
  ASSUME NEW code, NEW swap, NEW k, Exchanged(code, swap, k), NEW S, NEW T, Turns(code, k, S, T)
  PROVE  SymbolsAt(swap, T) = SymbolsAt(code, S)
  <1>1. ASSUME NEW i \in T PROVE Turn(k, i) \in S /\ swap[i] = code[Turn(k, i)]
    BY TurnIs DEF Turns
  <1>2. ASSUME NEW i \in S PROVE Turn(k, i) \in T /\ swap[Turn(k, i)] = code[i]
    <2>1. i \in DOMAIN code
      BY DEF Turns
    <2>2. Turn(k, i) \in DOMAIN code /\ Turn(k, Turn(k, i)) = i /\ swap[Turn(k, i)] = code[i]
      BY <2>1, TurnIs
    <2> QED BY <2>2 DEF Turns
  <1> QED BY <1>1, <1>2 DEF SymbolsAt

(* The exchange that the property speaks of is such an exchange. *)
LEMMA SwapExchanges ==
  ASSUME scanned \in Seq(Symbol), Distinct, NEW k \in 1 .. Len(scanned) - 1
  PROVE  Exchanged(scanned, SwappedAt(k), k)
  <1>1. Len(scanned) \in Nat /\ DOMAIN scanned = 1 .. Len(scanned)
    OBVIOUS
  <1>2. DOMAIN SwappedAt(k) = DOMAIN scanned
    BY DEF SwappedAt
  <1>3. ASSUME NEW i \in DOMAIN scanned PROVE SwappedAt(k)[i] = scanned[Turn(k, i)]
    <2>1. k + 1 # k
      BY <1>1
    <2>2. SwappedAt(k)[i] = CASE i = k     -> scanned[k + 1]
                              [] i = k + 1 -> scanned[k]
                              [] OTHER     -> scanned[i]
      BY DEF SwappedAt
    <2>3. CASE i = k
      BY <2>1, <2>2, <2>3 DEF Turn
    <2>4. CASE i = k + 1
      BY <2>1, <2>2, <2>4 DEF Turn
    <2>5. CASE i # k /\ i # k + 1
      BY <2>2, <2>5 DEF Turn
    <2> QED BY <2>3, <2>4, <2>5
  <1> QED BY <1>1, <1>2, <1>3 DEF Exchanged, Distinct

(* So the order of the scan decides nothing. *)
LEMMA TheOrderDoesNotMatter ==
  ASSUME ScopeFits, scanned \in Seq(Symbol)
  PROVE  OrderDoesNotMatter
  <1> SUFFICES ASSUME Distinct, NEW l \in Language, NEW k \in 1 .. Len(scanned) - 1
               PROVE  AnsweredSymbol(l, SwappedAt(k)) = AnsweredSymbol(l, scanned)
    BY DEF OrderDoesNotMatter
  <1>1. PICK swap : swap = SwappedAt(k)
    OBVIOUS
  <1>2. Exchanged(scanned, swap, k)
    BY <1>1, SwapExchanges
  <1>3. Turns(scanned, k, Answer(l, scanned).is, Answer(l, swap).is)
    BY <1>2, AnswerTurns
  <1>4. PICK S, T : S = Answer(l, scanned).is /\ T = Answer(l, swap).is
    OBVIOUS
  <1>5. SymbolsAt(swap, T) = SymbolsAt(scanned, S)
    <2>1. Turns(scanned, k, S, T)
      BY <1>3, <1>4
    <2> QED BY <1>2, <2>1, SameSymbols
  <1> QED BY <1>1, <1>4, <1>5 DEF AnsweredSymbol, SymbolsAt

-----------------------------------------------------------------------------
(* What holds of the exports, of the file under study and of what was scanned, whichever of
   them moves. *)
NamesHold == JsIInv /\ ScopeFits /\ scanned \in Seq(Symbol)

(* It holds at the start, whichever part moves. *)
LEMMA NamesStart ==
  ASSUME MCInit
  PROVE  NamesHold
  <1>1. JsIInv
    <2>1. \E readFiles \in Repositories \union {<<>>} : JsStart(readFiles)
      BY DEF MCInit, JsInit
    <2> QED BY <2>1, ExportsStart
  <1>2. scope \in Scope /\ scanned = <<>>
    BY DEF MCInit, ScopeInit
  <1>3. scanned \in Seq(Symbol)
    BY <1>2
  <1> QED BY <1>1, <1>2, <1>3, ScopesFit DEF NamesHold

(* A step of the composition moves the exports, the scan or neither. *)
LEMMA NamesStep ==
  ASSUME [MCNext]_mcVars
  PROVE  [JsNext]_jsVars /\ [ScopeNext]_scopeVars
  BY DEF MCNext, mcVars

(* The scan goes on, and the file under study stays as it is. *)
LEMMA ScopesKeep ==
  ASSUME ScopeFits, scanned \in Seq(Symbol), [ScopeNext]_scopeVars
  PROVE  ScopeFits' /\ scanned' \in Seq(Symbol)
  <1>1. scope' = scope
    BY DEF ScopeNext, Scan, scopeVars
  <1>2. ScopeFits'
    BY <1>1 DEF ScopeFits, Modules
  <1>3. CASE Scan
    <2>1. PICK s \in Symbol : scanned' = Append(scanned, s)
      BY <1>3 DEF Scan
    <2> QED BY <1>2, <2>1
  <1>4. CASE UNCHANGED scopeVars
    <2>1. scanned' = scanned
      BY <1>4 DEF scopeVars
    <2> QED BY <1>2, <2>1
  <1> QED BY <1>3, <1>4 DEF ScopeNext

(* So it holds for good. *)
LEMMA NamesKeep ==
  ASSUME NamesHold, [MCNext]_mcVars
  PROVE  NamesHold'
  BY NamesStep, ExportsKeep, ScopesKeep DEF NamesHold

(* A name is tied to a symbol in its sight, through re-exports, imports and scopes, whatever
   the order of the scan, and an edge drawn from a scope stays when the repository grows
   (build_js_export_index and the _resolve_target of every extractor). *)
THEOREM NamesResolve == MCSpec => NamesResolveSoundly
  <1>1. NamesHold => /\ ExportsAreSound /\ DirectReexportsAreFound
                     /\ OrderDoesNotMatter /\ TheOneInSightIsTaken
    BY ExportsAreFound, TheOrderDoesNotMatter, TheOneIsTaken DEF NamesHold
  <1>2. NamesHold /\ [MCNext]_mcVars =>
          [ scanned' # scanned /\ ~Visible(scanned'[Len(scanned')]) =>
              \A l \in Language :
                 Scoped(Answer(l, scanned)) => Answer(l, scanned)' = Answer(l, scanned) ]_scopeVars
    BY NamesStep, EdgesStay DEF NamesHold
  <1>3. NamesHold /\ [MCNext]_mcVars => NamesHold'
    BY NamesKeep
  <1>4. MCInit => NamesHold
    BY NamesStart
  <1> QED BY <1>1, <1>2, <1>3, <1>4, PTL DEF MCSpec, NamesResolveSoundly, ScopedEdgesAreStable
==============================================================================
