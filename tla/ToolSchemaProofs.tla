--------------------------- MODULE ToolSchemaProofs ---------------------------
(* Theorems about ToolSchema, for JSON values of any shape and depth.       *)
EXTENDS ToolSchema, WellFoundedInduction, TLAPS

USE MaxDepthAssumption

-----------------------------------------------------------------------------
(* Recursion on the depth.                                                  *)

(* Induction: a set with 0, and with k + 1 whenever it has k, has every     *)
(* natural number.                                                          *)
LEMMA Induction ==
  ASSUME NEW S, 0 \in S, \A k \in Nat : k \in S => k + 1 \in S
  PROVE  \A k \in Nat : k \in S
<1>. DEFINE missed == {k \in Nat : k \notin S}
<1>1. SUFFICES ASSUME missed # {} PROVE FALSE
  OBVIOUS
<1>2. PICK x \in missed : \A y \in missed : ~(<<y, x>> \in OpToRel(<, Nat))
  <2>1. missed \subseteq Nat
    OBVIOUS
  <2>. QED
    BY <1>1, <2>1, NatLessThanWellFounded, WFMin, Zenon
<1>3. x \in Nat /\ x # 0 /\ x \notin S
  OBVIOUS
<1>4. x - 1 \in Nat /\ (x - 1) + 1 = x
  BY <1>3
<1>5. x - 1 \in missed
  BY <1>3, <1>4
<1>6. <<x - 1, x>> \in Nat \X Nat /\ <<x - 1, x>>[1] < <<x - 1, x>>[2]
  BY <1>3, <1>4
<1>. HIDE DEF missed
<1>7. <<x - 1, x>> \in OpToRel(<, Nat)
  BY <1>6 DEF OpToRel
<1>. QED
  BY <1>2, <1>5, <1>7

(* f begins with x, and goes on by G; up to n, or for ever.                 *)
Upto(n, f, X, x, G) ==
  f \in [0..n -> X] /\ f[0] = x /\ \A k \in 1..n : f[k] = G[f[k - 1]]

Iterates(f, X, x, G) ==
  f \in [Nat -> X] /\ f[0] = x /\ \A k \in Nat : f[k + 1] = G[f[k]]

LEMMA UptoAgree ==
  ASSUME NEW X, NEW x \in X, NEW G \in [X -> X],
         NEW m \in Nat, NEW n \in Nat, NEW f, NEW g, Upto(m, f, X, x, G), Upto(n, g, X, x, G)
  PROVE  \A k \in Nat : k <= m /\ k <= n => f[k] = g[k]
<1>. DEFINE S == {k \in Nat : k <= m /\ k <= n => f[k] = g[k]}
<1>1. 0 \in S
  BY DEF Upto
<1>2. ASSUME NEW k \in Nat, k \in S PROVE k + 1 \in S
  <2>. SUFFICES ASSUME k + 1 <= m, k + 1 <= n PROVE f[k + 1] = g[k + 1]
    OBVIOUS
  <2>1. k + 1 \in 1..m /\ k + 1 \in 1..n /\ (k + 1) - 1 = k /\ f[k] = g[k]
    BY <1>2
  <2>. QED
    BY <2>1 DEF Upto
<1>3. \A k \in Nat : k \in S
  <2>. HIDE DEF S
  <2>. QED
    BY <1>1, <1>2, Induction
<1>. QED
  BY <1>3

LEMMA UptoExists ==
  ASSUME NEW X, NEW x \in X, NEW G \in [X -> X]
  PROVE  \A n \in Nat : \E f : Upto(n, f, X, x, G)
<1>. DEFINE S == {n \in Nat : \E f : Upto(n, f, X, x, G)}
<1>1. 0 \in S
  <2>. DEFINE f == [k \in 0..0 |-> x]
  <2>1. Upto(0, f, X, x, G)
    BY DEF Upto
  <2>. QED
    BY <2>1
<1>2. ASSUME NEW n \in Nat, n \in S PROVE n + 1 \in S
  <2>1. PICK f : Upto(n, f, X, x, G)
    BY <1>2
  <2>2. f[n] \in X
    BY <2>1 DEF Upto
  <2>3. PICK e \in X : e = G[f[n]]
    BY <2>2
  <2>. DEFINE g == [k \in 0..(n + 1) |-> IF k <= n THEN f[k] ELSE e]
  <2>4. \A k \in 0..n : g[k] = f[k]
    OBVIOUS
  <2>5. g[n + 1] = e
    OBVIOUS
  <2>6. g \in [0..(n + 1) -> X]
    BY <2>1 DEF Upto
  <2>. HIDE DEF g
  <2>7. ASSUME NEW k \in 1..(n + 1)
        PROVE  g[k] = G[g[k - 1]]
    <3>1. CASE k \in 1..n
      <4>1. k \in 0..n /\ k - 1 \in 0..n /\ f[k] = G[f[k - 1]]
        BY <2>1, <3>1 DEF Upto
      <4>. QED
        BY <2>4, <4>1
    <3>2. CASE k = n + 1
      <4>1. k - 1 = n /\ n \in 0..n
        BY <3>2
      <4>. QED
        BY <2>3, <2>4, <2>5, <3>2, <4>1
    <3>. QED
      BY <3>1, <3>2
  <2>8. g[0] = x
    BY <2>1, <2>4 DEF Upto
  <2>9. Upto(n + 1, g, X, x, G)
    BY <2>6, <2>7, <2>8 DEF Upto
  <2>. QED
    BY <2>9
<1>3. \A n \in Nat : n \in S
  <2>. HIDE DEF S
  <2>. QED
    BY <1>1, <1>2, Induction
<1>. QED
  BY <1>3

(* What begins somewhere and goes on from each value to a next one is a     *)
(* function on the natural numbers.                                         *)
LEMMA IterationExists ==
  ASSUME NEW X, NEW x \in X, NEW G \in [X -> X]
  PROVE  \E f : Iterates(f, X, x, G)
<1>. DEFINE upto(n) == CHOOSE f : Upto(n, f, X, x, G)
            h == [n \in Nat |-> upto(n)[n]]
<1>1. ASSUME NEW n \in Nat PROVE Upto(n, upto(n), X, x, G)
  BY UptoExists, Zenon
<1>. HIDE DEF upto
<1>2. ASSUME NEW n \in Nat PROVE upto(n)[n] \in X
  BY <1>1 DEF Upto
<1>3. ASSUME NEW n \in Nat PROVE upto(n + 1)[n + 1] = G[upto(n)[n]]
  <2>1. upto(n + 1)[n] = upto(n)[n]
    <3>1. n + 1 \in Nat /\ n <= n + 1 /\ n <= n
      OBVIOUS
    <3>2. Upto(n + 1, upto(n + 1), X, x, G) /\ Upto(n, upto(n), X, x, G)
      BY <1>1, <3>1
    <3>. QED
      BY <3>1, <3>2, UptoAgree
  <2>2. Upto(n + 1, upto(n + 1), X, x, G)
    BY <1>1
  <2>3. n + 1 \in 1..(n + 1) /\ (n + 1) - 1 = n
    OBVIOUS
  <2>4. upto(n + 1)[n + 1] = G[upto(n + 1)[(n + 1) - 1]]
    BY <2>2, <2>3 DEF Upto
  <2>. QED
    BY <2>1, <2>3, <2>4
<1>4. upto(0)[0] = x
  BY <1>1 DEF Upto
<1>5. Iterates(h, X, x, G)
  BY <1>2, <1>3, <1>4 DEF Iterates
<1>. QED
  BY <1>5

-----------------------------------------------------------------------------
(* What the recursive definitions say of one more level.                    *)

LEMMA NestedUnfold ==
  /\ Nested[0] = {v \in Values : v.kind \notin {"array", "object"}}
  /\ \A n \in Nat : Nested[n + 1] =
       {v \in Values : Parts(v) \subseteq Nested[n]}
<1>. DEFINE Level(S) == {v \in Values : Parts(v) \subseteq S}
            Body(f) == [n \in Nat |->
              IF n = 0 THEN {v \in Values : v.kind \notin {"array", "object"}}
              ELSE Level(f[n - 1])]
            G == [S \in SUBSET Values |-> Level(S)]
<1>1. PICK f : Iterates(f, SUBSET Values, {v \in Values : v.kind \notin {"array", "object"}}, G)
  <2>2. G \in [SUBSET Values -> SUBSET Values]
    OBVIOUS
  <2>3. {v \in Values : v.kind \notin {"array", "object"}} \in SUBSET Values
    OBVIOUS
  <2>. HIDE DEF G
  <2>. QED
    BY <2>2, <2>3, IterationExists
<1>2. f = Body(f)
  <2>1. ASSUME NEW n \in Nat
        PROVE  f[n] = IF n = 0 THEN {v \in Values : v.kind \notin {"array", "object"}}
                      ELSE Level(f[n - 1])
    <3>1. CASE n = 0
      BY <1>1, <3>1 DEF Iterates
    <3>2. CASE n # 0
      <4>1. n - 1 \in Nat /\ (n - 1) + 1 = n
        BY <3>2
      <4>2. f[n] = G[f[n - 1]] /\ f[n - 1] \in SUBSET Values
        BY <1>1, <4>1 DEF Iterates
      <4>. HIDE DEF Level
      <4>. QED
        BY <3>2, <4>2
    <3>. QED
      BY <3>1, <3>2
  <2>. HIDE DEF Level
  <2>. QED
    BY <1>1, <2>1 DEF Iterates
<1>3. Nested = Body(Nested)
  <2>1. Nested = CHOOSE g : g = Body(g)
    BY DEF Nested
  <2>. HIDE DEF Body
  <2>. QED
    BY <1>2, <2>1
<1>. HIDE DEF Level
<1>4. Nested[0] = {v \in Values : v.kind \notin {"array", "object"}}
  <2>1. Body(Nested)[0] = {v \in Values : v.kind \notin {"array", "object"}}
    OBVIOUS
  <2>. QED
    BY <1>3, <2>1
<1>5. ASSUME NEW n \in Nat PROVE Nested[n + 1] = Level(Nested[n])
  <2>1. Body(Nested)[n + 1] = Level(Nested[n])
    <3>1. n + 1 \in Nat /\ n + 1 # 0 /\ (n + 1) - 1 = n
      OBVIOUS
    <3>. QED
      BY <3>1
  <2>. QED
    BY <1>3, <2>1
<1>. QED
  BY <1>4, <1>5 DEF Level

LEMMA ValidSchemasUnfold ==
  /\ ValidSchemas[0] = {}
  /\ \A n \in Nat : ValidSchemas[n + 1] =
       {s \in Values : s.kind = "object" /\ ValidateSchema(s, ValidSchemas[n])}
<1>. DEFINE Level(S) == {s \in Values : s.kind = "object" /\ ValidateSchema(s, S)}
            Body(f) == [n \in Nat |-> IF n = 0 THEN {} ELSE Level(f[n - 1])]
            G == [S \in SUBSET Values |-> Level(S)]
<1>1. PICK f : Iterates(f, SUBSET Values, {}, G)
  <2>2. G \in [SUBSET Values -> SUBSET Values]
    OBVIOUS
  <2>3. {} \in SUBSET Values
    OBVIOUS
  <2>. HIDE DEF G
  <2>. QED
    BY <2>2, <2>3, IterationExists
<1>2. f = Body(f)
  <2>1. ASSUME NEW n \in Nat PROVE f[n] = IF n = 0 THEN {} ELSE Level(f[n - 1])
    <3>1. CASE n = 0
      BY <1>1, <3>1 DEF Iterates
    <3>2. CASE n # 0
      <4>1. n - 1 \in Nat /\ (n - 1) + 1 = n
        BY <3>2
      <4>2. f[n] = G[f[n - 1]] /\ f[n - 1] \in SUBSET Values
        BY <1>1, <4>1 DEF Iterates
      <4>. HIDE DEF Level
      <4>. QED
        BY <3>2, <4>2
    <3>. QED
      BY <3>1, <3>2
  <2>. HIDE DEF Level
  <2>. QED
    BY <1>1, <2>1 DEF Iterates
<1>3. ValidSchemas = Body(ValidSchemas)
  <2>1. ValidSchemas = CHOOSE g : g = Body(g)
    BY DEF ValidSchemas
  <2>. HIDE DEF Body
  <2>. QED
    BY <1>2, <2>1
<1>. HIDE DEF Level
<1>4. ValidSchemas[0] = {}
  <2>1. Body(ValidSchemas)[0] = {}
    OBVIOUS
  <2>. QED
    BY <1>3, <2>1
<1>5. ASSUME NEW n \in Nat PROVE ValidSchemas[n + 1] = Level(ValidSchemas[n])
  <2>1. Body(ValidSchemas)[n + 1] = Level(ValidSchemas[n])
    <3>1. n + 1 \in Nat /\ n + 1 # 0 /\ (n + 1) - 1 = n
      OBVIOUS
    <3>. QED
      BY <3>1
  <2>. QED
    BY <1>3, <2>1
<1>. QED
  BY <1>4, <1>5 DEF Level

LEMMA DocumentedUnfold ==
  /\ Documented[0] = {}
  /\ \A n \in Nat : Documented[n + 1] =
       {s \in Values :
          /\ s.kind = "object"
          /\ Has(s, "type")
          /\ TypeIs(s, "array") => Has(s, "items")
          /\ \A keyword \in DOMAIN s.members : KeywordIsDocumented(s, keyword, Documented[n])}
<1>. DEFINE Level(S) == {s \in Values :
          /\ s.kind = "object"
          /\ Has(s, "type")
          /\ TypeIs(s, "array") => Has(s, "items")
          /\ \A keyword \in DOMAIN s.members : KeywordIsDocumented(s, keyword, S)}
            Body(f) == [n \in Nat |-> IF n = 0 THEN {} ELSE Level(f[n - 1])]
            G == [S \in SUBSET Values |-> Level(S)]
<1>1. PICK f : Iterates(f, SUBSET Values, {}, G)
  <2>2. G \in [SUBSET Values -> SUBSET Values]
    OBVIOUS
  <2>3. {} \in SUBSET Values
    OBVIOUS
  <2>. HIDE DEF G
  <2>. QED
    BY <2>2, <2>3, IterationExists
<1>2. f = Body(f)
  <2>1. ASSUME NEW n \in Nat PROVE f[n] = IF n = 0 THEN {} ELSE Level(f[n - 1])
    <3>1. CASE n = 0
      BY <1>1, <3>1 DEF Iterates
    <3>2. CASE n # 0
      <4>1. n - 1 \in Nat /\ (n - 1) + 1 = n
        BY <3>2
      <4>2. f[n] = G[f[n - 1]] /\ f[n - 1] \in SUBSET Values
        BY <1>1, <4>1 DEF Iterates
      <4>. HIDE DEF Level
      <4>. QED
        BY <3>2, <4>2
    <3>. QED
      BY <3>1, <3>2
  <2>. HIDE DEF Level
  <2>. QED
    BY <1>1, <2>1 DEF Iterates
<1>3. Documented = Body(Documented)
  <2>1. Documented = CHOOSE g : g = Body(g)
    BY DEF Documented
  <2>. HIDE DEF Body
  <2>. QED
    BY <1>2, <2>1
<1>. HIDE DEF Level
<1>4. Documented[0] = {}
  <2>1. Body(Documented)[0] = {}
    OBVIOUS
  <2>. QED
    BY <1>3, <2>1
<1>5. ASSUME NEW n \in Nat PROVE Documented[n + 1] = Level(Documented[n])
  <2>1. Body(Documented)[n + 1] = Level(Documented[n])
    <3>1. n + 1 \in Nat /\ n + 1 # 0 /\ (n + 1) - 1 = n
      OBVIOUS
    <3>. QED
      BY <3>1
  <2>. QED
    BY <1>3, <2>1
<1>. QED
  BY <1>4, <1>5 DEF Level

LEMMA PlainUnfold ==
  /\ Plain[0] = {v \in Nested[0] : PlainNumber(v)}
  /\ \A n \in Nat : Plain[n + 1] =
       {v \in Values : PlainNumber(v) /\ Parts(v) \subseteq Plain[n]}
<1>. DEFINE Level(S) == {v \in Values : PlainNumber(v) /\ Parts(v) \subseteq S}
            Body(f) == [n \in Nat |->
              IF n = 0 THEN {v \in Nested[0] : PlainNumber(v)}
              ELSE Level(f[n - 1])]
            G == [S \in SUBSET Values |-> Level(S)]
<1>1. PICK f : Iterates(f, SUBSET Values, {v \in Nested[0] : PlainNumber(v)}, G)
  <2>2. G \in [SUBSET Values -> SUBSET Values]
    OBVIOUS
  <2>3. {v \in Nested[0] : PlainNumber(v)} \in SUBSET Values
    BY NestedUnfold
  <2>. HIDE DEF G
  <2>. QED
    BY <2>2, <2>3, IterationExists
<1>2. f = Body(f)
  <2>1. ASSUME NEW n \in Nat
        PROVE  f[n] = IF n = 0 THEN {v \in Nested[0] : PlainNumber(v)}
                      ELSE Level(f[n - 1])
    <3>1. CASE n = 0
      BY <1>1, <3>1 DEF Iterates
    <3>2. CASE n # 0
      <4>1. n - 1 \in Nat /\ (n - 1) + 1 = n
        BY <3>2
      <4>2. f[n] = G[f[n - 1]] /\ f[n - 1] \in SUBSET Values
        BY <1>1, <4>1 DEF Iterates
      <4>. HIDE DEF Level
      <4>. QED
        BY <3>2, <4>2
    <3>. QED
      BY <3>1, <3>2
  <2>. HIDE DEF Level
  <2>. QED
    BY <1>1, <2>1 DEF Iterates
<1>3. Plain = Body(Plain)
  <2>1. Plain = CHOOSE g : g = Body(g)
    BY DEF Plain
  <2>. HIDE DEF Body
  <2>. QED
    BY <1>2, <2>1
<1>. HIDE DEF Level
<1>4. Plain[0] = {v \in Nested[0] : PlainNumber(v)}
  <2>1. Body(Plain)[0] = {v \in Nested[0] : PlainNumber(v)}
    OBVIOUS
  <2>. QED
    BY <1>3, <2>1
<1>5. ASSUME NEW n \in Nat PROVE Plain[n + 1] = Level(Plain[n])
  <2>1. Body(Plain)[n + 1] = Level(Plain[n])
    <3>1. n + 1 \in Nat /\ n + 1 # 0 /\ (n + 1) - 1 = n
      OBVIOUS
    <3>. QED
      BY <3>1
  <2>. QED
    BY <1>3, <2>1
<1>. QED
  BY <1>4, <1>5 DEF Level

LEMMA VerdictIsOne ==
  ASSUME NEW schema, NEW value, NEW judge
  PROVE  ValidateValue(schema, value, judge) \in {"ok", "error", "panic"}
BY DEF ValidateValue, ValidateObject, ValidateArray, ValidateMembers, RequiredGiven, OnlyDeclared,
       Check, Together

LEMMA VerdictsUnfold ==
  /\ Verdicts[0] = [pair \in Pairs |-> "panic"]
  /\ \A n \in Nat : Verdicts[n + 1] =
       [pair \in Pairs |-> ValidateValue(pair[1], pair[2], Verdicts[n])]
<1>. DEFINE Level(S) == [pair \in Pairs |-> ValidateValue(pair[1], pair[2], S)]
            Body(f) == [n \in Nat |->
              IF n = 0 THEN [pair \in Pairs |-> "panic"]
              ELSE Level(f[n - 1])]
            G == [S \in [Pairs -> {"ok", "error", "panic"}] |-> Level(S)]
<1>1. PICK f : Iterates(f, [Pairs -> {"ok", "error", "panic"}], [pair \in Pairs |-> "panic"], G)
  <2>1. ASSUME NEW S, NEW pair \in Pairs
        PROVE ValidateValue(pair[1], pair[2], S) \in {"ok", "error", "panic"}
    BY VerdictIsOne
  <2>2. G \in [[Pairs -> {"ok", "error", "panic"}] -> [Pairs -> {"ok", "error", "panic"}]]
    BY <2>1, Zenon
  <2>3. [pair \in Pairs |-> "panic"] \in [Pairs -> {"ok", "error", "panic"}]
    OBVIOUS
  <2>. HIDE DEF G
  <2>. QED
    BY <2>2, <2>3, IterationExists
<1>2. f = Body(f)
  <2>1. ASSUME NEW n \in Nat
        PROVE  f[n] = IF n = 0 THEN [pair \in Pairs |-> "panic"]
                      ELSE Level(f[n - 1])
    <3>1. CASE n = 0
      BY <1>1, <3>1 DEF Iterates
    <3>2. CASE n # 0
      <4>1. n - 1 \in Nat /\ (n - 1) + 1 = n
        BY <3>2
      <4>2. f[n] = G[f[n - 1]] /\ f[n - 1] \in [Pairs -> {"ok", "error", "panic"}]
        BY <1>1, <4>1 DEF Iterates
      <4>. HIDE DEF Level
      <4>. QED
        BY <3>2, <4>2
    <3>. QED
      BY <3>1, <3>2
  <2>. HIDE DEF Level
  <2>. QED
    BY <1>1, <2>1 DEF Iterates
<1>3. Verdicts = Body(Verdicts)
  <2>1. Verdicts = CHOOSE g : g = Body(g)
    BY DEF Verdicts
  <2>. HIDE DEF Body
  <2>. QED
    BY <1>2, <2>1
<1>. HIDE DEF Level
<1>4. Verdicts[0] = [pair \in Pairs |-> "panic"]
  <2>1. Body(Verdicts)[0] = [pair \in Pairs |-> "panic"]
    OBVIOUS
  <2>. QED
    BY <1>3, <2>1
<1>5. ASSUME NEW n \in Nat PROVE Verdicts[n + 1] = Level(Verdicts[n])
  <2>1. Body(Verdicts)[n + 1] = Level(Verdicts[n])
    <3>1. n + 1 \in Nat /\ n + 1 # 0 /\ (n + 1) - 1 = n
      OBVIOUS
    <3>. QED
      BY <3>1
  <2>. QED
    BY <1>3, <2>1
<1>. QED
  BY <1>4, <1>5 DEF Level

LEMMA SameValueUnfold ==
  /\ SameValue[0] = [pair \in Pairs |-> pair[1] = pair[2]]
  /\ \A n \in Nat : SameValue[n + 1] =
       [pair \in Pairs |-> Same(pair[1], pair[2], SameValue[n])]
<1>. DEFINE Level(S) == [pair \in Pairs |-> Same(pair[1], pair[2], S)]
            Body(f) == [n \in Nat |->
              IF n = 0 THEN [pair \in Pairs |-> pair[1] = pair[2]]
              ELSE Level(f[n - 1])]
            G == [S \in [Pairs -> BOOLEAN] |-> Level(S)]
<1>1. PICK f : Iterates(f, [Pairs -> BOOLEAN], [pair \in Pairs |-> pair[1] = pair[2]], G)
  <2>1. ASSUME NEW S, NEW pair \in Pairs PROVE Same(pair[1], pair[2], S) \in BOOLEAN
    BY Zenon DEF Same
  <2>2. G \in [[Pairs -> BOOLEAN] -> [Pairs -> BOOLEAN]]
    BY <2>1, Zenon
  <2>3. [pair \in Pairs |-> pair[1] = pair[2]] \in [Pairs -> BOOLEAN]
    OBVIOUS
  <2>. HIDE DEF G
  <2>. QED
    BY <2>2, <2>3, IterationExists
<1>2. f = Body(f)
  <2>1. ASSUME NEW n \in Nat
        PROVE  f[n] = IF n = 0 THEN [pair \in Pairs |-> pair[1] = pair[2]]
                      ELSE Level(f[n - 1])
    <3>1. CASE n = 0
      BY <1>1, <3>1 DEF Iterates
    <3>2. CASE n # 0
      <4>1. n - 1 \in Nat /\ (n - 1) + 1 = n
        BY <3>2
      <4>2. f[n] = G[f[n - 1]] /\ f[n - 1] \in [Pairs -> BOOLEAN]
        BY <1>1, <4>1 DEF Iterates
      <4>. HIDE DEF Level
      <4>. QED
        BY <3>2, <4>2
    <3>. QED
      BY <3>1, <3>2
  <2>. HIDE DEF Level
  <2>. QED
    BY <1>1, <2>1 DEF Iterates
<1>3. SameValue = Body(SameValue)
  <2>1. SameValue = CHOOSE g : g = Body(g)
    BY DEF SameValue
  <2>. HIDE DEF Body
  <2>. QED
    BY <1>2, <2>1
<1>. HIDE DEF Level
<1>4. SameValue[0] = [pair \in Pairs |-> pair[1] = pair[2]]
  <2>1. Body(SameValue)[0] = [pair \in Pairs |-> pair[1] = pair[2]]
    OBVIOUS
  <2>. QED
    BY <1>3, <2>1
<1>5. ASSUME NEW n \in Nat PROVE SameValue[n + 1] = Level(SameValue[n])
  <2>1. Body(SameValue)[n + 1] = Level(SameValue[n])
    <3>1. n + 1 \in Nat /\ n + 1 # 0 /\ (n + 1) - 1 = n
      OBVIOUS
    <3>. QED
      BY <3>1
  <2>. QED
    BY <1>3, <2>1
<1>. QED
  BY <1>4, <1>5 DEF Level

LEMMA ConformsUnfold ==
  /\ Conforms[0] = [pair \in Pairs |-> FALSE]
  /\ \A n \in Nat : Conforms[n + 1] =
       [pair \in Pairs |->
          /\ pair[1].kind = "object"
          /\ \A keyword \in DOMAIN pair[1].members :
               KeywordAdmits(pair[1], keyword, pair[2], Conforms[n])]
<1>. DEFINE Level(S) == [pair \in Pairs |->
          /\ pair[1].kind = "object"
          /\ \A keyword \in DOMAIN pair[1].members : KeywordAdmits(pair[1], keyword, pair[2], S)]
            Body(f) == [n \in Nat |-> IF n = 0 THEN [pair \in Pairs |-> FALSE] ELSE Level(f[n - 1])]
            G == [S \in [Pairs -> BOOLEAN] |-> Level(S)]
<1>1. PICK f : Iterates(f, [Pairs -> BOOLEAN], [pair \in Pairs |-> FALSE], G)
  <2>2. G \in [[Pairs -> BOOLEAN] -> [Pairs -> BOOLEAN]]
    BY Zenon
  <2>3. [pair \in Pairs |-> FALSE] \in [Pairs -> BOOLEAN]
    OBVIOUS
  <2>. HIDE DEF G
  <2>. QED
    BY <2>2, <2>3, IterationExists
<1>2. f = Body(f)
  <2>1. ASSUME NEW n \in Nat
        PROVE  f[n] = IF n = 0 THEN [pair \in Pairs |-> FALSE]
                      ELSE Level(f[n - 1])
    <3>1. CASE n = 0
      BY <1>1, <3>1 DEF Iterates
    <3>2. CASE n # 0
      <4>1. n - 1 \in Nat /\ (n - 1) + 1 = n
        BY <3>2
      <4>2. f[n] = G[f[n - 1]] /\ f[n - 1] \in [Pairs -> BOOLEAN]
        BY <1>1, <4>1 DEF Iterates
      <4>. HIDE DEF Level
      <4>. QED
        BY <3>2, <4>2
    <3>. QED
      BY <3>1, <3>2
  <2>. HIDE DEF Level
  <2>. QED
    BY <1>1, <2>1 DEF Iterates
<1>3. Conforms = Body(Conforms)
  <2>1. Conforms = CHOOSE g : g = Body(g)
    BY DEF Conforms
  <2>. HIDE DEF Body
  <2>. QED
    BY <1>2, <2>1
<1>. HIDE DEF Level
<1>4. Conforms[0] = [pair \in Pairs |-> FALSE]
  <2>1. Body(Conforms)[0] = [pair \in Pairs |-> FALSE]
    OBVIOUS
  <2>. QED
    BY <1>3, <2>1
<1>5. ASSUME NEW n \in Nat PROVE Conforms[n + 1] = Level(Conforms[n])
  <2>1. Body(Conforms)[n + 1] = Level(Conforms[n])
    <3>1. n + 1 \in Nat /\ n + 1 # 0 /\ (n + 1) - 1 = n
      OBVIOUS
    <3>. QED
      BY <3>1
  <2>. QED
    BY <1>3, <2>1
<1>. QED
  BY <1>4, <1>5 DEF Level

-----------------------------------------------------------------------------
(* The walk over the arguments fails no assertion.                          *)

(* What a value contains are values.                                        *)
LEMMA PartTypes ==
  ASSUME NEW v \in Values
  PROVE  /\ v.kind = "object" => \A name \in DOMAIN v.members : v.members[name] \in Values
         /\ v.kind = "array" => /\ v.elements \in Seq(Values)
                                /\ \A i \in DOMAIN v.elements : v.elements[i] \in Values
<1>1. IsValue(v)
  BY ValuesAssumption
<1>2. CASE v.kind = "object"
  BY <1>1, <1>2 DEF IsValue
<1>3. CASE v.kind = "array"
  BY <1>1, <1>3 DEF IsValue
<1>. QED
  BY <1>2, <1>3

(* Of a walk's parts, none panics or all went well.                         *)
LEMMA TogetherIs ==
  ASSUME NEW verdicts
  PROVE  /\ "panic" \notin verdicts => Together(verdicts) # "panic"
         /\ Together(verdicts) = "ok" => "panic" \notin verdicts /\ "error" \notin verdicts
         /\ "panic" \notin verdicts /\ "error" \notin verdicts => Together(verdicts) = "ok"
BY DEF Together

LEMMA CheckIs ==
  ASSUME NEW condition
  PROVE  /\ Check(condition) \in {"ok", "error"}
         /\ Check(condition) = "ok" <=> condition
BY DEF Check

(* A valid schema, whose properties and items are in valid.                 *)
Judged(schema, valid) ==
  /\ schema \in Values /\ schema.kind = "object"
  /\ Says(schema, "type", "string")
  /\ ValidateSchema(schema, valid)

LEMMA ValidIsJudged ==
  ASSUME NEW n \in Nat, NEW schema \in ValidSchemas[n + 1]
  PROVE  Judged(schema, ValidSchemas[n])
BY ValidSchemasUnfold DEF Judged, ValidateSchema, TypeIs

LEMMA VerdictIs ==
  ASSUME NEW n \in Nat, NEW schema \in Values, NEW value \in Values
  PROVE  Verdicts[n + 1][<<schema, value>>] = ValidateValue(schema, value, Verdicts[n])
<1>1. <<schema, value>> \in Pairs
  BY DEF Pairs
<1>. QED
  BY <1>1, VerdictsUnfold

(* Properties of a valid schema of an object.                               *)
LEMMA PropertyIs ==
  ASSUME NEW valid, NEW schema, Judged(schema, valid), TypeIs(schema, "object"),
         NEW name \in DOMAIN Properties(schema)
  PROVE  /\ Properties(schema)[name].kind = "object"
         /\ Properties(schema)[name] \in valid
<1>1. ValidProperties(schema, valid)
  BY DEF Judged, ValidateSchema
<1>2. Says(schema, "properties", "object")
  BY DEF Properties
<1>. QED
  BY <1>1, <1>2 DEF ValidProperties, Says

LEMMA RequiredDoesNotPanic ==
  ASSUME NEW valid, NEW schema, NEW value, Judged(schema, valid), TypeIs(schema, "object")
  PROVE  RequiredGiven(schema, value) # "panic"
<1>1. ValidRequired(schema)
  BY DEF Judged, ValidateSchema
<1>2. CASE ~ Says(schema, "required", "array")
  BY <1>2 DEF RequiredGiven
<1>3. CASE Says(schema, "required", "array")
  <2>. DEFINE names == schema.members.required.elements
              verdicts == {IF names[i].kind # "string" THEN "panic"
                           ELSE Check(names[i].string \in DOMAIN value.members) : i \in DOMAIN names}
  <2>1. \A i \in DOMAIN names : names[i].kind = "string"
    BY <1>1, <1>3 DEF ValidRequired, Says
  <2>2. "panic" \notin verdicts
    BY <2>1, CheckIs
  <2>3. RequiredGiven(schema, value) = Together(verdicts)
    BY <1>3 DEF RequiredGiven
  <2>. HIDE DEF verdicts
  <2>. QED
    BY <2>2, <2>3, TogetherIs
<1>. QED
  BY <1>2, <1>3

LEMMA MembersDoNotPanic ==
  ASSUME NEW n \in Nat, NEW schema, NEW value \in Values, Judged(schema, ValidSchemas[n]),
         TypeIs(schema, "object"), value.kind = "object",
         \A s \in ValidSchemas[n], v \in Values : Verdicts[n][<<s, v>>] # "panic"
  PROVE  ValidateMembers(schema, value, Verdicts[n]) # "panic"
<1>. DEFINE properties == Properties(schema)
            verdicts == {IF properties[name].kind # "object" THEN "panic"
                         ELSE Verdicts[n][<<properties[name], value.members[name]>>] :
                         name \in DOMAIN properties \cap DOMAIN value.members}
<1>1. ASSUME NEW name \in DOMAIN properties \cap DOMAIN value.members
      PROVE  /\ properties[name].kind = "object"
             /\ Verdicts[n][<<properties[name], value.members[name]>>] # "panic"
  <2>1. properties[name].kind = "object" /\ properties[name] \in ValidSchemas[n]
    BY PropertyIs
  <2>2. value.members[name] \in Values
    BY PartTypes
  <2>. QED
    BY <2>1, <2>2
<1>2. "panic" \notin verdicts
  BY <1>1
<1>3. ValidateMembers(schema, value, Verdicts[n]) = Together(verdicts)
  BY DEF ValidateMembers
<1>. HIDE DEF verdicts
<1>. QED
  BY <1>2, <1>3, TogetherIs

LEMMA ArrayDoesNotPanic ==
  ASSUME NEW n \in Nat, NEW schema, NEW value \in Values, Judged(schema, ValidSchemas[n]),
         TypeIs(schema, "array"),
         \A s \in ValidSchemas[n], v \in Values : Verdicts[n][<<s, v>>] # "panic"
  PROVE  ValidateArray(schema, value, Verdicts[n]) # "panic"
<1>1. Says(schema, "items", "object") /\ schema.members.items \in ValidSchemas[n]
  BY DEF Judged, ValidateSchema
<1>2. CASE value.kind # "array"
  BY <1>2 DEF ValidateArray
<1>3. CASE value.kind = "array"
  <2>. DEFINE verdicts == {Verdicts[n][<<schema.members.items, value.elements[i]>>] :
                             i \in DOMAIN value.elements}
  <2>1. "panic" \notin verdicts
    BY <1>1, <1>3, PartTypes
  <2>2. ValidateArray(schema, value, Verdicts[n]) = Together(verdicts)
    BY <1>1, <1>3 DEF ValidateArray
  <2>. HIDE DEF verdicts
  <2>. QED
    BY <2>1, <2>2, TogetherIs
<1>. QED
  BY <1>2, <1>3

LEMMA WalkDoesNotPanic ==
  \A n \in Nat : \A s \in ValidSchemas[n], v \in Values : Verdicts[n][<<s, v>>] # "panic"
<1>. DEFINE S == {n \in Nat : \A s \in ValidSchemas[n], v \in Values : Verdicts[n][<<s, v>>] # "panic"}
<1>1. 0 \in S
  BY ValidSchemasUnfold
<1>2. ASSUME NEW n \in Nat, n \in S PROVE n + 1 \in S
  <2>1. ASSUME NEW s \in ValidSchemas[n + 1], NEW v \in Values
        PROVE  Verdicts[n + 1][<<s, v>>] # "panic"
    <3>1. Judged(s, ValidSchemas[n]) /\ s \in Values
      BY ValidIsJudged DEF Judged
    <3>2. Verdicts[n + 1][<<s, v>>] = ValidateValue(s, v, Verdicts[n])
      BY <3>1, VerdictIs
    <3>3. \A t \in ValidSchemas[n], w \in Values : Verdicts[n][<<t, w>>] # "panic"
      BY <1>2
    <3>4. TypeIs(s, "object") => ValidateObject(s, v, Verdicts[n]) # "panic"
      BY <3>1, <3>3, RequiredDoesNotPanic, MembersDoNotPanic DEF ValidateObject
    <3>5. TypeIs(s, "array") => ValidateArray(s, v, Verdicts[n]) # "panic"
      BY <3>1, <3>3, ArrayDoesNotPanic
    <3>6. ValidateValue(s, v, Verdicts[n]) # "panic"
      BY <3>1, <3>4, <3>5, CheckIs DEF ValidateValue, Judged
    <3>. QED
      BY <3>2, <3>6
  <2>. QED
    BY <2>1
<1>3. \A n \in Nat : n \in S
  <2>. HIDE DEF S
  <2>. QED
    BY <1>1, <1>2, Induction
<1>. QED
  BY <1>3

(* A number is 0 or follows another one.                                    *)
LEMMA ZeroOrNext ==
  \A n \in Nat : n = 0 \/ \E m \in Nat : n = m + 1
<1>. SUFFICES ASSUME NEW n \in Nat, n # 0 PROVE \E m \in Nat : n = m + 1
  OBVIOUS
<1>1. n - 1 \in Nat /\ n = (n - 1) + 1
  OBVIOUS
<1>. QED
  BY <1>1

LEMMA ValidSchemasAreObjects ==
  \A n \in Nat : \A s \in ValidSchemas[n] : s \in Values /\ s.kind = "object"
<1>. SUFFICES ASSUME NEW n \in Nat, NEW s \in ValidSchemas[n]
              PROVE  s \in Values /\ s.kind = "object"
  OBVIOUS
<1>1. PICK m \in Nat : n = m + 1
  BY ZeroOrNext, ValidSchemasUnfold
<1>. QED
  BY <1>1, ValidSchemasUnfold

LEMMA ValidSchemasAreValues ==
  \A n \in Nat : ValidSchemas[n] \subseteq Values
BY ValidSchemasAreObjects

LEMMA VerdictTypes ==
  ASSUME NEW n \in Nat, NEW schema \in Values, NEW value \in Values
  PROVE  Verdicts[n][<<schema, value>>] \in {"ok", "error", "panic"}
<1>1. <<schema, value>> \in Pairs
  BY DEF Pairs
<1>2. CASE n = 0
  BY <1>1, <1>2, VerdictsUnfold
<1>3. CASE n # 0
  <2>1. PICK m \in Nat : n = m + 1
    BY <1>3, ZeroOrNext
  <2>2. Verdicts[n][<<schema, value>>] = ValidateValue(schema, value, Verdicts[m])
    BY <2>1, VerdictIs
  <2>. QED
    BY <2>2, VerdictIsOne
<1>. QED
  BY <1>2, <1>3

-----------------------------------------------------------------------------
(* What the walk over the arguments accepts conforms to the schema.         *)

LEMMA ConformsIs ==
  ASSUME NEW n \in Nat, NEW schema \in Values, NEW value \in Values
  PROVE  Conforms[n + 1][<<schema, value>>] <=>
           /\ schema.kind = "object"
           /\ \A keyword \in DOMAIN schema.members :
                KeywordAdmits(schema, keyword, value, Conforms[n])
<1>1. <<schema, value>> \in Pairs
  BY DEF Pairs
<1>. QED
  BY <1>1, ConformsUnfold

LEMMA SameValueIs ==
  ASSUME NEW n \in Nat, NEW a \in Values, NEW b \in Values
  PROVE  SameValue[n + 1][<<a, b>>] <=> Same(a, b, SameValue[n])
<1>1. <<a, b>> \in Pairs
  BY DEF Pairs
<1>2. SameValue[n + 1] = [pair \in Pairs |-> Same(pair[1], pair[2], SameValue[n])]
  BY SameValueUnfold, Zenon
<1>3. SameValue[n + 1][<<a, b>>] = Same(<<a, b>>[1], <<a, b>>[2], SameValue[n])
  BY <1>1, <1>2, Zenon
<1>4. <<a, b>>[1] = a /\ <<a, b>>[2] = b
  OBVIOUS
<1>. QED
  BY <1>3, <1>4, Zenon

(* A value is the same as itself.                                           *)
LEMMA SameAsItself ==
  ASSUME NEW n \in Nat, NEW value \in Values
  PROVE  SameValue[n][<<value, value>>]
<1>1. <<value, value>> \in Pairs
  BY DEF Pairs
<1>2. CASE n = 0
  BY <1>1, <1>2, SameValueUnfold
<1>3. CASE n # 0
  <2>1. PICK m \in Nat : n = m + 1
    BY <1>3, ZeroOrNext
  <2>2. SameValue[n][<<value, value>>] <=> Same(value, value, SameValue[m])
    BY <2>1, SameValueIs
  <2>3. Same(value, value, SameValue[m])
    BY Zenon DEF Same
  <2>. QED
    BY <2>2, <2>3, Zenon
<1>. QED
  BY <1>2, <1>3

LEMMA EnumAdmits ==
  ASSUME NEW schema \in Values, NEW value \in Values, schema.kind = "object",
         Says(schema, "enum", "array"), ~EnumForbids(schema, value)
  PROVE  LET s == schema.members["enum"] IN
           /\ s.kind = "array"
           /\ \E i \in DOMAIN s.elements : SameValue[MaxDepth][<<s.elements[i], value>>]
<1>1. PICK i \in DOMAIN schema.members.enum.elements : schema.members.enum.elements[i] = value
  BY DEF EnumForbids
<1>2. SameValue[MaxDepth][<<value, value>>]
  BY SameAsItself
<1>3. \E j \in DOMAIN schema.members.enum.elements :
        SameValue[MaxDepth][<<schema.members.enum.elements[j], value>>]
  BY <1>1, <1>2, Zenon
<1>. QED
  BY <1>3, Zenon DEF Says

LEMMA RequiredAdmits ==
  ASSUME NEW schema, NEW value, Says(schema, "required", "array"),
         RequiredGiven(schema, value) = "ok"
  PROVE  \A i \in DOMAIN schema.members.required.elements :
           /\ schema.members.required.elements[i].kind = "string"
           /\ schema.members.required.elements[i].string \in DOMAIN value.members
<1>. DEFINE names == schema.members.required.elements
            verdicts == {IF names[i].kind # "string" THEN "panic"
                         ELSE Check(names[i].string \in DOMAIN value.members) : i \in DOMAIN names}
<1>1. RequiredGiven(schema, value) = Together(verdicts)
  BY DEF RequiredGiven
<1>2. "panic" \notin verdicts /\ "error" \notin verdicts
  <2>. HIDE DEF verdicts
  <2>. QED
    BY <1>1, TogetherIs
<1>3. ASSUME NEW i \in DOMAIN names
      PROVE  names[i].kind = "string" /\ names[i].string \in DOMAIN value.members
  <2>1. names[i].kind = "string"
    BY <1>2
  <2>2. Check(names[i].string \in DOMAIN value.members) \in verdicts
    BY <2>1
  <2>. QED
    BY <1>2, <2>1, <2>2, CheckIs
<1>. QED
  BY <1>3

LEMMA PropertiesAdmit ==
  ASSUME NEW n \in Nat, NEW schema, NEW value \in Values, Judged(schema, ValidSchemas[n]),
         TypeIs(schema, "object"), value.kind = "object", Has(schema, "properties"),
         ValidateMembers(schema, value, Verdicts[n]) = "ok",
         \A s \in ValidSchemas[n], v \in Values :
           Verdicts[n][<<s, v>>] = "ok" => Conforms[n][<<s, v>>]
  PROVE  LET s == schema.members["properties"] IN
           /\ s.kind = "object"
           /\ \A name \in DOMAIN s.members \cap DOMAIN value.members :
                Conforms[n][<<s.members[name], value.members[name]>>]
<1>. DEFINE properties == Properties(schema)
            verdicts == {IF properties[name].kind # "object" THEN "panic"
                         ELSE Verdicts[n][<<properties[name], value.members[name]>>] :
                         name \in DOMAIN properties \cap DOMAIN value.members}
<1>1. Says(schema, "properties", "object") /\ properties = schema.members.properties.members
  BY DEF Judged, ValidateSchema, ValidProperties, Properties
<1>2. Together(verdicts) = "ok"
  BY DEF ValidateMembers
<1>3. "error" \notin verdicts /\ "panic" \notin verdicts
  <2>. HIDE DEF verdicts
  <2>. QED
    BY <1>2, TogetherIs
<1>4. ASSUME NEW name \in DOMAIN properties \cap DOMAIN value.members
      PROVE  Conforms[n][<<properties[name], value.members[name]>>]
  <2>1. properties[name].kind = "object" /\ properties[name] \in ValidSchemas[n]
    BY PropertyIs
  <2>2. value.members[name] \in Values /\ properties[name] \in Values
    <3>1. ValidSchemas[n] \subseteq Values
      BY ValidSchemasAreValues
    <3>. QED
      BY <2>1, <3>1, PartTypes
  <2>3. Verdicts[n][<<properties[name], value.members[name]>>] \in verdicts
    BY <2>1
  <2>4. Verdicts[n][<<properties[name], value.members[name]>>] \in {"ok", "error", "panic"}
    BY <2>2, VerdictTypes
  <2>5. Verdicts[n][<<properties[name], value.members[name]>>] = "ok"
    BY <1>3, <2>3, <2>4
  <2>. QED
    BY <2>1, <2>2, <2>5
<1>. QED
  BY <1>1, <1>4 DEF Says

LEMMA ItemsAdmit ==
  ASSUME NEW n \in Nat, NEW schema, NEW value \in Values, Judged(schema, ValidSchemas[n]),
         TypeIs(schema, "array"), ValidateArray(schema, value, Verdicts[n]) = "ok",
         \A s \in ValidSchemas[n], v \in Values :
           Verdicts[n][<<s, v>>] = "ok" => Conforms[n][<<s, v>>]
  PROVE  /\ value.kind = "array"
         /\ \A i \in DOMAIN value.elements :
              Conforms[n][<<schema.members["items"], value.elements[i]>>]
<1>. DEFINE items == schema.members.items
            verdicts == {Verdicts[n][<<items, value.elements[i]>>] : i \in DOMAIN value.elements}
<1>1. Says(schema, "items", "object") /\ items \in ValidSchemas[n]
  BY DEF Judged, ValidateSchema
<1>2. value.kind = "array"
  BY DEF ValidateArray
<1>3. Together(verdicts) = "ok"
  BY <1>1, <1>2 DEF ValidateArray
<1>4. "error" \notin verdicts /\ "panic" \notin verdicts
  <2>. HIDE DEF verdicts
  <2>. QED
    BY <1>3, TogetherIs
<1>5. ASSUME NEW i \in DOMAIN value.elements
      PROVE  Conforms[n][<<items, value.elements[i]>>]
  <2>1. items \in Values /\ value.elements[i] \in Values
    BY <1>1, <1>2, ValidSchemasAreValues, PartTypes
  <2>2. Verdicts[n][<<items, value.elements[i]>>] \in {"ok", "error", "panic"}
    BY <2>1, VerdictTypes
  <2>. QED
    BY <1>1, <1>4, <2>1, <2>2
<1>. QED
  BY <1>2, <1>5

(* What an accepted value tells of the schema's type.                       *)
Accepted(schema, value, judge) ==
  /\ ~EnumForbids(schema, value)
  /\ TypeAdmits(schema.members.type, value)
  /\ value.kind = "object" =>
       /\ TypeIs(schema, "object")
       /\ RequiredGiven(schema, value) = "ok"
       /\ OnlyDeclared(schema, value) = "ok"
       /\ ValidateMembers(schema, value, judge) = "ok"
  /\ value.kind = "array" => TypeIs(schema, "array") /\ ValidateArray(schema, value, judge) = "ok"

LEMMA OkIsAccepted ==
  ASSUME NEW valid, NEW judge, NEW schema, NEW value \in Values, Judged(schema, valid),
         ValidateValue(schema, value, judge) = "ok"
  PROVE  Accepted(schema, value, judge)
<1>1. ~EnumForbids(schema, value)
  BY DEF ValidateValue
<1>2. PICK type \in Types : TypeIs(schema, type)
  BY DEF Judged, ValidateSchema
<1>3. schema.members.type.kind = "string" /\ schema.members.type.string = type
  BY <1>2 DEF TypeIs, Says
<1>4. CASE type = "object"
  <2>1. ValidateObject(schema, value, judge) = "ok"
    BY <1>1, <1>2, <1>4 DEF ValidateValue, TypeIs
  <2>2. value.kind = "object"
    BY <2>1 DEF ValidateObject
  <2>3. /\ RequiredGiven(schema, value) = "ok"
        /\ OnlyDeclared(schema, value) = "ok"
        /\ ValidateMembers(schema, value, judge) = "ok"
    BY <2>1 DEF ValidateObject
  <2>. QED
    BY <1>1, <1>2, <1>3, <1>4, <2>2, <2>3 DEF Accepted, TypeAdmits
<1>5. CASE type = "array"
  <2>1. ValidateArray(schema, value, judge) = "ok"
    BY <1>1, <1>2, <1>5 DEF ValidateValue, TypeIs
  <2>2. value.kind = "array"
    BY <2>1 DEF ValidateArray
  <2>. QED
    BY <1>1, <1>2, <1>3, <1>5, <2>1, <2>2 DEF Accepted, TypeAdmits
<1>6. CASE type = "integer"
  <2>1. Check(value.kind = "number" /\ IsInt64(value)) = "ok"
    BY <1>1, <1>2, <1>6 DEF ValidateValue, TypeIs
  <2>2. value.kind = "number" /\ IsInt64(value)
    BY <2>1, CheckIs, Zenon
  <2>3. schema.members.type = Str("integer")
    <3>1. schema.members.type \in Values
      BY <1>2, PartTypes DEF Judged, TypeIs, Says, Has
    <3>2. IsValue(schema.members.type)
      BY <3>1, ValuesAssumption
    <3>. QED
      BY <1>3, <1>6, <3>2 DEF IsValue, Str
  <2>4. TypeAdmits(schema.members.type, value)
    BY <2>2, <2>3 DEF TypeAdmits, IsInt64
  <2>. QED
    BY <1>1, <2>2, <2>4 DEF Accepted
<1>7. CASE type \notin {"object", "array", "integer"}
  <2>1. Check(type \in Types => TypeIs(schema, value.kind)) = "ok"
    BY <1>1, <1>2, <1>3, <1>7 DEF ValidateValue, TypeIs
  <2>2. value.kind = type
    <3>1. type \in Types => TypeIs(schema, value.kind)
      BY <2>1, CheckIs, Zenon
    <3>. QED
      BY <1>3, <3>1 DEF TypeIs
  <2>3. TypeAdmits(schema.members.type, value)
    BY <1>3, <2>2 DEF TypeAdmits
  <2>. QED
    BY <1>1, <1>7, <2>2, <2>3 DEF Accepted
<1>. QED
  BY <1>4, <1>5, <1>6, <1>7

LEMMA AcceptedKeyword ==
  ASSUME NEW n \in Nat, NEW schema, NEW value \in Values, Judged(schema, ValidSchemas[n]),
         Accepted(schema, value, Verdicts[n]),
         \A s \in ValidSchemas[n], v \in Values :
           Verdicts[n][<<s, v>>] = "ok" => Conforms[n][<<s, v>>],
         NEW keyword \in DOMAIN schema.members
  PROVE  KeywordAdmits(schema, keyword, value, Conforms[n])
<1>1. keyword \in SupportedKeywords
  BY DEF Judged, ValidateSchema
<1>2. CASE keyword = "type"
  BY <1>2 DEF KeywordAdmits, Accepted
<1>3. CASE keyword = "enum"
  <2>1. Says(schema, "enum", "array")
    BY <1>3 DEF Judged, ValidateSchema, Has
  <2>2. LET s == schema.members["enum"] IN
           /\ s.kind = "array"
           /\ \E i \in DOMAIN s.elements : SameValue[MaxDepth][<<s.elements[i], value>>]
    BY <2>1, EnumAdmits DEF Accepted, Judged
  <2>. QED
    BY <1>3, <2>2 DEF KeywordAdmits
<1>4. CASE keyword = "properties"
  <2>1. ASSUME value.kind = "object"
        PROVE  LET s == schema.members["properties"] IN
                 /\ s.kind = "object"
                 /\ \A name \in DOMAIN s.members \cap DOMAIN value.members :
                      Conforms[n][<<s.members[name], value.members[name]>>]
    <3>1. TypeIs(schema, "object") /\ ValidateMembers(schema, value, Verdicts[n]) = "ok"
      BY <2>1 DEF Accepted
    <3>2. Has(schema, "properties")
      BY <1>4 DEF Has
    <3>. QED
      BY <2>1, <3>1, <3>2, PropertiesAdmit
  <2>. QED
    BY <1>4, <2>1 DEF KeywordAdmits
<1>5. CASE keyword = "required"
  <2>1. ASSUME value.kind = "object"
        PROVE  /\ schema.members["required"].kind = "array"
               /\ \A i \in DOMAIN schema.members["required"].elements :
                    /\ schema.members["required"].elements[i].kind = "string"
                    /\ schema.members["required"].elements[i].string \in DOMAIN value.members
    <3>1. TypeIs(schema, "object") /\ RequiredGiven(schema, value) = "ok"
      BY <2>1 DEF Accepted
    <3>2. Says(schema, "required", "array")
      BY <1>5, <3>1 DEF Judged, ValidateSchema, ValidRequired, Has
    <3>. QED
      BY <3>1, <3>2, RequiredAdmits DEF Says
  <2>. QED
    BY <1>5, <2>1 DEF KeywordAdmits
<1>6. CASE keyword = "additionalProperties"
  <2>1. ASSUME value.kind = "object"
        PROVE  /\ schema.members["additionalProperties"] = Bool(FALSE)
               /\ DOMAIN value.members \subseteq DOMAIN Properties(schema)
    <3>1. TypeIs(schema, "object") /\ OnlyDeclared(schema, value) = "ok"
      BY <2>1 DEF Accepted
    <3>2. Has(schema, "additionalProperties")
      BY <1>6 DEF Has
    <3>3. schema.members.additionalProperties = Bool(FALSE)
      BY <3>1, <3>2 DEF Judged, ValidateSchema
    <3>4. (Has(schema, "additionalProperties") /\ schema.members.additionalProperties = Bool(FALSE))
            => DOMAIN value.members \subseteq DOMAIN Properties(schema)
      BY <3>1, CheckIs, Zenon DEF OnlyDeclared
    <3>. QED
      BY <3>2, <3>3, <3>4
  <2>. QED
    BY <1>6, <2>1 DEF KeywordAdmits
<1>7. CASE keyword = "items"
  <2>1. ASSUME value.kind = "array"
        PROVE  \A i \in DOMAIN value.elements :
                 Conforms[n][<<schema.members["items"], value.elements[i]>>]
    BY <2>1, ItemsAdmit DEF Accepted
  <2>. QED
    BY <1>7, <2>1 DEF KeywordAdmits
<1>. QED
  BY <1>1, <1>2, <1>3, <1>4, <1>5, <1>6, <1>7 DEF SupportedKeywords

LEMMA WalkAcceptsConforming ==
  \A n \in Nat : \A s \in ValidSchemas[n], v \in Values :
    Verdicts[n][<<s, v>>] = "ok" => Conforms[n][<<s, v>>]
<1>. DEFINE S == {n \in Nat : \A s \in ValidSchemas[n], v \in Values :
                    Verdicts[n][<<s, v>>] = "ok" => Conforms[n][<<s, v>>]}
<1>1. 0 \in S
  BY ValidSchemasUnfold
<1>2. ASSUME NEW n \in Nat, n \in S PROVE n + 1 \in S
  <2>1. ASSUME NEW s \in ValidSchemas[n + 1], NEW v \in Values,
               Verdicts[n + 1][<<s, v>>] = "ok"
        PROVE  Conforms[n + 1][<<s, v>>]
    <3>1. Judged(s, ValidSchemas[n]) /\ s \in Values /\ s.kind = "object"
      BY ValidIsJudged DEF Judged
    <3>2. ValidateValue(s, v, Verdicts[n]) = "ok"
      BY <2>1, <3>1, VerdictIs
    <3>3. Accepted(s, v, Verdicts[n])
      BY <3>1, <3>2, OkIsAccepted
    <3>4. \A t \in ValidSchemas[n], w \in Values :
             Verdicts[n][<<t, w>>] = "ok" => Conforms[n][<<t, w>>]
      BY <1>2
    <3>5. \A keyword \in DOMAIN s.members : KeywordAdmits(s, keyword, v, Conforms[n])
      BY <3>1, <3>3, <3>4, AcceptedKeyword
    <3>. QED
      BY <3>1, <3>5, ConformsIs
  <2>. QED
    BY <2>1
<1>3. \A n \in Nat : n \in S
  <2>. HIDE DEF S
  <2>. QED
    BY <1>1, <1>2, Induction
<1>. QED
  BY <1>3

-----------------------------------------------------------------------------
(* validateArguments.                                                       *)

ValidDefinition == DecodesAsSchema(definition) /\ SchemaOf(definition) \in ValidRoots

(* How it ends: it says of a definition that is not valid that it is not,   *)
(* of arguments that do not decode that they are wrong, and of the others   *)
(* what the walk says.                                                      *)
Ended ==
  \/ ~ValidDefinition /\ verdict = "invalid schema"
  \/ ValidDefinition /\ ~Decodes(arguments) /\ verdict = "error"
  \/ /\ ValidDefinition /\ Decodes(arguments)
     /\ verdict = Verdicts[MaxDepth][<<SchemaOf(definition), arguments.values[1]>>]

SchemaInv ==
  /\ stage \in {"schema", "arguments", "value", "done"}
  /\ stage # "done" => verdict = "none"
  /\ stage \in {"arguments", "value"} => ValidDefinition
  /\ stage = "value" => Decodes(arguments)
  /\ stage = "done" => Ended

(* The stages follow each other, and the verdict of the last is that of     *)
(* Ended.  (validateArguments.)                                             *)
THEOREM SchemaInvariant == Spec => []SchemaInv
<1>1. Init => SchemaInv
  BY DEF Init, SchemaInv
<1>2. SchemaInv /\ [Next]_vars => SchemaInv'
  <2>. SUFFICES ASSUME SchemaInv, [Next]_vars PROVE SchemaInv'
    OBVIOUS
  <2>1. CASE RejectDefinition
    BY <2>1 DEF RejectDefinition, Conclude, SchemaInv, Ended, ValidDefinition
  <2>2. CASE AcceptDefinition
    BY <2>2 DEF AcceptDefinition, SchemaInv, ValidDefinition
  <2>3. CASE ReadArguments
    <3>1. CASE Decodes(arguments')
      BY <2>3, <3>1 DEF ReadArguments, SchemaInv, ValidDefinition
    <3>2. CASE ~Decodes(arguments')
      BY <2>3, <3>2 DEF ReadArguments, Conclude, SchemaInv, Ended, ValidDefinition
    <3>. QED
      BY <3>1, <3>2
  <2>4. CASE JudgeArguments
    BY <2>4 DEF JudgeArguments, Conclude, SchemaInv, Ended, ValidDefinition
  <2>5. CASE UNCHANGED vars
    BY <2>5 DEF vars, SchemaInv, Ended, ValidDefinition
  <2>. QED
    BY <2>1, <2>2, <2>3, <2>4, <2>5 DEF Next
<1>. QED
  BY <1>1, <1>2, PTL DEF Spec

(* A document that decodes holds one value.                                 *)
LEMMA DecodedIsValue ==
  ASSUME NEW document, Decodes(document)
  PROVE  document.values[1] \in Values
<1>1. \A n \in Nat : Nested[n] \subseteq Values
  <2>. SUFFICES ASSUME NEW n \in Nat PROVE Nested[n] \subseteq Values
    OBVIOUS
  <2>1. CASE n = 0
    BY <2>1, NestedUnfold
  <2>2. CASE n # 0
    <3>1. PICK m \in Nat : n = m + 1
      BY <2>2, ZeroOrNext
    <3>. QED
      BY <3>1, NestedUnfold
  <2>. QED
    BY <2>1, <2>2
<1>. QED
  BY <1>1 DEF Decodes, Decodable

(* Null leaves an empty map behind, which is no valid schema.               *)
LEMMA ValidDefinitionIs ==
  ASSUME ValidDefinition
  PROVE  /\ Decodes(definition)
         /\ SchemaOf(definition) = definition.values[1]
         /\ SchemaOf(definition) \in ValidSchemas[MaxDepth]
         /\ SchemaOf(definition) \in Values
<1>1. SchemaOf(definition) \in ValidSchemas[MaxDepth] /\ TypeIs(SchemaOf(definition), "object")
  BY DEF ValidDefinition, ValidRoots
<1>2. ~TypeIs(Obj(<<>>), "object")
  BY DEF TypeIs, Says, Has, Obj
<1>. QED
  BY <1>1, <1>2, ValidSchemasAreValues DEF ValidDefinition, DecodesAsSchema, SchemaOf

(* No assertion of the walk over the arguments fails, whatever definition   *)
(* and arguments are.  (The unchecked assertions of validateValue.)         *)
THEOREM WalkNeverPanics == Spec => []NeverPanics
<1>1. SchemaInv => NeverPanics
  <2>. SUFFICES ASSUME SchemaInv, stage = "done" PROVE verdict # "panic"
    BY DEF SchemaInv, NeverPanics
  <2>1. Ended
    BY DEF SchemaInv
  <2>2. CASE /\ ValidDefinition /\ Decodes(arguments)
             /\ verdict = Verdicts[MaxDepth][<<SchemaOf(definition), arguments.values[1]>>]
    BY <2>2, ValidDefinitionIs, DecodedIsValue, WalkDoesNotPanic
  <2>. QED
    BY <2>1, <2>2 DEF Ended
<1>. QED
  BY <1>1, SchemaInvariant, PTL

(* What validateArguments accepts is admitted by the schema, as JSON Schema *)
(* reads it.  (validateArguments; Executor.execute invokes the tool next.)  *)
THEOREM AcceptedConform == Spec => []AcceptedArgumentsConform
<1>1. SchemaInv => AcceptedArgumentsConform
  <2>. SUFFICES ASSUME SchemaInv, verdict = "ok"
                PROVE  Conforms[MaxDepth][<<definition.values[1], arguments.values[1]>>]
    BY DEF AcceptedArgumentsConform
  <2>1. Ended
    BY DEF SchemaInv
  <2>2. /\ ValidDefinition /\ Decodes(arguments)
        /\ verdict = Verdicts[MaxDepth][<<SchemaOf(definition), arguments.values[1]>>]
    BY <2>1 DEF Ended
  <2>. QED
    BY <2>2, ValidDefinitionIs, DecodedIsValue, WalkAcceptsConforming
<1>. QED
  BY <1>1, SchemaInvariant, PTL

-----------------------------------------------------------------------------
(* What conforms is accepted, when schemas are documented and numbers plain.*)

LEMMA DocumentedAre ==
  ASSUME NEW n \in Nat, NEW schema \in Documented[n + 1]
  PROVE  /\ schema \in Values
         /\ schema.kind = "object"
         /\ Has(schema, "type")
         /\ TypeIs(schema, "array") => Has(schema, "items")
         /\ \A keyword \in DOMAIN schema.members : KeywordIsDocumented(schema, keyword, Documented[n])
BY DocumentedUnfold

LEMMA DocumentedIsJudged ==
  ASSUME NEW n \in Nat, NEW schema \in Documented[n + 1], NEW valid,
         Documented[n] \subseteq valid, \A s \in valid : s.kind = "object"
  PROVE  Judged(schema, valid)
<1>1. /\ schema \in Values
      /\ schema.kind = "object"
      /\ Has(schema, "type")
      /\ TypeIs(schema, "array") => Has(schema, "items")
      /\ \A keyword \in DOMAIN schema.members : KeywordIsDocumented(schema, keyword, Documented[n])
  BY DocumentedAre, Zenon
<1>2. DOMAIN schema.members \subseteq SupportedKeywords
  BY <1>1 DEF KeywordIsDocumented, SupportedKeywords
<1>3. Says(schema, "type", "string") /\ \E type \in Types : TypeIs(schema, type)
  <2>1. KeywordIsDocumented(schema, "type", Documented[n])
    BY <1>1 DEF Has
  <2>2. PICK type \in Types : schema.members["type"] = Str(type)
    BY <2>1 DEF KeywordIsDocumented
  <2>. QED
    BY <1>1, <2>2 DEF Str, TypeIs, Says
<1>4. ValidProperties(schema, valid)
  <2>. SUFFICES ASSUME Has(schema, "properties")
                PROVE  ValidProperties(schema, valid)
    BY DEF ValidProperties
  <2>1. KeywordIsDocumented(schema, "properties", Documented[n])
    BY <1>1 DEF Has
  <2>2. schema.members["properties"].kind = "object"
        /\ Parts(schema.members["properties"]) \subseteq Documented[n]
    BY <2>1 DEF KeywordIsDocumented
  <2>3. Properties(schema) = schema.members["properties"].members
    BY <2>2 DEF Properties, Says
  <2>4. \A name \in DOMAIN Properties(schema) : Properties(schema)[name] \in Documented[n]
    BY <2>2, <2>3 DEF Parts
  <2>. QED
    BY <2>2, <2>4 DEF ValidProperties, Says
<1>5. ValidRequired(schema)
  <2>. SUFFICES ASSUME Has(schema, "required")
                PROVE  ValidRequired(schema)
    BY DEF ValidRequired
  <2>1. KeywordIsDocumented(schema, "required", Documented[n])
    BY <1>1 DEF Has
  <2>2. schema.members["required"].kind = "array"
        /\ \A part \in Parts(schema.members["required"]) : part.kind = "string"
    BY <2>1 DEF KeywordIsDocumented
  <2>3. \A i \in DOMAIN schema.members["required"].elements :
          schema.members["required"].elements[i].kind = "string"
    BY <2>2 DEF Parts
  <2>. QED
    BY <2>2, <2>3 DEF ValidRequired, Says
<1>6. Has(schema, "additionalProperties") => schema.members.additionalProperties = Bool(FALSE)
  <2>. SUFFICES ASSUME Has(schema, "additionalProperties")
                PROVE  schema.members["additionalProperties"] = Bool(FALSE)
    OBVIOUS
  <2>1. KeywordIsDocumented(schema, "additionalProperties", Documented[n])
    BY <1>1 DEF Has
  <2>. QED
    BY <2>1 DEF KeywordIsDocumented
<1>7. Has(schema, "items") => Says(schema, "items", "object") /\ schema.members.items \in valid
  <2>. SUFFICES ASSUME Has(schema, "items")
                PROVE  Says(schema, "items", "object") /\ schema.members["items"] \in valid
    OBVIOUS
  <2>1. KeywordIsDocumented(schema, "items", Documented[n])
    BY <1>1 DEF Has
  <2>2. schema.members["items"] \in Documented[n]
    BY <2>1 DEF KeywordIsDocumented
  <2>. QED
    BY <2>2 DEF Says
<1>8. Has(schema, "enum") => Says(schema, "enum", "array")
  <2>. SUFFICES ASSUME Has(schema, "enum")
                PROVE  schema.members["enum"].kind = "array"
    BY DEF Says
  <2>1. KeywordIsDocumented(schema, "enum", Documented[n])
    BY <1>1 DEF Has
  <2>. QED
    BY <2>1 DEF KeywordIsDocumented
<1>9. ValidateSchema(schema, valid)
  BY <1>1, <1>2, <1>3, <1>4, <1>5, <1>6, <1>7, <1>8 DEF ValidateSchema
<1>. QED
  BY <1>1, <1>3, <1>9 DEF Judged

(* A documented schema is valid.                                            *)
LEMMA DocumentedAreValid ==
  \A n \in Nat : Documented[n] \subseteq ValidSchemas[n]
<1>. DEFINE S == {n \in Nat : Documented[n] \subseteq ValidSchemas[n]}
<1>1. 0 \in S
  BY DocumentedUnfold
<1>2. ASSUME NEW n \in Nat, n \in S PROVE n + 1 \in S
  <2>1. \A s \in ValidSchemas[n] : s.kind = "object"
    BY ValidSchemasAreObjects
  <2>2. ASSUME NEW s \in Documented[n + 1] PROVE s \in ValidSchemas[n + 1]
    <3>1. Judged(s, ValidSchemas[n])
      BY <1>2, <2>1, DocumentedIsJudged
    <3>. QED
      BY <3>1, ValidSchemasUnfold DEF Judged
  <2>. QED
    BY <2>2
<1>3. \A n \in Nat : n \in S
  <2>. HIDE DEF S
  <2>. QED
    BY <1>1, <1>2, Induction
<1>. QED
  BY <1>3

AnyPlain(value) == \E n \in Nat : value \in Plain[n]

LEMMA PlainParts ==
  ASSUME NEW value, AnyPlain(value)
  PROVE  /\ value \in Values
         /\ PlainNumber(value)
         /\ value.kind = "object" => \A name \in DOMAIN value.members : AnyPlain(value.members[name])
         /\ value.kind = "array" => \A i \in DOMAIN value.elements : AnyPlain(value.elements[i])
<1>1. PICK n \in Nat : value \in Plain[n]
  BY DEF AnyPlain
<1>2. CASE n = 0
  BY <1>1, <1>2, PlainUnfold, NestedUnfold
<1>3. CASE n # 0
  <2>1. PICK m \in Nat : n = m + 1
    BY <1>3, ZeroOrNext
  <2>2. value \in Values /\ PlainNumber(value) /\ Parts(value) \subseteq Plain[m]
    BY <1>1, <2>1, PlainUnfold
  <2>3. value.kind = "object" => \A name \in DOMAIN value.members : value.members[name] \in Plain[m]
    BY <2>2 DEF Parts
  <2>4. value.kind = "array" => \A i \in DOMAIN value.elements : value.elements[i] \in Plain[m]
    BY <2>2 DEF Parts
  <2>. QED
    BY <2>2, <2>3, <2>4 DEF AnyPlain
<1>. QED
  BY <1>2, <1>3

LEMMA SameNumberIsEqual ==
  ASSUME NEW a \in Values, NEW b \in Values, PlainNumber(a), PlainNumber(b),
         a.kind = "number", b.kind = "number", Twice(a) = Twice(b)
  PROVE  a = b
<1>1. IsValue(a) /\ IsValue(b)
  BY ValuesAssumption
<1>2. /\ a \in [kind : {"number"}, number : Int, spelling : {"plain", "respelled", "fraction"}]
      /\ b \in [kind : {"number"}, number : Int, spelling : {"plain", "respelled", "fraction"}]
  BY <1>1 DEF IsValue
<1>3. a.spelling \in {"plain", "fraction"} /\ b.spelling \in {"plain", "fraction"}
  BY DEF PlainNumber, IsInt64
<1>4. a.number = b.number /\ a.spelling = b.spelling
  <2>1. a.number \in Int /\ b.number \in Int
    BY <1>2
  <2>2. PICK x \in Int : x = a.number
    BY <2>1
  <2>3. PICK y \in Int : y = b.number
    BY <2>1
  <2>4. Twice(a) = (IF a.spelling = "fraction" THEN 2 * x + 1 ELSE 2 * x)
    BY <2>2 DEF Twice
  <2>5. Twice(b) = (IF b.spelling = "fraction" THEN 2 * y + 1 ELSE 2 * y)
    BY <2>3 DEF Twice
  <2>6. \A i, j \in Int : /\ 2 * i # 2 * j + 1
                          /\ 2 * i = 2 * j => i = j
                          /\ 2 * i + 1 = 2 * j + 1 => i = j
    OBVIOUS
  <2>. QED
    BY <1>3, <2>2, <2>3, <2>4, <2>5, <2>6
<1>. QED
  BY <1>2, <1>4

LEMMA SameArrayIsEqual ==
  ASSUME NEW a \in Values, NEW b \in Values, a.kind = "array", b.kind = "array",
         Len(a.elements) = Len(b.elements),
         \A i \in DOMAIN a.elements : a.elements[i] = b.elements[i]
  PROVE  a = b
<1>1. IsValue(a) /\ IsValue(b)
  BY ValuesAssumption
<1>2. /\ a \in [kind : {"array"}, elements : Seq(Values)]
      /\ b \in [kind : {"array"}, elements : Seq(Values)]
  BY <1>1 DEF IsValue
<1>3. a.elements = b.elements
  <2>1. a.elements \in Seq(Values) /\ b.elements \in Seq(Values)
    BY <1>2
  <2>. QED
    BY <2>1
<1>. QED
  BY <1>2, <1>3

LEMMA SameObjectIsEqual ==
  ASSUME NEW a \in Values, NEW b \in Values, a.kind = "object", b.kind = "object",
         DOMAIN a.members = DOMAIN b.members,
         \A name \in DOMAIN a.members : a.members[name] = b.members[name]
  PROVE  a = b
<1>1. IsValue(a) /\ IsValue(b)
  BY ValuesAssumption
<1>2. /\ a = Obj(a.members) /\ a.members \in [DOMAIN a.members -> Values]
      /\ b = Obj(b.members) /\ b.members \in [DOMAIN b.members -> Values]
  BY <1>1 DEF IsValue
<1>3. a.members = b.members
  BY <1>2
<1>. QED
  BY <1>2, <1>3, Zenon

(* Among plain values, equal numbers are spelled alike.                     *)
LEMMA PlainSameIsEqual ==
  \A n \in Nat : \A a, b \in Values :
    AnyPlain(a) /\ AnyPlain(b) /\ SameValue[n][<<a, b>>] => a = b
<1>. DEFINE S == {n \in Nat : \A a, b \in Values :
                    AnyPlain(a) /\ AnyPlain(b) /\ SameValue[n][<<a, b>>] => a = b}
<1>1. 0 \in S
  <2>1. ASSUME NEW a \in Values, NEW b \in Values, SameValue[0][<<a, b>>] PROVE a = b
    <3>1. <<a, b>> \in Pairs
      BY DEF Pairs
    <3>. QED
      BY <2>1, <3>1, SameValueUnfold
  <2>. QED
    BY <2>1
<1>2. ASSUME NEW n \in Nat, n \in S PROVE n + 1 \in S
  <2>1. ASSUME NEW a \in Values, NEW b \in Values, AnyPlain(a), AnyPlain(b),
               SameValue[n + 1][<<a, b>>]
        PROVE  a = b
    <3>1. Same(a, b, SameValue[n])
      BY <2>1, SameValueIs
    <3>2. \A x, y \in Values : AnyPlain(x) /\ AnyPlain(y) /\ SameValue[n][<<x, y>>] => x = y
      BY <1>2
    <3>3. CASE a.kind = "number" /\ b.kind = "number" /\ Twice(a) = Twice(b)
      BY <2>1, <3>3, PlainParts, SameNumberIsEqual
    <3>4. CASE /\ a.kind = "array" /\ b.kind = "array"
               /\ Len(a.elements) = Len(b.elements)
               /\ \A i \in DOMAIN a.elements : SameValue[n][<<a.elements[i], b.elements[i]>>]
      <4>1. a.elements \in Seq(Values) /\ b.elements \in Seq(Values)
        BY <3>4, PartTypes
      <4>2. DOMAIN a.elements = DOMAIN b.elements
        BY <3>4, <4>1
      <4>3. ASSUME NEW i \in DOMAIN a.elements PROVE a.elements[i] = b.elements[i]
        <5>1. AnyPlain(a.elements[i]) /\ AnyPlain(b.elements[i])
          BY <2>1, <3>4, <4>2, PlainParts
        <5>2. a.elements[i] \in Values /\ b.elements[i] \in Values
          BY <3>4, <4>2, PartTypes
        <5>. QED
          BY <3>2, <3>4, <5>1, <5>2, Zenon
      <4>. QED
        BY <3>4, <4>3, SameArrayIsEqual
    <3>5. CASE /\ a.kind = "object" /\ b.kind = "object"
               /\ DOMAIN a.members = DOMAIN b.members
               /\ \A name \in DOMAIN a.members : SameValue[n][<<a.members[name], b.members[name]>>]
      <4>1. ASSUME NEW name \in DOMAIN a.members PROVE a.members[name] = b.members[name]
        <5>1. AnyPlain(a.members[name]) /\ AnyPlain(b.members[name])
          BY <2>1, <3>5, PlainParts
        <5>2. a.members[name] \in Values /\ b.members[name] \in Values
          BY <3>5, PartTypes
        <5>. QED
          BY <3>2, <3>5, <5>1, <5>2, Zenon
      <4>. QED
        BY <3>5, <4>1, SameObjectIsEqual
    <3>. QED
      BY <3>1, <3>3, <3>4, <3>5, Zenon DEF Same
  <2>. QED
    BY <2>1
<1>3. \A n \in Nat : n \in S
  <2>. HIDE DEF S
  <2>. QED
    BY <1>1, <1>2, Induction
<1>. QED
  BY <1>3

LEMMA ConformingIsNotForbidden ==
  ASSUME NEW schema \in Values, NEW value \in Values, schema.kind = "object",
         AnyPlain(schema), AnyPlain(value),
         Has(schema, "enum") =>
           /\ schema.members["enum"].kind = "array"
           /\ \E i \in DOMAIN schema.members["enum"].elements :
                SameValue[MaxDepth][<<schema.members["enum"].elements[i], value>>]
  PROVE  ~EnumForbids(schema, value)
<1>. SUFFICES ASSUME EnumForbids(schema, value) PROVE FALSE
  OBVIOUS
<1>1. Has(schema, "enum") /\ schema.members["enum"].kind = "array"
  BY DEF EnumForbids, Says
<1>2. PICK i \in DOMAIN schema.members["enum"].elements :
        SameValue[MaxDepth][<<schema.members["enum"].elements[i], value>>]
  BY <1>1
<1>3. AnyPlain(schema.members["enum"]) /\ schema.members["enum"] \in Values
  BY <1>1, PlainParts, PartTypes DEF Has
<1>4. PICK e \in Values : e = schema.members["enum"].elements[i] /\ AnyPlain(e)
  BY <1>1, <1>2, <1>3, PlainParts, PartTypes
<1>5. e = value
  BY <1>2, <1>4, PlainSameIsEqual
<1>. QED
  BY <1>2, <1>4, <1>5 DEF EnumForbids

LEMMA AllOk ==
  ASSUME NEW verdicts, \A v \in verdicts : v = "ok"
  PROVE  Together(verdicts) = "ok"
BY DEF Together

LEMMA ConformingIsGivenAndDeclared ==
  ASSUME NEW n \in Nat, NEW schema, NEW value, value.kind = "object",
         \A keyword \in DOMAIN schema.members : KeywordAdmits(schema, keyword, value, Conforms[n])
  PROVE  RequiredGiven(schema, value) = "ok" /\ OnlyDeclared(schema, value) = "ok"
<1>1. RequiredGiven(schema, value) = "ok"
  <2>1. CASE ~Says(schema, "required", "array")
    BY <2>1 DEF RequiredGiven
  <2>2. CASE Says(schema, "required", "array")
    <3>. DEFINE names == schema.members.required.elements
                verdicts == {IF names[i].kind # "string" THEN "panic"
                             ELSE Check(names[i].string \in DOMAIN value.members) : i \in DOMAIN names}
    <3>1. KeywordAdmits(schema, "required", value, Conforms[n])
      BY <2>2 DEF Says, Has
    <3>2. \A i \in DOMAIN names : names[i].kind = "string" /\ names[i].string \in DOMAIN value.members
      BY <3>1 DEF KeywordAdmits
    <3>3. \A v \in verdicts : v = "ok"
      BY <3>2 DEF Check
    <3>4. RequiredGiven(schema, value) = Together(verdicts)
      BY <2>2 DEF RequiredGiven
    <3>. HIDE DEF verdicts
    <3>. QED
      BY <3>3, <3>4, AllOk
  <2>. QED
    BY <2>1, <2>2
<1>2. OnlyDeclared(schema, value) = "ok"
  <2>1. Has(schema, "additionalProperties") => DOMAIN value.members \subseteq DOMAIN Properties(schema)
    <3>. SUFFICES ASSUME Has(schema, "additionalProperties")
                  PROVE  DOMAIN value.members \subseteq DOMAIN Properties(schema)
      OBVIOUS
    <3>1. KeywordAdmits(schema, "additionalProperties", value, Conforms[n])
      BY DEF Has
    <3>. QED
      BY <3>1 DEF KeywordAdmits
  <2>. QED
    BY <2>1 DEF OnlyDeclared, Check
<1>. QED
  BY <1>1, <1>2

LEMMA ConformingMembersAreOk ==
  ASSUME NEW n \in Nat, NEW schema \in Documented[n + 1], NEW value \in Values,
         AnyPlain(schema), AnyPlain(value), value.kind = "object",
         \A keyword \in DOMAIN schema.members : KeywordAdmits(schema, keyword, value, Conforms[n]),
         \A s \in Documented[n], v \in Values :
           AnyPlain(s) /\ AnyPlain(v) /\ Conforms[n][<<s, v>>] => Verdicts[n][<<s, v>>] = "ok",
         \A s \in Documented[n] : s.kind = "object"
  PROVE  ValidateMembers(schema, value, Verdicts[n]) = "ok"
<1>. DEFINE properties == Properties(schema)
            verdicts == {IF properties[name].kind # "object" THEN "panic"
                         ELSE Verdicts[n][<<properties[name], value.members[name]>>] :
                         name \in DOMAIN properties \cap DOMAIN value.members}
<1>1. ASSUME NEW name \in DOMAIN properties \cap DOMAIN value.members
      PROVE  /\ properties[name].kind = "object"
             /\ Verdicts[n][<<properties[name], value.members[name]>>] = "ok"
  <2>1. Says(schema, "properties", "object")
    BY DEF Properties
  <2>2. properties = schema.members["properties"].members
    BY <2>1 DEF Properties
  <2>3. schema \in Values /\ schema.kind = "object"
    BY DocumentedAre
  <2>4. KeywordIsDocumented(schema, "properties", Documented[n])
    BY <2>1, DocumentedAre DEF Says, Has
  <2>5. properties[name] \in Documented[n]
    BY <2>1, <2>2, <2>4 DEF KeywordIsDocumented, Parts, Says
  <2>6. KeywordAdmits(schema, "properties", value, Conforms[n])
    BY <2>1 DEF Says, Has
  <2>7. Conforms[n][<<properties[name], value.members[name]>>]
    BY <2>2, <2>6 DEF KeywordAdmits
  <2>8. AnyPlain(schema.members["properties"]) /\ schema.members["properties"].kind = "object"
    BY <2>1, <2>3, PlainParts DEF Says, Has
  <2>9. AnyPlain(properties[name]) /\ AnyPlain(value.members[name]) /\ value.members[name] \in Values
    BY <2>2, <2>8, PlainParts, PartTypes
  <2>. QED
    BY <2>5, <2>7, <2>9
<1>2. \A v \in verdicts : v = "ok"
  BY <1>1
<1>3. ValidateMembers(schema, value, Verdicts[n]) = Together(verdicts)
  BY DEF ValidateMembers
<1>. HIDE DEF verdicts
<1>. QED
  BY <1>2, <1>3, AllOk

LEMMA ConformingElementsAreOk ==
  ASSUME NEW n \in Nat, NEW schema \in Documented[n + 1], NEW value \in Values,
         AnyPlain(schema), AnyPlain(value), value.kind = "array", Has(schema, "items"),
         \A keyword \in DOMAIN schema.members : KeywordAdmits(schema, keyword, value, Conforms[n]),
         \A s \in Documented[n], v \in Values :
           AnyPlain(s) /\ AnyPlain(v) /\ Conforms[n][<<s, v>>] => Verdicts[n][<<s, v>>] = "ok",
         \A s \in Documented[n] : s.kind = "object"
  PROVE  ValidateArray(schema, value, Verdicts[n]) = "ok"
<1>. DEFINE items == schema.members.items
            verdicts == {Verdicts[n][<<items, value.elements[i]>>] : i \in DOMAIN value.elements}
<1>1. schema \in Values /\ schema.kind = "object"
  BY DocumentedAre
<1>2. items \in Documented[n]
  <2>1. KeywordIsDocumented(schema, "items", Documented[n])
    BY DocumentedAre DEF Has
  <2>. QED
    BY <2>1 DEF KeywordIsDocumented
<1>3. \A i \in DOMAIN value.elements : Conforms[n][<<items, value.elements[i]>>]
  <2>1. KeywordAdmits(schema, "items", value, Conforms[n])
    BY DEF Has
  <2>. QED
    BY <2>1 DEF KeywordAdmits
<1>4. AnyPlain(items)
  BY <1>1, PlainParts DEF Has
<1>5. ASSUME NEW i \in DOMAIN value.elements
      PROVE  Verdicts[n][<<items, value.elements[i]>>] = "ok"
  <2>1. AnyPlain(value.elements[i]) /\ value.elements[i] \in Values
    BY PlainParts, PartTypes
  <2>. QED
    BY <1>2, <1>3, <1>4, <2>1
<1>6. \A v \in verdicts : v = "ok"
  BY <1>5
<1>7. ValidateArray(schema, value, Verdicts[n]) = Together(verdicts)
  BY <1>2 DEF ValidateArray, Says
<1>. HIDE DEF verdicts
<1>. QED
  BY <1>6, <1>7, AllOk

LEMMA ConformingAreAccepted ==
  \A n \in Nat : \A s \in Documented[n], v \in Values :
    AnyPlain(s) /\ AnyPlain(v) /\ Conforms[n][<<s, v>>] => Verdicts[n][<<s, v>>] = "ok"
<1>. DEFINE S == {n \in Nat : \A s \in Documented[n], v \in Values :
          AnyPlain(s) /\ AnyPlain(v) /\ Conforms[n][<<s, v>>] => Verdicts[n][<<s, v>>] = "ok"}
<1>1. 0 \in S
  BY DocumentedUnfold
<1>2. ASSUME NEW n \in Nat, n \in S PROVE n + 1 \in S
  <2>1. ASSUME NEW s \in Documented[n + 1], NEW v \in Values,
               AnyPlain(s), AnyPlain(v), Conforms[n + 1][<<s, v>>]
        PROVE  Verdicts[n + 1][<<s, v>>] = "ok"
    <3>1. s \in Values /\ s.kind = "object" /\ (TypeIs(s, "array") => Has(s, "items"))
      BY DocumentedAre
    <3>2. \A keyword \in DOMAIN s.members : KeywordAdmits(s, keyword, v, Conforms[n])
      BY <2>1, <3>1, ConformsIs
    <3>3. \A t \in Documented[n], w \in Values :
             AnyPlain(t) /\ AnyPlain(w) /\ Conforms[n][<<t, w>>] => Verdicts[n][<<t, w>>] = "ok"
      BY <1>2
    <3>4. \A t \in Documented[n] : t.kind = "object"
      BY DocumentedAreValid, ValidSchemasAreObjects
    <3>5. PICK type \in Types : s.members["type"] = Str(type) /\ Has(s, "type")
      <4>1. Has(s, "type") /\ KeywordIsDocumented(s, "type", Documented[n])
        BY DocumentedAre DEF Has
      <4>. QED
        BY <4>1 DEF KeywordIsDocumented
    <3>6. Says(s, "type", "string") /\ TypeIs(s, type) /\ s.members.type.string = type
      BY <3>5 DEF Says, TypeIs, Str
    <3>7. ~EnumForbids(s, v)
      <4>1. ASSUME Has(s, "enum")
            PROVE  /\ s.members["enum"].kind = "array"
                   /\ \E i \in DOMAIN s.members["enum"].elements :
                        SameValue[MaxDepth][<<s.members["enum"].elements[i], v>>]
        <5>1. KeywordAdmits(s, "enum", v, Conforms[n])
          BY <3>2, <4>1 DEF Has
        <5>. QED
          BY <5>1 DEF KeywordAdmits
      <4>. QED
        BY <2>1, <3>1, <4>1, ConformingIsNotForbidden
    <3>8. TypeAdmits(Str(type), v)
      <4>1. KeywordAdmits(s, "type", v, Conforms[n])
        BY <3>2, <3>5 DEF Has
      <4>. QED
        BY <3>5, <4>1 DEF KeywordAdmits
    <3>9. v.kind # "integer"
      <4>1. IsValue(v)
        BY ValuesAssumption
      <4>. QED
        BY <4>1 DEF IsValue
    <3>10. ValidateValue(s, v, Verdicts[n]) = "ok"
      <4>1. CASE type = "object"
        <5>1. v.kind = "object"
          BY <3>8, <4>1 DEF TypeAdmits, Str
        <5>2. RequiredGiven(s, v) = "ok" /\ OnlyDeclared(s, v) = "ok"
          BY <3>2, <5>1, ConformingIsGivenAndDeclared
        <5>3. ValidateMembers(s, v, Verdicts[n]) = "ok"
          BY <2>1, <3>2, <3>3, <3>4, <5>1, ConformingMembersAreOk
        <5>. QED
          BY <3>6, <3>7, <4>1, <5>1, <5>2, <5>3 DEF ValidateValue, ValidateObject
      <4>2. CASE type = "array"
        <5>1. v.kind = "array"
          BY <3>8, <4>2 DEF TypeAdmits, Str
        <5>2. ValidateArray(s, v, Verdicts[n]) = "ok"
          BY <2>1, <3>1, <3>2, <3>3, <3>4, <3>6, <4>2, <5>1, ConformingElementsAreOk
        <5>. QED
          BY <3>6, <3>7, <4>2, <5>2 DEF ValidateValue, TypeIs
      <4>3. CASE type = "integer"
        <5>1. v.kind = "number" /\ v.spelling # "fraction"
          BY <3>8, <3>9, <4>3 DEF TypeAdmits, Str
        <5>2. IsInt64(v)
          BY <2>1, <5>1, PlainParts DEF PlainNumber
        <5>. QED
          BY <3>6, <3>7, <4>3, <5>1, <5>2 DEF ValidateValue, TypeIs, Check
      <4>4. CASE type \notin {"object", "array", "integer"}
        <5>1. v.kind = type
          BY <3>8, <4>4 DEF TypeAdmits, Str
        <5>. QED
          BY <3>6, <3>7, <4>4, <5>1 DEF ValidateValue, TypeIs, Check
      <4>. QED
        BY <4>1, <4>2, <4>3, <4>4
    <3>. QED
      BY <3>1, <3>10, VerdictIs
  <2>. QED
    BY <2>1
<1>3. \A n \in Nat : n \in S
  <2>. HIDE DEF S
  <2>. QED
    BY <1>1, <1>2, Induction
<1>. QED
  BY <1>3

(* A tool that keeps to the documented subset is not refused, and gets any  *)
(* arguments its schema admits, numbers that are not plain apart.           *)
(* (contracts/tool-execution.md, "The lesson 17 validator accepts".)        *)
THEOREM ConformingAccepted == Spec => []ConformingArgumentsAccepted
<1>1. SchemaInv => ConformingArgumentsAccepted
  <2>. SUFFICES ASSUME SchemaInv, stage = "done",
                       Decodes(definition), definition.values[1] \in DocumentedRoots
                PROVE  /\ verdict # "invalid schema"
                       /\ verdict = "error" =>
                            \/ ~ Decodes(arguments)
                            \/ ~ Conforms[MaxDepth][<<definition.values[1], arguments.values[1]>>]
                            \/ arguments.values[1] \notin PlainValues
                            \/ definition.values[1] \notin PlainValues
    BY DEF SchemaInv, ConformingArgumentsAccepted
  <2>1. /\ definition.values[1] \in Documented[MaxDepth]
        /\ definition.values[1] \in ValidSchemas[MaxDepth]
        /\ TypeIs(definition.values[1], "object")
    BY DocumentedAreValid DEF DocumentedRoots
  <2>2. definition.values[1] \in Values /\ definition.values[1].kind = "object"
    BY <2>1, ValidSchemasAreObjects
  <2>3. SchemaOf(definition) = definition.values[1]
    BY <2>2 DEF SchemaOf, Null
  <2>4. ValidDefinition
    BY <2>1, <2>2, <2>3 DEF ValidDefinition, DecodesAsSchema, ValidRoots
  <2>5. CASE ~Decodes(arguments) /\ verdict = "error"
    BY <2>5
  <2>6. CASE /\ Decodes(arguments)
             /\ verdict = Verdicts[MaxDepth][<<definition.values[1], arguments.values[1]>>]
    <3>1. arguments.values[1] \in Values
      BY <2>6, DecodedIsValue
    <3>2. verdict # "invalid schema"
      BY <2>2, <2>6, <3>1, VerdictTypes
    <3>3. ASSUME Conforms[MaxDepth][<<definition.values[1], arguments.values[1]>>],
                 arguments.values[1] \in PlainValues, definition.values[1] \in PlainValues
          PROVE  verdict = "ok"
      <4>1. AnyPlain(arguments.values[1]) /\ AnyPlain(definition.values[1])
        BY <3>3 DEF AnyPlain, PlainValues
      <4>. QED
        BY <2>1, <2>6, <3>1, <3>3, <4>1, ConformingAreAccepted
    <3>. QED
      BY <3>2, <3>3
  <2>. QED
    BY <2>3, <2>4, <2>5, <2>6 DEF SchemaInv, Ended
<1>. QED
  BY <1>1, SchemaInvariant, PTL

-----------------------------------------------------------------------------
(* The depth takes nothing away.                                            *)

LEMMA NestedGrows ==
  \A n \in Nat : Nested[n] \subseteq Nested[n + 1]
<1>. DEFINE S == {n \in Nat : Nested[n] \subseteq Nested[n + 1]}
<1>1. 0 \in S
  <2>1. ASSUME NEW v \in Nested[0] PROVE v \in Nested[0 + 1]
    <3>1. v \in Values /\ Parts(v) = {}
      BY NestedUnfold DEF Parts
    <3>. QED
      BY <3>1, NestedUnfold
  <2>. QED
    BY <2>1
<1>2. ASSUME NEW n \in Nat, n \in S PROVE n + 1 \in S
  BY <1>2, NestedUnfold
<1>3. \A n \in Nat : n \in S
  <2>. HIDE DEF S
  <2>. QED
    BY <1>1, <1>2, Induction
<1>. QED
  BY <1>3

(* What is valid with any number of schemas around each other is valid with *)
(* no more of them than the value is deep: validateSchema, which counts     *)
(* nothing, refuses no schema for its depth that the decoder let pass.      *)
THEOREM DepthSuffices ==
  \A n \in Nat : \A m \in Nat : Nested[n] \cap ValidSchemas[m] \subseteq ValidSchemas[n]
<1>. DEFINE S == {n \in Nat : \A m \in Nat : Nested[n] \cap ValidSchemas[m] \subseteq ValidSchemas[n]}
<1>1. 0 \in S
  <2>1. ASSUME NEW m \in Nat, NEW s \in Nested[0] \cap ValidSchemas[m] PROVE FALSE
    BY NestedUnfold, ValidSchemasAreObjects
  <2>. QED
    BY <2>1
<1>2. ASSUME NEW n \in Nat, n \in S PROVE n + 1 \in S
  <2>1. ASSUME NEW m \in Nat, NEW s \in Nested[n + 1] \cap ValidSchemas[m]
        PROVE  s \in ValidSchemas[n + 1]
    <3>1. PICK k \in Nat : m = k + 1
      BY ZeroOrNext, ValidSchemasUnfold
    <3>2. s \in Values /\ s.kind = "object" /\ ValidateSchema(s, ValidSchemas[k])
      BY <3>1, ValidSchemasUnfold
    <3>3. Parts(s) \subseteq Nested[n]
      BY NestedUnfold
    <3>4. ASSUME NEW t \in Nested[n] \cap ValidSchemas[k] PROVE t \in ValidSchemas[n]
      BY <1>2
    <3>5. ValidProperties(s, ValidSchemas[k]) => ValidProperties(s, ValidSchemas[n])
      <4>. SUFFICES ASSUME Has(s, "properties"), ValidProperties(s, ValidSchemas[k]),
                           NEW name \in DOMAIN Properties(s)
                    PROVE  Properties(s)[name] \in ValidSchemas[n]
        BY DEF ValidProperties
      <4>1. /\ Says(s, "properties", "object")
            /\ Properties(s)[name] \in ValidSchemas[k]
            /\ Properties(s) = s.members["properties"].members
        BY DEF ValidProperties, Properties
      <4>2. s.members["properties"] \in Nested[n] /\ s.members["properties"].kind = "object"
        BY <3>2, <3>3, <4>1 DEF Parts, Says, Has
      <4>3. PICK i \in Nat : n = i + 1
        BY <4>2, ZeroOrNext, NestedUnfold
      <4>4. Parts(s.members["properties"]) \subseteq Nested[i]
        BY <4>2, <4>3, NestedUnfold
      <4>5. Properties(s)[name] \in Nested[i]
        BY <4>1, <4>2, <4>4 DEF Parts
      <4>6. Properties(s)[name] \in Nested[n]
        BY <4>3, <4>5, NestedGrows
      <4>. QED
        BY <3>4, <4>1, <4>6
    <3>6. Says(s, "items", "object") /\ s.members.items \in ValidSchemas[k]
            => s.members.items \in ValidSchemas[n]
      <4>. SUFFICES ASSUME Says(s, "items", "object"), s.members["items"] \in ValidSchemas[k]
                    PROVE  s.members["items"] \in ValidSchemas[n]
        OBVIOUS
      <4>1. s.members["items"] \in Nested[n]
        BY <3>2, <3>3 DEF Parts, Says, Has
      <4>. QED
        BY <3>4, <4>1
    <3>7. ValidateSchema(s, ValidSchemas[n])
      BY <3>2, <3>5, <3>6 DEF ValidateSchema
    <3>. QED
      BY <3>2, <3>7, ValidSchemasUnfold
  <2>. QED
    BY <2>1
<1>3. \A n \in Nat : n \in S
  <2>. HIDE DEF S
  <2>. QED
    BY <1>1, <1>2, Induction
<1>. QED
  BY <1>3

(* The walk through a valid schema says the same with one more step to go:  *)
(* validateValue, which counts nothing either, ends and says so.            *)
THEOREM WalkSettles ==
  \A n \in Nat : \A s \in ValidSchemas[n], v \in Values :
    Verdicts[n + 1][<<s, v>>] = Verdicts[n][<<s, v>>]
<1>. DEFINE S == {n \in Nat : \A s \in ValidSchemas[n], v \in Values :
                    Verdicts[n + 1][<<s, v>>] = Verdicts[n][<<s, v>>]}
<1>1. 0 \in S
  BY ValidSchemasUnfold
<1>2. ASSUME NEW n \in Nat, n \in S PROVE n + 1 \in S
  <2>1. ASSUME NEW s \in ValidSchemas[n + 1], NEW v \in Values
        PROVE  Verdicts[(n + 1) + 1][<<s, v>>] = Verdicts[n + 1][<<s, v>>]
    <3>1. Judged(s, ValidSchemas[n]) /\ s \in Values
      BY ValidIsJudged DEF Judged
    <3>2. \A t \in ValidSchemas[n], w \in Values : Verdicts[n + 1][<<t, w>>] = Verdicts[n][<<t, w>>]
      BY <1>2
    <3>3. TypeIs(s, "object") /\ v.kind = "object"
            => ValidateMembers(s, v, Verdicts[n + 1]) = ValidateMembers(s, v, Verdicts[n])
      <4>. SUFFICES ASSUME TypeIs(s, "object"), v.kind = "object"
                    PROVE  ValidateMembers(s, v, Verdicts[n + 1]) = ValidateMembers(s, v, Verdicts[n])
        OBVIOUS
      <4>1. \A name \in DOMAIN Properties(s) \cap DOMAIN v.members :
              Verdicts[n + 1][<<Properties(s)[name], v.members[name]>>]
                = Verdicts[n][<<Properties(s)[name], v.members[name]>>]
        BY <3>1, <3>2, PropertyIs, PartTypes
      <4>. QED
        BY <4>1 DEF ValidateMembers
    <3>4. TypeIs(s, "array")
            => ValidateArray(s, v, Verdicts[n + 1]) = ValidateArray(s, v, Verdicts[n])
      <4>. SUFFICES ASSUME TypeIs(s, "array"), v.kind = "array"
                    PROVE  ValidateArray(s, v, Verdicts[n + 1]) = ValidateArray(s, v, Verdicts[n])
        BY DEF ValidateArray
      <4>1. s.members.items \in ValidSchemas[n]
        BY <3>1 DEF Judged, ValidateSchema
      <4>2. \A i \in DOMAIN v.elements :
              Verdicts[n + 1][<<s.members.items, v.elements[i]>>]
                = Verdicts[n][<<s.members.items, v.elements[i]>>]
        BY <3>2, <4>1, PartTypes
      <4>. QED
        BY <4>2 DEF ValidateArray
    <3>5. ValidateValue(s, v, Verdicts[n + 1]) = ValidateValue(s, v, Verdicts[n])
      BY <3>3, <3>4 DEF ValidateValue, ValidateObject
    <3>. QED
      BY <3>1, <3>5, VerdictIs
  <2>. QED
    BY <2>1
<1>3. \A n \in Nat : n \in S
  <2>. HIDE DEF S
  <2>. QED
    BY <1>1, <1>2, Induction
<1>. QED
  BY <1>3
=============================================================================
