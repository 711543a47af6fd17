---------------------------- MODULE DocumentsProofs ----------------------------
(***************************************************************************)
(* One document, one hash: for texts of any size and depth, any keys and   *)
(* any schema limits, not only those TLC has room for.                     *)
(***************************************************************************)
EXTENDS Documents, SequenceTheorems, WellFoundedInduction, TLAPS

-----------------------------------------------------------------------------
(* Induction over the numbers, which asks for a set and not for an operator *)

\* A set of natural numbers that holds zero and every successor holds them all.
LEMMA EveryNatural ==
    ASSUME NEW Good, 0 \in Good, \A n \in Nat : n \in Good => n + 1 \in Good
    PROVE  Nat \subseteq Good
<1> DEFINE Less == {pair \in Nat \X Nat : pair[1] < pair[2]}
           Bad == Nat \ Good
<1>1. IsWellFoundedOn(Less, Nat)
  BY NatLessThanWellFounded DEF OpToRel
<1> SUFFICES ASSUME Bad # {} PROVE FALSE
  OBVIOUS
<1>2. PICK n \in Bad : \A m \in Bad : <<m, n>> \notin Less
  <2> HIDE DEF Less
  <2>1. Bad \subseteq Nat
    OBVIOUS
  <2> HIDE DEF Bad
  <2> QED
    BY <1>1, <2>1, WFMin
<1>3. n \in Nat \ {0} /\ n - 1 \in Nat /\ n - 1 < n
  BY <1>2
<1>4. n - 1 \in Good
  BY <1>2, <1>3
<1>5. n - 1 + 1 \in Good /\ n - 1 + 1 = n
  BY <1>3, <1>4
<1> QED
  BY <1>2, <1>5

\* The same up to a bound.
LEMMA EveryDepth ==
    ASSUME NEW top \in Nat, NEW Good, 0 \in Good,
           \A n \in 1 .. top : n - 1 \in Good => n \in Good
    PROVE  0 .. top \subseteq Good
<1> DEFINE Fine == {n \in Nat : n <= top => n \in Good}
<1>1. 0 \in Fine
  OBVIOUS
<1>2. ASSUME NEW n \in Nat, n \in Fine
      PROVE  n + 1 \in Fine
  <2>1. n + 1 <= top => n + 1 \in 1 .. top /\ n + 1 - 1 = n /\ n \in Good
    BY <1>2
  <2> QED
    BY <2>1
<1>3. Nat \subseteq Fine
  <2> HIDE DEF Fine
  <2> QED
    BY <1>1, <1>2, EveryNatural
<1> QED
  BY <1>3

-----------------------------------------------------------------------------
(* The functions by depth are what their definitions say: each is built up to *)
(* one depth after the other.                                                 *)

\* Texts.
LEMMA TextTable ==
    \A d \in 0 .. MaxDepth : Text[d] = IF d = 0 THEN {} ELSE Level(Text[d - 1])
<1> DEFINE Made(f, d) == IF d = 0 THEN {} ELSE Level(f[d - 1])
           Good == {n \in Nat : \E f : f = [d \in 0 .. n - 1 |-> Made(f, d)]}
<1>1. 0 \in Good
  <2> DEFINE f == [d \in 0 .. 0 - 1 |-> {}]
  <2>1. f = [d \in 0 .. 0 - 1 |-> Made(f, d)]
    OBVIOUS
  <2> QED
    BY <2>1
<1>2. ASSUME NEW n \in Nat, n \in Good
      PROVE  n + 1 \in Good
  <2>1. PICK f : f = [d \in 0 .. n - 1 |-> Made(f, d)]
    BY <1>2
  <2> DEFINE g == [d \in 0 .. n + 1 - 1 |-> Made(f, d)]
  <2>2. \A d \in 0 .. n - 1 : g[d] = f[d]
    <3> HIDE DEF Made
    <3> QED
      BY <2>1
  <2>3. ASSUME NEW d \in 0 .. n + 1 - 1
        PROVE  Made(f, d) = Made(g, d)
    <3>1. d = 0 \/ g[d - 1] = f[d - 1]
      <4> HIDE DEF g
      <4> QED
        BY <2>2
    <3> HIDE DEF g
    <3> QED
      BY <3>1
  <2>4. g = [d \in 0 .. n + 1 - 1 |-> Made(g, d)]
    <3> HIDE DEF Made
    <3> QED
      BY <2>3
  <2> HIDE DEF g, Made
  <2> QED
    BY <2>4
<1>3. MaxDepth + 1 \in Good
  <2> HIDE DEF Good
  <2> QED
    BY <1>1, <1>2, EveryNatural, SizesAssumption
<1>4. \E f : f = [d \in 0 .. MaxDepth |-> Made(f, d)]
  <2>1. PICK n \in Good : n - 1 = MaxDepth
    <3> HIDE DEF Good
    <3> QED
      BY <1>3, SizesAssumption
  <2> HIDE DEF Made
  <2>2. PICK f : f = [d \in 0 .. n - 1 |-> Made(f, d)]
    OBVIOUS
  <2> QED
    BY <2>1, <2>2
<1>5. Text = [d \in 0 .. MaxDepth |-> Made(Text, d)]
  BY <1>4, Zenon DEF Text
<1>6. \A d \in 0 .. MaxDepth : Text[d] = Made(Text, d)
  <2> HIDE DEF Made
  <2> QED
    BY <1>5
<1> QED
  BY <1>6

\* There is no text of no level.
LEMMA NoTextBelow == Text[0] = {}
  BY TextTable, SizesAssumption

\* The numbers written as floats that count in a text.
FloatsLevel(v, inner) ==
    IF v.t = "object" THEN UNION {inner[LastOf(v, k)] : k \in Keys(v)}
    ELSE IF v.t = "array" THEN UNION {inner[v.items[i]] : i \in DOMAIN v.items}
    ELSE IF v.t = "number" /\ v.form = "float" THEN {v}
    ELSE {}

FloatsTo[d \in 0 .. MaxDepth] == [v \in Text[d] |-> FloatsLevel(v, FloatsTo[d - 1])]

\* The functions on texts, one level of each.
LevelOf(name, v, inner) ==
    IF name = "Parse" THEN ParseLevel(v, inner)
    ELSE IF name = "Sort" THEN SortLevel(v, inner)
    ELSE IF name = "Vec" THEN VecLevel(v, inner)
    ELSE IF name = "Edits" THEN EditsLevel(v, inner)
    ELSE IF name = "Floats" THEN FloatsLevel(v, inner)
    ELSE ContentLevel(v, inner)

\* Each of them exists at every depth.
LEMMA FunctionsExist ==
    ASSUME NEW name
    PROVE  \E f : f = [d \in 0 .. MaxDepth |-> [v \in Text[d] |-> LevelOf(name, v, f[d - 1])]]
<1> DEFINE Made(f, d) == [v \in Text[d] |-> LevelOf(name, v, f[d - 1])]
           Good == {n \in Nat : \E f : f = [d \in 0 .. n - 1 |-> Made(f, d)]}
<1>1. 0 \in Good
  <2> DEFINE f == [d \in 0 .. 0 - 1 |-> {}]
  <2>1. f = [d \in 0 .. 0 - 1 |-> Made(f, d)]
    OBVIOUS
  <2> QED
    BY <2>1
<1>2. ASSUME NEW n \in Nat, n \in Good
      PROVE  n + 1 \in Good
  <2>1. PICK f : f = [d \in 0 .. n - 1 |-> Made(f, d)]
    BY <1>2
  <2> DEFINE g == [d \in 0 .. n + 1 - 1 |-> Made(f, d)]
  <2>2. \A d \in 0 .. n - 1 : g[d] = f[d]
    <3> HIDE DEF Made
    <3> QED
      BY <2>1
  <2>3. ASSUME NEW d \in 0 .. n + 1 - 1
        PROVE  Made(f, d) = Made(g, d)
    <3>1. d = 0 \/ g[d - 1] = f[d - 1]
      <4> HIDE DEF g
      <4> QED
        BY <2>2
    <3> HIDE DEF g
    <3> QED
      BY <3>1, NoTextBelow
  <2>4. g = [d \in 0 .. n + 1 - 1 |-> Made(g, d)]
    <3> HIDE DEF Made
    <3> QED
      BY <2>3
  <2> HIDE DEF g, Made
  <2> QED
    BY <2>4
<1>3. MaxDepth + 1 \in Good
  <2> HIDE DEF Good
  <2> QED
    BY <1>1, <1>2, EveryNatural, SizesAssumption
<1>4. \E f : f = [d \in 0 .. MaxDepth |-> Made(f, d)]
  <2>1. PICK n \in Good : n - 1 = MaxDepth
    <3> HIDE DEF Good
    <3> QED
      BY <1>3, SizesAssumption
  <2> HIDE DEF Made
  <2>2. PICK f : f = [d \in 0 .. n - 1 |-> Made(f, d)]
    OBVIOUS
  <2> QED
    BY <2>1, <2>2
<1> QED
  BY <1>4

\* What serde_json makes of a text.
LEMMA ParseTable ==
    \A d \in 0 .. MaxDepth : ParseTo[d] = [v \in Text[d] |-> ParseLevel(v, ParseTo[d - 1])]
<1>1. \A v, inner : LevelOf("Parse", v, inner) = ParseLevel(v, inner)
  BY DEF LevelOf
<1>2. PICK f : f = [d \in 0 .. MaxDepth |-> [v \in Text[d] |-> LevelOf("Parse", v, f[d - 1])]]
  BY FunctionsExist
<1>3. f = [d \in 0 .. MaxDepth |-> [v \in Text[d] |-> ParseLevel(v, f[d - 1])]]
  <2>1. \A d : [v \in Text[d] |-> LevelOf("Parse", v, f[d - 1])]
               = [v \in Text[d] |-> ParseLevel(v, f[d - 1])]
    BY <1>1
  <2> QED
    BY <1>2, <2>1
<1>4. ParseTo = [d \in 0 .. MaxDepth |-> [v \in Text[d] |-> ParseLevel(v, ParseTo[d - 1])]]
  BY <1>3, Zenon DEF ParseTo
<1> QED
  BY <1>4

\* The sorted value.
LEMMA SortTable ==
    \A d \in 0 .. MaxDepth : SortTo[d] = [v \in Text[d] |-> SortLevel(v, SortTo[d - 1])]
<1>1. \A v, inner : LevelOf("Sort", v, inner) = SortLevel(v, inner)
  BY DEF LevelOf
<1>2. PICK f : f = [d \in 0 .. MaxDepth |-> [v \in Text[d] |-> LevelOf("Sort", v, f[d - 1])]]
  BY FunctionsExist
<1>3. f = [d \in 0 .. MaxDepth |-> [v \in Text[d] |-> SortLevel(v, f[d - 1])]]
  <2>1. \A d : [v \in Text[d] |-> LevelOf("Sort", v, f[d - 1])]
               = [v \in Text[d] |-> SortLevel(v, f[d - 1])]
    BY <1>1
  <2> QED
    BY <1>2, <2>1
<1>4. SortTo = [d \in 0 .. MaxDepth |-> [v \in Text[d] |-> SortLevel(v, SortTo[d - 1])]]
  BY <1>3, Zenon DEF SortTo
<1> QED
  BY <1>4

\* The tokens of a value.
LEMMA VecTable ==
    \A d \in 0 .. MaxDepth : VecTo[d] = [v \in Text[d] |-> VecLevel(v, VecTo[d - 1])]
<1>1. \A v, inner : LevelOf("Vec", v, inner) = VecLevel(v, inner)
  BY DEF LevelOf
<1>2. PICK f : f = [d \in 0 .. MaxDepth |-> [v \in Text[d] |-> LevelOf("Vec", v, f[d - 1])]]
  BY FunctionsExist
<1>3. f = [d \in 0 .. MaxDepth |-> [v \in Text[d] |-> VecLevel(v, f[d - 1])]]
  <2>1. \A d : [v \in Text[d] |-> LevelOf("Vec", v, f[d - 1])]
               = [v \in Text[d] |-> VecLevel(v, f[d - 1])]
    BY <1>1
  <2> QED
    BY <1>2, <2>1
<1>4. VecTo = [d \in 0 .. MaxDepth |-> [v \in Text[d] |-> VecLevel(v, VecTo[d - 1])]]
  BY <1>3, Zenon DEF VecTo
<1> QED
  BY <1>4

\* The texts one edit away.
LEMMA EditsTable ==
    \A d \in 0 .. MaxDepth : EditsTo[d] = [v \in Text[d] |-> EditsLevel(v, EditsTo[d - 1])]
<1>1. \A v, inner : LevelOf("Edits", v, inner) = EditsLevel(v, inner)
  BY DEF LevelOf
<1>2. PICK f : f = [d \in 0 .. MaxDepth |-> [v \in Text[d] |-> LevelOf("Edits", v, f[d - 1])]]
  BY FunctionsExist
<1>3. f = [d \in 0 .. MaxDepth |-> [v \in Text[d] |-> EditsLevel(v, f[d - 1])]]
  <2>1. \A d : [v \in Text[d] |-> LevelOf("Edits", v, f[d - 1])]
               = [v \in Text[d] |-> EditsLevel(v, f[d - 1])]
    BY <1>1
  <2> QED
    BY <1>2, <2>1
<1>4. EditsTo = [d \in 0 .. MaxDepth |-> [v \in Text[d] |-> EditsLevel(v, EditsTo[d - 1])]]
  BY <1>3, Zenon DEF EditsTo
<1> QED
  BY <1>4

\* What a text says.
LEMMA ContentTable ==
    \A d \in 0 .. MaxDepth : ContentTo[d] = [v \in Text[d] |-> ContentLevel(v, ContentTo[d - 1])]
<1>1. \A v, inner : LevelOf("Content", v, inner) = ContentLevel(v, inner)
  BY DEF LevelOf
<1>2. PICK f : f = [d \in 0 .. MaxDepth |-> [v \in Text[d] |-> LevelOf("Content", v, f[d - 1])]]
  BY FunctionsExist
<1>3. f = [d \in 0 .. MaxDepth |-> [v \in Text[d] |-> ContentLevel(v, f[d - 1])]]
  <2>1. \A d : [v \in Text[d] |-> LevelOf("Content", v, f[d - 1])]
               = [v \in Text[d] |-> ContentLevel(v, f[d - 1])]
    BY <1>1
  <2> QED
    BY <1>2, <2>1
<1>4. ContentTo = [d \in 0 .. MaxDepth |-> [v \in Text[d] |-> ContentLevel(v, ContentTo[d - 1])]]
  BY <1>3, Zenon DEF ContentTo
<1> QED
  BY <1>4


\* What is written as a float.
LEMMA FloatsTable ==
    \A d \in 0 .. MaxDepth : FloatsTo[d] = [v \in Text[d] |-> FloatsLevel(v, FloatsTo[d - 1])]
<1>1. \A v, inner : LevelOf("Floats", v, inner) = FloatsLevel(v, inner)
  BY DEF LevelOf
<1>2. PICK f : f = [d \in 0 .. MaxDepth |-> [v \in Text[d] |-> LevelOf("Floats", v, f[d - 1])]]
  BY FunctionsExist
<1>3. f = [d \in 0 .. MaxDepth |-> [v \in Text[d] |-> FloatsLevel(v, f[d - 1])]]
  <2>1. \A d : [v \in Text[d] |-> LevelOf("Floats", v, f[d - 1])]
               = [v \in Text[d] |-> FloatsLevel(v, f[d - 1])]
    BY <1>1
  <2> QED
    BY <1>2, <2>1
<1>4. FloatsTo = [d \in 0 .. MaxDepth |-> [v \in Text[d] |-> FloatsLevel(v, FloatsTo[d - 1])]]
  BY <1>3, Zenon DEF FloatsTo
<1> QED
  BY <1>4

-----------------------------------------------------------------------------
(* Texts, their keys and what stands behind them *)

\* What a member of a level is, by its tag.
LEMMA LevelShape ==
    ASSUME NEW S, NEW v \in Level(S)
    PROVE  /\ v.t \in {"object", "array", "number", "string"}
           /\ v.t = "object" => v = Obj(v.fields) /\ v.fields \in Seq([key : KeySet, value : S])
           /\ v.t = "array" => v = Arr(v.items) /\ v.items \in Seq(S)
           /\ v.t = "number" => v = Num(v.n, v.form) /\ v.n \in Int /\ v.form \in {"integer", "float"}
           /\ v.t = "string" => v = Str(v.s) /\ v.s \in STRING
<1>1. CASE v \in [t : {"object"}, fields : Seq([key : KeySet, value : S])]
  BY <1>1 DEF Obj
<1>2. CASE v \in [t : {"array"}, items : Seq(S)]
  BY <1>2 DEF Arr
<1>3. CASE v \in [t : {"number"}, n : Int, form : {"integer", "float"}]
  BY <1>3 DEF Num
<1>4. CASE v \in [t : {"string"}, s : STRING]
  BY <1>4 DEF Str
<1> QED
  BY <1>1, <1>2, <1>3, <1>4 DEF Level, Leaf

\* And what is put together of the right parts is a member.
LEMMA LevelMembers ==
    ASSUME NEW S
    PROVE  /\ \A f \in Seq([key : KeySet, value : S]) : Obj(f) \in Level(S)
           /\ \A s \in Seq(S) : Arr(s) \in Level(S)
           /\ \A n \in Int, form \in {"integer", "float"} : Num(n, form) \in Level(S)
           /\ \A s \in STRING : Str(s) \in Level(S)
  BY DEF Level, Leaf, Obj, Arr, Num, Str

\* A text has a level, and is one level over the texts of one level less.
LEMMA TextLevels ==
    ASSUME NEW d \in 0 .. MaxDepth
    PROVE  /\ \A v \in Text[d] : d - 1 \in 0 .. MaxDepth /\ v \in Level(Text[d - 1])
           /\ d # 0 => Level(Text[d - 1]) \subseteq Text[d]
<1>1. CASE d = 0
  BY <1>1, NoTextBelow
<1>2. CASE d # 0
  BY <1>2, TextTable, SizesAssumption
<1> QED
  BY <1>1, <1>2

\* A set of numbers that is bounded and not empty has a least and a greatest.
LEMMA LeastAndGreatest ==
    ASSUME NEW n \in Nat, NEW S \in SUBSET (1 .. n), S # {}
    PROVE  /\ \E m \in S : \A j \in S : m <= j
           /\ \E m \in S : \A j \in S : j <= m
<1> DEFINE Ends(T) == /\ \E m \in T : \A j \in T : m <= j
                      /\ \E m \in T : \A j \in T : j <= m
           Good == {i \in Nat : \A T \in SUBSET (1 .. i) : T # {} => Ends(T)}
<1>1. 0 \in Good
  <2>1. \A T \in SUBSET (1 .. 0) : T = {}
    OBVIOUS
  <2> HIDE DEF Ends
  <2> QED
    BY <2>1
<1>2. ASSUME NEW i \in Nat, i \in Good
      PROVE  i + 1 \in Good
  <2> SUFFICES ASSUME NEW T \in SUBSET (1 .. i + 1), T # {}
               PROVE  Ends(T)
    OBVIOUS
  <2> DEFINE Rest == T \ {i + 1}
  <2>1. Rest \in SUBSET (1 .. i)
    OBVIOUS
  <2>2. Rest = {} \/ Ends(Rest)
    BY <1>2, <2>1
  <2>3. CASE Rest = {}
    <3>1. T = {i + 1}
      BY <2>3
    <3> QED
      BY <3>1
  <2>4. CASE Ends(Rest)
    <3>1. PICK low \in Rest : \A j \in Rest : low <= j
      BY <2>4
    <3>2. PICK high \in Rest : \A j \in Rest : j <= high
      BY <2>4
    <3>3. low \in T /\ \A j \in T : low <= j
      BY <2>1, <3>1
    <3>4. \E m \in T : \A j \in T : j <= m
      <4>1. CASE i + 1 \in T
        BY <4>1
      <4>2. CASE i + 1 \notin T
        BY <4>2, <3>2
      <4> QED
        BY <4>1, <4>2
    <3> QED
      BY <3>3, <3>4
  <2> QED
    BY <2>2, <2>3, <2>4
<1>3. n \in Good
  <2> HIDE DEF Good
  <2> QED
    BY <1>1, <1>2, EveryNatural
<1> QED
  BY <1>3

\* The last value of a key stands behind one of its occurrences.
LEMMA LastOfIsThere ==
    ASSUME NEW S, NEW v \in Level(S), v.t = "object", NEW k \in Keys(v)
    PROVE  /\ \E i \in DOMAIN v.fields : v.fields[i].key = k /\ LastOf(v, k) = v.fields[i].value
           /\ LastOf(v, k) \in S
           /\ k \in KeySet
<1>1. v.fields \in Seq([key : KeySet, value : S])
  BY LevelShape
<1> DEFINE Here == {i \in DOMAIN v.fields : v.fields[i].key = k}
<1>2. Here \in SUBSET (1 .. Len(v.fields)) /\ Here # {} /\ Len(v.fields) \in Nat
  BY <1>1 DEF Keys
<1>3. \E m \in Here : \A j \in Here : j <= m
  <2> HIDE DEF Here
  <2> QED
    BY <1>2, LeastAndGreatest
<1>4. \E i \in DOMAIN v.fields : /\ v.fields[i].key = k
                                 /\ \A j \in DOMAIN v.fields : v.fields[j].key = k => j <= i
  BY <1>3
<1>5. PICK i \in DOMAIN v.fields : v.fields[i].key = k /\ LastOf(v, k) = v.fields[i].value
  BY <1>4 DEF LastOf
<1>6. v.fields[i] \in [key : KeySet, value : S]
  BY <1>1, ElementOfSeq, LenProperties
<1> QED
  BY <1>5, <1>6

-----------------------------------------------------------------------------
(* Sequences that are put together item by item *)

\* A function on 1 .. n is a sequence.
LEMMA FunctionIsSeq ==
    ASSUME NEW n \in Nat, NEW R, NEW f \in [1 .. n -> R]
    PROVE  f \in Seq(R) /\ Len(f) = n
  OBVIOUS

\* Steps within a set, from one of its members.
AreSteps(last, U, base, step) ==
    last \in Nat /\ base \in U /\ step \in [1 .. last -> [U -> U]]

\* What they make, written down one after the other.
IsTrace(f, last, U, base, step) ==
    /\ f \in [0 .. last -> U]
    /\ f[0] = base
    /\ \A n \in 1 .. last : f[n] = step[n][f[n - 1]]

\* Steps leave a trace.
LEMMA StepsExist ==
    ASSUME NEW last, NEW U, NEW base, NEW step, AreSteps(last, U, base, step)
    PROVE  \E f : IsTrace(f, last, U, base, step)
<1> USE DEF AreSteps
<1> DEFINE Made(f, n) == IF n = 0 THEN base ELSE step[n][f[n - 1]]
           Good == {i \in 0 .. last : \E f \in [0 .. i -> U] : \A n \in 0 .. i : f[n] = Made(f, n)}
<1>1. 0 \in Good
  <2> DEFINE f == [n \in 0 .. 0 |-> base]
  <2>1. f \in [0 .. 0 -> U] /\ \A n \in 0 .. 0 : f[n] = Made(f, n)
    OBVIOUS
  <2> HIDE DEF f
  <2> QED
    BY <2>1
<1>2. ASSUME NEW i \in 1 .. last, i - 1 \in Good
      PROVE  i \in Good
  <2>1. PICK f \in [0 .. i - 1 -> U] : \A n \in 0 .. i - 1 : f[n] = Made(f, n)
    BY <1>2
  <2> DEFINE g == [n \in 0 .. i |-> IF n = i THEN step[i][f[i - 1]] ELSE f[n]]
  <2>2. step[i][f[i - 1]] \in U
    BY <2>1
  <2>3. g \in [0 .. i -> U]
    BY <2>1, <2>2
  <2>4. ASSUME NEW n \in 0 .. i
        PROVE  g[n] = Made(g, n)
    <3>1. CASE n = 0
      BY <2>1, <3>1
    <3>2. CASE n \in 1 .. i - 1
      <4>1. g[n] = f[n] /\ g[n - 1] = f[n - 1] /\ f[n] = Made(f, n)
        BY <2>1, <3>2
      <4> QED
        BY <3>2, <4>1
    <3>3. CASE n = i
      <4>1. g[i - 1] = f[i - 1] /\ g[i] = step[i][f[i - 1]]
        OBVIOUS
      <4> QED
        BY <3>3, <4>1
    <3> QED
      BY <3>1, <3>2, <3>3
  <2> HIDE DEF g, Made
  <2> QED
    BY <2>3, <2>4
<1>3. last \in Good
  <2> HIDE DEF Good
  <2>1. 0 .. last \subseteq Good
    BY <1>1, <1>2, EveryDepth
  <2> QED
    BY <2>1
<1> QED
  BY <1>3 DEF IsTrace

\* Only takes the items that are in the set, each of them, and no other.
LEMMA OnlyItems ==
    ASSUME NEW T, NEW s \in Seq(T), NEW S
    PROVE  /\ Only(s, S) \in Seq(T)
           /\ ToSet(Only(s, S)) = ToSet(s) \cap S
<1> DEFINE Made(f, n) == IF n = 0 THEN <<>>
                         ELSE IF s[n] \in S THEN Append(f[n - 1], s[n]) ELSE f[n - 1]
           only == CHOOSE f : f = [n \in 0 .. Len(s) |-> Made(f, n)]
           step == [n \in 1 .. Len(s) |-> [r \in Seq(T) |-> IF s[n] \in S THEN Append(r, s[n]) ELSE r]]
<1>1. Len(s) \in Nat /\ DOMAIN s = 1 .. Len(s) /\ \A n \in 1 .. Len(s) : s[n] \in T
  BY LenProperties, ElementOfSeq
<1>2. step \in [1 .. Len(s) -> [Seq(T) -> Seq(T)]]
  BY <1>1, AppendProperties
<1>3. PICK f : IsTrace(f, Len(s), Seq(T), <<>>, step)
  <2>1. AreSteps(Len(s), Seq(T), <<>>, step)
    BY <1>1, <1>2 DEF AreSteps
  <2> QED
    BY <2>1, StepsExist
<1>4. ASSUME NEW n \in 0 .. Len(s)
      PROVE  f[n] = Made(f, n)
  <2>1. CASE n = 0
    BY <1>3, <2>1 DEF IsTrace
  <2>2. CASE n # 0
    <3>1. n \in 1 .. Len(s) /\ f[n - 1] \in Seq(T)
      BY <1>1, <1>3, <2>2 DEF IsTrace
    <3>2. f[n] = step[n][f[n - 1]]
      <4> HIDE DEF step
      <4> QED
        BY <1>3, <3>1 DEF IsTrace
    <3> QED
      BY <2>2, <3>1, <3>2
  <2> QED
    BY <2>1, <2>2
<1>5. f = [n \in 0 .. Len(s) |-> Made(f, n)]
  <2>1. f \in [0 .. Len(s) -> Seq(T)]
    BY <1>3 DEF IsTrace
  <2> HIDE DEF Made
  <2> QED
    BY <1>4, <2>1
<1>6. only = [n \in 0 .. Len(s) |-> Made(only, n)]
  BY <1>5, Zenon
<1>7. Only(s, S) = only[Len(s)]
  BY DEF Only
<1>8. \A n \in 0 .. Len(s) : only[n] = Made(only, n)
  <2> HIDE DEF Made, only
  <2> QED
    BY <1>6
<1> HIDE DEF only
<1> DEFINE Good == {n \in 0 .. Len(s) : /\ only[n] \in Seq(T)
                                        /\ ToSet(only[n]) = {s[j] : j \in 1 .. n} \cap S}
<1>9. 0 \in Good
  <2>1. only[0] = <<>>
    BY <1>1, <1>8
  <2>2. ToSet(<<>>) = {} /\ {s[j] : j \in 1 .. 0} = {}
    BY DEF ToSet
  <2>3. only[0] \in Seq(T) /\ ToSet(only[0]) = {s[j] : j \in 1 .. 0} \cap S
    BY <2>1, <2>2
  <2> QED
    BY <1>1, <2>3
<1>10. ASSUME NEW n \in 1 .. Len(s), n - 1 \in Good
       PROVE  n \in Good
  <2>1. {s[j] : j \in 1 .. n} = {s[j] : j \in 1 .. n - 1} \cup {s[n]}
    OBVIOUS
  <2>2. only[n - 1] \in Seq(T) /\ s[n] \in T
    BY <1>1, <1>10
  <2>3. ToSet(Append(only[n - 1], s[n])) = ToSet(only[n - 1]) \cup {s[n]}
    <3> DEFINE r == only[n - 1]
    <3>1. /\ Len(Append(r, s[n])) = Len(r) + 1
          /\ DOMAIN Append(r, s[n]) = 1 .. Len(r) + 1
          /\ DOMAIN r = 1 .. Len(r)
          /\ Len(r) \in Nat
          /\ \A i \in 1 .. Len(r) : Append(r, s[n])[i] = r[i]
          /\ Append(r, s[n])[Len(r) + 1] = s[n]
      BY <2>2, AppendProperties, LenProperties
    <3> HIDE DEF r
    <3>2. ASSUME NEW x \in ToSet(Append(r, s[n]))
          PROVE  x \in ToSet(r) \cup {s[n]}
      <4>1. PICK i \in 1 .. Len(r) + 1 : x = Append(r, s[n])[i]
        BY <3>1, <3>2 DEF ToSet
      <4>2. i \in 1 .. Len(r) \/ i = Len(r) + 1
        BY <3>1
      <4> QED
        BY <3>1, <4>1, <4>2 DEF ToSet
    <3>3. ASSUME NEW x \in ToSet(r) \cup {s[n]}
          PROVE  x \in ToSet(Append(r, s[n]))
      <4>1. PICK i \in 1 .. Len(r) + 1 : x = Append(r, s[n])[i]
        BY <3>1, <3>3 DEF ToSet
      <4> QED
        BY <3>1, <4>1 DEF ToSet
    <3> QED
      BY <3>2, <3>3 DEF r
  <2>4. only[n] = IF s[n] \in S THEN Append(only[n - 1], s[n]) ELSE only[n - 1]
    BY <1>8
  <2>5. only[n] \in Seq(T)
    BY <2>2, <2>4, AppendProperties
  <2>6. ToSet(only[n]) = {s[j] : j \in 1 .. n} \cap S
    BY <1>10, <2>1, <2>3, <2>4
  <2> QED
    BY <2>5, <2>6
<1>11. Len(s) \in Good
  <2> HIDE DEF Good
  <2>1. 0 .. Len(s) \subseteq Good
    BY <1>1, <1>9, <1>10, EveryDepth
  <2> QED
    BY <1>1, <2>1
<1> QED
  BY <1>1, <1>7, <1>11 DEF ToSet

-----------------------------------------------------------------------------
(* Parsing and sorting, one level at a time *)

\* w holds what inner makes of the values in v, wherever they stand.
Mirrors(w, v, inner) ==
    /\ w.t = v.t
    /\ v.t = "object" => /\ Keys(w) = Keys(v)
                         /\ \A k \in Keys(v) : LastOf(w, k) = inner[LastOf(v, k)]
    /\ v.t = "array" => w.items = [i \in DOMAIN v.items |-> inner[v.items[i]]]
    /\ v.t \in {"number", "string"} => w = v

\* An object may be rebuilt with its keys in any order.
LEMMA RebuiltMirrors ==
    ASSUME NEW S, NEW T, NEW v \in Level(S), NEW keys, NEW inner,
           \A x \in S : inner[x] \in T,
           v.t = "object" => keys \in Seq(KeySet) /\ ToSet(keys) = Keys(v)
    PROVE  /\ Rebuilt(v, keys, inner) \in Level(T)
           /\ Mirrors(Rebuilt(v, keys, inner), v, inner)
<1> DEFINE w == Rebuilt(v, keys, inner)
<1>1. CASE v.t = "object"
  <2> DEFINE fields == [n \in DOMAIN keys |-> [key |-> keys[n], value |-> inner[LastOf(v, keys[n])]]]
  <2>1. w = Obj(fields) /\ w.fields = fields /\ w.t = "object"
    BY <1>1 DEF Rebuilt, Obj
  <2>2. Len(keys) \in Nat /\ DOMAIN keys = 1 .. Len(keys)
    BY <1>1, LenProperties
  <2>3. \A n \in DOMAIN keys : keys[n] \in Keys(v)
    BY <1>1 DEF ToSet
  <2>4. \A n \in DOMAIN keys : LastOf(v, keys[n]) \in S /\ keys[n] \in KeySet
    BY <1>1, <2>3, LastOfIsThere
  <2>5. fields \in [1 .. Len(keys) -> [key : KeySet, value : T]]
    BY <2>2, <2>4
  <2>6. fields \in Seq([key : KeySet, value : T])
    <3> HIDE DEF fields
    <3> QED
      BY <2>2, <2>5, FunctionIsSeq, Zenon
  <2>7. w \in Level(T)
    <3> HIDE DEF fields
    <3> QED
      BY <2>1, <2>6, LevelMembers
  <2>8. DOMAIN w.fields = DOMAIN keys
    BY <2>1
  <2>9. \A n \in DOMAIN keys : /\ w.fields[n].key = keys[n]
                               /\ w.fields[n].value = inner[LastOf(v, keys[n])]
    BY <2>1
  <2> HIDE DEF fields, w
  <2>10. Keys(w) = Keys(v)
    <3>1. Keys(w) = {keys[n] : n \in DOMAIN keys}
      BY <2>8, <2>9 DEF Keys
    <3> QED
      BY <1>1, <3>1 DEF ToSet
  <2>11. ASSUME NEW k \in Keys(v)
         PROVE  LastOf(w, k) = inner[LastOf(v, k)]
    <3>1. PICK n \in DOMAIN w.fields : w.fields[n].key = k /\ LastOf(w, k) = w.fields[n].value
      BY <2>1, <2>7, <2>10, LastOfIsThere
    <3> QED
      BY <2>8, <2>9, <3>1
  <2>12. Mirrors(w, v, inner)
    BY <1>1, <2>1, <2>10, <2>11 DEF Mirrors
  <2> QED
    BY <2>7, <2>12 DEF w
<1>2. CASE v.t = "array"
  <2> DEFINE items == [i \in DOMAIN v.items |-> inner[v.items[i]]]
  <2>1. w = Arr(items) /\ w.items = items /\ w.t = "array"
    BY <1>2 DEF Rebuilt, Arr
  <2>2. v.items \in Seq(S)
    BY <1>2, LevelShape
  <2>3. Len(v.items) \in Nat /\ DOMAIN v.items = 1 .. Len(v.items)
    BY <2>2, LenProperties
  <2>4. items \in [1 .. Len(v.items) -> T]
    BY <2>2, <2>3, ElementOfSeq
  <2>5. items \in Seq(T)
    <3> HIDE DEF items
    <3> QED
      BY <2>3, <2>4, SeqDef
  <2>6. w \in Level(T)
    <3> HIDE DEF items
    <3> QED
      BY <2>1, <2>5, LevelMembers
  <2> QED
    BY <1>2, <2>1, <2>6 DEF Mirrors
<1>3. CASE v.t \in {"number", "string"}
  <2>1. w = v
    BY <1>3 DEF Rebuilt
  <2>2. v \in Level(T)
    <3>1. \/ v = Num(v.n, v.form) /\ v.n \in Int /\ v.form \in {"integer", "float"}
          \/ v = Str(v.s) /\ v.s \in STRING
      BY <1>3, LevelShape
    <3> QED
      BY <3>1, LevelMembers
  <2> QED
    BY <1>3, <2>1, <2>2 DEF Mirrors
<1> QED
  BY <1>1, <1>2, <1>3, LevelShape

\* Parsing keeps every key.
LEMMA FirstKeysAreAll ==
    ASSUME NEW S, NEW v \in Level(S), v.t = "object"
    PROVE  FirstKeys(v) \in Seq(KeySet) /\ ToSet(FirstKeys(v)) = Keys(v)
<1> DEFINE fields == v.fields
           places == [i \in DOMAIN fields |-> i]
           first == {i \in DOMAIN fields : \A j \in 1 .. i - 1 : fields[j].key # fields[i].key}
           kept == Only(places, first)
<1>1. fields \in Seq([key : KeySet, value : S])
  BY LevelShape
<1>2. Len(fields) \in Nat /\ DOMAIN fields = 1 .. Len(fields)
  BY <1>1, LenProperties
<1>3. \A i \in DOMAIN fields : fields[i].key \in KeySet /\ i \in Nat
  <2>1. \A i \in DOMAIN fields : fields[i] \in [key : KeySet, value : S]
    BY <1>1, <1>2, ElementOfSeq
  <2> QED
    BY <1>2, <2>1
<1>4. FirstKeys(v) = [n \in DOMAIN kept |-> fields[kept[n]].key]
  BY DEF FirstKeys
<1>5. places \in Seq(DOMAIN fields) /\ ToSet(places) = DOMAIN fields
  <2>1. places \in [1 .. Len(fields) -> DOMAIN fields]
    BY <1>2
  <2>2. ToSet(places) = DOMAIN fields
    BY DEF ToSet
  <2> HIDE DEF places, fields
  <2> QED
    BY <1>2, <2>1, <2>2, SeqDef
<1>6. kept \in Seq(DOMAIN fields) /\ ToSet(kept) = DOMAIN fields \cap first
  <2> HIDE DEF places, first, fields
  <2> QED
    BY <1>5, OnlyItems
<1> HIDE DEF kept, places
<1>7. Len(kept) \in Nat /\ DOMAIN kept = 1 .. Len(kept) /\ \A n \in DOMAIN kept : kept[n] \in DOMAIN fields
  BY <1>6, LenProperties, ElementOfSeq
<1>8. FirstKeys(v) \in Seq(KeySet)
  <2>1. FirstKeys(v) \in [1 .. Len(kept) -> KeySet]
    BY <1>3, <1>4, <1>7
  <2> QED
    BY <1>7, <2>1, SeqDef
<1>9. ASSUME NEW k \in ToSet(FirstKeys(v))
      PROVE  k \in Keys(v)
  <2>1. PICK n \in DOMAIN kept : k = fields[kept[n]].key
    BY <1>4, <1>9 DEF ToSet
  <2> QED
    BY <1>7, <2>1 DEF Keys
<1>10. ASSUME NEW k \in Keys(v)
       PROVE  k \in ToSet(FirstKeys(v))
  <2> DEFINE Here == {i \in DOMAIN fields : fields[i].key = k}
  <2>1. Here \in SUBSET (1 .. Len(fields)) /\ Here # {}
    BY <1>2, <1>10 DEF Keys
  <2>2. PICK i \in Here : \A j \in Here : i <= j
    <3> HIDE DEF Here, fields
    <3> QED
      BY <1>2, <2>1, LeastAndGreatest
  <2>3. i \in DOMAIN fields \cap first
    <3>1. ASSUME NEW j \in 1 .. i - 1, fields[j].key = k
          PROVE  FALSE
      BY <1>2, <2>2, <3>1
    <3> QED
      BY <2>2, <3>1
  <2>4. PICK n \in DOMAIN kept : kept[n] = i
    BY <1>6, <2>3 DEF ToSet
  <2>5. FirstKeys(v)[n] = k
    BY <1>4, <2>2, <2>4
  <2> QED
    BY <1>4, <2>4, <2>5 DEF ToSet
<1> QED
  BY <1>8, <1>9, <1>10

\* So does sorting.
LEMMA SortedKeysAreAll ==
    ASSUME NEW S, NEW v \in Level(S), v.t = "object"
    PROVE  Only(KeyOrder, Keys(v)) \in Seq(KeySet) /\ ToSet(Only(KeyOrder, Keys(v))) = Keys(v)
<1>1. Len(KeyOrder) \in Nat /\ DOMAIN KeyOrder = 1 .. Len(KeyOrder)
  BY KeysAssumption, LenProperties
<1>2. KeyOrder \in [1 .. Len(KeyOrder) -> KeySet]
  <2>1. KeyOrder = [n \in 1 .. Len(KeyOrder) |-> KeyOrder[n]]
    BY KeysAssumption, LenProperties
  <2>2. \A n \in 1 .. Len(KeyOrder) : KeyOrder[n] \in KeySet
    BY <1>1 DEF KeySet, ToSet
  <2> QED
    BY <2>1, <2>2
<1>3. KeyOrder \in Seq(KeySet)
  BY <1>1, <1>2, SeqDef
<1>4. ToSet(KeyOrder) = KeySet
  BY DEF KeySet
<1>5. Keys(v) \subseteq KeySet
  BY LastOfIsThere
<1>6. /\ Only(KeyOrder, Keys(v)) \in Seq(KeySet)
      /\ ToSet(Only(KeyOrder, Keys(v))) = ToSet(KeyOrder) \cap Keys(v)
  BY <1>3, OnlyItems
<1> QED
  BY <1>4, <1>5, <1>6

\* What serde_json makes of a text is one again, with the values of the text.
LEMMA ParseLevels ==
    ASSUME NEW d \in 0 .. MaxDepth, NEW v \in Text[d]
    PROVE  /\ ParseTo[d][v] \in Text[d]
           /\ Mirrors(ParseTo[d][v], v, ParseTo[d - 1])
<1> DEFINE Good == {n \in 0 .. MaxDepth :
                      \A x \in Text[n] : /\ ParseTo[n][x] \in Text[n]
                                         /\ Mirrors(ParseTo[n][x], x, ParseTo[n - 1])}
<1>1. 0 \in Good
  BY NoTextBelow, SizesAssumption
<1>2. ASSUME NEW n \in 1 .. MaxDepth, n - 1 \in Good
      PROVE  n \in Good
  <2> SUFFICES ASSUME NEW x \in Text[n]
               PROVE  ParseTo[n][x] \in Text[n] /\ Mirrors(ParseTo[n][x], x, ParseTo[n - 1])
    BY SizesAssumption
  <2>1. n \in 0 .. MaxDepth /\ n # 0
    BY SizesAssumption
  <2>2. ParseTo[n][x] = Rebuilt(x, FirstKeys(x), ParseTo[n - 1])
    BY <2>1, ParseTable DEF ParseLevel
  <2>3. x \in Level(Text[n - 1]) /\ Level(Text[n - 1]) \subseteq Text[n]
    BY <2>1, TextLevels
  <2>4. \A y \in Text[n - 1] : ParseTo[n - 1][y] \in Text[n - 1]
    BY <1>2
  <2>5. x.t = "object" => FirstKeys(x) \in Seq(KeySet) /\ ToSet(FirstKeys(x)) = Keys(x)
    BY <2>3, FirstKeysAreAll
  <2>6. /\ Rebuilt(x, FirstKeys(x), ParseTo[n - 1]) \in Level(Text[n - 1])
        /\ Mirrors(Rebuilt(x, FirstKeys(x), ParseTo[n - 1]), x, ParseTo[n - 1])
    BY <2>3, <2>4, <2>5, RebuiltMirrors
  <2> QED
    BY <2>2, <2>3, <2>6
<1>3. 0 .. MaxDepth \subseteq Good
  <2> HIDE DEF Good
  <2> QED
    BY <1>1, <1>2, EveryDepth, SizesAssumption
<1> QED
  BY <1>3

\* Sorting, in the same way.
LEMMA SortLevels ==
    ASSUME NEW d \in 0 .. MaxDepth, NEW v \in Text[d]
    PROVE  /\ SortTo[d][v] = Rebuilt(v, Only(KeyOrder, Keys(v)), SortTo[d - 1])
           /\ SortTo[d][v] \in Text[d]
           /\ Mirrors(SortTo[d][v], v, SortTo[d - 1])
<1> DEFINE Good == {n \in 0 .. MaxDepth :
                      \A x \in Text[n] :
                         /\ SortTo[n][x] = Rebuilt(x, Only(KeyOrder, Keys(x)), SortTo[n - 1])
                         /\ SortTo[n][x] \in Text[n]
                         /\ Mirrors(SortTo[n][x], x, SortTo[n - 1])}
<1>1. 0 \in Good
  BY NoTextBelow, SizesAssumption
<1>2. ASSUME NEW n \in 1 .. MaxDepth, n - 1 \in Good
      PROVE  n \in Good
  <2> SUFFICES ASSUME NEW x \in Text[n]
               PROVE  /\ SortTo[n][x] = Rebuilt(x, Only(KeyOrder, Keys(x)), SortTo[n - 1])
                      /\ SortTo[n][x] \in Text[n]
                      /\ Mirrors(SortTo[n][x], x, SortTo[n - 1])
    BY SizesAssumption
  <2>1. n \in 0 .. MaxDepth /\ n # 0
    BY SizesAssumption
  <2>2. SortTo[n][x] = Rebuilt(x, Only(KeyOrder, Keys(x)), SortTo[n - 1])
    BY <2>1, SortTable DEF SortLevel
  <2>3. x \in Level(Text[n - 1]) /\ Level(Text[n - 1]) \subseteq Text[n]
    BY <2>1, TextLevels
  <2>4. \A y \in Text[n - 1] : SortTo[n - 1][y] \in Text[n - 1]
    BY <1>2
  <2>5. x.t = "object" => /\ Only(KeyOrder, Keys(x)) \in Seq(KeySet)
                          /\ ToSet(Only(KeyOrder, Keys(x))) = Keys(x)
    BY <2>3, SortedKeysAreAll
  <2>6. /\ Rebuilt(x, Only(KeyOrder, Keys(x)), SortTo[n - 1]) \in Level(Text[n - 1])
        /\ Mirrors(Rebuilt(x, Only(KeyOrder, Keys(x)), SortTo[n - 1]), x, SortTo[n - 1])
    BY <2>3, <2>4, <2>5, RebuiltMirrors
  <2> QED
    BY <2>2, <2>3, <2>6
<1>3. 0 .. MaxDepth \subseteq Good
  <2> HIDE DEF Good
  <2> QED
    BY <1>1, <1>2, EveryDepth, SizesAssumption
<1> QED
  BY <1>3

-----------------------------------------------------------------------------
(* What a text says, before and after *)

\* What lies in a text has one level less.
LEMMA Inside ==
    ASSUME NEW d \in 0 .. MaxDepth, NEW v \in Text[d]
    PROVE  /\ d - 1 \in 0 .. MaxDepth
           /\ v.t \in {"object", "array", "number", "string"}
           /\ v.t = "object" => \A k \in Keys(v) : LastOf(v, k) \in Text[d - 1]
           /\ v.t = "array" => \A i \in DOMAIN v.items : v.items[i] \in Text[d - 1]
           /\ v.t = "number" => v = Num(v.n, v.form) /\ v.form \in {"integer", "float"}
           /\ v.t = "string" => v = Str(v.s)
<1>1. d - 1 \in 0 .. MaxDepth /\ v \in Level(Text[d - 1])
  BY TextLevels
<1>2. v.t = "object" => \A k \in Keys(v) : LastOf(v, k) \in Text[d - 1]
  BY <1>1, LastOfIsThere
<1>3. v.t = "array" => \A i \in DOMAIN v.items : v.items[i] \in Text[d - 1]
  <2> SUFFICES ASSUME v.t = "array", NEW i \in DOMAIN v.items
               PROVE  v.items[i] \in Text[d - 1]
    OBVIOUS
  <2>1. v.items \in Seq(Text[d - 1])
    BY <1>1, LevelShape
  <2> QED
    BY <2>1, ElementOfSeq, LenProperties
<1> QED
  BY <1>1, <1>2, <1>3, LevelShape

\* Parsing loses nothing of what a text says.
LEMMA ParseKeepsContent ==
    ASSUME NEW d \in 0 .. MaxDepth, NEW v \in Text[d]
    PROVE  ContentTo[d][ParseTo[d][v]] = ContentTo[d][v]
<1> DEFINE Good == {n \in 0 .. MaxDepth :
                      \A x \in Text[n] : ContentTo[n][ParseTo[n][x]] = ContentTo[n][x]}
<1>1. 0 \in Good
  BY NoTextBelow, SizesAssumption
<1>2. ASSUME NEW n \in 1 .. MaxDepth, n - 1 \in Good
      PROVE  n \in Good
  <2> SUFFICES ASSUME NEW x \in Text[n]
               PROVE  ContentTo[n][ParseTo[n][x]] = ContentTo[n][x]
    BY SizesAssumption
  <2> DEFINE w == ParseTo[n][x]
             inner == ContentTo[n - 1]
  <2>1. n \in 0 .. MaxDepth /\ n # 0
    BY SizesAssumption
  <2>2. w \in Text[n] /\ Mirrors(w, x, ParseTo[n - 1])
    BY <2>1, ParseLevels
  <2>3. ContentTo[n][w] = ContentLevel(w, inner) /\ ContentTo[n][x] = ContentLevel(x, inner)
    BY <2>1, <2>2, ContentTable
  <2>4. \A y \in Text[n - 1] : inner[ParseTo[n - 1][y]] = inner[y]
    BY <1>2
  <2> HIDE DEF w, inner
  <2>5. CASE x.t = "object"
    <3>1. Keys(w) = Keys(x) /\ w.t = "object" /\ \A k \in Keys(x) : LastOf(w, k) = ParseTo[n - 1][LastOf(x, k)]
      BY <2>2, <2>5 DEF Mirrors
    <3>2. \A k \in Keys(x) : inner[LastOf(w, k)] = inner[LastOf(x, k)]
      BY <2>1, <2>4, <2>5, <3>1, Inside
    <3> QED
      BY <2>3, <2>5, <3>1, <3>2 DEF ContentLevel, w
  <2>6. CASE x.t = "array"
    <3>1. w.t = "array" /\ w.items = [i \in DOMAIN x.items |-> ParseTo[n - 1][x.items[i]]]
      BY <2>2, <2>6 DEF Mirrors
    <3>2. \A i \in DOMAIN x.items : inner[w.items[i]] = inner[x.items[i]]
      BY <2>1, <2>4, <2>6, <3>1, Inside
    <3> QED
      BY <2>3, <2>6, <3>1, <3>2 DEF ContentLevel, w
  <2>7. CASE x.t \in {"number", "string"}
    BY <2>2, <2>7 DEF Mirrors, w
  <2> QED
    BY <2>1, <2>5, <2>6, <2>7, Inside
<1>3. 0 .. MaxDepth \subseteq Good
  <2> HIDE DEF Good
  <2> QED
    BY <1>1, <1>2, EveryDepth, SizesAssumption
<1> QED
  BY <1>3

\* Values that are sorted into one say the same.
LEMMA OneSortedOneContent ==
    ASSUME NEW d \in 0 .. MaxDepth, NEW v \in Text[d], NEW w \in Text[d],
           SortTo[d][v] = SortTo[d][w]
    PROVE  ContentTo[d][v] = ContentTo[d][w]
<1> DEFINE Good == {n \in 0 .. MaxDepth :
                      \A x, y \in Text[n] : SortTo[n][x] = SortTo[n][y] => ContentTo[n][x] = ContentTo[n][y]}
<1>1. 0 \in Good
  BY NoTextBelow, SizesAssumption
<1>2. ASSUME NEW n \in 1 .. MaxDepth, n - 1 \in Good
      PROVE  n \in Good
  <2> SUFFICES ASSUME NEW x \in Text[n], NEW y \in Text[n], SortTo[n][x] = SortTo[n][y]
               PROVE  ContentTo[n][x] = ContentTo[n][y]
    BY SizesAssumption
  <2> DEFINE s == SortTo[n][x]
             inner == ContentTo[n - 1]
  <2>1. n \in 0 .. MaxDepth /\ n # 0
    BY SizesAssumption
  <2>2. Mirrors(s, x, SortTo[n - 1]) /\ Mirrors(s, y, SortTo[n - 1])
    BY <2>1, SortLevels
  <2>3. ContentTo[n][x] = ContentLevel(x, inner) /\ ContentTo[n][y] = ContentLevel(y, inner)
    BY <2>1, ContentTable
  <2>4. \A a, b \in Text[n - 1] : SortTo[n - 1][a] = SortTo[n - 1][b] => inner[a] = inner[b]
    BY <1>2
  <2> HIDE DEF s, inner
  <2>5. x.t = y.t
    BY <2>2 DEF Mirrors
  <2>6. CASE x.t = "object"
    <3>1. Keys(x) = Keys(y) /\ \A k \in Keys(x) : SortTo[n - 1][LastOf(x, k)] = SortTo[n - 1][LastOf(y, k)]
      BY <2>2, <2>5, <2>6 DEF Mirrors
    <3>2. \A k \in Keys(x) : inner[LastOf(x, k)] = inner[LastOf(y, k)]
      BY <2>1, <2>4, <2>5, <2>6, <3>1, Inside
    <3> QED
      BY <2>3, <2>5, <2>6, <3>1, <3>2 DEF ContentLevel
  <2>7. CASE x.t = "array"
    <3>1. /\ s.items = [i \in DOMAIN x.items |-> SortTo[n - 1][x.items[i]]]
          /\ s.items = [i \in DOMAIN y.items |-> SortTo[n - 1][y.items[i]]]
      BY <2>2, <2>5, <2>7 DEF Mirrors
    <3>2. DOMAIN x.items = DOMAIN y.items
      BY <3>1
    <3>3. \A i \in DOMAIN x.items : SortTo[n - 1][x.items[i]] = SortTo[n - 1][y.items[i]]
      BY <3>1, <3>2
    <3>4. \A i \in DOMAIN x.items : inner[x.items[i]] = inner[y.items[i]]
      BY <2>1, <2>4, <2>5, <2>7, <3>2, <3>3, Inside
    <3> QED
      BY <2>3, <2>5, <2>7, <3>2, <3>4 DEF ContentLevel
  <2>8. CASE x.t \in {"number", "string"}
    BY <2>2, <2>5, <2>8 DEF Mirrors
  <2> QED
    BY <2>1, <2>6, <2>7, <2>8, Inside
<1>3. 0 .. MaxDepth \subseteq Good
  <2> HIDE DEF Good
  <2> QED
    BY <1>1, <1>2, EveryDepth, SizesAssumption
<1> QED
  BY <1>3

\* Values that say the same are sorted into one, unless a number is a float.
LEMMA OneContentOneSorted ==
    ASSUME NEW d \in 0 .. MaxDepth, NEW v \in Text[d], NEW w \in Text[d],
           ContentTo[d][v] = ContentTo[d][w],
           FloatsTo[d][v] = {}, FloatsTo[d][w] = {}
    PROVE  SortTo[d][v] = SortTo[d][w]
<1> DEFINE Good == {n \in 0 .. MaxDepth :
                      \A x, y \in Text[n] :
                         ContentTo[n][x] = ContentTo[n][y] /\ FloatsTo[n][x] = {} /\ FloatsTo[n][y] = {}
                         => SortTo[n][x] = SortTo[n][y]}
<1>1. 0 \in Good
  BY NoTextBelow, SizesAssumption
<1>2. ASSUME NEW n \in 1 .. MaxDepth, n - 1 \in Good
      PROVE  n \in Good
  <2> SUFFICES ASSUME NEW x \in Text[n], NEW y \in Text[n], ContentTo[n][x] = ContentTo[n][y],
                      FloatsTo[n][x] = {}, FloatsTo[n][y] = {}
               PROVE  SortTo[n][x] = SortTo[n][y]
    BY SizesAssumption
  <2> DEFINE inner == ContentTo[n - 1]
             floats == FloatsTo[n - 1]
             sorted == SortTo[n - 1]
  <2>1. n \in 0 .. MaxDepth /\ n # 0
    BY SizesAssumption
  <2>2. ContentLevel(x, inner) = ContentLevel(y, inner)
    <3>1. ContentTo[n][x] = ContentLevel(x, inner) /\ ContentTo[n][y] = ContentLevel(y, inner)
      BY <2>1, ContentTable
    <3> QED
      BY <3>1
  <2>3. FloatsLevel(x, floats) = {} /\ FloatsLevel(y, floats) = {}
    BY <2>1, FloatsTable
  <2>4. /\ SortTo[n][x] = Rebuilt(x, Only(KeyOrder, Keys(x)), sorted)
        /\ SortTo[n][y] = Rebuilt(y, Only(KeyOrder, Keys(y)), sorted)
    BY <2>1, SortLevels
  <2>5. \A a, b \in Text[n - 1] :
           inner[a] = inner[b] /\ floats[a] = {} /\ floats[b] = {} => sorted[a] = sorted[b]
    BY <1>2
  <2> HIDE DEF inner, floats, sorted
  <2>6. x.t = y.t
    BY <2>1, <2>2, Inside DEF ContentLevel
  <2>7. CASE x.t = "object"
    <3>1. [k \in Keys(x) |-> inner[LastOf(x, k)]] = [k \in Keys(y) |-> inner[LastOf(y, k)]]
      BY <2>2, <2>6, <2>7 DEF ContentLevel
    <3>2. Keys(x) = Keys(y) /\ \A k \in Keys(x) : inner[LastOf(x, k)] = inner[LastOf(y, k)]
      BY <3>1
    <3>3. \A k \in Keys(x) : floats[LastOf(x, k)] = {} /\ floats[LastOf(y, k)] = {}
      BY <2>3, <2>6, <2>7, <3>2 DEF FloatsLevel
    <3>4. \A k \in Keys(x) : sorted[LastOf(x, k)] = sorted[LastOf(y, k)]
      BY <2>1, <2>5, <2>6, <2>7, <3>2, <3>3, Inside
    <3>5. LET keys == Only(KeyOrder, Keys(x)) IN \A i \in DOMAIN keys : keys[i] \in Keys(x)
      BY <2>1, <2>7, TextLevels, SortedKeysAreAll DEF ToSet
    <3> QED
      BY <2>4, <2>6, <2>7, <3>2, <3>4, <3>5 DEF Rebuilt
  <2>8. CASE x.t = "array"
    <3>1. [i \in DOMAIN x.items |-> inner[x.items[i]]] = [i \in DOMAIN y.items |-> inner[y.items[i]]]
      BY <2>2, <2>6, <2>8 DEF ContentLevel
    <3>2. /\ DOMAIN x.items = DOMAIN y.items
          /\ \A i \in DOMAIN x.items : inner[x.items[i]] = inner[y.items[i]]
      BY <3>1
    <3>3. \A i \in DOMAIN x.items : floats[x.items[i]] = {} /\ floats[y.items[i]] = {}
      BY <2>3, <2>6, <2>8, <3>2 DEF FloatsLevel
    <3>4. \A i \in DOMAIN x.items : sorted[x.items[i]] = sorted[y.items[i]]
      BY <2>1, <2>5, <2>6, <2>8, <3>2, <3>3, Inside
    <3> QED
      BY <2>4, <2>6, <2>8, <3>2, <3>4 DEF Rebuilt
  <2>9. CASE x.t = "number"
    <3>1. x.n = y.n /\ x.form = y.form
      BY <2>1, <2>2, <2>3, <2>6, <2>9, Inside DEF ContentLevel, FloatsLevel
    <3>2. x = y
      BY <2>1, <2>6, <2>9, <3>1, Inside
    <3> QED
      BY <3>2
  <2>10. CASE x.t = "string"
    <3>1. x.s = y.s
      BY <2>2, <2>6, <2>10 DEF ContentLevel
    <3>2. x = y
      BY <2>1, <2>6, <2>10, <3>1, Inside
    <3> QED
      BY <3>2
  <2> QED
    BY <2>1, <2>7, <2>8, <2>9, <2>10, Inside
<1>3. 0 .. MaxDepth \subseteq Good
  <2> HIDE DEF Good
  <2> QED
    BY <1>1, <1>2, EveryDepth, SizesAssumption
<1> QED
  BY <1>3

-----------------------------------------------------------------------------
(* The tokens of a value can be read back: no value's are the beginning of *)
(* another's.                                                              *)

Closing == {<<"punct", "}">>, <<"punct", "]">>}

Opening == {<<"punct", "{">>, <<"punct", "[">>}
KeyToken == {<<"key", k>> : k \in KeySet}
NumberToken == {<<"number", n, form>> : n \in Int, form \in {"integer", "float"}}
StringToken == {<<"string", s>> : s \in STRING}
Token == Opening \cup Closing \cup KeyToken \cup NumberToken \cup StringToken

\* What f makes of S can be told from whatever follows.
Readable(S, f) ==
    /\ \A x \in S : f[x] \in Seq(Token) /\ f[x] # <<>> /\ f[x][1] \notin Closing
    /\ \A x, y \in S : \A s, t \in Seq(Token) : f[x] \o s = f[y] \o t => x = y /\ s = t

\* The first token of a sequence is read.
LEMMA FirstToken ==
    ASSUME NEW a \in Token, NEW b \in Token, NEW s \in Seq(Token), NEW t \in Seq(Token),
           <<a>> \o s = <<b>> \o t
    PROVE  a = b /\ s = t
<1>1. <<a>> \in Seq(Token) /\ <<b>> \in Seq(Token) /\ Len(<<a>>) = 1 /\ Len(<<b>>) = 1
  OBVIOUS
<1>2. (<<a>> \o s)[1] = a /\ (<<b>> \o t)[1] = b
  BY <1>1
<1>3. a = b
  BY <1>2
<1>4. <<a>> \o s = <<a>> \o t
  BY <1>3
<1> QED
  BY <1>1, <1>3, <1>4, ConcatSimplifications

\* The first token of two sequences is that of the first, if it has one.
LEMMA FirstOfTwo ==
    ASSUME NEW s \in Seq(Token), NEW t \in Seq(Token), s # <<>>
    PROVE  s \o t \in Seq(Token) /\ s \o t # <<>> /\ (s \o t)[1] = s[1]
<1>1. Len(s) \in Nat \ {0} /\ Len(t) \in Nat
  BY EmptySeq, LenProperties
<1>2. s \o t \in Seq(Token) /\ Len(s \o t) = Len(s) + Len(t)
  BY ConcatProperties
<1>3. (s \o t)[1] = s[1]
  BY <1>1, ConcatProperties
<1> QED
  BY <1>1, <1>2, <1>3

\* A closed list is its closing token, behind one part after the other.
LEMMA ClosedSteps ==
    ASSUME NEW p \in Seq(Seq(Token)), NEW closing \in Token
    PROVE  \E rest \in [0 .. Len(p) -> Seq(Token)] :
              /\ rest[0] = <<closing>>
              /\ \A n \in 1 .. Len(p) : rest[n] = p[Len(p) - n + 1] \o rest[n - 1]
              /\ Closed(p, closing) = rest[Len(p)]
<1> DEFINE Made(f, n) == IF n = 0 THEN <<closing>> ELSE p[Len(p) - n + 1] \o f[n - 1]
           rest == CHOOSE f : f = [n \in 0 .. Len(p) |-> Made(f, n)]
           step == [n \in 1 .. Len(p) |-> [r \in Seq(Token) |-> p[Len(p) - n + 1] \o r]]
<1>1. Len(p) \in Nat /\ \A n \in 1 .. Len(p) : p[Len(p) - n + 1] \in Seq(Token)
  <2>1. Len(p) \in Nat
    BY LenProperties
  <2>2. \A n \in 1 .. Len(p) : Len(p) - n + 1 \in 1 .. Len(p)
    BY <2>1
  <2> QED
    BY <2>1, <2>2, ElementOfSeq
<1>2. step \in [1 .. Len(p) -> [Seq(Token) -> Seq(Token)]]
  BY <1>1, ConcatProperties
<1>3. PICK f : IsTrace(f, Len(p), Seq(Token), <<closing>>, step)
  <2>1. AreSteps(Len(p), Seq(Token), <<closing>>, step)
    BY <1>1, <1>2 DEF AreSteps
  <2> QED
    BY <2>1, StepsExist
<1>4. ASSUME NEW n \in 0 .. Len(p)
      PROVE  f[n] = Made(f, n)
  <2>1. CASE n = 0
    BY <1>3, <2>1 DEF IsTrace
  <2>2. CASE n # 0
    <3>1. n \in 1 .. Len(p) /\ n - 1 \in 0 .. Len(p)
      BY <1>1, <2>2
    <3>3. f[n - 1] \in Seq(Token)
      BY <1>3, <3>1 DEF IsTrace
    <3>2. f[n] = step[n][f[n - 1]]
      <4> HIDE DEF step
      <4> QED
        BY <1>3, <3>1 DEF IsTrace
    <3> QED
      BY <2>2, <3>1, <3>2, <3>3
  <2> QED
    BY <2>1, <2>2
<1>5. f \in [0 .. Len(p) -> Seq(Token)]
  BY <1>3 DEF IsTrace
<1>6. f = [n \in 0 .. Len(p) |-> Made(f, n)]
  <2> HIDE DEF Made
  <2> QED
    BY <1>4, <1>5
<1>7. rest = [n \in 0 .. Len(p) |-> Made(rest, n)]
  BY <1>6, Zenon
<1>8. Closed(p, closing) = rest[Len(p)]
  BY DEF Closed
<1>9. ASSUME NEW n \in 0 .. Len(p)
      PROVE  rest[n] = Made(rest, n)
  <2> HIDE DEF Made, rest
  <2> QED
    BY <1>7
<1> HIDE DEF rest
<1> DEFINE Good == {n \in 0 .. Len(p) : rest[n] \in Seq(Token)}
<1>10. 0 \in Good
  <2>1. 0 \in 0 .. Len(p)
    BY <1>1
  <2>2. rest[0] = <<closing>>
    BY <1>9, <2>1
  <2>3. <<closing>> \in Seq(Token)
    OBVIOUS
  <2> QED
    BY <2>1, <2>2, <2>3
<1>11. ASSUME NEW n \in 1 .. Len(p), n - 1 \in Good
       PROVE  n \in Good
  <2>1. n \in 0 .. Len(p) /\ n # 0
    BY <1>1
  <2>2. rest[n] = p[Len(p) - n + 1] \o rest[n - 1]
    BY <1>9, <2>1
  <2>3. p[Len(p) - n + 1] \in Seq(Token) /\ rest[n - 1] \in Seq(Token)
    BY <1>1, <1>11
  <2> QED
    BY <2>1, <2>2, <2>3, ConcatProperties
<1>12. 0 .. Len(p) \subseteq Good
  <2> HIDE DEF Good
  <2> QED
    BY <1>1, <1>10, <1>11, EveryDepth
<1>13. rest \in [0 .. Len(p) -> Seq(Token)]
  <2>1. rest = [n \in 0 .. Len(p) |-> rest[n]]
    <3> HIDE DEF Made
    <3> QED
      BY <1>7
  <2> QED
    BY <1>12, <2>1
<1>14. rest[0] = <<closing>> /\ \A n \in 1 .. Len(p) : rest[n] = p[Len(p) - n + 1] \o rest[n - 1]
  <2>1. 0 \in 0 .. Len(p) /\ \A n \in 1 .. Len(p) : n \in 0 .. Len(p) /\ n # 0
    BY <1>1
  <2> QED
    BY <1>9, <2>1
<1> QED
  BY <1>8, <1>13, <1>14

\* Parts that are not empty, do not begin as a list closes, and are told from
\* whatever follows.
ReadableParts(E) ==
    /\ \A a \in E : a \in Seq(Token) /\ a # <<>> /\ a[1] \notin Closing
    /\ \A x, y \in E : \A s, t \in Seq(Token) : x \o s = y \o t => x = y /\ s = t

\* Two parts are the same if what begins with them is, and so is what remains.
ReadFirst(a, b) ==
    \A r, u \in Seq(Token) : \A s, t \in Seq(Token) :
       (a \o r) \o s = (b \o u) \o t => a = b /\ r \o s = u \o t

\* The first of several parts is read.
LEMMA FirstPart ==
    ASSUME NEW E, ReadableParts(E), NEW a, a \in E, NEW b, b \in E
    PROVE  ReadFirst(a, b)
<1> SUFFICES ASSUME NEW r \in Seq(Token), NEW u \in Seq(Token),
                    NEW s \in Seq(Token), NEW t \in Seq(Token), (a \o r) \o s = (b \o u) \o t
             PROVE  a = b /\ r \o s = u \o t
  BY DEF ReadFirst
<1>1. a \in Seq(Token) /\ b \in Seq(Token)
  BY DEF ReadableParts
<1>2. (a \o r) \o s = a \o (r \o s)
  BY ONLY <1>1, r \in Seq(Token), s \in Seq(Token), ConcatAssociative
<1>3. (b \o u) \o t = b \o (u \o t)
  BY ONLY <1>1, u \in Seq(Token), t \in Seq(Token), ConcatAssociative
<1>4. r \o s \in Seq(Token) /\ u \o t \in Seq(Token)
  BY ConcatProperties
<1>5. a \o (r \o s) = b \o (u \o t)
  BY ONLY <1>2, <1>3, (a \o r) \o s = (b \o u) \o t, Zenon
<1> DEFINE x == r \o s
           y == u \o t
<1>6. x \in Seq(Token) /\ y \in Seq(Token) /\ a \o x = b \o y
  BY <1>4, <1>5
<1> HIDE DEF x, y
<1>7. a = b /\ x = y
  <2>1. \A v, w \in Seq(Token) : a \o v = b \o w => a = b /\ v = w
    BY Zenon DEF ReadableParts
  <2> QED
    BY <1>6, <2>1, Zenon
<1> QED
  BY ONLY <1>7, Zenon DEF x, y

\* The tokens that close are tokens.
LEMMA ClosingTokens == Closing \subseteq Token
  BY DEF Token

\* Two closed lists hold the same if what begins with them is the same, and so is
\* what remains.
ClosedRead(p, q, closing) ==
    \A s, t \in Seq(Token) : Closed(p, closing) \o s = Closed(q, closing) \o t => p = q /\ s = t

\* Parts that can be told from what follows, and do not begin as a list closes,
\* make closed lists that can be told from what follows.
LEMMA ClosedIsReadable ==
    ASSUME NEW E, ReadableParts(E),
           NEW closing \in Closing, NEW p \in Seq(E), NEW q \in Seq(E)
    PROVE  Closed(p, closing) \in Seq(Token) /\ ClosedRead(p, q, closing)
<1>1. closing \in Token
  BY ClosingTokens
<1>2. p \in Seq(Seq(Token)) /\ q \in Seq(Seq(Token))
  <2>1. E \subseteq Seq(Token)
    BY DEF ReadableParts
  <2> QED
    BY <2>1, SeqMonotonic
<1>3. PICK f \in [0 .. Len(p) -> Seq(Token)] :
         /\ f[0] = <<closing>>
         /\ \A n \in 1 .. Len(p) : f[n] = p[Len(p) - n + 1] \o f[n - 1]
         /\ Closed(p, closing) = f[Len(p)]
  BY <1>1, <1>2, ClosedSteps
<1>4. PICK g \in [0 .. Len(q) -> Seq(Token)] :
         /\ g[0] = <<closing>>
         /\ \A n \in 1 .. Len(q) : g[n] = q[Len(q) - n + 1] \o g[n - 1]
         /\ Closed(q, closing) = g[Len(q)]
  BY <1>1, <1>2, ClosedSteps
<1>5. Len(p) \in Nat /\ Len(q) \in Nat /\ DOMAIN p = 1 .. Len(p) /\ DOMAIN q = 1 .. Len(q)
  BY LenProperties
<1>6. /\ \A n \in 1 .. Len(p) : p[Len(p) - n + 1] \in E /\ n - 1 \in 0 .. Len(p)
      /\ \A n \in 1 .. Len(q) : q[Len(q) - n + 1] \in E /\ n - 1 \in 0 .. Len(q)
  <2>1. /\ \A n \in 1 .. Len(p) : Len(p) - n + 1 \in 1 .. Len(p) /\ n - 1 \in 0 .. Len(p)
        /\ \A n \in 1 .. Len(q) : Len(q) - n + 1 \in 1 .. Len(q) /\ n - 1 \in 0 .. Len(q)
    BY <1>5
  <2> QED
    BY <2>1, ElementOfSeq
<1>7. /\ \A s \in Seq(Token) : (f[0] \o s)[1] \in Closing /\ (g[0] \o s)[1] \in Closing
      /\ \A n \in 1 .. Len(p) : \A s \in Seq(Token) : (f[n] \o s)[1] \notin Closing
      /\ \A n \in 1 .. Len(q) : \A s \in Seq(Token) : (g[n] \o s)[1] \notin Closing
  <2>1. ASSUME NEW a \in E, NEW r \in Seq(Token), NEW s \in Seq(Token)
        PROVE  ((a \o r) \o s)[1] \notin Closing
    <3>0. a \in Seq(Token) /\ a # <<>> /\ a[1] \notin Closing
      BY DEF ReadableParts
    <3>1. a \o r \in Seq(Token) /\ a \o r # <<>> /\ (a \o r)[1] = a[1]
      BY <3>0, FirstOfTwo
    <3>2. ((a \o r) \o s)[1] = (a \o r)[1]
      BY <3>1, FirstOfTwo
    <3> QED
      BY <3>0, <3>1, <3>2
  <2>2. ASSUME NEW s \in Seq(Token)
        PROVE  (f[0] \o s)[1] \in Closing /\ (g[0] \o s)[1] \in Closing
    <3>1. <<closing>> \in Seq(Token) /\ <<closing>> # <<>> /\ <<closing>>[1] = closing
      BY <1>1
    <3> QED
      BY <1>3, <1>4, <3>1, FirstOfTwo
  <2>3. ASSUME NEW n \in 1 .. Len(p), NEW s \in Seq(Token)
        PROVE  (f[n] \o s)[1] \notin Closing
    <3>1. f[n] = p[Len(p) - n + 1] \o f[n - 1]
      BY <1>3
    <3>2. p[Len(p) - n + 1] \in E /\ f[n - 1] \in Seq(Token)
      BY <1>3, <1>6
    <3> QED
      BY <2>1, <3>1, <3>2
  <2>4. ASSUME NEW n \in 1 .. Len(q), NEW s \in Seq(Token)
        PROVE  (g[n] \o s)[1] \notin Closing
    <3>1. g[n] = q[Len(q) - n + 1] \o g[n - 1]
      BY <1>4
    <3>2. q[Len(q) - n + 1] \in E /\ g[n - 1] \in Seq(Token)
      BY <1>4, <1>6
    <3> QED
      BY <2>1, <3>1, <3>2
  <2> QED
    BY <2>2, <2>3, <2>4
<1> DEFINE Same(n, m, s, t) ==
             n = m /\ s = t /\ \A i \in 1 .. n : p[Len(p) - i + 1] = q[Len(q) - i + 1]
           Good == {n \in 0 .. Len(p) : \A m \in 0 .. Len(q) : \A s, t \in Seq(Token) :
                                           f[n] \o s = g[m] \o t => Same(n, m, s, t)}
<1>8. 0 \in Good
  <2>1. 0 \in 0 .. Len(p)
    BY <1>5
  <2>2. ASSUME NEW m \in 0 .. Len(q), NEW s \in Seq(Token), NEW t \in Seq(Token),
               f[0] \o s = g[m] \o t
        PROVE  Same(0, m, s, t)
    <3>1. m = 0 \/ m \in 1 .. Len(q)
      BY <1>5
    <3>2. m \notin 1 .. Len(q)
      BY <1>7, <2>2
    <3>3. m = 0
      BY <3>1, <3>2
    <3>4. <<closing>> \o s = <<closing>> \o t
      BY <1>3, <1>4, <2>2, <3>3
    <3>5. s = t
      BY <1>1, <3>4, FirstToken
    <3> QED
      BY <3>3, <3>5
  <2> QED
    BY <2>1, <2>2
<1>9. ASSUME NEW n \in 1 .. Len(p), n - 1 \in Good
      PROVE  n \in Good
  <2>1. n \in 0 .. Len(p)
    BY <1>5
  <2>2. ASSUME NEW m \in 0 .. Len(q), NEW s \in Seq(Token), NEW t \in Seq(Token),
               f[n] \o s = g[m] \o t
        PROVE  Same(n, m, s, t)
    <3>1. m = 0 \/ m \in 1 .. Len(q)
      BY <1>5
    <3>2. m # 0
      BY <1>7, <2>2
    <3>3. m \in 1 .. Len(q)
      BY <3>1, <3>2
    <3>4. PICK a, b, r, u : /\ a = p[Len(p) - n + 1] /\ b = q[Len(q) - m + 1]
                            /\ r = f[n - 1] /\ u = g[m - 1]
      OBVIOUS
    <3>5. a \in E /\ b \in E /\ r \in Seq(Token) /\ u \in Seq(Token) /\ m - 1 \in 0 .. Len(q)
      BY <1>3, <1>4, <1>6, <3>3, <3>4
    <3>6. f[n] = a \o r /\ g[m] = b \o u
      BY <1>3, <1>4, <3>3, <3>4
    <3>7. \A j \in 0 .. Len(q) : \A x, y \in Seq(Token) : r \o x = g[j] \o y => Same(n - 1, j, x, y)
      BY <1>9, <3>4
    <3>8. (a \o r) \o s = (b \o u) \o t
      BY <2>2, <3>6, Zenon
    <3>9. a = b /\ r \o s = u \o t
      <4> HIDE DEF Good, Same
      <4>1. ReadFirst(a, b)
        BY <3>5, FirstPart
      <4>2. \A x, y \in Seq(Token) : (a \o r) \o x = (b \o u) \o y => a = b /\ r \o x = u \o y
        BY <3>5, <4>1, Zenon DEF ReadFirst
      <4> QED
        BY <3>8, <4>2, Zenon
    <3>10. Same(n - 1, m - 1, s, t)
      <4> HIDE DEF Same
      <4> QED
        BY <3>4, <3>5, <3>7, <3>9
    <3>11. n = m /\ s = t /\ \A i \in 1 .. n - 1 : p[Len(p) - i + 1] = q[Len(q) - i + 1]
      BY <3>3, <3>10
    <3>12. \A i \in 1 .. n : i \in 1 .. n - 1 \/ i = n
      OBVIOUS
    <3> QED
      BY <3>4, <3>9, <3>11, <3>12
  <2> QED
    BY <2>1, <2>2
<1>10. 0 .. Len(p) \subseteq Good
  <2> HIDE DEF Good
  <2> QED
    BY <1>5, <1>8, <1>9, EveryDepth
<1>11. ASSUME NEW s \in Seq(Token), NEW t \in Seq(Token),
              Closed(p, closing) \o s = Closed(q, closing) \o t
       PROVE  p = q /\ s = t
  <2>1. Len(p) \in 0 .. Len(p) /\ Len(q) \in 0 .. Len(q)
    BY <1>5
  <2>2. Same(Len(p), Len(q), s, t)
    <3> HIDE DEF Same
    <3> QED
      BY <1>3, <1>4, <1>10, <1>11, <2>1
  <2>3. ASSUME NEW i \in 1 .. Len(p)
        PROVE  p[i] = q[i]
    <3>1. Len(p) - i + 1 \in 1 .. Len(p) /\ Len(p) - (Len(p) - i + 1) + 1 = i
      BY <1>5
    <3>2. p[Len(p) - (Len(p) - i + 1) + 1] = q[Len(q) - (Len(p) - i + 1) + 1]
      BY <2>2, <3>1
    <3> QED
      BY <2>2, <3>1, <3>2
  <2>4. p = q
    BY <2>2, <2>3, SeqEqual
  <2> QED
    BY <2>2, <2>4
<1>12. Closed(p, closing) \in Seq(Token)
  <2>1. Len(p) \in 0 .. Len(p)
    BY <1>5
  <2>2. f[Len(p)] \in Seq(Token)
    BY ONLY <2>1, <1>3
  <2> QED
    BY ONLY <1>3, <2>2
<1> QED
  BY <1>11, <1>12 DEF ClosedRead

\* What f makes of readable values is readable, one part each.
LEMMA ItemParts ==
    ASSUME NEW S, NEW f, Readable(S, f)
    PROVE  ReadableParts({f[x] : x \in S})
<1> DEFINE E == {f[x] : x \in S}
<1>1. \A a \in E : a \in Seq(Token) /\ a # <<>> /\ a[1] \notin Closing
  BY DEF Readable
<1>2. ASSUME NEW a \in E, NEW b \in E, NEW s \in Seq(Token), NEW t \in Seq(Token), a \o s = b \o t
      PROVE  a = b /\ s = t
  <2>1. PICK x \in S : a = f[x]
    OBVIOUS
  <2>2. PICK y \in S : b = f[y]
    OBVIOUS
  <2>3. \A v, w \in Seq(Token) : f[x] \o v = f[y] \o w => x = y /\ v = w
    BY Zenon DEF Readable
  <2>4. x = y /\ s = t
    BY <1>2, <2>1, <2>2, <2>3, Zenon
  <2> QED
    BY <2>1, <2>2, <2>4
<1> HIDE DEF E
<1>3. ReadableParts(E)
  BY <1>1, <1>2 DEF ReadableParts
<1> QED
  BY <1>3 DEF E

\* A key and a value.
FieldTokens(field, f) == <<<<"key", field.key>>>> \o f[field.value]

\* Two fields are the same if what begins with them is, and so is what remains.
FieldsRead(a, b, f) ==
    \A s, t \in Seq(Token) : FieldTokens(a, f) \o s = FieldTokens(b, f) \o t => a = b /\ s = t

\* They are readable in turn, the key from the value and the value from the rest.
LEMMA FieldsAreRead ==
    ASSUME NEW S, NEW f, Readable(S, f),
           NEW a \in [key : KeySet, value : S], NEW b \in [key : KeySet, value : S]
    PROVE  FieldsRead(a, b, f)
<1> SUFFICES ASSUME NEW s \in Seq(Token), NEW t \in Seq(Token),
                    FieldTokens(a, f) \o s = FieldTokens(b, f) \o t
             PROVE  a = b /\ s = t
  BY DEF FieldsRead
<1>1. f[a.value] \in Seq(Token) /\ f[b.value] \in Seq(Token) /\ a.value \in S /\ b.value \in S
  BY DEF Readable
<1>2. <<"key", a.key>> \in Token /\ <<"key", b.key>> \in Token
  BY DEF Token, KeyToken
<1>3. PICK ka, kb, va, vb : /\ ka = <<"key", a.key>> /\ kb = <<"key", b.key>>
                            /\ va = f[a.value] /\ vb = f[b.value]
  OBVIOUS
<1>4. <<ka>> \in Seq(Token) /\ <<kb>> \in Seq(Token) /\ va \in Seq(Token) /\ vb \in Seq(Token)
  BY <1>1, <1>2, <1>3
<1>5. (<<ka>> \o va) \o s = (<<kb>> \o vb) \o t
  BY <1>3, Zenon DEF FieldTokens
<1>6. (<<ka>> \o va) \o s = <<ka>> \o (va \o s)
  BY ONLY <1>4, s \in Seq(Token), ConcatAssociative
<1>7. (<<kb>> \o vb) \o t = <<kb>> \o (vb \o t)
  BY ONLY <1>4, t \in Seq(Token), ConcatAssociative
<1>8. va \o s \in Seq(Token) /\ vb \o t \in Seq(Token)
  BY <1>4, ConcatProperties
<1>9. <<ka>> \o (va \o s) = <<kb>> \o (vb \o t)
  BY ONLY <1>5, <1>6, <1>7, Zenon
<1>10. PICK x, y : x = va \o s /\ y = vb \o t
  OBVIOUS
<1>11. x \in Seq(Token) /\ y \in Seq(Token) /\ <<ka>> \o x = <<kb>> \o y
  BY <1>8, <1>9, <1>10
<1>12. ka = kb /\ x = y
  <2>1. ka \in Token /\ kb \in Token
    BY <1>2, <1>3
  <2> QED
    BY ONLY <2>1, <1>11, FirstToken
<1>13. a.key = b.key
  BY <1>3, <1>12
<1>14. \A v, w \in Seq(Token) : f[a.value] \o v = f[b.value] \o w => a.value = b.value /\ v = w
  BY <1>1, Zenon DEF Readable
<1>15. f[a.value] \o s = f[b.value] \o t
  BY <1>3, <1>10, <1>12
<1>16. a.value = b.value /\ s = t
  BY <1>14, <1>15, Zenon
<1> QED
  BY <1>13, <1>16

\* Fields are parts of an object.
LEMMA FieldParts ==
    ASSUME NEW S, NEW f, Readable(S, f)
    PROVE  ReadableParts({FieldTokens(field, f) : field \in [key : KeySet, value : S]})
<1> DEFINE E == {FieldTokens(field, f) : field \in [key : KeySet, value : S]}
<1>1. ASSUME NEW a \in E
      PROVE  a \in Seq(Token) /\ a # <<>> /\ a[1] \notin Closing
  <2>1. PICK field \in [key : KeySet, value : S] : a = FieldTokens(field, f)
    OBVIOUS
  <2>2. PICK k : k = <<"key", field.key>>
    OBVIOUS
  <2>3. k \in Token /\ k \notin Closing
    BY <2>2 DEF Token, KeyToken, Closing
  <2>4. <<k>> \in Seq(Token) /\ <<k>> # <<>> /\ <<k>>[1] = k /\ f[field.value] \in Seq(Token)
    BY <2>3 DEF Readable
  <2>5. a = <<k>> \o f[field.value]
    BY <2>1, <2>2 DEF FieldTokens
  <2> QED
    BY <2>3, <2>4, <2>5, FirstOfTwo
<1>2. ASSUME NEW a \in E, NEW b \in E, NEW s \in Seq(Token), NEW t \in Seq(Token), a \o s = b \o t
      PROVE  a = b /\ s = t
  <2>1. PICK c \in [key : KeySet, value : S] : a = FieldTokens(c, f)
    OBVIOUS
  <2>2. PICK d \in [key : KeySet, value : S] : b = FieldTokens(d, f)
    OBVIOUS
  <2>3. FieldTokens(c, f) \o s = FieldTokens(d, f) \o t
    BY <1>2, <2>1, <2>2, Zenon
  <2>5. \A v, w \in Seq(Token) : FieldTokens(c, f) \o v = FieldTokens(d, f) \o w => c = d /\ v = w
    <3>1. FieldsRead(c, d, f)
      BY FieldsAreRead
    <3> QED
      BY <3>1, Zenon DEF FieldsRead
  <2>4. c = d /\ s = t
    BY <2>3, <2>5, Zenon
  <2> QED
    BY <2>1, <2>2, <2>4
<1> HIDE DEF E
<1>3. ReadableParts(E)
  BY <1>1, <1>2 DEF ReadableParts
<1> QED
  BY <1>3 DEF E

\* The first token of a value, and the others.
VecFirst(v) ==
    IF v.t = "object" THEN <<"punct", "{">>
    ELSE IF v.t = "array" THEN <<"punct", "[">>
    ELSE IF v.t = "number" THEN <<"number", v.n, v.form>>
    ELSE <<"string", v.s>>

FieldsOf(v, f) == [i \in DOMAIN v.fields |-> FieldTokens(v.fields[i], f)]
ItemsOf(v, f) == [i \in DOMAIN v.items |-> f[v.items[i]]]

VecRest(v, f) ==
    IF v.t = "object" THEN Closed(FieldsOf(v, f), <<"punct", "}">>)
    ELSE IF v.t = "array" THEN Closed(ItemsOf(v, f), <<"punct", "]">>)
    ELSE <<>>

\* The lists that are closed hold parts.
LEMMA PartsOfLevel ==
    ASSUME NEW S, NEW f, NEW v \in Level(S)
    PROVE  /\ v.t = "object" => /\ v.fields \in Seq([key : KeySet, value : S])
                                /\ FieldsOf(v, f) \in Seq({FieldTokens(field, f) : field \in [key : KeySet, value : S]})
           /\ v.t = "array" => v.items \in Seq(S) /\ ItemsOf(v, f) \in Seq({f[x] : x \in S})
<1>1. CASE v.t = "object"
  <2> DEFINE E == {FieldTokens(field, f) : field \in [key : KeySet, value : S]}
  <2>1. v.fields \in Seq([key : KeySet, value : S])
    BY <1>1, LevelShape
  <2>2. Len(v.fields) \in Nat /\ DOMAIN v.fields = 1 .. Len(v.fields)
    BY <2>1, LenProperties
  <2>3. \A i \in DOMAIN v.fields : v.fields[i] \in [key : KeySet, value : S]
    BY <2>1, <2>2, ElementOfSeq
  <2>4. \A i \in DOMAIN v.fields : FieldTokens(v.fields[i], f) \in E
    BY <2>3
  <2> HIDE DEF E
  <2>5. FieldsOf(v, f) \in [1 .. Len(v.fields) -> E]
    BY <2>2, <2>4 DEF FieldsOf
  <2>6. FieldsOf(v, f) \in Seq(E)
    BY <2>2, <2>5, FunctionIsSeq
  <2> QED
    BY <1>1, <2>1, <2>6 DEF E
<1>2. CASE v.t = "array"
  <2> DEFINE E == {f[x] : x \in S}
  <2>1. v.items \in Seq(S)
    BY <1>2, LevelShape
  <2>2. Len(v.items) \in Nat /\ DOMAIN v.items = 1 .. Len(v.items)
    BY <2>1, LenProperties
  <2>3. \A i \in DOMAIN v.items : v.items[i] \in S
    BY <2>1, <2>2, ElementOfSeq
  <2>4. \A i \in DOMAIN v.items : f[v.items[i]] \in E
    BY <2>3
  <2> HIDE DEF E
  <2>5. ItemsOf(v, f) \in [1 .. Len(v.items) -> E]
    BY <2>2, <2>4 DEF ItemsOf
  <2>6. ItemsOf(v, f) \in Seq(E)
    BY <2>2, <2>5, FunctionIsSeq
  <2> QED
    BY <1>2, <2>1, <2>6 DEF E
<1> QED
  BY <1>1, <1>2

\* A value is its first token and the others.
LEMMA VecSplits ==
    ASSUME NEW S, NEW f, Readable(S, f), NEW v \in Level(S)
    PROVE  /\ VecFirst(v) \in Token \ Closing
           /\ VecRest(v, f) \in Seq(Token)
           /\ VecLevel(v, f) = <<VecFirst(v)>> \o VecRest(v, f)
<1>1. CASE v.t = "object"
  <2>1. VecFirst(v) = <<"punct", "{">>
    BY <1>1 DEF VecFirst
  <2>2. VecFirst(v) \in Token \ Closing
    <3>1. VecFirst(v) \in Opening
      BY <2>1 DEF Opening
    <3>2. <<"punct", "{">> # <<"punct", "}">> /\ <<"punct", "{">> # <<"punct", "]">>
      OBVIOUS
    <3>3. VecFirst(v) \notin Closing
      BY <2>1, <3>2, Zenon DEF Closing
    <3> QED
      BY <3>1, <3>3 DEF Token
  <2>3. <<"punct", "}">> \in Closing
    BY DEF Closing
  <2>4. Closed(FieldsOf(v, f), <<"punct", "}">>) \in Seq(Token)
    <3> DEFINE E == {FieldTokens(field, f) : field \in [key : KeySet, value : S]}
    <3>1. ReadableParts(E)
      BY FieldParts
    <3>2. FieldsOf(v, f) \in Seq(E)
      BY <1>1, PartsOfLevel
    <3> HIDE DEF E
    <3> QED
      BY ONLY <2>3, <3>1, <3>2, ClosedIsReadable
  <2>5. VecLevel(v, f) = <<<<"punct", "{">>>> \o Closed(FieldsOf(v, f), <<"punct", "}">>)
    BY <1>1 DEF VecLevel, FieldsOf, FieldTokens
  <2>6. VecRest(v, f) = Closed(FieldsOf(v, f), <<"punct", "}">>)
    BY <1>1 DEF VecRest
  <2> QED
    BY <2>1, <2>2, <2>4, <2>5, <2>6
<1>2. CASE v.t = "array"
  <2>1. VecFirst(v) = <<"punct", "[">>
    BY <1>2 DEF VecFirst
  <2>2. VecFirst(v) \in Token \ Closing
    <3>1. VecFirst(v) \in Opening
      BY <2>1 DEF Opening
    <3>2. <<"punct", "[">> # <<"punct", "}">> /\ <<"punct", "[">> # <<"punct", "]">>
      OBVIOUS
    <3>3. VecFirst(v) \notin Closing
      BY <2>1, <3>2, Zenon DEF Closing
    <3> QED
      BY <3>1, <3>3 DEF Token
  <2>3. <<"punct", "]">> \in Closing
    BY DEF Closing
  <2>4. Closed(ItemsOf(v, f), <<"punct", "]">>) \in Seq(Token)
    <3> DEFINE E == {f[x] : x \in S}
    <3>1. ReadableParts(E)
      BY ItemParts
    <3>2. ItemsOf(v, f) \in Seq(E)
      BY <1>2, PartsOfLevel
    <3> HIDE DEF E
    <3> QED
      BY ONLY <2>3, <3>1, <3>2, ClosedIsReadable
  <2>5. VecLevel(v, f) = <<<<"punct", "[">>>> \o Closed(ItemsOf(v, f), <<"punct", "]">>)
    BY <1>2 DEF VecLevel, ItemsOf
  <2>6. VecRest(v, f) = Closed(ItemsOf(v, f), <<"punct", "]">>)
    BY <1>2 DEF VecRest
  <2> QED
    BY <2>1, <2>2, <2>4, <2>5, <2>6
<1>3. CASE v.t \in {"number", "string"}
  <2>1. VecFirst(v) \in Token \ Closing
    <3>1. CASE v.t = "number"
      <4>1. VecFirst(v) = <<"number", v.n, v.form>>
        BY <3>1 DEF VecFirst
      <4>2. v.n \in Int /\ v.form \in {"integer", "float"}
        BY <3>1, LevelShape
      <4>4. VecFirst(v) \in NumberToken
        BY <4>1, <4>2 DEF NumberToken
      <4>3. VecFirst(v) \notin Closing
        BY <4>1 DEF Closing
      <4> QED
        BY <4>3, <4>4 DEF Token
    <3>2. CASE v.t = "string"
      <4>1. VecFirst(v) = <<"string", v.s>>
        BY <3>2 DEF VecFirst
      <4>2. VecFirst(v) \in StringToken
        BY <3>2, <4>1, LevelShape DEF StringToken
      <4>3. VecFirst(v) \notin Closing
        BY <4>1 DEF Closing
      <4> QED
        BY <4>2, <4>3 DEF Token
    <3> QED
      BY <1>3, <3>1, <3>2
  <2>2. VecRest(v, f) = <<>> /\ <<>> \in Seq(Token)
    <3>1. VecRest(v, f) = <<>>
      BY <1>3 DEF VecRest
    <3> QED
      BY <3>1
  <2>3. VecLevel(v, f) = <<VecFirst(v)>>
    BY <1>3 DEF VecLevel, VecFirst
  <2>4. <<VecFirst(v)>> \in Seq(Token)
    BY <2>1
  <2>5. <<VecFirst(v)>> \o <<>> = <<VecFirst(v)>>
    BY <2>4, ConcatEmptySeq
  <2> QED
    BY <2>1, <2>2, <2>3, <2>5
<1> QED
  BY <1>1, <1>2, <1>3, LevelShape

\* The first token tells which kind of value it is, and a number or a string whole.
LEMMA FirstTells ==
    ASSUME NEW S, NEW x \in Level(S), NEW y \in Level(S), VecFirst(x) = VecFirst(y)
    PROVE  x.t = y.t /\ (x.t \in {"number", "string"} => x = y)
<1>1. \A v \in Level(S) :
         /\ v.t = "object" => VecFirst(v) = <<"punct", "{">>
         /\ v.t = "array" => VecFirst(v) = <<"punct", "[">>
         /\ v.t = "number" => VecFirst(v) = <<"number", v.n, v.form>>
         /\ v.t = "string" => VecFirst(v) = <<"string", v.s>>
  BY DEF VecFirst
<1>2. \A v \in Level(S) : v.t \in {"object", "array", "number", "string"}
  BY LevelShape
<1>3. /\ <<"punct", "{">> # <<"punct", "[">>
      /\ \A n, f : <<"punct", "{">> # <<"number", n, f>> /\ <<"punct", "[">> # <<"number", n, f>>
      /\ \A z : <<"punct", "{">> # <<"string", z>> /\ <<"punct", "[">> # <<"string", z>>
      /\ \A n, f, z : <<"number", n, f>> # <<"string", z>>
  OBVIOUS
<1>4. x.t = y.t
  <2>1. CASE x.t = "object"
    BY <1>1, <1>2, <1>3, <2>1, Zenon
  <2>2. CASE x.t = "array"
    BY <1>1, <1>2, <1>3, <2>2, Zenon
  <2>3. CASE x.t = "number"
    BY <1>1, <1>2, <1>3, <2>3, Zenon
  <2>4. CASE x.t = "string"
    BY <1>1, <1>2, <1>3, <2>4, Zenon
  <2> QED
    BY <1>2, <2>1, <2>2, <2>3, <2>4
<1>5. CASE x.t = "number"
  <2>1. x = Num(x.n, x.form) /\ y = Num(y.n, y.form)
    BY <1>4, <1>5, LevelShape
  <2>2. <<"number", x.n, x.form>> = <<"number", y.n, y.form>>
    BY <1>1, <1>4, <1>5
  <2>3. x.n = y.n /\ x.form = y.form
    BY <2>2
  <2> QED
    BY <1>4, <2>1, <2>3
<1>6. CASE x.t = "string"
  <2>1. x = Str(x.s) /\ y = Str(y.s)
    BY <1>4, <1>6, LevelShape
  <2>2. <<"string", x.s>> = <<"string", y.s>>
    BY <1>1, <1>4, <1>6
  <2>3. x.s = y.s
    BY <2>2
  <2> QED
    BY <1>4, <2>1, <2>3
<1> QED
  BY <1>4, <1>5, <1>6

\* What two values hold is the same if their lists are.
LEMMA ListsTell ==
    ASSUME NEW S, NEW f, Readable(S, f), NEW x \in Level(S), NEW y \in Level(S), x.t = y.t
    PROVE  /\ x.t = "object" /\ FieldsOf(x, f) = FieldsOf(y, f) => x = y
           /\ x.t = "array" /\ ItemsOf(x, f) = ItemsOf(y, f) => x = y
<1>1. \A a, b \in S : f[a] = f[b] => a = b
  <2> SUFFICES ASSUME NEW a \in S, NEW b \in S, f[a] = f[b]
               PROVE  a = b
    OBVIOUS
  <2>1. <<>> \in Seq(Token)
    OBVIOUS
  <2>2. f[a] \o <<>> = f[b] \o <<>>
    OBVIOUS
  <2>3. \A v, w \in Seq(Token) : f[a] \o v = f[b] \o w => a = b /\ v = w
    BY Zenon DEF Readable
  <2> QED
    BY <2>1, <2>2, <2>3, Zenon
<1>2. \A a, b \in [key : KeySet, value : S] : FieldTokens(a, f) = FieldTokens(b, f) => a = b
  <2> SUFFICES ASSUME NEW a \in [key : KeySet, value : S], NEW b \in [key : KeySet, value : S],
                      FieldTokens(a, f) = FieldTokens(b, f)
               PROVE  a = b
    OBVIOUS
  <2>1. <<>> \in Seq(Token)
    OBVIOUS
  <2>2. FieldTokens(a, f) \o <<>> = FieldTokens(b, f) \o <<>>
    OBVIOUS
  <2>3. FieldsRead(a, b, f)
    BY FieldsAreRead
  <2> QED
    BY <2>1, <2>2, <2>3, Zenon DEF FieldsRead
<1>3. ASSUME x.t = "object", FieldsOf(x, f) = FieldsOf(y, f)
      PROVE  x = y
  <2>1. x.fields \in Seq([key : KeySet, value : S]) /\ y.fields \in Seq([key : KeySet, value : S])
    BY <1>3, PartsOfLevel
  <2>2. DOMAIN x.fields = DOMAIN y.fields
    BY <1>3 DEF FieldsOf
  <2>3. ASSUME NEW i \in DOMAIN x.fields
        PROVE  x.fields[i] = y.fields[i]
    <3>1. FieldsOf(x, f)[i] = FieldTokens(x.fields[i], f) /\ FieldsOf(y, f)[i] = FieldTokens(y.fields[i], f)
      BY <2>2 DEF FieldsOf
    <3>2. x.fields[i] \in [key : KeySet, value : S] /\ y.fields[i] \in [key : KeySet, value : S]
      BY <2>1, <2>2, ElementOfSeq, LenProperties
    <3> QED
      BY <1>2, <1>3, <3>1, <3>2
  <2>4. x.fields = y.fields
    BY <2>1, <2>2, <2>3, LenProperties, SeqEqual
  <2>5. x = Obj(x.fields) /\ y = Obj(y.fields)
    BY <1>3, LevelShape
  <2> QED
    BY <2>4, <2>5
<1>4. ASSUME x.t = "array", ItemsOf(x, f) = ItemsOf(y, f)
      PROVE  x = y
  <2>1. x.items \in Seq(S) /\ y.items \in Seq(S)
    BY <1>4, PartsOfLevel
  <2>2. DOMAIN x.items = DOMAIN y.items
    BY <1>4 DEF ItemsOf
  <2>3. ASSUME NEW i \in DOMAIN x.items
        PROVE  x.items[i] = y.items[i]
    <3>1. ItemsOf(x, f)[i] = f[x.items[i]] /\ ItemsOf(y, f)[i] = f[y.items[i]]
      BY <2>2 DEF ItemsOf
    <3>2. x.items[i] \in S /\ y.items[i] \in S
      BY <2>1, <2>2, ElementOfSeq, LenProperties
    <3> QED
      BY <1>1, <1>4, <3>1, <3>2
  <2>4. x.items = y.items
    BY <2>1, <2>2, <2>3, LenProperties, SeqEqual
  <2>5. x = Arr(x.items) /\ y = Arr(y.items)
    BY <1>4, LevelShape
  <2> QED
    BY <2>4, <2>5
<1> QED
  BY <1>3, <1>4

\* What can be told of the values in it can be told of a level.
LEMMA LevelIsReadable ==
    ASSUME NEW S, NEW f, Readable(S, f), NEW F, \A v \in Level(S) : F[v] = VecLevel(v, f)
    PROVE  Readable(Level(S), F)
<1>1. ASSUME NEW v \in Level(S)
      PROVE  F[v] \in Seq(Token) /\ F[v] # <<>> /\ F[v][1] \notin Closing
  <2>1. PICK a, r : a = VecFirst(v) /\ r = VecRest(v, f)
    OBVIOUS
  <2>2. a \in Token \ Closing /\ r \in Seq(Token) /\ F[v] = <<a>> \o r
    BY <2>1, VecSplits
  <2>3. <<a>> \in Seq(Token) /\ <<a>> # <<>> /\ <<a>>[1] = a
    BY <2>2
  <2> QED
    BY <2>2, <2>3, FirstOfTwo
<1>2. ASSUME NEW x \in Level(S), NEW y \in Level(S), NEW s \in Seq(Token), NEW t \in Seq(Token),
             F[x] \o s = F[y] \o t
      PROVE  x = y /\ s = t
  <2>1. PICK a, b, r, u : a = VecFirst(x) /\ b = VecFirst(y) /\ r = VecRest(x, f) /\ u = VecRest(y, f)
    OBVIOUS
  <2>2. /\ a \in Token /\ r \in Seq(Token) /\ F[x] = <<a>> \o r
        /\ b \in Token /\ u \in Seq(Token) /\ F[y] = <<b>> \o u
    BY <2>1, VecSplits
  <2>3. <<a>> \in Seq(Token) /\ <<b>> \in Seq(Token)
    BY <2>2
  <2>4. (<<a>> \o r) \o s = <<a>> \o (r \o s)
    BY ONLY <2>2, <2>3, s \in Seq(Token), ConcatAssociative
  <2>5. (<<b>> \o u) \o t = <<b>> \o (u \o t)
    BY ONLY <2>2, <2>3, t \in Seq(Token), ConcatAssociative
  <2>6. <<a>> \o (r \o s) = <<b>> \o (u \o t)
    BY <1>2, <2>2, <2>4, <2>5, Zenon
  <2>7. r \o s \in Seq(Token) /\ u \o t \in Seq(Token)
    BY <2>2, ConcatProperties
  <2>8. PICK v, w : v = r \o s /\ w = u \o t
    OBVIOUS
  <2>9. v \in Seq(Token) /\ w \in Seq(Token) /\ <<a>> \o v = <<b>> \o w
    BY <2>6, <2>7, <2>8
  <2>10. a \in Token /\ b \in Token
    BY <2>2
  <2>11. a = b /\ v = w
    BY ONLY <2>9, <2>10, FirstToken
  <2>12. x.t = y.t /\ (x.t \in {"number", "string"} => x = y)
    BY <2>1, <2>11, FirstTells
  <2>13. VecRest(x, f) \o s = VecRest(y, f) \o t
    BY <2>1, <2>8, <2>11
  <2>14. CASE x.t = "object"
    <3> DEFINE E == {FieldTokens(field, f) : field \in [key : KeySet, value : S]}
    <3>1. ReadableParts(E) /\ FieldsOf(x, f) \in Seq(E) /\ FieldsOf(y, f) \in Seq(E)
      <4>1. ReadableParts(E)
        BY FieldParts
      <4>2. y.t = "object"
        BY <2>12, <2>14
      <4>3. FieldsOf(x, f) \in Seq(E)
        BY ONLY x \in Level(S), <2>14, PartsOfLevel
      <4>4. FieldsOf(y, f) \in Seq(E)
        BY ONLY y \in Level(S), <4>2, PartsOfLevel
      <4> QED
        BY <4>1, <4>3, <4>4
    <3> HIDE DEF E
    <3>2. PICK p, q : p = FieldsOf(x, f) /\ q = FieldsOf(y, f)
      OBVIOUS
    <3>3. PICK closing : closing = <<"punct", "}">>
      OBVIOUS
    <3>4. closing \in Closing /\ p \in Seq(E) /\ q \in Seq(E)
      BY <3>1, <3>2, <3>3 DEF Closing
    <3>5. \A z, o \in Seq(Token) : Closed(p, closing) \o z = Closed(q, closing) \o o => p = q /\ z = o
      <4>1. ClosedRead(p, q, closing)
        BY ONLY <3>1, <3>4, ClosedIsReadable
      <4> QED
        BY <4>1, Zenon DEF ClosedRead
    <3>6. Closed(p, closing) \o s = Closed(q, closing) \o t
      BY <2>12, <2>13, <2>14, <3>2, <3>3 DEF VecRest
    <3>7. p = q /\ s = t
      BY <3>5, <3>6, Zenon
    <3> QED
      <4>1. FieldsOf(x, f) = FieldsOf(y, f)
        BY <3>2, <3>7
      <4>2. x = y
        BY <2>12, <2>14, <4>1, ListsTell
      <4> QED
        BY <3>7, <4>2
  <2>15. CASE x.t = "array"
    <3> DEFINE E == {f[z] : z \in S}
    <3>1. ReadableParts(E) /\ ItemsOf(x, f) \in Seq(E) /\ ItemsOf(y, f) \in Seq(E)
      <4>1. ReadableParts(E)
        BY ItemParts
      <4>2. y.t = "array"
        BY <2>12, <2>15
      <4>3. ItemsOf(x, f) \in Seq(E)
        BY ONLY x \in Level(S), <2>15, PartsOfLevel
      <4>4. ItemsOf(y, f) \in Seq(E)
        BY ONLY y \in Level(S), <4>2, PartsOfLevel
      <4> QED
        BY <4>1, <4>3, <4>4
    <3> HIDE DEF E
    <3>2. PICK p, q : p = ItemsOf(x, f) /\ q = ItemsOf(y, f)
      OBVIOUS
    <3>3. PICK closing : closing = <<"punct", "]">>
      OBVIOUS
    <3>4. closing \in Closing /\ p \in Seq(E) /\ q \in Seq(E)
      BY <3>1, <3>2, <3>3 DEF Closing
    <3>5. \A z, o \in Seq(Token) : Closed(p, closing) \o z = Closed(q, closing) \o o => p = q /\ z = o
      <4>1. ClosedRead(p, q, closing)
        BY ONLY <3>1, <3>4, ClosedIsReadable
      <4> QED
        BY <4>1, Zenon DEF ClosedRead
    <3>6. Closed(p, closing) \o s = Closed(q, closing) \o t
      BY <2>12, <2>13, <2>15, <3>2, <3>3 DEF VecRest
    <3>7. p = q /\ s = t
      BY <3>5, <3>6, Zenon
    <3> QED
      <4>1. ItemsOf(x, f) = ItemsOf(y, f)
        BY <3>2, <3>7
      <4>2. x = y
        BY <2>12, <2>15, <4>1, ListsTell
      <4> QED
        BY <3>7, <4>2
  <2>16. CASE x.t \in {"number", "string"}
    <3>1. r = <<>> /\ u = <<>>
      BY <2>1, <2>12, <2>16 DEF VecRest
    <3>2. r \o s = s /\ u \o t = t
      BY <3>1
    <3> QED
      BY <2>8, <2>11, <2>12, <2>16, <3>2
  <2> QED
    BY <2>14, <2>15, <2>16, LevelShape
<1> QED
  BY <1>1, <1>2 DEF Readable

\* Two values are written in the same tokens only if they are one.
LEMMA OneTextOneValue ==
    ASSUME NEW d \in 0 .. MaxDepth, NEW v \in Text[d], NEW w \in Text[d], VecTo[d][v] = VecTo[d][w]
    PROVE  v = w
<1> DEFINE Good == {n \in 0 .. MaxDepth : Readable(Text[n], VecTo[n])}
<1>1. 0 \in Good
  <2>1. Readable({}, VecTo[0])
    BY DEF Readable
  <2> QED
    BY <2>1, NoTextBelow, SizesAssumption
<1>2. ASSUME NEW n \in 1 .. MaxDepth, n - 1 \in Good
      PROVE  n \in Good
  <2>1. n \in 0 .. MaxDepth /\ n # 0
    BY SizesAssumption
  <2>2. Text[n] = Level(Text[n - 1])
    BY <2>1, TextTable
  <2>3. VecTo[n] = [x \in Text[n] |-> VecLevel(x, VecTo[n - 1])]
    BY <2>1, VecTable
  <2>4. \A x \in Level(Text[n - 1]) : VecTo[n][x] = VecLevel(x, VecTo[n - 1])
    BY <2>2, <2>3
  <2>5. Readable(Text[n - 1], VecTo[n - 1])
    BY <1>2
  <2>6. Readable(Level(Text[n - 1]), VecTo[n])
    BY ONLY <2>4, <2>5, LevelIsReadable
  <2> QED
    BY <2>1, <2>2, <2>6
<1>3. 0 .. MaxDepth \subseteq Good
  <2> HIDE DEF Good
  <2> QED
    BY <1>1, <1>2, EveryDepth, SizesAssumption
<1>4. Readable(Text[d], VecTo[d])
  BY <1>3
<1>5. <<>> \in Seq(Token) /\ VecTo[d][v] \o <<>> = VecTo[d][w] \o <<>>
  OBVIOUS
<1>6. \A s, t \in Seq(Token) : VecTo[d][v] \o s = VecTo[d][w] \o t => v = w /\ s = t
  BY <1>4, Zenon DEF Readable
<1> QED
  BY <1>5, <1>6, Zenon

-----------------------------------------------------------------------------
(* What is read from two values that are sorted into one *)

\* Values that differ at most in the order of keys.
Alike(d, v, w) == d \in 0 .. MaxDepth /\ v \in Text[d] /\ w \in Text[d] /\ SortTo[d][v] = SortTo[d][w]

\* What lies in them is alike.
LEMMA AlikeLevel ==
    ASSUME NEW d, NEW v, NEW w, Alike(d, v, w)
    PROVE  /\ v.t = w.t
           /\ v.t = "object" => /\ Keys(v) = Keys(w)
                                /\ \A k \in Keys(v) : Alike(d - 1, LastOf(v, k), LastOf(w, k))
           /\ v.t = "array" => /\ DOMAIN v.items = DOMAIN w.items
                               /\ \A i \in DOMAIN v.items : Alike(d - 1, v.items[i], w.items[i])
           /\ v.t \in {"number", "string"} => v = w
<1>1. d \in 0 .. MaxDepth /\ v \in Text[d] /\ w \in Text[d] /\ SortTo[d][v] = SortTo[d][w]
  BY DEF Alike
<1>2. PICK s : s = SortTo[d][v]
  OBVIOUS
<1>3. Mirrors(s, v, SortTo[d - 1]) /\ Mirrors(s, w, SortTo[d - 1])
  BY <1>1, <1>2, SortLevels
<1>4. d - 1 \in 0 .. MaxDepth
  BY <1>1, Inside
<1>5. v.t = w.t
  BY <1>3 DEF Mirrors
<1>6. CASE v.t = "object"
  <2>1. /\ Keys(v) = Keys(w)
        /\ \A k \in Keys(v) : SortTo[d - 1][LastOf(v, k)] = SortTo[d - 1][LastOf(w, k)]
    BY <1>3, <1>5, <1>6 DEF Mirrors
  <2>2. \A k \in Keys(v) : LastOf(v, k) \in Text[d - 1] /\ LastOf(w, k) \in Text[d - 1]
    BY <1>1, <1>5, <1>6, <2>1, Inside
  <2>3. \A k \in Keys(v) : Alike(d - 1, LastOf(v, k), LastOf(w, k))
    BY <1>4, <2>1, <2>2 DEF Alike
  <2> QED
    BY <1>5, <1>6, <2>1, <2>3
<1>7. CASE v.t = "array"
  <2>1. [i \in DOMAIN v.items |-> SortTo[d - 1][v.items[i]]] = [i \in DOMAIN w.items |-> SortTo[d - 1][w.items[i]]]
    BY <1>3, <1>5, <1>7 DEF Mirrors
  <2>2. /\ DOMAIN v.items = DOMAIN w.items
        /\ \A i \in DOMAIN v.items : SortTo[d - 1][v.items[i]] = SortTo[d - 1][w.items[i]]
    BY <2>1
  <2>3. \A i \in DOMAIN v.items : v.items[i] \in Text[d - 1] /\ w.items[i] \in Text[d - 1]
    BY <1>1, <1>5, <1>7, <2>2, Inside
  <2>4. \A i \in DOMAIN v.items : Alike(d - 1, v.items[i], w.items[i])
    BY <1>4, <2>2, <2>3 DEF Alike
  <2> QED
    BY <1>5, <1>7, <2>2, <2>4
<1>8. CASE v.t \in {"number", "string"}
  BY <1>3, <1>5, <1>8 DEF Mirrors
<1> QED
  BY <1>1, <1>5, <1>6, <1>7, <1>8, Inside

\* Numbers and strings that stand behind one key.
LEMMA AlikeField ==
    ASSUME NEW d, NEW v, NEW w, Alike(d, v, w), v.t = "object", NEW k \in Keys(v),
           Field(v, k).t \in {"number", "string"}
    PROVE  Field(v, k) = Field(w, k)
<1>1. Alike(d - 1, LastOf(v, k), LastOf(w, k))
  BY AlikeLevel
<1> QED
  BY <1>1, AlikeLevel DEF Field

\* An optional number is the same, or missing in both.
LEMMA AlikeOptional ==
    ASSUME NEW d, NEW v, NEW w, Alike(d, v, w), v.t = "object", NEW k, NEW default,
           \A f \in Optional(v, k) : f.t = "number"
    PROVE  Or(v, k, default) = Or(w, k, default)
<1>1. Keys(v) = Keys(w)
  BY AlikeLevel
<1>2. CASE k \in Keys(v)
  <2>1. Field(v, k).t = "number"
    BY <1>2 DEF Optional
  <2>2. Field(v, k) = Field(w, k)
    BY <1>2, <2>1, AlikeField
  <2> QED
    BY <1>1, <1>2, <2>2 DEF Or
<1>3. CASE k \notin Keys(v)
  BY <1>1, <1>3 DEF Or
<1> QED
  BY <1>2, <1>3

\* A list of objects that hold strings is the same.
LEMMA AlikeItems ==
    ASSUME NEW d, NEW v, NEW w, Alike(d, v, w), v.t = "array",
           \A i \in DOMAIN v.items : /\ v.items[i].t = "object"
                                     /\ \A k \in Keys(v.items[i]) : Field(v.items[i], k).t = "string"
    PROVE  Items(v) = Items(w)
<1>1. DOMAIN v.items = DOMAIN w.items /\ \A i \in DOMAIN v.items : Alike(d - 1, v.items[i], w.items[i])
  BY AlikeLevel
<1>2. ASSUME NEW i \in DOMAIN v.items
      PROVE  /\ Keys(v.items[i]) = Keys(w.items[i])
             /\ \A k \in Keys(v.items[i]) : Field(v.items[i], k) = Field(w.items[i], k)
  <2>1. Alike(d - 1, v.items[i], w.items[i]) /\ v.items[i].t = "object"
    BY <1>1
  <2> QED
    BY <2>1, AlikeLevel, AlikeField
<1>3. \A i \in DOMAIN v.items : [k \in Keys(v.items[i]) |-> Field(v.items[i], k).s]
                                = [k \in Keys(w.items[i]) |-> Field(w.items[i], k).s]
  BY <1>2
<1> QED
  BY <1>1, <1>3 DEF Items

\* The terms of two job specifications that are alike are the same.
LEMMA AlikeSpecs ==
    ASSUME NEW v, NEW w, Alike(MaxDepth, v, w), ValidateJobSpec(v)
    PROVE  FromValue("job_spec", v) = FromValue("job_spec", w)
<1>1. v.t = "object" /\ Keys(v) = {"acceptance", "artifact", "price"}
  BY DEF ValidateJobSpec, ObjectOf
<1>2. PICK acceptance, acceptanceW : acceptance = Field(v, "acceptance") /\ acceptanceW = Field(w, "acceptance")
  OBVIOUS
<1>3. PICK artifact, artifactW : artifact = Field(v, "artifact") /\ artifactW = Field(w, "artifact")
  OBVIOUS
<1>4. Alike(MaxDepth - 1, acceptance, acceptanceW) /\ Alike(MaxDepth - 1, artifact, artifactW)
  BY <1>1, <1>2, <1>3, AlikeLevel DEF Field
<1>5. Field(v, "price") = Field(w, "price")
  <2>1. Field(v, "price").t = "number"
    BY DEF ValidateJobSpec, IntegerFrom
  <2> QED
    BY <1>1, <2>1, AlikeField
<1>6. Items(acceptance) = Items(acceptanceW)
  <2>1. acceptance.t = "array" /\ \A i \in DOMAIN acceptance.items : CheckItem(acceptance.items[i])
    BY <1>2 DEF ValidateJobSpec, NonEmptyArray
  <2>2. \A i \in DOMAIN acceptance.items :
           /\ acceptance.items[i].t = "object"
           /\ \A k \in Keys(acceptance.items[i]) : Field(acceptance.items[i], k).t = "string"
    BY <2>1 DEF CheckItem, ObjectOf, IsString
  <2> QED
    BY <1>4, <2>1, <2>2, AlikeItems
<1>7. /\ artifact.t = "object" /\ "tolerance_um" \in Keys(artifact)
      /\ Field(artifact, "tolerance_um").t = "number"
      /\ \A q \in Optional(artifact, "quantity") : q.t = "number"
  BY <1>3 DEF ValidateJobSpec, ObjectOf, IntegerFrom
<1>8. Field(artifact, "tolerance_um") = Field(artifactW, "tolerance_um")
  BY <1>4, <1>7, AlikeField
<1>9. Or(artifact, "quantity", 1) = Or(artifactW, "quantity", 1)
  BY <1>4, <1>7, AlikeOptional
<1> QED
  BY <1>2, <1>3, <1>5, <1>6, <1>8, <1>9 DEF FromValue

\* And so is what two bundles of evidence say.
LEMMA AlikeEvidence ==
    ASSUME NEW v, NEW w, Alike(MaxDepth, v, w), ValidateEvidence(v)
    PROVE  FromValue("evidence", v) = FromValue("evidence", w)
<1>1. /\ v.t = "object" /\ {"results", "submitted_unix"} \subseteq Keys(v)
      /\ Keys(v) = Keys(w)
  BY AlikeLevel DEF ValidateEvidence, ObjectOf
<1>2. PICK results, resultsW : results = Field(v, "results") /\ resultsW = Field(w, "results")
  OBVIOUS
<1>3. Alike(MaxDepth - 1, results, resultsW)
  BY <1>1, <1>2, AlikeLevel DEF Field
<1>4. Items(results) = Items(resultsW)
  <2>1. results.t = "array" /\ \A i \in DOMAIN results.items : ResultItem(results.items[i])
    BY <1>2 DEF ValidateEvidence, NonEmptyArray
  <2>2. \A i \in DOMAIN results.items :
           /\ results.items[i].t = "object"
           /\ \A k \in Keys(results.items[i]) : Field(results.items[i], k).t = "string"
    BY <2>1 DEF ResultItem, ObjectOf, IsString
  <2> QED
    BY <1>3, <2>1, <2>2, AlikeItems
<1>5. Field(v, "submitted_unix") = Field(w, "submitted_unix")
  <2>1. Field(v, "submitted_unix").t = "number"
    BY DEF ValidateEvidence, IntegerFrom
  <2> QED
    BY <1>1, <2>1, AlikeField
<1>6. ASSUME NEW k \in {"delivered_unix", "deviation_um"}, NEW default
      PROVE  Or(Measurements(v), k, default) = Or(Measurements(w), k, default)
  <2>1. CASE "measurements" \in Keys(v)
    <3>1. PICK m, n : m = Field(v, "measurements") /\ n = Field(w, "measurements")
      OBVIOUS
    <3>2. Measurements(v) = m /\ Measurements(w) = n
      BY <1>1, <2>1, <3>1 DEF Measurements
    <3>3. Alike(MaxDepth - 1, m, n)
      BY <1>1, <2>1, <3>1, AlikeLevel DEF Field
    <3>4. m \in Optional(v, "measurements")
      BY <2>1, <3>1 DEF Optional
    <3>5. m.t = "object" /\ \A f \in Optional(m, k) : f.t = "number"
      BY <3>4 DEF ValidateEvidence, ObjectOf, IntegerFrom
    <3> QED
      BY <3>2, <3>3, <3>5, AlikeOptional
  <2>2. CASE "measurements" \notin Keys(v)
    BY <1>1, <2>2 DEF Measurements
  <2> QED
    BY <2>1, <2>2
<1> QED
  BY <1>2, <1>4, <1>5, <1>6 DEF FromValue

-----------------------------------------------------------------------------
(* A document that is admitted holds no number that is written as a float *)

Whole(d, v) == d \in 0 .. MaxDepth /\ v \in Text[d] /\ FloatsTo[d][v] = {}

\* A value is whole if all that counts in it is.
LEMMA WholeLevel ==
    ASSUME NEW d \in 0 .. MaxDepth, NEW v \in Text[d]
    PROVE  /\ v.t = "object" => ((\A k \in Keys(v) : Whole(d - 1, Field(v, k))) => Whole(d, v))
           /\ v.t = "array" => ((\A i \in DOMAIN v.items : Whole(d - 1, v.items[i])) => Whole(d, v))
           /\ v.t = "number" /\ v.form = "integer" => Whole(d, v)
           /\ v.t = "string" => Whole(d, v)
<1>1. FloatsTo[d][v] = FloatsLevel(v, FloatsTo[d - 1])
  BY FloatsTable
<1>2. ASSUME v.t = "object", \A k \in Keys(v) : Whole(d - 1, Field(v, k))
      PROVE  Whole(d, v)
  <2>1. \A k \in Keys(v) : FloatsTo[d - 1][LastOf(v, k)] = {}
    BY <1>2 DEF Whole, Field
  <2>2. FloatsLevel(v, FloatsTo[d - 1]) = {}
    BY <1>2, <2>1 DEF FloatsLevel
  <2> QED
    BY <1>1, <2>2 DEF Whole
<1>3. ASSUME v.t = "array", \A i \in DOMAIN v.items : Whole(d - 1, v.items[i])
      PROVE  Whole(d, v)
  <2>1. \A i \in DOMAIN v.items : FloatsTo[d - 1][v.items[i]] = {}
    BY <1>3 DEF Whole
  <2>2. FloatsLevel(v, FloatsTo[d - 1]) = {}
    BY <1>3, <2>1 DEF FloatsLevel
  <2> QED
    BY <1>1, <2>2 DEF Whole
<1>4. v.t = "number" /\ v.form = "integer" => Whole(d, v)
  BY <1>1 DEF Whole, FloatsLevel
<1>5. v.t = "string" => Whole(d, v)
  BY <1>1 DEF Whole, FloatsLevel
<1> QED
  BY <1>2, <1>3, <1>4, <1>5

\* A list of objects that hold strings is whole.
LEMMA WholeItems ==
    ASSUME NEW d \in 0 .. MaxDepth, NEW v \in Text[d], v.t = "array",
           \A i \in DOMAIN v.items : /\ v.items[i].t = "object"
                                     /\ \A k \in Keys(v.items[i]) : Field(v.items[i], k).t = "string"
    PROVE  Whole(d, v)
<1>1. ASSUME NEW i \in DOMAIN v.items
      PROVE  Whole(d - 1, v.items[i])
  <2>1. d - 1 \in 0 .. MaxDepth /\ v.items[i] \in Text[d - 1]
    BY Inside
  <2>2. ASSUME NEW k \in Keys(v.items[i])
        PROVE  Whole(d - 1 - 1, Field(v.items[i], k))
    <3>1. d - 1 - 1 \in 0 .. MaxDepth /\ Field(v.items[i], k) \in Text[d - 1 - 1]
      BY <2>1, Inside DEF Field
    <3>2. Field(v.items[i], k).t = "string"
      OBVIOUS
    <3> QED
      BY <3>1, <3>2, WholeLevel
  <2> QED
    BY <2>1, <2>2, WholeLevel
<1> QED
  BY <1>1, WholeLevel

\* A field that holds an integer is whole.
LEMMA WholeField ==
    ASSUME NEW d \in 0 .. MaxDepth, NEW v \in Text[d], v.t = "object", NEW k \in Keys(v),
           Field(v, k).t = "number", Field(v, k).form = "integer"
    PROVE  Whole(d - 1, Field(v, k))
<1>1. d - 1 \in 0 .. MaxDepth /\ Field(v, k) \in Text[d - 1]
  BY Inside DEF Field
<1> QED
  BY <1>1, WholeLevel

\* Of job specifications.
LEMMA WholeSpecs ==
    ASSUME NEW v \in Text[MaxDepth], ValidateJobSpec(v), Typed("job_spec", v)
    PROVE  Whole(MaxDepth, v)
<1>1. v.t = "object" /\ Keys(v) = {"acceptance", "artifact", "price"} /\ MaxDepth \in 0 .. MaxDepth
  BY SizesAssumption DEF ValidateJobSpec, ObjectOf
<1>2. PICK acceptance, artifact : acceptance = Field(v, "acceptance") /\ artifact = Field(v, "artifact")
  OBVIOUS
<1>3. /\ MaxDepth - 1 \in 0 .. MaxDepth
      /\ acceptance \in Text[MaxDepth - 1] /\ artifact \in Text[MaxDepth - 1]
  BY <1>1, <1>2, Inside DEF Field
<1>4. Whole(MaxDepth - 1, Field(v, "price"))
  <2>1. Field(v, "price").t = "number" /\ Field(v, "price").form = "integer"
    BY DEF ValidateJobSpec, IntegerFrom, Typed, Fits
  <2> QED
    BY <1>1, <2>1, WholeField
<1>5. Whole(MaxDepth - 1, acceptance)
  <2>1. acceptance.t = "array" /\ \A i \in DOMAIN acceptance.items : CheckItem(acceptance.items[i])
    BY <1>2 DEF ValidateJobSpec, NonEmptyArray
  <2>2. \A i \in DOMAIN acceptance.items :
           /\ acceptance.items[i].t = "object"
           /\ \A k \in Keys(acceptance.items[i]) : Field(acceptance.items[i], k).t = "string"
    BY <2>1 DEF CheckItem, ObjectOf, IsString
  <2> QED
    BY <1>3, <2>1, <2>2, WholeItems
<1>6. Whole(MaxDepth - 1, artifact)
  <2>1. /\ artifact.t = "object" /\ Keys(artifact) \subseteq {"tolerance_um", "quantity"}
        /\ Field(artifact, "tolerance_um").t = "number"
        /\ \A q \in Optional(artifact, "quantity") : q.t = "number"
    BY <1>2 DEF ValidateJobSpec, ObjectOf, IntegerFrom
  <2>2. /\ Field(artifact, "tolerance_um").form = "integer"
        /\ \A q \in Optional(artifact, "quantity") : q.form = "integer"
    BY <1>2 DEF Typed, Fits, FitsOptional
  <2>3. "quantity" \in Keys(artifact) => Field(artifact, "quantity") \in Optional(artifact, "quantity")
    BY DEF Optional
  <2>4. \A k \in Keys(artifact) : Field(artifact, k).t = "number" /\ Field(artifact, k).form = "integer"
    BY <2>1, <2>2, <2>3
  <2>5. \A k \in Keys(artifact) : Whole(MaxDepth - 1 - 1, Field(artifact, k))
    BY <1>3, <2>1, <2>4, WholeField
  <2> QED
    BY <1>3, <2>1, <2>5, WholeLevel
<1>7. \A k \in Keys(v) : Whole(MaxDepth - 1, Field(v, k))
  BY <1>1, <1>2, <1>4, <1>5, <1>6
<1> QED
  BY <1>1, <1>7, WholeLevel

\* And of evidence.
LEMMA WholeEvidence ==
    ASSUME NEW v \in Text[MaxDepth], ValidateEvidence(v), Typed("evidence", v)
    PROVE  Whole(MaxDepth, v)
<1>1. /\ v.t = "object" /\ {"results", "submitted_unix"} \subseteq Keys(v)
      /\ Keys(v) \subseteq {"results", "submitted_unix", "measurements"}
      /\ MaxDepth \in 0 .. MaxDepth
  BY SizesAssumption DEF ValidateEvidence, ObjectOf
<1>2. PICK results : results = Field(v, "results")
  OBVIOUS
<1>3. Whole(MaxDepth - 1, Field(v, "submitted_unix"))
  <2>1. Field(v, "submitted_unix").t = "number" /\ Field(v, "submitted_unix").form = "integer"
    BY DEF ValidateEvidence, IntegerFrom, Typed, Fits
  <2> QED
    BY <1>1, <2>1, WholeField
<1>4. Whole(MaxDepth - 1, results)
  <2>1. results.t = "array" /\ \A i \in DOMAIN results.items : ResultItem(results.items[i])
    BY <1>2 DEF ValidateEvidence, NonEmptyArray
  <2>2. \A i \in DOMAIN results.items :
           /\ results.items[i].t = "object"
           /\ \A k \in Keys(results.items[i]) : Field(results.items[i], k).t = "string"
    BY <2>1 DEF ResultItem, ObjectOf, IsString
  <2>3. MaxDepth - 1 \in 0 .. MaxDepth /\ results \in Text[MaxDepth - 1]
    BY <1>1, <1>2, Inside DEF Field
  <2> QED
    BY <2>1, <2>2, <2>3, WholeItems
<1>5. ASSUME "measurements" \in Keys(v)
      PROVE  Whole(MaxDepth - 1, Field(v, "measurements"))
  <2>1. PICK m : m = Field(v, "measurements")
    OBVIOUS
  <2>2. Measurements(v) = m /\ m \in Optional(v, "measurements")
    BY <1>5, <2>1 DEF Measurements, Optional
  <2>3. MaxDepth - 1 \in 0 .. MaxDepth /\ m \in Text[MaxDepth - 1]
    BY <1>1, <1>5, <2>1, Inside DEF Field
  <2>4. /\ m.t = "object" /\ Keys(m) \subseteq {"delivered_unix", "deviation_um"}
        /\ \A k \in Keys(m) : \A f \in Optional(m, k) : f.t = "number"
    BY <2>2 DEF ValidateEvidence, ObjectOf, IntegerFrom
  <2>5. \A k \in Keys(m) : \A f \in Optional(m, k) : f.form = "integer"
    BY <2>2, <2>4 DEF Typed, Fits, FitsOptional
  <2>6. \A k \in Keys(m) : Field(m, k) \in Optional(m, k)
    BY DEF Optional
  <2>7. \A k \in Keys(m) : Field(m, k).t = "number" /\ Field(m, k).form = "integer"
    BY <2>4, <2>5, <2>6
  <2>8. \A k \in Keys(m) : Whole(MaxDepth - 1 - 1, Field(m, k))
    BY <2>3, <2>4, <2>7, WholeField
  <2> QED
    BY <2>1, <2>3, <2>4, <2>8, WholeLevel
<1>6. \A k \in Keys(v) : Whole(MaxDepth - 1, Field(v, k))
  BY <1>1, <1>2, <1>3, <1>4, <1>5
<1> QED
  BY <1>1, <1>6, WholeLevel

-----------------------------------------------------------------------------
(* Editing leaves texts texts *)

\* Items of a sequence may change places, and leave it.
LEMMA SwappedAndRemoved ==
    ASSUME NEW R, NEW s \in Seq(R)
    PROVE  /\ \A i \in 1 .. Len(s) - 1 : Swapped(s, i) \in Seq(R)
           /\ \A i \in DOMAIN s : RemoveAt(s, i) \in Seq(R)
<1>1. Len(s) \in Nat /\ DOMAIN s = 1 .. Len(s) /\ \A i \in 1 .. Len(s) : s[i] \in R
  BY LenProperties, ElementOfSeq
<1>2. ASSUME NEW i \in 1 .. Len(s) - 1
      PROVE  Swapped(s, i) \in Seq(R)
  <2>1. i \in 1 .. Len(s) /\ i + 1 \in 1 .. Len(s)
    BY <1>1
  <2>2. s \in [1 .. Len(s) -> R]
    BY <1>1
  <2>3. PICK a, b : a = s[i] /\ b = s[i + 1]
    OBVIOUS
  <2>4. a \in R /\ b \in R
    BY <1>1, <2>1, <2>3
  <2>5. [s EXCEPT ![i] = b] \in [1 .. Len(s) -> R]
    BY <2>2, <2>4
  <2>6. [s EXCEPT ![i] = b, ![i + 1] = a] \in [1 .. Len(s) -> R]
    BY <2>2, <2>4
  <2>7. Swapped(s, i) = [s EXCEPT ![i] = b, ![i + 1] = a]
    BY <2>3 DEF Swapped
  <2> QED
    BY <1>1, <2>6, <2>7, FunctionIsSeq
<1>3. ASSUME NEW i \in DOMAIN s
      PROVE  RemoveAt(s, i) \in Seq(R)
  <2>1. i \in 1 .. Len(s)
    BY <1>1
  <2>2. SubSeq(s, 1, i - 1) \in Seq(R) /\ SubSeq(s, i + 1, Len(s)) \in Seq(R)
    <3>1. \A j \in 1 .. i - 1 : j \in 1 .. Len(s)
      BY <1>1, <2>1
    <3>2. \A j \in i + 1 .. Len(s) : j \in 1 .. Len(s)
      BY <1>1, <2>1
    <3> QED
      BY <1>1, <2>1, <3>1, <3>2, SubSeqProperties
  <2> QED
    BY <2>2, ConcatProperties DEF RemoveAt
<1> QED
  BY <1>2, <1>3

\* An edit of a level is one again, if the edits of what lies in it are.
LEMMA LevelEdits ==
    ASSUME NEW S, NEW inner, S = {} \/ Leaf \subseteq S, \A x \in S : inner[x] \subseteq S,
           NEW v \in Level(S), NEW e \in EditsLevel(v, inner)
    PROVE  e \in Level(S)
<1> DEFINE F == [key : KeySet, value : S]
<1>1. Others \subseteq Int
  BY SizesAssumption
<1>2. CASE v.t = "object"
  <2>1. v.fields \in Seq(F)
    BY <1>2, LevelShape
  <2>2. Len(v.fields) \in Nat /\ DOMAIN v.fields = 1 .. Len(v.fields) /\ \A i \in DOMAIN v.fields : v.fields[i] \in F
    BY <2>1, LenProperties, ElementOfSeq
  <2>3. \/ \E i \in 1 .. Len(v.fields) - 1 : e = Obj(Swapped(v.fields, i))
        \/ \E i \in DOMAIN v.fields, n \in Others :
              e = Obj(<<[v.fields[i] EXCEPT !.value = Num(n, "integer")]>> \o v.fields)
        \/ \E i \in DOMAIN v.fields : e = Obj(RemoveAt(v.fields, i))
        \/ \E i \in DOMAIN v.fields : \E x \in inner[v.fields[i].value] :
              e = Obj([v.fields EXCEPT ![i] = [v.fields[i] EXCEPT !.value = x]])
    <3> DEFINE Deeper(i) == {Obj([v.fields EXCEPT ![i] = [v.fields[i] EXCEPT !.value = x]]) :
                                x \in inner[v.fields[i].value]}
    <3>1. e \in ReencodeHere(v) \/ e \in AlterHere(v) \/ e \in UNION {Deeper(i) : i \in DOMAIN v.fields}
      BY <1>2 DEF EditsLevel
    <3>2. CASE e \in ReencodeHere(v)
      <4> DEFINE Early(i, n) == Obj(<<[v.fields[i] EXCEPT !.value = Num(n, "integer")]>> \o v.fields)
                 Swap(i) == Obj(Swapped(v.fields, i))
      <4>1. ReencodeHere(v) = {Swap(i) : i \in 1 .. Len(v.fields) - 1}
                              \cup {Early(i, n) : i \in DOMAIN v.fields, n \in Others}
        BY <1>2 DEF ReencodeHere
      <4> HIDE DEF Early, Swap
      <4>2. \/ \E i \in 1 .. Len(v.fields) - 1 : e = Swap(i)
            \/ \E i \in DOMAIN v.fields, n \in Others : e = Early(i, n)
        BY <3>2, <4>1
      <4> QED
        BY <4>2 DEF Early, Swap
    <3>3. CASE e \in AlterHere(v)
      BY <1>2, <3>3 DEF AlterHere
    <3>4. CASE e \in UNION {Deeper(i) : i \in DOMAIN v.fields}
      <4>1. PICK i \in DOMAIN v.fields : e \in Deeper(i)
        BY <3>4
      <4> QED
        BY <4>1
    <3> HIDE DEF Deeper
    <3> QED
      BY <3>1, <3>2, <3>3, <3>4
  <2>4. \A i \in DOMAIN v.fields : \A x \in S : [v.fields[i] EXCEPT !.value = x] \in F
    BY <2>2
  <2> HIDE DEF F
  <2>5. CASE \E i \in 1 .. Len(v.fields) - 1 : e = Obj(Swapped(v.fields, i))
    BY <2>1, <2>5, SwappedAndRemoved, LevelMembers DEF F
  <2>6. CASE \E i \in DOMAIN v.fields, n \in Others :
                e = Obj(<<[v.fields[i] EXCEPT !.value = Num(n, "integer")]>> \o v.fields)
    <3>1. PICK i \in DOMAIN v.fields, n \in Others :
             e = Obj(<<[v.fields[i] EXCEPT !.value = Num(n, "integer")]>> \o v.fields)
      BY <2>6
    <3>2. v.fields[i].value \in S
      BY <2>2 DEF F
    <3>3. Num(n, "integer") \in Leaf
      BY <1>1 DEF Num, Leaf
    <3>4. Num(n, "integer") \in S
      BY <3>2, <3>3
    <3>5. PICK field : field = [v.fields[i] EXCEPT !.value = Num(n, "integer")]
      OBVIOUS
    <3>6. field \in F
      BY <2>4, <3>4, <3>5
    <3>7. <<field>> \in Seq(F)
      BY <3>6
    <3>8. <<field>> \o v.fields \in Seq(F)
      BY <2>1, <3>7, ConcatProperties
    <3> QED
      BY <3>1, <3>5, <3>8, LevelMembers DEF F
  <2>7. CASE \E i \in DOMAIN v.fields : e = Obj(RemoveAt(v.fields, i))
    BY <2>1, <2>7, SwappedAndRemoved, LevelMembers DEF F
  <2>8. CASE \E i \in DOMAIN v.fields : \E x \in inner[v.fields[i].value] :
                e = Obj([v.fields EXCEPT ![i] = [v.fields[i] EXCEPT !.value = x]])
    <3>1. PICK i \in DOMAIN v.fields : \E x \in inner[v.fields[i].value] :
             e = Obj([v.fields EXCEPT ![i] = [v.fields[i] EXCEPT !.value = x]])
      BY <2>8
    <3>2. PICK x \in inner[v.fields[i].value] :
             e = Obj([v.fields EXCEPT ![i] = [v.fields[i] EXCEPT !.value = x]])
      BY <3>1
    <3>3. v.fields[i].value \in S
      BY <2>2 DEF F
    <3>4. x \in S
      BY <3>3
    <3>5. PICK field : field = [v.fields[i] EXCEPT !.value = x]
      OBVIOUS
    <3>6. field \in F
      BY <2>4, <3>4, <3>5
    <3>7. [v.fields EXCEPT ![i] = field] \in Seq(F)
      BY <2>1, <3>6, ExceptSeq
    <3> QED
      BY <3>2, <3>5, <3>7, LevelMembers DEF F
  <2> QED
    BY <2>3, <2>5, <2>6, <2>7, <2>8
<1>3. CASE v.t = "array"
  <2>1. v.items \in Seq(S)
    BY <1>3, LevelShape
  <2>2. Len(v.items) \in Nat /\ DOMAIN v.items = 1 .. Len(v.items) /\ \A i \in DOMAIN v.items : v.items[i] \in S
    BY <2>1, LenProperties, ElementOfSeq
  <2>3. \/ \E i \in 1 .. Len(v.items) - 1 : e = Arr(Swapped(v.items, i))
        \/ \E i \in DOMAIN v.items : e = Arr(RemoveAt(v.items, i))
        \/ \E i \in DOMAIN v.items : \E x \in inner[v.items[i]] : e = Arr([v.items EXCEPT ![i] = x])
    <3> DEFINE Deeper(i) == {Arr([v.items EXCEPT ![i] = x]) : x \in inner[v.items[i]]}
    <3>1. e \in AlterHere(v) \/ e \in UNION {Deeper(i) : i \in DOMAIN v.items}
      BY <1>3 DEF EditsLevel, ReencodeHere
    <3>2. CASE e \in AlterHere(v)
      BY <1>3, <3>2 DEF AlterHere
    <3>3. CASE e \in UNION {Deeper(i) : i \in DOMAIN v.items}
      <4>1. PICK i \in DOMAIN v.items : e \in Deeper(i)
        BY <3>3
      <4> QED
        BY <4>1
    <3> HIDE DEF Deeper
    <3> QED
      BY <3>1, <3>2, <3>3
  <2>4. CASE \E i \in 1 .. Len(v.items) - 1 : e = Arr(Swapped(v.items, i))
    BY <2>1, <2>4, SwappedAndRemoved, LevelMembers
  <2>5. CASE \E i \in DOMAIN v.items : e = Arr(RemoveAt(v.items, i))
    BY <2>1, <2>5, SwappedAndRemoved, LevelMembers
  <2>6. CASE \E i \in DOMAIN v.items : \E x \in inner[v.items[i]] : e = Arr([v.items EXCEPT ![i] = x])
    <3>1. PICK i \in DOMAIN v.items : \E x \in inner[v.items[i]] : e = Arr([v.items EXCEPT ![i] = x])
      BY <2>6
    <3>2. PICK x \in inner[v.items[i]] : e = Arr([v.items EXCEPT ![i] = x])
      BY <3>1
    <3>3. x \in S
      BY <2>2
    <3>4. [v.items EXCEPT ![i] = x] \in Seq(S)
      BY <2>1, <3>3, ExceptSeq
    <3> QED
      BY <3>2, <3>4, LevelMembers
  <2> QED
    BY <2>3, <2>4, <2>5, <2>6
<1>4. CASE v.t = "number"
  <2>1. v.n \in Int
    BY <1>4, LevelShape
  <2>2. e = Num(v.n, "float") \/ \E n \in Others : e = Num(n, "integer")
    BY <1>4 DEF EditsLevel, ReencodeHere, AlterHere
  <2> QED
    BY <1>1, <2>1, <2>2, LevelMembers
<1>5. CASE v.t = "string"
  BY <1>5 DEF EditsLevel, ReencodeHere, AlterHere
<1> QED
  BY <1>2, <1>3, <1>4, <1>5, LevelShape

\* A text is edited into texts.
LEMMA EditsAreTexts ==
    ASSUME NEW d \in 0 .. MaxDepth, NEW v \in Text[d]
    PROVE  EditsTo[d][v] \subseteq Text[d]
<1> DEFINE Good == {n \in 0 .. MaxDepth : \A x \in Text[n] : EditsTo[n][x] \subseteq Text[n]}
<1>1. 0 \in Good
  BY NoTextBelow, SizesAssumption
<1>2. ASSUME NEW n \in 1 .. MaxDepth, n - 1 \in Good
      PROVE  n \in Good
  <2> SUFFICES ASSUME NEW x \in Text[n], NEW e \in EditsTo[n][x]
               PROVE  e \in Text[n]
    BY SizesAssumption
  <2>1. n \in 0 .. MaxDepth /\ n # 0 /\ n - 1 \in 0 .. MaxDepth
    BY SizesAssumption
  <2>2. Text[n] = Level(Text[n - 1])
    BY <2>1, TextTable
  <2>3. EditsTo[n][x] = EditsLevel(x, EditsTo[n - 1])
    BY <2>1, EditsTable
  <2>4. Text[n - 1] = {} \/ Leaf \subseteq Text[n - 1]
    <3>1. CASE n - 1 = 0
      BY <3>1, NoTextBelow
    <3>2. CASE n - 1 # 0
      <4>1. Text[n - 1] = Level(Text[n - 1 - 1])
        BY <2>1, <3>2, TextTable
      <4> QED
        BY <4>1 DEF Level
    <3> QED
      BY <3>1, <3>2
  <2>5. \A y \in Text[n - 1] : EditsTo[n - 1][y] \subseteq Text[n - 1]
    BY <1>2
  <2> HIDE DEF Good
  <2>6. PICK S, inner : S = Text[n - 1] /\ inner = EditsTo[n - 1]
    OBVIOUS
  <2>7. S = {} \/ Leaf \subseteq S
    BY <2>4, <2>6
  <2>8. \A y \in S : inner[y] \subseteq S
    BY <2>5, <2>6
  <2>9. x \in Level(S) /\ e \in EditsLevel(x, inner)
    BY <2>2, <2>3, <2>6
  <2>10. e \in Level(S)
    BY ONLY <2>7, <2>8, <2>9, LevelEdits
  <2> QED
    BY <2>2, <2>6, <2>10
<1>3. 0 .. MaxDepth \subseteq Good
  <2> HIDE DEF Good
  <2> QED
    BY <1>1, <1>2, EveryDepth, SizesAssumption
<1> QED
  BY <1>3

-----------------------------------------------------------------------------
(* The theorems *)

\* Both sides are texts of one kind of document, however often they are edited.
BothAreTexts ==
    kind \in {"job_spec", "evidence"} /\ left \in Text[MaxDepth] /\ right \in Text[MaxDepth]

\* Somebody who writes a document another way writes one that serde_json takes.
THEOREM TextsStayTexts == Spec => []BothAreTexts
<1>1. Init => BothAreTexts
  BY BasesAssumption DEF Init, BothAreTexts
<1>2. BothAreTexts /\ [Next]_vars => BothAreTexts'
  <2> SUFFICES ASSUME BothAreTexts, [Next]_vars
               PROVE  BothAreTexts'
    OBVIOUS
  <2>1. \A v \in Text[MaxDepth] : Edits(v) \subseteq Text[MaxDepth]
    <3>1. MaxDepth \in 0 .. MaxDepth
      BY SizesAssumption
    <3> QED
      BY <3>1, EditsAreTexts DEF Edits
  <2>2. CASE EditLeft /\ UNCHANGED kind
    BY <2>1, <2>2 DEF EditLeft, Edit, BothAreTexts
  <2>3. CASE EditRight /\ UNCHANGED kind
    BY <2>1, <2>3 DEF EditRight, Edit, BothAreTexts
  <2>4. CASE UNCHANGED vars
    BY <2>4 DEF vars, BothAreTexts
  <2> QED
    BY <2>2, <2>3, <2>4 DEF Next
<1> QED
  BY <1>1, <1>2, PTL DEF Spec

\* What is admitted is validated, and whole.
LEMMA AdmittedIsWhole ==
    ASSUME NEW k \in {"job_spec", "evidence"}, NEW text \in Text[MaxDepth], Admitted(k, text)
    PROVE  /\ Parse(text) \in Text[MaxDepth]
           /\ Validate(k, Parse(text))
           /\ FloatsTo[MaxDepth][Parse(text)] = {}
           /\ ContentTo[MaxDepth][Parse(text)] = Content(text)
<1>1. MaxDepth \in 0 .. MaxDepth
  BY SizesAssumption
<1>2. PICK v : v = Parse(text)
  OBVIOUS
<1>3. v \in Text[MaxDepth] /\ ContentTo[MaxDepth][v] = Content(text)
  BY <1>1, <1>2, ParseLevels, ParseKeepsContent DEF Parse, Content
<1>4. Validate(k, v) /\ Typed(k, v)
  BY <1>2 DEF Admitted
<1>5. Whole(MaxDepth, v)
  <2>1. CASE k = "job_spec"
    BY <1>3, <1>4, <2>1, WholeSpecs DEF Validate
  <2>2. CASE k = "evidence"
    BY <1>3, <1>4, <2>2, WholeEvidence DEF Validate
  <2> QED
    BY <2>1, <2>2
<1> QED
  BY <1>2, <1>3, <1>4, <1>5 DEF Whole

\* Two texts that are admitted and say the same have one hash: whatever the order
\* of their keys, the values of a key that comes again, and their depth.
THEOREM SameDocumentSameHashTheorem == Spec => []SameDocumentSameHash
<1>1. BothAreTexts => SameDocumentSameHash
  <2> SUFFICES ASSUME BothAreTexts, BothAdmitted, Content(left) = Content(right)
               PROVE  Hash(Parse(left)) = Hash(Parse(right))
    BY DEF SameDocumentSameHash
  <2>1. MaxDepth \in 0 .. MaxDepth
    BY SizesAssumption
  <2>2. PICK v, w : v = Parse(left) /\ w = Parse(right)
    OBVIOUS
  <2>3. /\ v \in Text[MaxDepth] /\ FloatsTo[MaxDepth][v] = {}
        /\ ContentTo[MaxDepth][v] = Content(left)
    BY <2>2, AdmittedIsWhole DEF BothAreTexts, BothAdmitted
  <2>4. /\ w \in Text[MaxDepth] /\ FloatsTo[MaxDepth][w] = {}
        /\ ContentTo[MaxDepth][w] = Content(right)
    BY <2>2, AdmittedIsWhole DEF BothAreTexts, BothAdmitted
  <2>5. SortTo[MaxDepth][v] = SortTo[MaxDepth][w]
    BY <2>1, <2>3, <2>4, OneContentOneSorted
  <2> QED
    BY <2>2, <2>5 DEF Hash, SortKeys
<1> QED
  BY <1>1, TextsStayTexts, PTL

\* Two texts that are admitted and have one hash say the same, and the terms that
\* are read from them are the same.
THEOREM HashDecidesTermsTheorem == Spec => []HashDecidesTerms
<1>1. BothAreTexts => HashDecidesTerms
  <2> SUFFICES ASSUME BothAreTexts, BothAdmitted, Hash(Parse(left)) = Hash(Parse(right))
               PROVE  /\ Content(left) = Content(right)
                      /\ FromValue(kind, Parse(left)) = FromValue(kind, Parse(right))
    BY DEF HashDecidesTerms
  <2>1. MaxDepth \in 0 .. MaxDepth
    BY SizesAssumption
  <2>2. PICK v, w : v = Parse(left) /\ w = Parse(right)
    OBVIOUS
  <2>3. v \in Text[MaxDepth] /\ Validate(kind, v) /\ ContentTo[MaxDepth][v] = Content(left)
    BY <2>2, AdmittedIsWhole DEF BothAreTexts, BothAdmitted
  <2>4. w \in Text[MaxDepth] /\ ContentTo[MaxDepth][w] = Content(right)
    BY <2>2, AdmittedIsWhole DEF BothAreTexts, BothAdmitted
  <2>5. SortTo[MaxDepth][v] = SortTo[MaxDepth][w]
    <3>1. VecTo[MaxDepth][SortTo[MaxDepth][v]] = VecTo[MaxDepth][SortTo[MaxDepth][w]]
      BY <2>2 DEF Hash, ToVec, SortKeys
    <3>2. SortTo[MaxDepth][v] \in Text[MaxDepth] /\ SortTo[MaxDepth][w] \in Text[MaxDepth]
      BY <2>1, <2>3, <2>4, SortLevels
    <3> QED
      BY <2>1, <3>1, <3>2, OneTextOneValue
  <2>6. ContentTo[MaxDepth][v] = ContentTo[MaxDepth][w]
    BY <2>1, <2>3, <2>4, <2>5, OneSortedOneContent
  <2>7. Alike(MaxDepth, v, w)
    BY <2>1, <2>3, <2>4, <2>5 DEF Alike
  <2>8. FromValue(kind, v) = FromValue(kind, w)
    <3>1. CASE kind = "job_spec"
      BY <2>3, <2>7, <3>1, AlikeSpecs DEF Validate
    <3>2. CASE kind = "evidence"
      BY <2>3, <2>7, <3>2, AlikeEvidence DEF Validate
    <3> QED
      BY <3>1, <3>2 DEF BothAreTexts
  <2> QED
    BY <2>2, <2>3, <2>4, <2>6, <2>8
<1> QED
  BY <1>1, TextsStayTexts, PTL
=============================================================================
