---------------------------- MODULE TstatModelProofs ----------------------------
(***************************************************************************)
(* Proofs about what crosses the serial line as JSON: the model that       *)
(* TstatModel sends and takes over, for all temperatures and all texts     *)
(* that others may send; and the text itself, JsonText, for all keys,      *)
(* strings and numbers, every number of tokens and every depth of levels.  *)
(***************************************************************************)
EXTENDS TstatModel, JsonText, TLAPS, WellFoundedInduction, SequenceTheorems

Model ==
  [ambient : Int, cool_setpoint : Int, heat_setpoint : Int,
   relay_y : BOOLEAN, relay_w : BOOLEAN, system_mode : {OFF, COOL, HEAT}]
Tokens == [type : STRING, prefixOf : SUBSET STRING, number : Int]
Loaded == [ok : BOOLEAN, model : Model]

\* What a round knows of the copy; others may have written to the original.
CopyHeld ==
  /\ model \in Model /\ remote \in Model
  /\ round = "decided" => model = Decided(model)
  /\ ~touched => /\ round = "pulled" => model = remote
                 /\ round = "decided" => model = Decided(remote)

-------------------------------------------------------------------------------
(* Induction, from the least number that is not in the set.                *)

Less == {p \in Nat \X Nat : p[1] < p[2]}

LEMMA Induction ==
  ASSUME NEW S, 0 \in S, \A n \in Nat : n \in S => n + 1 \in S
  PROVE  Nat \subseteq S
<1> SUFFICES ASSUME Nat \ S # {} PROVE FALSE
  OBVIOUS
<1>1. IsWellFoundedOn(Less, Nat)
  BY NatLessThanWellFounded, Zenon DEF OpToRel, Less
<1>2. PICK n \in Nat \ S : \A m \in Nat \ S : ~(<<m, n>> \in Less)
  <2> DEFINE T == Nat \ S
  <2>1. T \subseteq Nat /\ T # {}
    OBVIOUS
  <2> HIDE DEF T
  <2>2. \E n \in T : \A m \in T : ~(<<m, n>> \in Less)
    BY <1>1, <2>1, WFMin, Zenon
  <2> QED
    BY <2>2 DEF T
<1>3. n # 0 /\ n - 1 \in Nat
  OBVIOUS
<1>4. n - 1 \in S
  <2>1. \A m \in Nat : m < n => <<m, n>> \in Less
    BY DEF Less
  <2>2. \A m \in Nat : m < n => m \in S
    BY <1>2, <2>1
  <2> QED
    BY <1>3, <2>2
<1>5. n - 1 + 1 \in S
  BY <1>3, <1>4
<1> QED
  BY <1>5

-------------------------------------------------------------------------------
(* The loop over the pairs: what LoadPairs gives is the last of a series   *)
(* that each turn continues.                                               *)

Start(m) == [ok |-> TRUE, model |-> m]
Turn(prev, text, i) ==
  IF prev.ok THEN Update(prev.model, text[2 * i], text[2 * i + 1]) ELSE prev
Series(f, m, text, n) ==
  f = [i \in 0 .. n |-> IF i = 0 THEN Start(m) ELSE Turn(f[i - 1], text, i)]

LEMMA SeriesExists ==
  ASSUME NEW m, NEW text
  PROVE  \A n \in Nat : \E f : Series(f, m, text, n)
<1> DEFINE S == {n \in Nat : \E f : Series(f, m, text, n)}
<1>1. 0 \in S
  <2>1. Series([i \in 0 .. 0 |-> Start(m)], m, text, 0)
    BY DEF Series
  <2> QED
    BY <2>1
<1>2. ASSUME NEW n \in Nat, n \in S
      PROVE  n + 1 \in S
  <2>1. PICK f : Series(f, m, text, n)
    BY <1>2
  <2> DEFINE g == [i \in 0 .. n + 1 |-> IF i = n + 1 THEN Turn(f[n], text, i) ELSE f[i]]
  <2>2. DOMAIN g = 0 .. n + 1 /\ \A i \in 0 .. n + 1 : i # n + 1 => g[i] = f[i]
    OBVIOUS
  <2>3. \A i \in 0 .. n : f[i] = IF i = 0 THEN Start(m) ELSE Turn(f[i - 1], text, i)
    BY <2>1 DEF Series
  <2>4. g[n + 1] = Turn(f[n], text, n + 1)
    OBVIOUS
  <2>5. \A i \in 0 .. n + 1 : g[i] = IF i = 0 THEN Start(m) ELSE Turn(g[i - 1], text, i)
    <3> SUFFICES ASSUME NEW i \in 0 .. n + 1
                 PROVE  g[i] = IF i = 0 THEN Start(m) ELSE Turn(g[i - 1], text, i)
      OBVIOUS
    <3> HIDE DEF g
    <3>1. CASE i = n + 1
      <4>1. g[i - 1] = f[n] /\ i # 0
        BY <2>2, <3>1
      <4> QED
        BY <2>4, <3>1, <4>1
    <3>2. CASE i # n + 1
      <4>1. i \in 0 .. n /\ g[i] = f[i] /\ (i # 0 => i - 1 \in 0 .. n + 1 /\ g[i - 1] = f[i - 1])
        BY <2>2, <3>2
      <4> QED
        BY <2>3, <4>1
    <3> QED
      BY <3>1, <3>2
  <2>6. Series(g, m, text, n + 1)
    <3>1. g = [i \in 0 .. n + 1 |-> g[i]]
      BY <2>2
    <3> HIDE DEF g
    <3>2. [i \in 0 .. n + 1 |-> g[i]]
            = [i \in 0 .. n + 1 |-> IF i = 0 THEN Start(m) ELSE Turn(g[i - 1], text, i)]
      BY <2>5
    <3> QED
      BY <3>1, <3>2 DEF Series
  <2> QED
    BY <2>6
<1> HIDE DEF S
<1>3. Nat \subseteq S
  BY <1>1, <1>2, Induction
<1> QED
  BY <1>3 DEF S

LEMMA PairsLoaded ==
  ASSUME NEW m, NEW text, NEW n \in Nat
  PROVE  \E f : /\ LoadPairs(m, text, n) = f[n]
                /\ f[0] = Start(m)
                /\ \A i \in 1 .. n : f[i] = Turn(f[i - 1], text, i)
<1> DEFINE f == CHOOSE f : Series(f, m, text, n)
<1>1. Series(f, m, text, n)
  BY SeriesExists
<1>2. LoadPairs(m, text, n) = f[n]
  BY DEF LoadPairs, Series, Start, Turn
<1> HIDE DEF f
<1>3. f[0] = Start(m) /\ \A i \in 1 .. n : f[i] = Turn(f[i - 1], text, i)
  BY <1>1 DEF Series
<1> QED
  BY <1>2, <1>3
-------------------------------------------------------------------------------
(* What one pair does. *)

LEMMA TwoModels ==
  ASSUME NEW a \in Model, NEW b \in Model, \A k \in DOMAIN Fields : a[Fields[k]] = b[Fields[k]]
  PROVE  a = b
<1>1. \A k \in 1 .. 6 : a[Fields[k]] = b[Fields[k]]
  BY DEF Fields
<1>2. /\ a.ambient = b.ambient /\ a.cool_setpoint = b.cool_setpoint
      /\ a.heat_setpoint = b.heat_setpoint /\ a.relay_y = b.relay_y
      /\ a.relay_w = b.relay_w /\ a.system_mode = b.system_mode
  BY <1>1 DEF Fields
<1> QED
  BY <1>2 DEF Model

LEMMA MatchTyped ==
  ASSUME NEW words, NEW n \in Nat, DOMAIN words = 1 .. n, NEW token
  PROVE  LET k == FirstMatch(words, token)
         IN  k = 0 \/ (k \in 1 .. n /\ words[k] \in token.prefixOf)
<1> DEFINE hits == {k \in DOMAIN words : words[k] \in token.prefixOf}
<1>1. CASE hits = {}
  BY <1>1 DEF FirstMatch
<1>2. CASE hits # {}
  <2>1. hits \subseteq Nat
    OBVIOUS
  <2>2. \E k \in hits : \A j \in hits : k <= j
    <3> HIDE DEF hits
    <3>1. IsWellFoundedOn(Less, Nat)
      BY NatLessThanWellFounded, Zenon DEF OpToRel, Less
    <3>2. PICK k \in hits : \A j \in hits : ~(<<j, k>> \in Less)
      BY <1>2, <2>1, <3>1, WFMin, Zenon
    <3>3. \A j \in Nat : j < k => <<j, k>> \in Less
      BY <2>1 DEF Less
    <3>4. \A j \in hits : ~(j < k)
      BY <2>1, <3>2, <3>3
    <3> QED
      BY <2>1, <3>4
  <2>3. FirstMatch(words, token) \in hits
    BY <1>2, <2>2 DEF FirstMatch
  <2> QED
    BY <2>1, <2>3
<1> QED
  BY <1>1, <1>2

LEMMA Named ==
  /\ DOMAIN Fields = 1 .. 6 /\ DOMAIN Modes = 1 .. 3
  /\ \A k \in 1 .. 3 : Modes[k] \in {OFF, COOL, HEAT}
  /\ \A j, k \in 1 .. 6 : Fields[j] = Fields[k] => j = k
  /\ \A j, k \in 1 .. 3 : Modes[j] = Modes[k] => j = k
<1>1. DOMAIN Fields = 1 .. 6
  BY DEF Fields
<1>2. DOMAIN Modes = 1 .. 3 /\ \A k \in 1 .. 3 : Modes[k] \in {OFF, COOL, HEAT}
  <2>1. DOMAIN Modes = 1 .. 3 /\ Modes[1] = OFF /\ Modes[2] = COOL /\ Modes[3] = HEAT
    BY DEF Modes
  <2> QED
    BY <2>1
<1>3. \A j, k \in 1 .. 6 : Fields[j] = Fields[k] => j = k
  BY DEF Fields
<1>4. \A j, k \in 1 .. 3 : Modes[j] = Modes[k] => j = k
  BY DEF Modes, OFF, COOL, HEAT
<1> QED
  BY <1>1, <1>2, <1>3, <1>4

LEMMA UpdateTyped ==
  ASSUME NEW m \in Model, NEW key \in Tokens, NEW value \in Tokens
  PROVE  Update(m, key, value) \in Loaded
<1> DEFINE k == FirstMatch(Fields, key)
<1>1. k \in 0 .. 6
  <2>1. k = 0 \/ k \in 1 .. 6
    BY Named, MatchTyped
  <2> QED
    BY <2>1
<1>2. value.number \in Int /\ Failed(m) \in Loaded /\ [ok |-> TRUE, model |-> m] \in Loaded
  BY DEF Tokens, Failed, Loaded
<1>3. \A j \in 1 .. 3 : UpdateInt(m, Fields[j], value) \in Loaded
  <2> SUFFICES ASSUME NEW j \in 1 .. 3 PROVE Stored(m, Fields[j], value.number) \in Loaded
    BY <1>2 DEF UpdateInt
  <2>1. [m EXCEPT ![Fields[j]] = value.number] \in Model
    BY <1>2 DEF Model, Fields
  <2> QED
    BY <2>1 DEF Stored, Loaded
<1>4. \A j \in 4 .. 5 : UpdateBool(m, Fields[j], value) \in Loaded
  <2> DEFINE b == "true" \in value.prefixOf
  <2> SUFFICES ASSUME NEW j \in 4 .. 5 PROVE Stored(m, Fields[j], b) \in Loaded
    BY <1>2 DEF UpdateBool
  <2>1. b \in BOOLEAN
    OBVIOUS
  <2> HIDE DEF b
  <2>2. [m EXCEPT ![Fields[j]] = b] \in Model
    BY <2>1 DEF Model, Fields
  <2> QED
    BY <2>2 DEF Stored, Loaded
<1>5. UpdateEnum(m, Fields[6], value) \in Loaded
  <2> DEFINE j == FirstMatch(Modes, value)
  <2>1. CASE j = 0
    BY <1>2, <2>1 DEF UpdateEnum
  <2>2. CASE j # 0
    <3>1. Modes[j] \in {OFF, COOL, HEAT}
      <4>1. j \in 1 .. 3
        BY <2>2, Named, MatchTyped
      <4> QED
        BY <4>1, Named
    <3>2. UpdateEnum(m, Fields[6], value) = Stored(m, Fields[6], Modes[j])
      BY <2>2 DEF UpdateEnum
    <3> HIDE DEF j
    <3>3. [m EXCEPT ![Fields[6]] = Modes[j]] \in Model
      BY <3>1 DEF Model, Fields
    <3> QED
      BY <3>2, <3>3 DEF Stored, Loaded
  <2> QED
    BY <2>1, <2>2
<1> HIDE DEF k
<1>6. \/ Update(m, key, value) = Failed(m)
      \/ k = 0 /\ Update(m, key, value) = [ok |-> TRUE, model |-> m]
      \/ k \in 1 .. 3 /\ Update(m, key, value) = UpdateInt(m, Fields[k], value)
      \/ k \in 4 .. 5 /\ Update(m, key, value) = UpdateBool(m, Fields[k], value)
      \/ k = 6 /\ Update(m, key, value) = UpdateEnum(m, Fields[k], value)
  BY <1>1 DEF Update, k
<1> QED
  BY <1>2, <1>3, <1>4, <1>5, <1>6

LEMMA LoadTyped ==
  ASSUME NEW m \in Model, NEW text \in Seq(Tokens)
  PROVE  Load(m, text) \in Loaded
<1>1. CASE Load(m, text) = Failed(m)
  BY <1>1 DEF Failed, Loaded
<1>2. CASE Load(m, text) # Failed(m)
  <2> DEFINE n == Len(text) \div 2
  <2>1. Len(text) \in Nat /\ Len(text) % 2 = 1 /\ Load(m, text) = LoadPairs(m, text, n)
    BY <1>2 DEF Load
  <2>2. n \in Nat /\ Len(text) = 2 * n + 1
    BY <2>1
  <2>3. \A i \in 1 .. n : text[2 * i] \in Tokens /\ text[2 * i + 1] \in Tokens
    <3> SUFFICES ASSUME NEW i \in 1 .. n
                 PROVE  text[2 * i] \in Tokens /\ text[2 * i + 1] \in Tokens
      OBVIOUS
    <3> HIDE DEF n
    <3>1. 2 * i \in 1 .. Len(text) /\ 2 * i + 1 \in 1 .. Len(text)
      BY <2>2
    <3> QED
      BY <3>1
  <2> HIDE DEF n
  <2>4. PICK f : /\ LoadPairs(m, text, n) = f[n]
                 /\ f[0] = Start(m)
                 /\ \A i \in 1 .. n : f[i] = Turn(f[i - 1], text, i)
    BY <2>2, PairsLoaded
  <2> DEFINE S == {k \in Nat : k <= n => f[k] \in Loaded}
  <2>5. 0 \in S
    <3>1. [ok |-> TRUE, model |-> m] \in Loaded
      BY DEF Loaded
    <3> QED
      BY <2>4, <3>1 DEF Start
  <2>6. ASSUME NEW k \in Nat, k \in S
        PROVE  k + 1 \in S
    <3> SUFFICES ASSUME k + 1 <= n PROVE f[k + 1] \in Loaded
      OBVIOUS
    <3>1. f[k] \in Loaded /\ k + 1 \in 1 .. n /\ k + 1 - 1 = k
      BY <2>2, <2>6
    <3>2. f[k + 1] = Turn(f[k], text, k + 1)
      BY <2>4, <3>1
    <3>3. text[2 * (k + 1)] \in Tokens /\ text[2 * (k + 1) + 1] \in Tokens
      BY <2>3, <3>1
    <3>4. f[k].model \in Model
      BY <3>1 DEF Loaded
    <3>5. Update(f[k].model, text[2 * (k + 1)], text[2 * (k + 1) + 1]) \in Loaded
      BY <3>3, <3>4, UpdateTyped
    <3> QED
      BY <3>1, <3>2, <3>5 DEF Turn
  <2> HIDE DEF S
  <2>7. Nat \subseteq S
    BY <2>5, <2>6, Induction
  <2> QED
    BY <2>1, <2>2, <2>4, <2>7 DEF S
<1> QED
  BY <1>1, <1>2
-------------------------------------------------------------------------------
(* What is written is read: the dump of m, loaded into r. *)

DumpFits == MaxTokens >= 13   \* six keys, six values and the object

LEMMA Appended ==
  ASSUME NEW S, NEW s \in Seq(S), NEW p \in Seq(S)
  PROVE  /\ s \o p \in Seq(S) /\ Len(s \o p) = Len(s) + Len(p)
         /\ \A i \in 1 .. Len(s) : (s \o p)[i] = s[i]
         /\ \A i \in 1 .. Len(p) : (s \o p)[Len(s) + i] = p[i]
  BY ConcatProperties

LEMMA WrittenTokens ==
  ASSUME NEW m, NEW mode
  PROVE  LET t == WrittenModel(m, mode)
         IN  /\ Len(t) = 13 /\ t[1] = Object
             /\ t[2] = Key("ambient") /\ t[3] = Number(m.ambient)
             /\ t[4] = Key("cool_setpoint") /\ t[5] = Number(m.cool_setpoint)
             /\ t[6] = Key("heat_setpoint") /\ t[7] = Number(m.heat_setpoint)
             /\ t[8] = Key("relay_y") /\ t[9] = Bool(m.relay_y)
             /\ t[10] = Key("relay_w") /\ t[11] = Bool(m.relay_w)
             /\ t[12] = Key("system_mode") /\ t[13] = mode
<1>1. /\ Written(m, "ambient") = <<Key("ambient"), Number(m.ambient)>>
      /\ Written(m, "cool_setpoint") = <<Key("cool_setpoint"), Number(m.cool_setpoint)>>
      /\ Written(m, "heat_setpoint") = <<Key("heat_setpoint"), Number(m.heat_setpoint)>>
      /\ Written(m, "relay_y") = <<Key("relay_y"), Bool(m.relay_y)>>
      /\ Written(m, "relay_w") = <<Key("relay_w"), Bool(m.relay_w)>>
                  BY DEF Written, Degrees
<1> DEFINE Ks == {Key("ambient"), Key("cool_setpoint"), Key("heat_setpoint"), Key("relay_y"),
                Key("relay_w"), Key("system_mode")}
           Vs == {Number(m.ambient), Number(m.cool_setpoint), Number(m.heat_setpoint),
                  Bool(m.relay_y), Bool(m.relay_w), mode}
           S == {Object} \union Ks \union Vs
           a == <<Object>> \o <<Key("ambient"), Number(m.ambient)>>
           b == a \o <<Key("cool_setpoint"), Number(m.cool_setpoint)>>
           c == b \o <<Key("heat_setpoint"), Number(m.heat_setpoint)>>
           d == c \o <<Key("relay_y"), Bool(m.relay_y)>>
           e == d \o <<Key("relay_w"), Bool(m.relay_w)>>
           f == e \o <<Key("system_mode"), mode>>
<1>2. /\ Object \in S /\ Key("ambient") \in S /\ Key("cool_setpoint") \in S
      /\ Key("heat_setpoint") \in S /\ Key("relay_y") \in S /\ Key("relay_w") \in S
      /\ Key("system_mode") \in S /\ Number(m.ambient) \in S /\ Number(m.cool_setpoint) \in S
      /\ Number(m.heat_setpoint) \in S /\ Bool(m.relay_y) \in S /\ Bool(m.relay_w) \in S
      /\ mode \in S
  OBVIOUS
<1>3. WrittenModel(m, mode) = f
  BY <1>1 DEF WrittenModel
<1> HIDE DEF S
<1>4. <<Object>> \in Seq(S) /\ Len(<<Object>>) = 1 /\ <<Object>>[1] = Object
  BY <1>2
<1>5. /\ a \in Seq(S) /\ Len(a) = 3
      /\ \A i \in 1 .. 1 : a[i] = <<Object>>[i]
      /\ a[2] = Key("ambient") /\ a[3] = Number(m.ambient)
  <2>1. a = <<Object>> \o <<Key("ambient"), Number(m.ambient)>> 
    OBVIOUS
  <2> HIDE DEF a
  <2>2. /\ a \in Seq(S) /\ Len(a) = 1 + 2
        /\ \A i \in 1 .. 1 : a[i] = <<Object>>[i]
        /\ a[1 + 1] = Key("ambient") /\ a[1 + 2] = Number(m.ambient)
    BY <1>2, <1>4, <2>1, Appended
  <2> QED
    BY <2>2
<1> HIDE DEF a
<1>6. /\ b \in Seq(S) /\ Len(b) = 5
      /\ \A i \in 1 .. 3 : b[i] = a[i]
      /\ b[4] = Key("cool_setpoint") /\ b[5] = Number(m.cool_setpoint)
  <2> DEFINE p == <<Key("cool_setpoint"), Number(m.cool_setpoint)>>
  <2>1. p[1] = Key("cool_setpoint") /\ p[2] = Number(m.cool_setpoint)
    OBVIOUS
  <2>2. a \in Seq(S) /\ p \in Seq(S)
    BY <1>2, <1>5
  <2>3. Len(a) = 3 /\ Len(p) = 2 /\ b = a \o p
    BY <1>5
  <2> HIDE DEF p, b
  <2>4. /\ a \o p \in Seq(S) /\ Len(a \o p) = Len(a) + Len(p)
        /\ \A i \in 1 .. Len(a) : (a \o p)[i] = a[i]
        /\ \A i \in 1 .. Len(p) : (a \o p)[Len(a) + i] = p[i]
    BY <2>2, Appended
  <2>5. /\ b \in Seq(S) /\ Len(b) = 3 + 2
        /\ \A i \in 1 .. 3 : b[i] = a[i]
        /\ \A i \in 1 .. 2 : b[3 + i] = p[i]
    BY <2>3, <2>4, Zenon
  <2>6. b[4] = p[1] /\ b[5] = p[2]
    BY <2>5
  <2>7. Len(b) = 5
    BY <2>5
  <2> QED
    BY <2>1, <2>5, <2>6, <2>7, Zenon
<1> HIDE DEF b
<1>7. /\ c \in Seq(S) /\ Len(c) = 7
      /\ \A i \in 1 .. 5 : c[i] = b[i]
      /\ c[6] = Key("heat_setpoint") /\ c[7] = Number(m.heat_setpoint)
  <2> DEFINE p == <<Key("heat_setpoint"), Number(m.heat_setpoint)>>
  <2>1. p[1] = Key("heat_setpoint") /\ p[2] = Number(m.heat_setpoint)
    OBVIOUS
  <2>2. b \in Seq(S) /\ p \in Seq(S)
    BY <1>2, <1>6
  <2>3. Len(b) = 5 /\ Len(p) = 2 /\ c = b \o p
    BY <1>6
  <2> HIDE DEF p, c
  <2>4. /\ b \o p \in Seq(S) /\ Len(b \o p) = Len(b) + Len(p)
        /\ \A i \in 1 .. Len(b) : (b \o p)[i] = b[i]
        /\ \A i \in 1 .. Len(p) : (b \o p)[Len(b) + i] = p[i]
    BY <2>2, Appended
  <2>5. /\ c \in Seq(S) /\ Len(c) = 5 + 2
        /\ \A i \in 1 .. 5 : c[i] = b[i]
        /\ \A i \in 1 .. 2 : c[5 + i] = p[i]
    BY <2>3, <2>4, Zenon
  <2>6. c[6] = p[1] /\ c[7] = p[2]
    BY <2>5
  <2>7. Len(c) = 7
    BY <2>5
  <2> QED
    BY <2>1, <2>5, <2>6, <2>7, Zenon
<1> HIDE DEF c
<1>8. /\ d \in Seq(S) /\ Len(d) = 9
      /\ \A i \in 1 .. 7 : d[i] = c[i]
      /\ d[8] = Key("relay_y") /\ d[9] = Bool(m.relay_y)
  <2> DEFINE p == <<Key("relay_y"), Bool(m.relay_y)>>
  <2>1. p[1] = Key("relay_y") /\ p[2] = Bool(m.relay_y)
    OBVIOUS
  <2>2. c \in Seq(S) /\ p \in Seq(S)
    BY <1>2, <1>7
  <2>3. Len(c) = 7 /\ Len(p) = 2 /\ d = c \o p
    BY <1>7
  <2> HIDE DEF p, d
  <2>4. /\ c \o p \in Seq(S) /\ Len(c \o p) = Len(c) + Len(p)
        /\ \A i \in 1 .. Len(c) : (c \o p)[i] = c[i]
        /\ \A i \in 1 .. Len(p) : (c \o p)[Len(c) + i] = p[i]
    BY <2>2, Appended
  <2>5. /\ d \in Seq(S) /\ Len(d) = 7 + 2
        /\ \A i \in 1 .. 7 : d[i] = c[i]
        /\ \A i \in 1 .. 2 : d[7 + i] = p[i]
    BY <2>3, <2>4, Zenon
  <2>6. d[8] = p[1] /\ d[9] = p[2]
    BY <2>5
  <2>7. Len(d) = 9
    BY <2>5
  <2> QED
    BY <2>1, <2>5, <2>6, <2>7, Zenon
<1> HIDE DEF d
<1>9. /\ e \in Seq(S) /\ Len(e) = 11
      /\ \A i \in 1 .. 9 : e[i] = d[i]
      /\ e[10] = Key("relay_w") /\ e[11] = Bool(m.relay_w)
  <2> DEFINE p == <<Key("relay_w"), Bool(m.relay_w)>>
  <2>1. p[1] = Key("relay_w") /\ p[2] = Bool(m.relay_w)
    OBVIOUS
  <2>2. d \in Seq(S) /\ p \in Seq(S)
    BY <1>2, <1>8
  <2>3. Len(d) = 9 /\ Len(p) = 2 /\ e = d \o p
    BY <1>8
  <2> HIDE DEF p, e
  <2>4. /\ d \o p \in Seq(S) /\ Len(d \o p) = Len(d) + Len(p)
        /\ \A i \in 1 .. Len(d) : (d \o p)[i] = d[i]
        /\ \A i \in 1 .. Len(p) : (d \o p)[Len(d) + i] = p[i]
    BY <2>2, Appended
  <2>5. /\ e \in Seq(S) /\ Len(e) = 9 + 2
        /\ \A i \in 1 .. 9 : e[i] = d[i]
        /\ \A i \in 1 .. 2 : e[9 + i] = p[i]
    BY <2>3, <2>4, Zenon
  <2>6. e[10] = p[1] /\ e[11] = p[2]
    BY <2>5
  <2>7. Len(e) = 11
    BY <2>5
  <2> QED
    BY <2>1, <2>5, <2>6, <2>7, Zenon
<1> HIDE DEF e
<1>10. /\ f \in Seq(S) /\ Len(f) = 13
      /\ \A i \in 1 .. 11 : f[i] = e[i]
      /\ f[12] = Key("system_mode") /\ f[13] = mode
  <2> DEFINE p == <<Key("system_mode"), mode>>
  <2>1. p[1] = Key("system_mode") /\ p[2] = mode
    OBVIOUS
  <2>2. e \in Seq(S) /\ p \in Seq(S)
    BY <1>2, <1>9
  <2>3. Len(e) = 11 /\ Len(p) = 2 /\ f = e \o p
    BY <1>9
  <2> HIDE DEF p, f
  <2>4. /\ e \o p \in Seq(S) /\ Len(e \o p) = Len(e) + Len(p)
        /\ \A i \in 1 .. Len(e) : (e \o p)[i] = e[i]
        /\ \A i \in 1 .. Len(p) : (e \o p)[Len(e) + i] = p[i]
    BY <2>2, Appended
  <2>5. /\ f \in Seq(S) /\ Len(f) = 11 + 2
        /\ \A i \in 1 .. 11 : f[i] = e[i]
        /\ \A i \in 1 .. 2 : f[11 + i] = p[i]
    BY <2>3, <2>4, Zenon
  <2>6. f[12] = p[1] /\ f[13] = p[2]
    BY <2>5
  <2>7. Len(f) = 13
    BY <2>5
  <2> QED
    BY <2>1, <2>5, <2>6, <2>7, Zenon
<1> HIDE DEF f
<1> QED
  BY <1>3, <1>4, <1>5, <1>6, <1>7, <1>8, <1>9, <1>10

LEMMA OnlyMatch ==
  ASSUME NEW words, NEW n \in Nat, DOMAIN words = 1 .. n, NEW k \in 1 .. n,
         \A j \in 1 .. n : words[j] = words[k] => j = k
  PROVE  FirstMatch(words, String({words[k]})) = k
<1>1. String({words[k]}).prefixOf = {words[k]}
  BY DEF String, Token
<1> DEFINE hits == {j \in DOMAIN words : words[j] \in String({words[k]}).prefixOf}
<1>2. hits = {k}
  BY <1>1
<1>3. FirstMatch(words, String({words[k]})) = CHOOSE i \in hits : \A j \in hits : i <= j
  BY <1>2 DEF FirstMatch
<1> HIDE DEF hits
<1>4. (CHOOSE i \in hits : \A j \in hits : i <= j) = k
  BY <1>2
<1> QED
  BY <1>3, <1>4

LEMMA FieldRead ==
  ASSUME NEW m, NEW value, NEW k \in 1 .. 6
  PROVE  Update(m, Key(Fields[k]), value) =
           IF k <= 3 THEN UpdateInt(m, Fields[k], value)
           ELSE IF k <= 5 THEN UpdateBool(m, Fields[k], value)
           ELSE UpdateEnum(m, Fields[k], value)
<1>1. FirstMatch(Fields, Key(Fields[k])) = k
  <2>1. 6 \in Nat /\ DOMAIN Fields = 1 .. 6 /\ \A j \in 1 .. 6 : Fields[j] = Fields[k] => j = k
    BY Named
  <2> QED
    BY <2>1, OnlyMatch DEF Key
<1>2. Key(Fields[k]).type = "string"
  BY DEF Key, String, Token
<1>3. \/ k \in 1 .. 3 /\ k <= 3
      \/ k \in 4 .. 5 /\ ~(k <= 3) /\ k <= 5
      \/ k = 6 /\ ~(k <= 3) /\ ~(k <= 5)
  OBVIOUS
<1>4. k # 0 /\ (k \in 4 .. 5 => k \notin 1 .. 3) /\ (k = 6 => k \notin 1 .. 3 /\ k \notin 4 .. 5)
      /\ (k \in 1 .. 3 => k \notin 4 .. 5 /\ k # 6) /\ (k \in 4 .. 5 => k # 6)
  OBVIOUS
<1> QED
  BY <1>1, <1>2, <1>3, <1>4 DEF Update

LEMMA ValueRead ==
  ASSUME NEW m, NEW field
  PROVE  /\ \A n : UpdateInt(m, field, Number(n)) = Stored(m, field, n)
         /\ \A b \in BOOLEAN : UpdateBool(m, field, Bool(b)) = Stored(m, field, b)
<1>1. \A n : Number(n).type = "primitive" /\ Number(n).number = n
  BY DEF Number, Token
<1>2. \A b \in BOOLEAN : /\ Bool(b).type = "primitive"
                         /\ Bool(b).prefixOf = IF b THEN {"true"} ELSE {"false"}
  BY DEF Bool, Token
<1>3. ASSUME NEW b \in BOOLEAN
      PROVE  UpdateBool(m, field, Bool(b)) = Stored(m, field, b)
  <2>1. CASE b = TRUE
    <3>1. Bool(b).type = "primitive" /\ Bool(b).prefixOf = {"true"}
      BY <1>2, <2>1
    <3>2. {"true", "false"} \intersect {"true"} # {} /\ ("true" \in {"true"}) = TRUE
      OBVIOUS
    <3> QED
      BY <2>1, <3>1, <3>2 DEF UpdateBool
  <2>2. CASE b = FALSE
    <3>1. Bool(b).type = "primitive" /\ Bool(b).prefixOf = {"false"}
      BY <1>2, <2>2
    <3>2. {"true", "false"} \intersect {"false"} # {} /\ ("true" \in {"false"}) = FALSE
      OBVIOUS
    <3> QED
      BY <2>2, <3>1, <3>2 DEF UpdateBool
  <2> QED
    BY <2>1, <2>2
<1> QED
  BY <1>1, <1>3 DEF UpdateInt

LEMMA ModeRead ==
  ASSUME NEW m
  PROVE  /\ \A mode \in {OFF, COOL, HEAT} :
              UpdateEnum(m, "system_mode", String({mode})) = Stored(m, "system_mode", mode)
         /\ UpdateEnum(m, "system_mode", String({})) = Failed(m)
<1>1. \A k \in 1 .. 3 : FirstMatch(Modes, String({Modes[k]})) = k
  <2> SUFFICES ASSUME NEW k \in 1 .. 3 PROVE FirstMatch(Modes, String({Modes[k]})) = k
    OBVIOUS
  <2>1. 3 \in Nat /\ DOMAIN Modes = 1 .. 3 /\ \A j \in 1 .. 3 : Modes[j] = Modes[k] => j = k
    BY Named
  <2> QED
    BY <2>1, OnlyMatch
<1>2. \A mode \in {OFF, COOL, HEAT} : \E k \in 1 .. 3 : mode = Modes[k]
  <2>1. Modes[1] = OFF /\ Modes[2] = COOL /\ Modes[3] = HEAT
    BY DEF Modes
  <2> QED
    BY <2>1
<1>3. \A mode \in {OFF, COOL, HEAT} :
        UpdateEnum(m, "system_mode", String({mode})) = Stored(m, "system_mode", mode)
  <2> SUFFICES ASSUME NEW mode \in {OFF, COOL, HEAT}
               PROVE  UpdateEnum(m, "system_mode", String({mode})) = Stored(m, "system_mode", mode)
    OBVIOUS
  <2>1. PICK k \in 1 .. 3 : mode = Modes[k]
    BY <1>2
  <2>2. FirstMatch(Modes, String({mode})) = k /\ k # 0
    BY <1>1, <2>1
  <2> QED
    BY <2>1, <2>2 DEF UpdateEnum
<1>4. String({}).prefixOf = {}
  BY DEF String, Token
<1>5. FirstMatch(Modes, String({})) = 0
  BY <1>4 DEF FirstMatch
<1> QED
  BY <1>3, <1>5 DEF UpdateEnum

LEMMA WrittenLoaded ==
  ASSUME DumpFits, NEW r \in Model, NEW m \in Model, NEW mode
  PROVE  Load(r, WrittenModel(m, mode)) =
           UpdateEnum([m EXCEPT !.system_mode = r.system_mode], "system_mode", mode)
<1> DEFINE t == WrittenModel(m, mode)
<1>1. /\ Len(t) = 13 /\ t[1] = Object
      /\ t[2] = Key("ambient") /\ t[3] = Number(m.ambient)
      /\ t[4] = Key("cool_setpoint") /\ t[5] = Number(m.cool_setpoint)
      /\ t[6] = Key("heat_setpoint") /\ t[7] = Number(m.heat_setpoint)
      /\ t[8] = Key("relay_y") /\ t[9] = Bool(m.relay_y)
      /\ t[10] = Key("relay_w") /\ t[11] = Bool(m.relay_w)
      /\ t[12] = Key("system_mode") /\ t[13] = mode
  BY WrittenTokens
<1> HIDE DEF t
<1>2. Load(r, t) = LoadPairs(r, t, 6)
  <2>1. t[1].type = "object"
    BY <1>1 DEF Object, Token
  <2>2. 13 \in 1 .. MaxTokens /\ 13 % 2 = 1 /\ 13 \div 2 = 6
    BY MaxTokensAssumption DEF DumpFits
  <2> QED
    BY <1>1, <2>1, <2>2 DEF Load
<1>3. PICK f : /\ LoadPairs(r, t, 6) = f[6]
               /\ f[0] = Start(r)
               /\ \A i \in 1 .. 6 : f[i] = Turn(f[i - 1], t, i)
  <2>1. 6 \in Nat
    OBVIOUS
  <2> QED
    BY <2>1, PairsLoaded
<1>4. /\ f[1] = Turn(f[0], t, 1) /\ f[2] = Turn(f[1], t, 2) /\ f[3] = Turn(f[2], t, 3)
      /\ f[4] = Turn(f[3], t, 4) /\ f[5] = Turn(f[4], t, 5) /\ f[6] = Turn(f[5], t, 6)
  BY <1>3
<1>5. \A prev : prev.ok =>
        /\ Turn(prev, t, 1) = Update(prev.model, Key("ambient"), Number(m.ambient))
        /\ Turn(prev, t, 2) = Update(prev.model, Key("cool_setpoint"), Number(m.cool_setpoint))
        /\ Turn(prev, t, 3) = Update(prev.model, Key("heat_setpoint"), Number(m.heat_setpoint))
        /\ Turn(prev, t, 4) = Update(prev.model, Key("relay_y"), Bool(m.relay_y))
        /\ Turn(prev, t, 5) = Update(prev.model, Key("relay_w"), Bool(m.relay_w))
        /\ Turn(prev, t, 6) = Update(prev.model, Key("system_mode"), mode)
  BY <1>1 DEF Turn
<1>6. \A x : /\ Update(x, Key("ambient"), Number(m.ambient)) = Stored(x, "ambient", m.ambient)
             /\ Update(x, Key("cool_setpoint"), Number(m.cool_setpoint))
                  = Stored(x, "cool_setpoint", m.cool_setpoint)
             /\ Update(x, Key("heat_setpoint"), Number(m.heat_setpoint))
                  = Stored(x, "heat_setpoint", m.heat_setpoint)
             /\ Update(x, Key("relay_y"), Bool(m.relay_y)) = Stored(x, "relay_y", m.relay_y)
             /\ Update(x, Key("relay_w"), Bool(m.relay_w)) = Stored(x, "relay_w", m.relay_w)
             /\ Update(x, Key("system_mode"), mode) = UpdateEnum(x, "system_mode", mode)
  <2>1. /\ Fields[1] = "ambient" /\ Fields[2] = "cool_setpoint" /\ Fields[3] = "heat_setpoint"
        /\ Fields[4] = "relay_y" /\ Fields[5] = "relay_w" /\ Fields[6] = "system_mode"
    BY DEF Fields
  <2>2. m.relay_y \in BOOLEAN /\ m.relay_w \in BOOLEAN
    BY DEF Model
  <2> SUFFICES ASSUME NEW x
               PROVE  /\ Update(x, Key(Fields[1]), Number(m.ambient)) = Stored(x, Fields[1], m.ambient)
                      /\ Update(x, Key(Fields[2]), Number(m.cool_setpoint))
                           = Stored(x, Fields[2], m.cool_setpoint)
                      /\ Update(x, Key(Fields[3]), Number(m.heat_setpoint))
                           = Stored(x, Fields[3], m.heat_setpoint)
                      /\ Update(x, Key(Fields[4]), Bool(m.relay_y)) = Stored(x, Fields[4], m.relay_y)
                      /\ Update(x, Key(Fields[5]), Bool(m.relay_w)) = Stored(x, Fields[5], m.relay_w)
                      /\ Update(x, Key(Fields[6]), mode) = UpdateEnum(x, Fields[6], mode)
    BY <2>1
  <2>3. \A v : \A k \in 1 .. 3 : Update(x, Key(Fields[k]), v) = UpdateInt(x, Fields[k], v)
    BY FieldRead
  <2>4. \A v : \A k \in 4 .. 5 : Update(x, Key(Fields[k]), v) = UpdateBool(x, Fields[k], v)
    BY FieldRead
  <2>5. \A v : Update(x, Key(Fields[6]), v) = UpdateEnum(x, Fields[6], v)
    BY FieldRead
  <2> QED
    BY <2>2, <2>3, <2>4, <2>5, ValueRead
<1> DEFINE m1 == [r EXCEPT !["ambient"] = m.ambient]
           m2 == [m1 EXCEPT !["cool_setpoint"] = m.cool_setpoint]
           m3 == [m2 EXCEPT !["heat_setpoint"] = m.heat_setpoint]
           m4 == [m3 EXCEPT !["relay_y"] = m.relay_y]
           m5 == [m4 EXCEPT !["relay_w"] = m.relay_w]
           h == [m EXCEPT !.system_mode = r.system_mode]
<1>7. m5 = h
  BY DEF Model
<1> HIDE DEF m1, m2, m3, m4, m5, h
<1>8. f[0].ok /\ f[0].model = r
  BY <1>3 DEF Start
<1>9. f[1].ok /\ f[1].model = m1
  <2>1. f[1] = Stored(r, "ambient", m.ambient)
    BY <1>4, <1>5, <1>6, <1>8
  <2> QED
    BY <2>1 DEF Stored, m1
<1>10. f[2].ok /\ f[2].model = m2
  <2>1. f[2] = Stored(m1, "cool_setpoint", m.cool_setpoint)
    BY <1>4, <1>5, <1>6, <1>9
  <2> QED
    BY <2>1 DEF Stored, m2
<1>11. f[3].ok /\ f[3].model = m3
  <2>1. f[3] = Stored(m2, "heat_setpoint", m.heat_setpoint)
    BY <1>4, <1>5, <1>6, <1>10
  <2> QED
    BY <2>1 DEF Stored, m3
<1>12. f[4].ok /\ f[4].model = m4
  <2>1. f[4] = Stored(m3, "relay_y", m.relay_y)
    BY <1>4, <1>5, <1>6, <1>11
  <2> QED
    BY <2>1 DEF Stored, m4
<1>13. f[5].ok /\ f[5].model = m5
  <2>1. f[5] = Stored(m4, "relay_w", m.relay_w)
    BY <1>4, <1>5, <1>6, <1>12
  <2> QED
    BY <2>1 DEF Stored, m5
<1>14. f[6] = UpdateEnum(h, "system_mode", mode)
  BY <1>4, <1>5, <1>6, <1>7, <1>13
<1> QED
  BY <1>2, <1>3, <1>14 DEF t, h
-------------------------------------------------------------------------------
(* A round. *)

LEMMA DumpLoaded ==
  ASSUME DumpFits, NEW r \in Model, NEW m \in Model
  PROVE  /\ \A mode \in {OFF, COOL, HEAT} : mode = m.system_mode =>
              Load(r, WrittenModel(m, String({mode}))) = [ok |-> TRUE, model |-> m]
         /\ Load(r, Dump(m)) =
              IF m.system_mode = HEAT
              THEN [ok |-> FALSE, model |-> [m EXCEPT !.system_mode = r.system_mode]]
              ELSE [ok |-> TRUE, model |-> m]
<1> DEFINE h == [m EXCEPT !.system_mode = r.system_mode]
<1>1. m.system_mode \in {OFF, COOL, HEAT}
  BY DEF Model
<1>2. [h EXCEPT !["system_mode"] = m.system_mode] = m
  BY DEF Model
<1> HIDE DEF h
<1>3. Load(r, WrittenModel(m, String({m.system_mode}))) = [ok |-> TRUE, model |-> m]
  <2>1. Load(r, WrittenModel(m, String({m.system_mode})))
          = UpdateEnum(h, "system_mode", String({m.system_mode}))
    BY WrittenLoaded DEF h
  <2>2. UpdateEnum(h, "system_mode", String({m.system_mode})) = Stored(h, "system_mode", m.system_mode)
    BY <1>1, ModeRead
  <2> QED
    BY <1>2, <2>1, <2>2 DEF Stored
<1>4. Load(r, WrittenModel(m, String({}))) = [ok |-> FALSE, model |-> h]
  <2>1. Load(r, WrittenModel(m, String({}))) = UpdateEnum(h, "system_mode", String({}))
    BY WrittenLoaded DEF h
  <2>2. UpdateEnum(h, "system_mode", String({})) = Failed(h)
    BY ModeRead
  <2> QED
    BY <2>1, <2>2 DEF Failed
<1> QED
  BY <1>3, <1>4 DEF Dump, ModeName, h

LEMMA DecidedOnce ==
  ASSUME NEW m \in Model
  PROVE  /\ Decided(m) \in Model
         /\ Decided(m).system_mode = m.system_mode
         /\ Decided(Decided(m)) = Decided(m)
         /\ ~(Decided(m).relay_y /\ Decided(m).relay_w)
<1> DEFINE y == m.system_mode = COOL /\ m.cool_setpoint < m.ambient
           w == m.system_mode = HEAT /\ m.heat_setpoint > m.ambient
           d == [m EXCEPT !.relay_y = y, !.relay_w = w]
<1>1. y \in BOOLEAN /\ w \in BOOLEAN /\ ~(y /\ w)
  BY DEF COOL, HEAT
<1>2. d = Decided(m)
  BY DEF Decided
<1>3. /\ d \in Model /\ d.relay_y = y /\ d.relay_w = w /\ d.system_mode = m.system_mode
      /\ d.ambient = m.ambient /\ d.cool_setpoint = m.cool_setpoint
      /\ d.heat_setpoint = m.heat_setpoint
  <2> HIDE DEF y, w
  <2> QED
    BY <1>1 DEF Model
<1>4. Decided(d) = [d EXCEPT !.relay_y = y, !.relay_w = w]
  BY <1>3 DEF Decided
<1>5. [d EXCEPT !.relay_y = y, !.relay_w = w] = d
  <2> HIDE DEF y, w
  <2> QED
    BY <1>3 DEF Model
<1> HIDE DEF d, y, w
<1> QED
  BY <1>1, <1>2, <1>3, <1>4, <1>5

LEMMA InitCopyHeld ==
  ASSUME Init
  PROVE  CopyHeld
<1>1. Zeroed \in Model
  BY DEF Zeroed, Model
<1> QED
  BY <1>1 DEF Init, CopyHeld

LEMMA CopyHeldStep ==
  ASSUME DumpFits, CopyHeld, [Next]_vars
  PROVE  CopyHeld'
<1>1. model \in Model /\ remote \in Model
  BY DEF CopyHeld
<1>2. CASE Pull
  <2>1. PICK spelling \in Spellings :
          /\ model' = Load(model, Reply(remote, spelling)).model
          /\ round' = IF Load(model, Reply(remote, spelling)).ok THEN "pulled" ELSE "idle"
    BY <1>2 DEF Pull
  <2> DEFINE loaded == Load(model, Reply(remote, spelling))
  <2>2. /\ loaded.model \in Model /\ loaded.ok \in BOOLEAN
        /\ loaded.ok => loaded.model = remote
    <3>1. remote.system_mode \in {OFF, COOL, HEAT}
      BY <1>1 DEF Model
    <3>2. [remote EXCEPT !.system_mode = model.system_mode] \in Model
      BY <1>1 DEF Model
    <3>3. \/ loaded = [ok |-> TRUE, model |-> remote]
          \/ loaded = [ok |-> FALSE, model |-> [remote EXCEPT !.system_mode = model.system_mode]]
      BY <1>1, <3>1, DumpLoaded DEF Reply
    <3> DEFINE kept == [remote EXCEPT !.system_mode = model.system_mode]
    <3> HIDE DEF loaded, kept
    <3>4. CASE loaded = [ok |-> TRUE, model |-> remote]
      BY <1>1, <3>4
    <3>5. CASE loaded = [ok |-> FALSE, model |-> kept]
      BY <3>2, <3>5 DEF kept
    <3> QED
      BY <3>3, <3>4, <3>5 DEF kept
  <2>3. model' \in Model /\ (round' = "pulled" => model' = remote) /\ round' # "decided"
    BY <2>1, <2>2
  <2>4. remote' = remote
    BY <1>2 DEF Pull
  <2> QED
    BY <1>1, <2>3, <2>4 DEF CopyHeld
<1>3. CASE Decide
  BY <1>1, <1>3, DecidedOnce DEF Decide, CopyHeld
<1>4. CASE Push
  <2>1. remote' = Load(remote, Dump(model)).model /\ round' = "idle" /\ model' = model
    BY <1>4 DEF Push
  <2>2. [model EXCEPT !.system_mode = remote.system_mode] \in Model
    BY <1>1 DEF Model
  <2>3. Load(remote, Dump(model)).model \in Model
    <3>1. \/ Load(remote, Dump(model)) = [ok |-> TRUE, model |-> model]
          \/ Load(remote, Dump(model))
               = [ok |-> FALSE, model |-> [model EXCEPT !.system_mode = remote.system_mode]]
      BY <1>1, DumpLoaded
    <3> QED
      BY <1>1, <2>2, <3>1
  <2> QED
    BY <1>1, <2>1, <2>3 DEF CopyHeld
<1>5. CASE OthersWrite
  <2>1. PICK text \in Messages : remote' = Load(remote, text).model
    BY <1>5 DEF OthersWrite
  <2>2. touched' = TRUE /\ model' = model /\ round' = round
    BY <1>5 DEF OthersWrite
  <2>3. text \in Seq(Tokens)
    BY TextsAssumption DEF Tokens
  <2>4. Load(remote, text) \in Loaded
    BY <1>1, <2>3, LoadTyped
  <2>5. remote' \in Model
    BY <2>1, <2>4 DEF Loaded
  <2> QED
    BY <2>2, <2>5 DEF CopyHeld
<1>6. CASE Set
  <2>1. touched' = TRUE /\ model' = model /\ round' = round
    BY <1>6 DEF Set
  <2>2. remote' \in Model
    <3>1. CASE \E f \in {"cool_setpoint", "heat_setpoint"}, t \in Temperatures :
                 remote' = [remote EXCEPT ![f] = t]
      <4>1. PICK f \in {"cool_setpoint", "heat_setpoint"}, t \in Temperatures :
              remote' = [remote EXCEPT ![f] = t]
        BY <3>1
      <4>2. t \in Int
        BY TemperaturesAssumption
      <4> QED
        BY <1>1, <4>1, <4>2 DEF Model
    <3>2. CASE \E f \in Relays, on \in BOOLEAN : remote' = [remote EXCEPT ![f] = on]
      BY <1>1, <3>2 DEF Model, Relays
    <3>3. CASE \E mode \in {OFF, COOL, HEAT} : remote' = [remote EXCEPT !.system_mode = mode]
      BY <1>1, <3>3 DEF Model
    <3> QED
      BY <1>6, <3>1, <3>2, <3>3 DEF Set
  <2> QED
    BY <2>1, <2>2 DEF CopyHeld
<1>7. CASE UNCHANGED vars
  BY <1>7 DEF vars, CopyHeld
<1> QED
  BY <1>2, <1>3, <1>4, <1>5, <1>6, <1>7 DEF Next

LEMMA SpecCopyHeld ==
  ASSUME DumpFits PROVE Spec => []CopyHeld
<1>1. Init => CopyHeld
  BY InitCopyHeld
<1>2. CopyHeld /\ [Next]_vars => CopyHeld'
  BY CopyHeldStep
<1> QED
  BY <1>1, <1>2, PTL DEF Spec

\* The round ends either in Push, or in a pull that fails.
LEMMA PushOnly ==
  ASSUME DumpFits, CopyHeld, Next, round = "decided", round' = "idle"
  PROVE  /\ remote' = IF model.system_mode = HEAT
                      THEN [model EXCEPT !.system_mode = remote.system_mode] ELSE model
         /\ model \in Model /\ remote \in Model /\ model = Decided(model)
         /\ ~touched => model = Decided(remote)
<1>1. /\ model \in Model /\ remote \in Model /\ model = Decided(model)
      /\ ~touched => model = Decided(remote)
  BY DEF CopyHeld
<1>2. remote' = Load(remote, Dump(model)).model
  BY DEF Next, Pull, Decide, Push, OthersWrite, Set
<1>3. CASE model.system_mode = HEAT
  <2>1. Load(remote, Dump(model))
          = [ok |-> FALSE, model |-> [model EXCEPT !.system_mode = remote.system_mode]]
    BY <1>1, <1>3, DumpLoaded
  <2> QED
    BY <1>1, <1>2, <1>3, <2>1
<1>4. CASE model.system_mode # HEAT
  <2>1. Load(remote, Dump(model)) = [ok |-> TRUE, model |-> model]
    BY <1>1, <1>4, DumpLoaded
  <2> QED
    BY <1>1, <1>2, <1>4, <2>1
<1> QED
  BY <1>3, <1>4

(* What is dumped can be loaded again, over any model, and gives the same  *)
(* model, but for the mode whose name is misspelt.                         *)
THEOREM DumpIsLoaded ==
  ASSUME DumpFits PROVE Spec => []DumpLoads
<1>1. CopyHeld => DumpLoads
  BY DumpLoaded DEF CopyHeld, DumpLoads
<1> QED
  BY <1>1, SpecCopyHeld, PTL

(* After a push the original does not have both relays on, whatever others *)
(* have written and even if the push fails half way.                       *)
THEOREM RelaysSeparated ==
  ASSUME DumpFits PROVE Spec => PushSeparatesRelays
<1>1. CopyHeld /\ [Next]_vars =>
        [round = "decided" /\ round' = "idle" => ~(remote'.relay_y /\ remote'.relay_w)]_vars
  <2> SUFFICES ASSUME CopyHeld, Next, round = "decided", round' = "idle"
               PROVE  ~(remote'.relay_y /\ remote'.relay_w)
    OBVIOUS
  <2>1. model \in Model /\ ~(model.relay_y /\ model.relay_w)
    BY PushOnly, DecidedOnce
  <2>2. remote'.relay_y = model.relay_y /\ remote'.relay_w = model.relay_w
    BY <2>1, PushOnly DEF Model
  <2> QED
    BY <2>1, <2>2
<1> QED
  BY <1>1, SpecCopyHeld, PTL DEF Spec, PushSeparatesRelays

(* If nobody else has written since the pull, a push sets the relays as    *)
(* the original's own settings ask for and changes nothing else.           *)
THEOREM OnlyRelaysSet ==
  ASSUME DumpFits PROVE Spec => RoundSetsRelaysOnly
<1>1. CopyHeld /\ [Next]_vars =>
        [round = "decided" /\ round' = "idle" /\ ~touched => remote' = Decided(remote)]_vars
  <2> SUFFICES ASSUME CopyHeld, Next, round = "decided", round' = "idle", ~touched
               PROVE  remote' = Decided(remote)
    OBVIOUS
  <2>1. model = Decided(remote) /\ remote \in Model /\ model \in Model
    BY PushOnly
  <2>2. model.system_mode = remote.system_mode
    BY <2>1, DecidedOnce
  <2>3. [model EXCEPT !.system_mode = remote.system_mode] = model
    BY <2>1, <2>2 DEF Model
  <2> QED
    BY <2>1, <2>3, PushOnly
<1> QED
  BY <1>1, SpecCopyHeld, PTL DEF Spec, RoundSetsRelaysOnly
-------------------------------------------------------------------------------
(* Tokens.  Each is placed in the text up to a position, and of two the    *)
(* later one begins later, after the first or inside it.                   *)

TokenRec ==
  [type : {"object", "array", "string", "primitive"}, start : Nat \ {0}, end : Nat, size : Nat]

Placed(t, p) ==
  /\ t.start < p /\ t.end <= p
  /\ IF t.end = Unset THEN t.type \in Containers ELSE t.start <= t.end

Apart(t, u) ==
  /\ t.start < u.start
  /\ \/ t.end = Unset
     \/ t.end <= u.start
     \/ t.type \in Containers /\ u.end # Unset /\ u.end < t.end

Nest(toks, p) ==
  /\ toks \in Seq(TokenRec)
  /\ \A k \in 1 .. Len(toks) : Placed(toks[k], p)
  /\ \A j, k \in 1 .. Len(toks) : j < k => Apart(toks[j], toks[k])

\* Counted, for any token in place of toksuper.
CountedOf(toks, super) == IF super = 0 THEN toks ELSE [toks EXCEPT ![super].size = @ + 1]

LEMMA CountedTokens ==
  ASSUME NEW toks \in Seq(TokenRec), NEW super \in 0 .. Len(toks)
  PROVE  /\ CountedOf(toks, super) \in Seq(TokenRec)
         /\ Len(CountedOf(toks, super)) = Len(toks)
         /\ \A k \in 1 .. Len(toks) :
              /\ CountedOf(toks, super)[k].type = toks[k].type
              /\ CountedOf(toks, super)[k].start = toks[k].start
              /\ CountedOf(toks, super)[k].end = toks[k].end
              /\ CountedOf(toks, super)[k].size = toks[k].size + (IF k = super THEN 1 ELSE 0)
<1>1. Len(toks) \in Nat /\ DOMAIN toks = 1 .. Len(toks) /\ \A k \in 1 .. Len(toks) : toks[k] \in TokenRec
  BY LenProperties, ElementOfSeq
<1>2. CASE super = 0
  BY <1>1, <1>2 DEF CountedOf, TokenRec
<1>3. CASE super # 0
  <2> DEFINE t == [toks[super] EXCEPT !.size = @ + 1]
             r == [toks EXCEPT ![super] = t]
  <2>1. super \in 1 .. Len(toks)
    BY <1>1, <1>3
  <2>2. t \in TokenRec /\ t.type = toks[super].type /\ t.start = toks[super].start /\ t.end = toks[super].end
        /\ t.size = toks[super].size + 1
    <3>1. toks[super] \in TokenRec
      BY <1>1, <2>1
    <3> DEFINE u == toks[super]
    <3>2. u \in TokenRec /\ t = [u EXCEPT !.size = @ + 1]
      BY <3>1
    <3> HIDE DEF t
    <3>3. t = [u EXCEPT !.size = u.size + 1]
      BY <3>2
    <3> HIDE DEF u
    <3>4. u.size + 1 \in Nat
      BY <3>2 DEF TokenRec
    <3>5. t \in TokenRec /\ t.type = u.type /\ t.start = u.start /\ t.end = u.end /\ t.size = u.size + 1
      BY <3>2, <3>3, <3>4 DEF TokenRec
    <3> QED
      BY <3>5 DEF u
  <2> HIDE DEF t
  <2>3. /\ r \in Seq(TokenRec) /\ Len(r) = Len(toks)
        /\ \A k \in 1 .. Len(toks) : r[k] = IF k = super THEN t ELSE toks[k]
    BY <1>1, <2>1, <2>2, ExceptSeq
  <2>4. CountedOf(toks, super) = r
    BY <1>3 DEF CountedOf, t
  <2> HIDE DEF r
  <2>5. ASSUME NEW k \in 1 .. Len(toks)
        PROVE  /\ r[k].type = toks[k].type /\ r[k].start = toks[k].start /\ r[k].end = toks[k].end
               /\ r[k].size = toks[k].size + (IF k = super THEN 1 ELSE 0)
    <3>1. CASE k = super
      BY <2>2, <2>3, <3>1
    <3>2. CASE k # super
      <4>1. r[k] = toks[k] /\ toks[k].size \in Nat
        BY <1>1, <2>3, <3>2 DEF TokenRec
      <4> QED
        BY <3>2, <4>1
    <3> QED
      BY <3>1, <3>2
  <2> QED
    BY <2>3, <2>4, <2>5
<1> QED
  BY <1>2, <1>3

LEMMA NestCounted ==
  ASSUME NEW toks, NEW p, Nest(toks, p), NEW super \in 0 .. Len(toks)
  PROVE  Nest(CountedOf(toks, super), p)
<1> DEFINE r == CountedOf(toks, super)
<1>1. /\ r \in Seq(TokenRec) /\ Len(r) = Len(toks)
      /\ \A k \in 1 .. Len(toks) :
           r[k].type = toks[k].type /\ r[k].start = toks[k].start /\ r[k].end = toks[k].end
  BY CountedTokens DEF Nest
<1> HIDE DEF r
<1>2. \A k \in 1 .. Len(toks) : Placed(r[k], p)
  BY <1>1 DEF Nest, Placed
<1>3. \A j, k \in 1 .. Len(toks) : j < k => Apart(r[j], r[k])
  BY <1>1 DEF Nest, Apart
<1> QED
  BY <1>1, <1>2, <1>3 DEF Nest, r

LEMMA NestLater ==
  ASSUME NEW toks, NEW p \in Nat, NEW q \in Nat, p <= q, Nest(toks, p)
  PROVE  Nest(toks, q)
<1>1. ASSUME NEW k \in 1 .. Len(toks) PROVE Placed(toks[k], q)
  <2>1. toks[k] \in TokenRec /\ Placed(toks[k], p)
    BY ElementOfSeq DEF Nest
  <2> QED
    BY <2>1 DEF Placed, TokenRec
<1> QED
  BY <1>1 DEF Nest

LEMMA NestAppended ==
  ASSUME NEW toks, NEW p \in Nat, Nest(toks, p), NEW t \in TokenRec, p <= t.start,
         NEW q \in Nat, p <= q, Placed(t, q)
  PROVE  /\ Nest(Append(toks, t), q) /\ Len(Append(toks, t)) = Len(toks) + 1
         /\ Append(toks, t)[Len(toks) + 1] = t
         /\ \A k \in 1 .. Len(toks) : Append(toks, t)[k] = toks[k]
<1> DEFINE r == Append(toks, t)
<1>1. /\ toks \in Seq(TokenRec) /\ Len(toks) \in Nat
      /\ r \in Seq(TokenRec) /\ Len(r) = Len(toks) + 1
      /\ r[Len(toks) + 1] = t /\ \A k \in 1 .. Len(toks) : r[k] = toks[k]
  BY AppendProperties, LenProperties DEF Nest
<1>2. Nest(toks, q)
  BY NestLater
<1>3. \A k \in 1 .. Len(toks) : toks[k] \in TokenRec /\ Placed(toks[k], p)
  BY ElementOfSeq DEF Nest
<1>4. \A k \in 1 .. Len(r) : k \in 1 .. Len(toks) \/ k = Len(toks) + 1
  BY <1>1
<1> HIDE DEF r
<1>5. \A k \in 1 .. Len(r) : Placed(r[k], q)
  BY <1>1, <1>2, <1>4 DEF Nest
<1>6. ASSUME NEW j \in 1 .. Len(r), NEW k \in 1 .. Len(r), j < k
      PROVE  Apart(r[j], r[k])
  <2>1. CASE k \in 1 .. Len(toks)
    <3>1. j \in 1 .. Len(toks)
      BY <1>1, <1>6, <2>1
    <3> QED
      BY <1>1, <1>2, <1>6, <2>1, <3>1 DEF Nest
  <2>2. CASE k = Len(toks) + 1
    <3>1. j \in 1 .. Len(toks) /\ r[j] = toks[j] /\ r[k] = t
      BY <1>1, <1>6, <2>2
    <3>2. /\ toks[j] \in TokenRec /\ toks[j].start < p /\ toks[j].end <= p
      BY <1>3, <3>1 DEF Placed
    <3>3. toks[j].start < t.start /\ toks[j].end <= t.start
      BY <3>2 DEF TokenRec
    <3> QED
      BY <3>1, <3>3 DEF Apart
  <2> QED
    BY <1>4, <2>1, <2>2
<1> QED
  BY <1>1, <1>5, <1>6 DEF Nest, r

LEMMA NestClosed ==
  ASSUME NEW toks, NEW p \in Nat, Nest(toks, p), NEW c \in 1 .. Len(toks), toks[c].end = Unset,
         \A k \in 1 .. Len(toks) : c < k => toks[k].end # Unset
  PROVE  /\ Nest([toks EXCEPT ![c].end = p + 1], p + 1)
         /\ Len([toks EXCEPT ![c].end = p + 1]) = Len(toks)
         /\ \A k \in 1 .. Len(toks) :
              /\ [toks EXCEPT ![c].end = p + 1][k].type = toks[k].type
              /\ [toks EXCEPT ![c].end = p + 1][k].start = toks[k].start
              /\ [toks EXCEPT ![c].end = p + 1][k].size = toks[k].size
              /\ [toks EXCEPT ![c].end = p + 1][k].end = IF k = c THEN p + 1 ELSE toks[k].end
<1> DEFINE t == [toks[c] EXCEPT !.end = p + 1]
           r == [toks EXCEPT ![c] = t]
<1>1. /\ toks \in Seq(TokenRec) /\ Len(toks) \in Nat /\ DOMAIN toks = 1 .. Len(toks)
      /\ \A k \in 1 .. Len(toks) : toks[k] \in TokenRec /\ Placed(toks[k], p)
      /\ \A j, k \in 1 .. Len(toks) : j < k => Apart(toks[j], toks[k])
  BY ElementOfSeq, LenProperties DEF Nest
<1>2. /\ t \in TokenRec /\ t.type = toks[c].type /\ t.start = toks[c].start /\ t.size = toks[c].size
      /\ t.end = p + 1 /\ t.type \in Containers
  <2> DEFINE u == toks[c]
  <2>1. u \in TokenRec /\ Placed(u, p) /\ u.end = Unset /\ t = [u EXCEPT !.end = p + 1]
    BY <1>1
  <2> HIDE DEF t, u
  <2>2. t \in TokenRec /\ t.type = u.type /\ t.start = u.start /\ t.size = u.size /\ t.end = p + 1
    BY <2>1 DEF TokenRec
  <2>3. u.type \in Containers
    BY <2>1 DEF Placed
  <2> QED
    BY <2>2, <2>3 DEF u
<1> HIDE DEF t
<1>3. /\ r \in Seq(TokenRec) /\ Len(r) = Len(toks)
      /\ \A k \in 1 .. Len(toks) : r[k] = IF k = c THEN t ELSE toks[k]
  BY <1>1, <1>2, ExceptSeq
<1>4. r = [toks EXCEPT ![c].end = p + 1]
  BY DEF t
<1> HIDE DEF r
<1>5. ASSUME NEW k \in 1 .. Len(toks)
      PROVE  /\ r[k].type = toks[k].type /\ r[k].start = toks[k].start /\ r[k].size = toks[k].size
             /\ r[k].end = IF k = c THEN p + 1 ELSE toks[k].end
  BY <1>2, <1>3
<1>6. ASSUME NEW k \in 1 .. Len(toks) PROVE Placed(r[k], p + 1)
  <2>1. toks[k] \in TokenRec /\ Placed(toks[k], p)
    BY <1>1
  <2>2. CASE k = c
    <3>1. r[k] = t /\ t \in TokenRec /\ t.end = p + 1 /\ t.start < p /\ t.start = toks[k].start
      BY <1>2, <1>3, <2>1, <2>2 DEF Placed
    <3> QED
      BY <3>1 DEF Placed, TokenRec, Unset
  <2>3. CASE k # c
    <3>1. r[k] = toks[k]
      BY <1>3, <2>3
    <3> QED
      BY <2>1, <3>1 DEF Placed, TokenRec
  <2> QED
    BY <2>2, <2>3
<1>7. ASSUME NEW j \in 1 .. Len(toks), NEW k \in 1 .. Len(toks), j < k
      PROVE  Apart(r[j], r[k])
  <2>1. /\ toks[j] \in TokenRec /\ toks[k] \in TokenRec /\ Placed(toks[k], p) /\ Apart(toks[j], toks[k])
    BY <1>1, <1>7
  <2>2. CASE j = c
    <3>1. toks[k].end # Unset /\ k # c /\ toks[k].end < p + 1
      BY <1>7, <2>1, <2>2 DEF Placed, TokenRec
    <3> QED
      BY <1>2, <1>5, <2>1, <2>2, <3>1 DEF Apart
  <2>3. CASE k = c
    <3>1. j # c /\ (toks[j].end = Unset \/ toks[j].end <= toks[k].start)
      BY <1>7, <2>1, <2>3 DEF Apart
    <3> QED
      BY <1>5, <2>1, <2>3, <3>1 DEF Apart
  <2>4. CASE j # c /\ k # c
    BY <1>5, <2>1, <2>4 DEF Apart
  <2> QED
    BY <2>2, <2>3, <2>4
<1> QED
  BY <1>3, <1>4, <1>5, <1>6, <1>7 DEF Nest
-------------------------------------------------------------------------------
(* Where a string ends.  The scan of ClosingQuote exists: it is built from *)
(* the end of the text back, for what it says of a position depends on     *)
(* later ones.                                                             *)

LEMMA DigitsCounted ==
  ASSUME json \in Seq(Chars), NEW p \in Nat \ {0}, p <= Len(json) + 1
  PROVE  /\ Digits(p) \in 0 .. 4 /\ p + Digits(p) <= Len(json) + 1
         /\ \A k \in p .. p + Digits(p) - 1 : json[k] \in HexDigits
         /\ Digits(p) = 4 \/ p + Digits(p) = Len(json) + 1 \/ json[p + Digits(p)] \notin HexDigits
<1> DEFINE Ok(n) == /\ p + n <= Len(json) + 1
                    /\ \A k \in p .. p + n - 1 : json[k] \in HexDigits
                    /\ n = 4 \/ p + n = Len(json) + 1 \/ json[p + n] \notin HexDigits
           Hex(k) == json[k] \in HexDigits
           Stop(k) == k = Len(json) + 1 \/ ~Hex(k)
<1>1. \E n \in 0 .. 4 : Ok(n)
  <2>1. \A k \in Int : Hex(k) <=> json[k] \in HexDigits
    OBVIOUS
  <2>2. \A n \in 0 .. 4 : /\ p + n <= Len(json) + 1 /\ \A k \in p .. p + n - 1 : Hex(k)
                          /\ n = 4 \/ Stop(p + n)
                          => Ok(n)
    OBVIOUS
  <2>3. \A k \in Int : k <= Len(json) + 1 /\ ~Stop(k) => k <= Len(json) /\ Hex(k)
    OBVIOUS
  <2> HIDE DEF Hex, Stop, Ok
  <2>4. CASE Stop(p)
    <3>1. Ok(0)
      BY <2>2, <2>4
    <3> QED
      BY <3>1
  <2>5. CASE ~Stop(p) /\ Stop(p + 1)
    <3>1. Ok(1)
      BY <2>2, <2>3, <2>5
    <3> QED
      BY <3>1
  <2>6. CASE ~Stop(p) /\ ~Stop(p + 1) /\ Stop(p + 2)
    <3>1. p + 1 <= Len(json) /\ Hex(p) /\ Hex(p + 1)
      BY <2>3, <2>6
    <3>2. Ok(2)
      BY <2>2, <2>6, <3>1
    <3> QED
      BY <3>2
  <2>7. CASE ~Stop(p) /\ ~Stop(p + 1) /\ ~Stop(p + 2) /\ Stop(p + 3)
    <3>1. p + 2 <= Len(json) /\ Hex(p) /\ Hex(p + 1) /\ Hex(p + 2)
      BY <2>3, <2>7
    <3>2. Ok(3)
      BY <2>2, <2>7, <3>1
    <3> QED
      BY <3>2
  <2>8. CASE ~Stop(p) /\ ~Stop(p + 1) /\ ~Stop(p + 2) /\ ~Stop(p + 3)
    <3>1. p + 3 <= Len(json) /\ Hex(p) /\ Hex(p + 1) /\ Hex(p + 2) /\ Hex(p + 3)
      BY <2>3, <2>8
    <3>2. Ok(4)
      BY <2>2, <3>1
    <3> QED
      BY <3>2
  <2> QED
    BY <2>4, <2>5, <2>6, <2>7, <2>8
<1>2. Digits(p) = CHOOSE n \in 0 .. 4 : Ok(n)
  BY DEF Digits
<1> HIDE DEF Ok
<1>3. Digits(p) \in 0 .. 4 /\ Ok(Digits(p))
  BY <1>1, <1>2
<1> QED
  BY <1>3 DEF Ok

\* What the scan says of one position.
Scanned(f, p) ==
  IF p > Len(json) THEN PART
  ELSE IF json[p] = DoubleQuote THEN p
  ELSE IF json[p] # Escape \/ p = Len(json) THEN f[p + 1]
  ELSE IF json[p + 1] \in Escapable THEN f[p + 2]
  ELSE IF json[p + 1] # "u" THEN INVAL
  ELSE LET next == p + 2 + Digits(p + 2)
       IN  IF next = p + 6 \/ next > Len(json) THEN f[next] ELSE INVAL

Ends(p) == {PART, INVAL} \union (p .. Len(json))

LEMMA ScannedFromLater ==
  ASSUME json \in Seq(Chars), NEW p \in Nat \ {0}, p <= Len(json) + 1, NEW f, NEW g,
         \A q \in p + 1 .. Len(json) + 1 : f[q] = g[q] /\ f[q] \in Ends(q)
  PROVE  Scanned(f, p) = Scanned(g, p) /\ Scanned(f, p) \in Ends(p)
<1>1. \A q \in p + 1 .. Len(json) + 1 : f[q] = g[q] /\ f[q] \in Ends(p)
  BY DEF Ends
<1>2. CASE p > Len(json)
  BY <1>2 DEF Scanned, Ends
<1>3. CASE p <= Len(json) /\ json[p] = DoubleQuote
  BY <1>3 DEF Scanned, Ends
<1>4. CASE p <= Len(json) /\ json[p] # DoubleQuote /\ (json[p] # Escape \/ p = Len(json))
  BY <1>1, <1>4 DEF Scanned
<1>5. CASE p < Len(json) /\ json[p] = Escape
  <2>1. /\ p + 2 \in p + 1 .. Len(json) + 1 /\ p + 2 \in Nat \ {0} /\ json[p] # DoubleQuote
    BY <1>5 DEF Escape, DoubleQuote
  <2>2. Digits(p + 2) \in Nat /\ p + 2 + Digits(p + 2) \in p + 1 .. Len(json) + 1
    <3>1. p + 2 <= Len(json) + 1
      BY <1>5
    <3>2. Digits(p + 2) \in 0 .. 4 /\ p + 2 + Digits(p + 2) <= Len(json) + 1
      BY <2>1, <3>1, DigitsCounted
    <3> QED
      BY <3>2
  <2> DEFINE next == p + 2 + Digits(p + 2)
  <2>3. next \in p + 1 .. Len(json) + 1
    BY <2>2
  <2>4. \A h : Scanned(h, p) = IF json[p + 1] \in Escapable THEN h[p + 2]
                               ELSE IF json[p + 1] # "u" THEN INVAL
                               ELSE IF next = p + 6 \/ next > Len(json) THEN h[next] ELSE INVAL
    BY <1>5, <2>1 DEF Scanned
  <2> HIDE DEF next
  <2>5. INVAL \in Ends(p)
    BY DEF Ends
  <2> QED
    BY <1>1, <2>1, <2>3, <2>4, <2>5
<1> QED
  BY <1>2, <1>3, <1>4, <1>5

LEMMA ScanExists ==
  ASSUME json \in Seq(Chars)
  PROVE  \A k \in Nat : k <= Len(json) =>
           \E f : f = [p \in Len(json) + 1 - k .. Len(json) + 1 |-> Scanned(f, p)]
<1> DEFINE L == Len(json)
           Built(f, n) == /\ f = [p \in n .. L + 1 |-> Scanned(f, p)]
                          /\ \A p \in n .. L + 1 : f[p] \in Ends(p)
           S == {k \in Nat : k <= L => \E f : Built(f, L + 1 - k)}
<1>0. L \in Nat
  OBVIOUS
<1>1. 0 \in S
  <2> DEFINE f == [p \in L + 1 .. L + 1 |-> PART]
  <2>1. \A g : \A p \in L + 1 .. L + 1 : Scanned(g, p) = PART /\ PART \in Ends(p)
    BY DEF Scanned, Ends
  <2>2. f = [p \in L + 1 .. L + 1 |-> Scanned(f, p)] /\ \A p \in L + 1 .. L + 1 : f[p] \in Ends(p)
    BY <2>1
  <2>3. L + 1 - 0 = L + 1
    OBVIOUS
  <2>4. Built(f, L + 1)
    BY <2>2
  <2> HIDE DEF f, Built
  <2> QED
    BY <2>3, <2>4
<1>2. ASSUME NEW k \in Nat, k \in S PROVE k + 1 \in S
  <2> SUFFICES ASSUME k + 1 <= L PROVE \E f : Built(f, L + 1 - (k + 1))
    OBVIOUS
  <2> DEFINE n == L - k
  <2>1. PICK f : Built(f, n + 1)
    <3>1. L + 1 - k = n + 1 /\ k <= L
      <4> HIDE DEF L
      <4> QED
        BY <1>0
    <3> HIDE DEF Built, n
    <3> QED
      BY <1>2, <3>1
  <2>2. n \in Nat \ {0} /\ n <= L /\ L + 1 - (k + 1) = n
    <3> HIDE DEF L
    <3> QED
      BY <1>0
  <2> DEFINE g == [p \in n .. L + 1 |-> IF p = n THEN Scanned(f, n) ELSE f[p]]
  <2> HIDE DEF n, L
  <2>3. /\ DOMAIN g = n .. L + 1
        /\ \A p \in n + 1 .. L + 1 : f[p] = Scanned(f, p) /\ f[p] \in Ends(p)
    BY <2>1
  <2>4. g[n] = Scanned(f, n) /\ \A p \in n + 1 .. L + 1 : g[p] = f[p]
    BY <1>0, <2>2
  <2> HIDE DEF g
  <2>5. ASSUME NEW p \in n .. L + 1
        PROVE  g[p] = Scanned(g, p) /\ g[p] \in Ends(p)
    <3>1. p \in Nat \ {0} /\ p <= L + 1 /\ \A q \in p + 1 .. L + 1 : q \in n + 1 .. L + 1
      BY <1>0, <2>2
    <3>2. \A q \in p + 1 .. L + 1 : f[q] = g[q] /\ f[q] \in Ends(q)
      BY <2>3, <2>4, <3>1
    <3>3. Scanned(f, p) = Scanned(g, p) /\ Scanned(f, p) \in Ends(p)
      BY <3>1, <3>2, ScannedFromLater DEF L
    <3>4. p = n \/ p \in n + 1 .. L + 1
      BY <1>0, <2>2
    <3> QED
      BY <2>3, <2>4, <3>3, <3>4
  <2>6. g = [p \in n .. L + 1 |-> Scanned(g, p)]
    <3>1. g = [p \in n .. L + 1 |-> g[p]]
      BY <2>3, <2>4 DEF g
    <3> QED
      BY <2>5, <3>1
  <2>7. Built(g, n)
    BY <2>5, <2>6
  <2> HIDE DEF Built
  <2> QED
    BY <2>2, <2>7
<1> HIDE DEF S
<1>3. Nat \subseteq S
  BY <1>1, <1>2, Induction
<1> QED
  BY <1>3 DEF S

LEMMA ScanEnds ==
  ASSUME json \in Seq(Chars), NEW n \in Nat \ {0}, NEW f,
         \A p \in n .. Len(json) + 1 : f[p] = Scanned(f, p)
  PROVE  \A p \in n .. Len(json) + 1 : f[p] \in Ends(p)
<1> DEFINE L == Len(json)
           S == {k \in Nat : \A p \in n .. L + 1 : p + k >= L + 1 => f[p] \in Ends(p)}
<1>0. L \in Nat
  OBVIOUS
<1>1. ASSUME NEW p \in n .. L + 1, \A q \in p + 1 .. L + 1 : f[q] \in Ends(q)
      PROVE  f[p] \in Ends(p)
  <2>1. p \in Nat \ {0} /\ p <= L + 1
    <3> HIDE DEF L
    <3> QED
      BY <1>0
  <2> QED
    BY <1>1, <2>1, ScannedFromLater
<1> HIDE DEF L
<1>2. 0 \in S
  BY <1>0, <1>1
<1>3. ASSUME NEW k \in Nat, k \in S PROVE k + 1 \in S
  <2> SUFFICES ASSUME NEW p \in n .. L + 1, p + (k + 1) >= L + 1 PROVE f[p] \in Ends(p)
    OBVIOUS
  <2>1. \A q \in p + 1 .. L + 1 : q \in n .. L + 1 /\ q + k >= L + 1
    BY <1>0
  <2> QED
    BY <1>1, <1>3, <2>1
<1> HIDE DEF S
<1>4. Nat \subseteq S
  BY <1>2, <1>3, Induction
<1>5. \A p \in n .. L + 1 : L + 1 \in Nat /\ p + (L + 1) >= L + 1
  BY <1>0
<1> QED
  BY <1>4, <1>5 DEF S, L

\* What the scan that ClosingQuote makes says of each position.
ScansFrom(f, start) ==
  /\ \A p \in start + 1 .. Len(json) + 1 : f[p] = Scanned(f, p) /\ f[p] \in Ends(p)
  /\ ClosingQuote(start) = f[start + 1]

LEMMA QuoteFound ==
  ASSUME json \in Seq(Chars), NEW start \in 1 .. Len(json)
  PROVE  \E f : ScansFrom(f, start)
<1> DEFINE n == start + 1
           L == Len(json)
           IsScan(g) == g = [p \in n .. L + 1 |-> Scanned(g, p)]
           f == CHOOSE g : IsScan(g)
<1>0. L \in Nat /\ start \in 1 .. L /\ n \in Nat \ {0}
  OBVIOUS
<1>1. \E g : IsScan(g)
  <2>1. L - start \in Nat /\ L - start <= L /\ L + 1 - (L - start) = n
    <3> HIDE DEF L
    <3> QED
      BY <1>0
  <2>2. \E g : g = [p \in L + 1 - (L - start) .. L + 1 |-> Scanned(g, p)]
    BY <2>1, ScanExists
  <2> HIDE DEF n, L
  <2> QED
    BY <2>1, <2>2
<1>2. ClosingQuote(start) = f[n]
  BY DEF ClosingQuote, Scanned
<1> HIDE DEF IsScan
<1>3. IsScan(f)
  BY <1>1
<1> HIDE DEF f
<1>4. \A p \in n .. L + 1 : f[p] = Scanned(f, p)
  BY <1>3 DEF IsScan
<1> HIDE DEF n
<1>5. \A p \in n .. L + 1 : f[p] \in Ends(p)
  BY <1>0, <1>4, ScanEnds
<1> QED
  BY <1>2, <1>4, <1>5 DEF ScansFrom, n
-------------------------------------------------------------------------------
(* The least and the greatest of a set of numbers. *)

LEMMA LeastExists ==
  ASSUME NEW S, S \subseteq Nat, S # {}
  PROVE  \E k \in S : \A j \in S : k <= j
<1>1. IsWellFoundedOn(Less, Nat)
  BY NatLessThanWellFounded, Zenon DEF OpToRel, Less
<1>2. PICK k \in S : \A j \in S : ~(<<j, k>> \in Less)
  BY <1>1, WFMin, Zenon
<1>3. \A j \in Nat : j < k => <<j, k>> \in Less
  BY DEF Less
<1>4. ASSUME NEW j \in S PROVE k <= j
  <2>1. j \in Nat /\ k \in Nat /\ ~(j < k)
    BY <1>2, <1>3
  <2> QED
    BY <2>1
<1> QED
  BY <1>4

LEMMA GreatestExists ==
  ASSUME NEW n \in Nat, NEW S, S \subseteq 1 .. n, S # {}
  PROVE  \E k \in S : \A j \in S : j <= k
<1> DEFINE T == {n - k : k \in S}
<1>1. T \subseteq Nat /\ T # {}
  <2>1. \A k \in S : k \in 1 .. n
    OBVIOUS
  <2>2. \A k \in 1 .. n : n - k \in Nat
    OBVIOUS
  <2> QED
    BY <2>1, <2>2
<1>2. PICK l \in T : \A j \in T : l <= j
  <2> HIDE DEF T
  <2> QED
    BY <1>1, LeastExists
<1>3. PICK k \in S : l = n - k
  OBVIOUS
<1>4. \A j \in S : l <= n - j
  BY <1>2
<1> QED
  BY <1>3, <1>4

LEMMA InnermostIs ==
  ASSUME NEW n \in Nat, NEW S, S \subseteq 1 .. n
  PROVE  /\ Innermost(S) \in 0 .. n
         /\ S = {} <=> Innermost(S) = 0
         /\ S # {} => Innermost(S) \in S /\ \A j \in S : j <= Innermost(S)
<1>1. CASE S = {}
  BY <1>1 DEF Innermost
<1>2. CASE S # {}
  <2>1. \E k \in S : \A j \in S : j <= k
    BY <1>2, GreatestExists
  <2>2. Innermost(S) = CHOOSE k \in S : \A j \in S : j <= k
    BY <1>2 DEF Innermost
  <2>3. Innermost(S) \in S /\ \A j \in S : j <= Innermost(S)
    BY <2>1, <2>2
  <2>4. Innermost(S) \in 1 .. n
    BY <2>3
  <2>5. Innermost(S) \in 0 .. n /\ Innermost(S) # 0
    BY ONLY <2>4, n \in Nat
  <2> QED
    BY <1>2, <2>3, <2>5
<1> QED
  BY <1>1, <1>2

Delimiters == {":", ",", "]", "}", Space}

LEMMA PrimitiveEnds ==
  ASSUME json \in Seq(Chars), pos \in 1 .. Len(json)
  PROVE  /\ PrimitiveEnd \in pos .. Len(json) + 1
         /\ PrimitiveEnd = Len(json) + 1 \/ json[PrimitiveEnd] \in Delimiters
         /\ \A k \in pos .. PrimitiveEnd - 1 : json[k] \notin Delimiters
<1> DEFINE L == Len(json)
           S == {e \in pos .. L + 1 : e = L + 1 \/ json[e] \in Delimiters}
           Ok(e) == /\ e = L + 1 \/ json[e] \in Delimiters
                    /\ \A k \in pos .. e - 1 : json[k] \notin Delimiters
<1>0. L \in Nat /\ pos \in 1 .. L
  OBVIOUS
<1> HIDE DEF L
<1>1. S \subseteq Nat /\ L + 1 \in S
  BY <1>0
<1>2. PICK e \in S : \A j \in S : e <= j
  <2> HIDE DEF S
  <2> QED
    BY <1>1, LeastExists
<1>3. \A k \in pos .. e - 1 : k \in pos .. L + 1 /\ ~(e <= k)
  BY <1>0
<1>4. e \in pos .. L + 1 /\ Ok(e)
  BY <1>2, <1>3
<1>5. PrimitiveEnd = CHOOSE x \in pos .. L + 1 : Ok(x)
  BY DEF PrimitiveEnd, Delimiters, L
<1> HIDE DEF Ok, S
<1>6. PrimitiveEnd \in pos .. L + 1 /\ Ok(PrimitiveEnd)
  BY <1>4, <1>5
<1> QED
  BY <1>6 DEF Ok, L
-------------------------------------------------------------------------------
(* The reader, on any text. *)

ReaderInv ==
  /\ json \in Seq(Chars) /\ pos \in 1 .. Len(json) + 1
  /\ Nest(tokens, pos) /\ Len(tokens) <= NumTokens
  /\ toksuper \in 0 .. Len(tokens)

LEMMA ReaderStarts ==
  ASSUME json \in Seq(Chars), pos = 1, tokens = <<>>, toksuper = 0
  PROVE  ReaderInv
<1>1. Len(tokens) = 0 /\ tokens \in Seq(TokenRec)
  OBVIOUS
<1>2. Len(json) \in Nat
  OBVIOUS
<1> QED
  BY <1>1, <1>2, NumTokensAssumption DEF ReaderInv, Nest

LEMMA ReaderRestarts ==
  ASSUME json' \in Seq(Chars), pos' = 1, tokens' = <<>>, toksuper' = 0
  PROVE  ReaderInv'
<1>1. Len(tokens') = 0 /\ tokens' \in Seq(TokenRec)
  OBVIOUS
<1>2. Len(json') \in Nat
  OBVIOUS
<1> QED
  BY <1>1, <1>2, NumTokensAssumption DEF ReaderInv, Nest

LEMMA ReaderTyped ==
  ASSUME ReaderInv
  PROVE  /\ json \in Seq(Chars) /\ Len(json) \in Nat
         /\ pos \in Nat \ {0} /\ pos <= Len(json) + 1 /\ (pos <= Len(json) => pos \in 1 .. Len(json))
         /\ tokens \in Seq(TokenRec) /\ Len(tokens) \in Nat /\ DOMAIN tokens = 1 .. Len(tokens)
         /\ toksuper \in 0 .. Len(tokens) /\ Len(tokens) <= NumTokens /\ Nest(tokens, pos)
<1> DEFINE L == Len(json)
<1>1. json \in Seq(Chars) /\ L \in Nat /\ pos \in 1 .. L + 1
  BY DEF ReaderInv
<1>2. pos \in Nat \ {0} /\ pos <= L + 1 /\ (pos <= L => pos \in 1 .. L)
  <2> HIDE DEF L
  <2> QED
    BY <1>1
<1>3. tokens \in Seq(TokenRec) /\ Len(tokens) \in Nat /\ DOMAIN tokens = 1 .. Len(tokens)
  <2>1. tokens \in Seq(TokenRec)
    BY DEF ReaderInv, Nest
  <2> QED
    BY <2>1, LenProperties
<1> QED
  BY <1>1, <1>2, <1>3 DEF ReaderInv

LEMMA NestToken ==
  ASSUME NEW toks, NEW p \in Nat \ {0}, Nest(toks, p), NEW type \in {"string", "primitive"},
         NEW start \in Nat, p <= start, NEW end \in Nat, start <= end,
         NEW q \in Nat, end <= q, start < q, NEW super \in 0 .. Len(toks)
  PROVE  LET r == CountedOf(Append(toks, JsonToken(type, start, end)), super)
         IN  Nest(r, q) /\ Len(r) = Len(toks) + 1
<1> DEFINE t == JsonToken(type, start, end)
           a == Append(toks, t)
<1>1. t \in TokenRec /\ t.start = start /\ t.end = end /\ t.type = type /\ end # Unset
  BY DEF JsonToken, TokenRec, Unset
<1> HIDE DEF t
<1>2. p \in Nat /\ p <= t.start /\ p <= q /\ Placed(t, q)
  BY <1>1 DEF Placed
<1>3. Nest(a, q) /\ Len(a) = Len(toks) + 1
  BY <1>1, <1>2, NestAppended
<1> HIDE DEF a
<1>4. super \in 0 .. Len(a) /\ a \in Seq(TokenRec)
  <2>1. Len(toks) \in Nat
    BY DEF Nest
  <2> QED
    BY <1>3, <2>1 DEF Nest
<1>5. Nest(CountedOf(a, super), q) /\ Len(CountedOf(a, super)) = Len(a)
  BY <1>3, <1>4, NestCounted, CountedTokens
<1> QED
  BY <1>3, <1>5 DEF a, t

LEMMA OpenKeeps ==
  ASSUME ReaderInv, ParseOpen, ~Full
  PROVE  ReaderInv'
<1> DEFINE c == Counted(tokens)
           t == JsonToken(IF json[pos] = "{" THEN "object" ELSE "array", pos, Unset)
           L == Len(json)
<1>1. /\ json \in Seq(Chars) /\ L \in Nat /\ pos \in 1 .. L /\ pos \in Nat \ {0}
      /\ tokens \in Seq(TokenRec) /\ Len(tokens) \in Nat /\ toksuper \in 0 .. Len(tokens)
      /\ Len(tokens) # NumTokens /\ Len(tokens) <= NumTokens
      /\ tokens' = Append(c, t) /\ toksuper' = Len(tokens') /\ pos' = pos + 1 /\ json' = json
  <2>1. /\ pos <= L /\ Len(tokens) # NumTokens
        /\ tokens' = Append(c, t) /\ toksuper' = Len(tokens') /\ pos' = pos + 1 /\ json' = json
    BY DEF ParseOpen, At, Full, Goes
  <2> HIDE DEF c, t
  <2> QED
    BY <2>1, ReaderTyped
<1>2. Nest(c, pos) /\ Len(c) = Len(tokens)
  BY <1>1, NestCounted, CountedTokens DEF ReaderInv, Counted, CountedOf
<1>3. t \in TokenRec /\ t.start = pos /\ Placed(t, pos + 1)
  <2>1. pos \in Nat \ {0} /\ pos < pos + 1 /\ 0 <= pos + 1
    <3>1. pos \in Nat \ {0}
      BY <1>1
    <3> QED
      BY ONLY <3>1
  <2>2. \A type \in {"object", "array"} :
          LET u == JsonToken(type, pos, Unset)
          IN  /\ u \in TokenRec /\ u.start = pos /\ u.end = 0 /\ u.type \in {"object", "array"}
    BY <2>1 DEF JsonToken, TokenRec, Unset
  <2>3. (IF json[pos] = "{" THEN "object" ELSE "array") \in {"object", "array"}
    OBVIOUS
  <2>4. t \in TokenRec /\ t.start = pos /\ t.end = 0 /\ t.type \in {"object", "array"}
    BY <2>2, <2>3
  <2> HIDE DEF t
  <2> QED
    BY <2>1, <2>4 DEF Placed, Unset, Containers
<1> HIDE DEF c, t
<1>4. Nest(Append(c, t), pos + 1) /\ Len(Append(c, t)) = Len(tokens) + 1
  <2>1. pos \in Nat /\ pos <= t.start /\ pos + 1 \in Nat /\ pos <= pos + 1
    BY <1>1, <1>3
  <2> QED
    BY <1>2, <1>3, <2>1, NestAppended
<1>5. NumTokens \in Nat
  BY NumTokensAssumption
<1>6. Len(tokens') = Len(tokens) + 1 /\ Len(tokens') \in Nat /\ Len(tokens') <= NumTokens
  BY <1>1, <1>4, <1>5
<1>7. pos' \in 1 .. L + 1 /\ Len(json') = L
  <2> HIDE DEF L
  <2>1. pos' \in 1 .. L + 1
    BY <1>1
  <2> QED
    BY <1>1, <2>1 DEF L
<1> QED
  BY <1>1, <1>4, <1>6, <1>7 DEF ReaderInv

LEMMA CloseKeeps ==
  ASSUME ReaderInv, ParseClose, result' = result
  PROVE  ReaderInv'
<1> DEFINE c == Innermost(Open)
           L == Len(json)
<1>0. result = None
  BY DEF ParseClose, At
<1>1. /\ json \in Seq(Chars) /\ L \in Nat /\ pos \in 1 .. L /\ pos \in Nat
      /\ tokens \in Seq(TokenRec) /\ Len(tokens) \in Nat /\ DOMAIN tokens = 1 .. Len(tokens)
      /\ Len(tokens) <= NumTokens /\ Nest(tokens, pos)
  <2>1. pos <= L
    BY DEF ParseClose, At
  <2> QED
    BY <2>1, ReaderTyped
<1>2. /\ c # 0 /\ tokens' = [tokens EXCEPT ![c].end = pos + 1]
      /\ toksuper' = Innermost(Open \ {c}) /\ pos' = pos + 1 /\ json' = json
  <2>1. \A x \in {INVAL} : ~Fails(x)
    BY <1>0 DEF Fails, INVAL, None
  <2> DEFINE failed == c = 0 \/ tokens[c].type # (IF json[pos] = "}" THEN "object" ELSE "array")
  <2>2. IF failed THEN Fails(INVAL)
        ELSE /\ tokens' = [tokens EXCEPT ![c].end = pos + 1]
             /\ toksuper' = Innermost(Open \ {c})
             /\ Goes(pos + 1)
    BY DEF ParseClose
  <2>3. c = 0 => failed
    OBVIOUS
  <2> HIDE DEF failed, c
  <2> QED
    BY <2>1, <2>2, <2>3 DEF Goes
<1>3. Open \subseteq 1 .. Len(tokens) /\ Open \ {c} \subseteq 1 .. Len(tokens)
  BY <1>1 DEF Open
<1>4. c \in Open /\ \A j \in Open : j <= c
  BY <1>1, <1>2, <1>3, InnermostIs
<1>5. Innermost(Open \ {c}) \in 0 .. Len(tokens)
  BY <1>1, <1>3, InnermostIs
<1> HIDE DEF c
<1>6. c \in 1 .. Len(tokens) /\ tokens[c].end = Unset
  BY <1>1, <1>4 DEF Open
<1>7. \A k \in 1 .. Len(tokens) : c < k => tokens[k].end # Unset
  BY <1>1, <1>4, <1>6 DEF Open
<1>8. Nest(tokens', pos + 1) /\ Len(tokens') = Len(tokens)
  <2>1. /\ Nest([tokens EXCEPT ![c].end = pos + 1], pos + 1)
        /\ Len([tokens EXCEPT ![c].end = pos + 1]) = Len(tokens)
    <3>1. pos \in Nat /\ Nest(tokens, pos)
      BY <1>1
    <3> QED
      BY <1>6, <1>7, <3>1, NestClosed
  <2> QED
    BY <1>2, <2>1, Zenon
<1>9. pos' \in 1 .. L + 1 /\ Len(json') = L
  <2> HIDE DEF L
  <2>1. pos' \in 1 .. L + 1
    BY <1>1, <1>2
  <2> QED
    BY <1>2, <2>1 DEF L
<1> QED
  BY <1>1, <1>2, <1>5, <1>8, <1>9 DEF ReaderInv

LEMMA StringKeeps ==
  ASSUME ReaderInv, ParseString, result' = result
  PROVE  ReaderInv'
<1> DEFINE e == ClosingQuote(pos)
           L == Len(json)
<1>0. result = None
  BY DEF ParseString, At
<1>1. /\ json \in Seq(Chars) /\ L \in Nat /\ pos \in 1 .. L /\ pos \in Nat \ {0}
      /\ tokens \in Seq(TokenRec) /\ Len(tokens) \in Nat /\ toksuper \in 0 .. Len(tokens)
      /\ Len(tokens) <= NumTokens
  BY DEF ReaderInv, ParseString, At, Nest
<1>2. e \in Ends(pos + 1)
  <2>1. PICK f : ScansFrom(f, pos)
    BY <1>1, QuoteFound
  <2>2. pos + 1 \in pos + 1 .. L + 1
    <3> HIDE DEF L
    <3> QED
      BY <1>1
  <2> QED
    BY <2>1, <2>2 DEF ScansFrom
<1> HIDE DEF e
<1>3. /\ ~(e < 0) /\ Len(tokens) # NumTokens
      /\ tokens' = CountedOf(Append(tokens, JsonToken("string", pos + 1, e)), toksuper)
      /\ pos' = e + 1 /\ json' = json /\ toksuper' = toksuper
  <2>1. e \in Int /\ e # None
    BY <1>1, <1>2 DEF Ends, PART, INVAL, None
  <2>2. \A x : ~Fails(x) \/ x = None
    BY <1>0 DEF Fails
  <2> QED
    BY <2>1, <2>2 DEF ParseString, e, Full, Goes, Counted, CountedOf, NOMEM, None
<1>4. e \in pos + 1 .. L
  BY <1>2, <1>3 DEF Ends, PART, INVAL
<1>5. /\ pos + 1 \in Nat /\ pos <= pos + 1 /\ e \in Nat /\ pos + 1 <= e /\ e + 1 \in Nat /\ e <= e + 1
      /\ pos + 1 < e + 1 /\ e + 1 \in 1 .. L + 1
  <2> HIDE DEF L
  <2> QED
    BY <1>1, <1>4
<1>6. Nest(tokens', e + 1) /\ Len(tokens') = Len(tokens) + 1
  BY <1>1, <1>3, <1>5, NestToken DEF ReaderInv
<1>7. Len(tokens') <= NumTokens /\ toksuper' \in 0 .. Len(tokens')
  BY <1>1, <1>3, <1>6, NumTokensAssumption
<1> QED
  BY <1>1, <1>3, <1>5, <1>6, <1>7 DEF ReaderInv

LEMMA PrimitiveKeeps ==
  ASSUME ReaderInv, ParsePrimitive, result' = result
  PROVE  ReaderInv'
<1> DEFINE e == PrimitiveEnd
           L == Len(json)
<1>0. result = None
  BY DEF ParsePrimitive
<1>1. /\ json \in Seq(Chars) /\ L \in Nat /\ pos \in 1 .. L /\ pos \in Nat \ {0}
      /\ tokens \in Seq(TokenRec) /\ Len(tokens) \in Nat /\ toksuper \in 0 .. Len(tokens)
      /\ Len(tokens) <= NumTokens
  <2>1. pos <= L
    BY DEF ParsePrimitive
  <2> QED
    BY <2>1, ReaderTyped
<1>2. /\ Len(tokens) # NumTokens
      /\ tokens' = CountedOf(Append(tokens, JsonToken("primitive", pos, e)), toksuper)
      /\ pos' = e /\ json' = json /\ toksuper' = toksuper
  <2>1. \A x \in {INVAL, NOMEM} : ~Fails(x)
    BY <1>0 DEF Fails, NOMEM, INVAL, None
  <2> DEFINE bad == \E k \in pos .. e - 1 : json[k] \in Unprintable
  <2>2. IF bad THEN Fails(INVAL)
        ELSE IF Full THEN Fails(NOMEM)
        ELSE /\ tokens' = Counted(Append(tokens, JsonToken("primitive", pos, e)))
             /\ Goes(e)
             /\ UNCHANGED toksuper
    BY DEF ParsePrimitive
  <2> HIDE DEF bad, e
  <2> QED
    BY <2>1, <2>2 DEF Goes, Full, Counted, CountedOf
<1>3. e \in pos .. L + 1 /\ (e = L + 1 \/ json[e] \in Delimiters)
  BY <1>1, PrimitiveEnds
<1>4. json[pos] \notin Delimiters
  BY <1>0, <1>1 DEF ParsePrimitive, At, Delimiters
<1> HIDE DEF e
<1>5. pos < e /\ e \in Nat /\ e \in 1 .. L + 1
  <2>1. e # pos
    <3>1. L + 1 # pos
      <4> HIDE DEF L
      <4> QED
        BY <1>1
    <3> QED
      BY <1>3, <1>4, <3>1
  <2>2. e \in pos .. L + 1
    BY <1>3
  <2> HIDE DEF L
  <2>3. L \in Nat /\ pos \in Nat /\ 0 < pos
    BY <1>1
  <2> QED
    BY ONLY <2>1, <2>2, <2>3
<1>6. Nest(tokens', e) /\ Len(tokens') = Len(tokens) + 1
  <2>1. pos \in Nat /\ pos <= pos /\ pos <= e /\ e <= e
    BY <1>1, <1>5
  <2> QED
    BY <1>1, <1>2, <1>5, <2>1, NestToken DEF ReaderInv
<1>7. Len(tokens') <= NumTokens /\ toksuper' \in 0 .. Len(tokens')
  BY <1>1, <1>2, <1>6, NumTokensAssumption
<1> QED
  BY <1>1, <1>2, <1>5, <1>6, <1>7 DEF ReaderInv

LEMMA ParseKeeps ==
  ASSUME ReaderInv, Parse
  PROVE  ReaderInv'
<1> DEFINE L == Len(json)
<1>1. /\ json \in Seq(Chars) /\ L \in Nat /\ pos \in 1 .. L + 1
      /\ tokens \in Seq(TokenRec) /\ Len(tokens) \in Nat /\ DOMAIN tokens = 1 .. Len(tokens)
      /\ toksuper \in 0 .. Len(tokens) /\ Nest(tokens, pos) /\ Len(tokens) <= NumTokens
  BY DEF ReaderInv, Nest
<1>2. CASE UNCHANGED <<json, pos, tokens, toksuper>>
  BY <1>2 DEF ReaderInv, Nest
<1>3. CASE pos <= L /\ pos' = pos + 1 /\ UNCHANGED <<json, tokens>> /\ toksuper' \in 0 .. Len(tokens)
  <2>1. pos \in Nat /\ pos + 1 \in Nat /\ pos <= pos + 1 /\ pos' \in 1 .. L + 1
    <3> HIDE DEF L
    <3> QED
      BY <1>1, <1>3
  <2>2. Nest(tokens, pos + 1)
    BY <1>1, <2>1, NestLater
  <2> QED
    BY <1>1, <1>3, <2>1, <2>2 DEF ReaderInv
<1>4. CASE ParseOpen
  <2>1. Full \/ ~Full
    OBVIOUS
  <2>2. CASE Full
    BY <1>2, <1>4, <2>2 DEF ParseOpen, Fails
  <2> QED
    BY <1>4, <2>1, <2>2, OpenKeeps
<1>5. CASE ParseClose
  <2>1. UNCHANGED <<json, pos, tokens, toksuper>> \/ result' = result
    BY <1>5 DEF ParseClose, Fails, Goes
  <2> QED
    BY <1>2, <1>5, <2>1, CloseKeeps
<1>6. CASE ParseString
  <2>1. UNCHANGED <<json, pos, tokens, toksuper>> \/ result' = result
    BY <1>6 DEF ParseString, Fails, Goes
  <2> QED
    BY <1>2, <1>6, <2>1, StringKeeps
<1>7. CASE ParsePrimitive
  <2>1. UNCHANGED <<json, pos, tokens, toksuper>> \/ result' = result
    BY <1>7 DEF ParsePrimitive, Fails, Goes
  <2> QED
    BY <1>2, <1>7, <2>1, PrimitiveKeeps
<1>8. CASE ParseSpace
  BY <1>1, <1>3, <1>8 DEF ParseSpace, At, Goes
<1>9. CASE ParseColon
  BY <1>1, <1>3, <1>9 DEF ParseColon, At, Goes
<1>10. CASE ParseComma
  <2>1. Innermost(Open) \in 0 .. Len(tokens)
    <3>1. Open \subseteq 1 .. Len(tokens)
      BY <1>1 DEF Open
    <3> QED
      BY <1>1, <3>1, InnermostIs
  <2>2. toksuper' \in 0 .. Len(tokens) /\ pos <= L /\ pos' = pos + 1 /\ UNCHANGED <<json, tokens>>
    BY <1>1, <1>10, <2>1 DEF ParseComma, At, Goes
  <2> QED
    BY <1>3, <2>2
<1>11. CASE ParseEnd
  BY <1>2, <1>11 DEF ParseEnd
<1> QED
  BY <1>4, <1>5, <1>6, <1>7, <1>8, <1>9, <1>10, <1>11 DEF Parse
-------------------------------------------------------------------------------
(* The writer.  What a string becomes is built byte by byte. *)

LEMMA CharsAre ==
  {"{", "}", "[", "]", ":", ",", Quote, Space, Backslash, "u", HexDigit} \subseteq Chars
BY TextAssumption DEF Structural

LEMMA SeqOf ==
  ASSUME NEW T
  PROVE  /\ <<>> \in Seq(T)
         /\ \A a \in T : <<a>> \in Seq(T)
         /\ \A a, b \in T : <<a, b>> \in Seq(T)
         /\ \A a, b, c \in T : <<a, b, c, c, c, c>> \in Seq(T)
OBVIOUS

LEMMA QuotedByteIs ==
  ASSUME NEW b \in Chars
  PROVE  QuotedByte(b) \in Seq(Chars)
<1>1. Backslash \in Chars /\ "u" \in Chars /\ HexDigit \in Chars
  BY CharsAre
<1>2. /\ <<b>> \in Seq(Chars) /\ <<Backslash, b>> \in Seq(Chars)
      /\ <<Backslash, "u", HexDigit, HexDigit, HexDigit, HexDigit>> \in Seq(Chars)
  BY <1>1, SeqOf, Zenon
<1>3. QuotedByte(b) \in {<<b>>, <<Backslash, b>>,
                        <<Backslash, "u", HexDigit, HexDigit, HexDigit, HexDigit>>}
  BY Zenon DEF QuotedByte
<1> QED
  BY <1>2, <1>3, Zenon

LEMMA QuotedIs ==
  ASSUME NEW bytes \in Seq(Chars)
  PROVE  \E f : /\ f[0] = <<>>
                /\ \A k \in 1 .. Len(bytes) : f[k] = f[k - 1] \o QuotedByte(bytes[k])
                /\ \A k \in 0 .. Len(bytes) : f[k] \in Seq(Chars)
                /\ QuotedBytes(bytes) = f[Len(bytes)]
<1> DEFINE L == Len(bytes)
           Longer(q, k) == q \o QuotedByte(bytes[k])
           IsQuoted(g, n) == g = [k \in 0 .. n |-> IF k = 0 THEN <<>> ELSE Longer(g[k - 1], k)]
           Typed(g, n) == \A k \in 0 .. n : g[k] \in Seq(Chars)
           S == {n \in Nat : n <= L => \E g : IsQuoted(g, n) /\ Typed(g, n)}
           h == CHOOSE g : IsQuoted(g, L)
<1>0. L \in Nat /\ \A k \in 1 .. L : bytes[k] \in Chars
  OBVIOUS
<1>1. 0 \in S
  <2> DEFINE g == [k \in 0 .. 0 |-> <<>>]
  <2>1. g = [k \in 0 .. 0 |-> IF k = 0 THEN <<>> ELSE Longer(g[k - 1], k)]
    <3> HIDE DEF Longer
    <3>1. \A k \in 0 .. 0 : k = 0
      OBVIOUS
    <3> QED
      BY <3>1, Zenon
  <2>3. \A k \in 0 .. 0 : g[k] \in Seq(Chars)
    BY SeqOf
  <2>2. IsQuoted(g, 0) /\ Typed(g, 0)
    BY <2>1, <2>3
  <2> HIDE DEF IsQuoted, Typed
  <2> QED
    BY <2>2
<1>2. ASSUME NEW n \in Nat, n \in S PROVE n + 1 \in S
  <2> SUFFICES ASSUME n + 1 <= L PROVE \E g : IsQuoted(g, n + 1) /\ Typed(g, n + 1)
    <3> HIDE DEF IsQuoted, Typed, L
    <3> QED
      OBVIOUS
  <2>1. n <= L /\ n + 1 \in 1 .. L
    <3> HIDE DEF L
    <3> QED
      BY <1>0
  <2>2. PICK g : IsQuoted(g, n) /\ Typed(g, n)
    BY <1>2, <2>1
  <2> DEFINE e == [k \in 0 .. n + 1 |-> IF k = n + 1 THEN Longer(g[n], k) ELSE g[k]]
  <2> HIDE DEF L
  <2>3. \A k \in 0 .. n : k \in 0 .. n + 1 /\ k # n + 1 /\ e[k] = g[k]
    OBVIOUS
  <2>4. n + 1 # 0 /\ n + 1 - 1 = n /\ n \in 0 .. n /\ n + 1 \in 0 .. n + 1
    OBVIOUS
  <2>5. Longer(e[n + 1 - 1], n + 1) = Longer(g[n], n + 1) /\ e[n + 1] = Longer(g[n], n + 1)
    <3>1. e[n] = g[n]
      BY <2>3, <2>4
    <3>2. Longer(e[n + 1 - 1], n + 1) = Longer(g[n], n + 1)
      <4> HIDE DEF e, Longer
      <4> QED
        BY <2>4, <3>1
    <3>3. e[n + 1] = Longer(g[n], n + 1)
      <4> HIDE DEF Longer
      <4> QED
        BY <2>4
    <3> QED
      BY <3>2, <3>3
  <2>6. \A k \in 0 .. n : k # 0 => k - 1 \in 0 .. n
    OBVIOUS
  <2>7. \A k \in 0 .. n : g[k] = IF k = 0 THEN <<>> ELSE Longer(g[k - 1], k)
    BY <2>2
  <2>8. \A k \in 0 .. n : e[k] = IF k = 0 THEN <<>> ELSE Longer(e[k - 1], k)
    <3>1. \A k \in 0 .. n : k # 0 => Longer(e[k - 1], k) = Longer(g[k - 1], k)
      BY <2>3, <2>6
    <3> QED
      BY <2>3, <2>7, <3>1
  <2>9. \A k \in 0 .. n + 1 : k \in 0 .. n \/ k = n + 1
    OBVIOUS
  <2>10. \A k \in 0 .. n + 1 : e[k] = IF k = 0 THEN <<>> ELSE Longer(e[k - 1], k)
    <3>1. n \in Nat /\ n + 1 # 0 /\ (n + 1) - 1 = n
      OBVIOUS
    <3>2. e[n + 1] = IF n + 1 = 0 THEN <<>> ELSE Longer(e[(n + 1) - 1], n + 1)
      <4> HIDE DEF e, Longer
      <4> QED
        BY <2>4, <2>5, <3>1
    <3> HIDE DEF e, Longer
    <3> TAKE k \in 0 .. n + 1
    <3>3. CASE k \in 0 .. n
      BY <2>8, <3>3
    <3>4. CASE k = n + 1
      BY <3>2, <3>4
    <3> QED
      BY <2>9, <3>3, <3>4, Zenon
  <2>11. IsQuoted(e, n + 1)
    <3>1. e = [k \in 0 .. n + 1 |-> e[k]]
      OBVIOUS
    <3> HIDE DEF e, Longer
    <3> QED
      BY <2>10, <3>1
  <2>12. Longer(g[n], n + 1) \in Seq(Chars)
    <3>1. g[n] \in Seq(Chars) /\ QuotedByte(bytes[n + 1]) \in Seq(Chars)
      BY <1>0, <2>1, <2>2, <2>4, QuotedByteIs
    <3> QED
      BY <2>4, <3>1, ConcatProperties
  <2>13. Typed(e, n + 1)
    <3>1. \A k \in 0 .. n : e[k] \in Seq(Chars)
      BY <2>2, <2>3
    <3> HIDE DEF e, Longer
    <3> QED
      BY <2>5, <2>9, <2>12, <3>1
  <2> HIDE DEF IsQuoted, Typed, e
  <2> QED
    BY <2>11, <2>13
<1> HIDE DEF S
<1>3. Nat \subseteq S
  BY <1>1, <1>2, Induction
<1>4. PICK g : IsQuoted(g, L) /\ Typed(g, L)
  <2>1. L \in S /\ L <= L
    BY <1>0, <1>3
  <2> HIDE DEF L, IsQuoted, Typed
  <2> QED
    BY <2>1 DEF S
<1>5. QuotedBytes(bytes) = h[L]
  BY DEF QuotedBytes
<1> HIDE DEF IsQuoted
<1>6. IsQuoted(h, L)
  BY <1>4
<1> HIDE DEF h
<1>7. h[0] = <<>> /\ \A k \in 1 .. L : h[k] = Longer(h[k - 1], k)
  <2> HIDE DEF L, Longer
  <2>1. \A k \in 0 .. L : h[k] = IF k = 0 THEN <<>> ELSE Longer(h[k - 1], k)
    BY <1>6 DEF IsQuoted
  <2>2. 0 \in 0 .. L /\ \A k \in 1 .. L : k \in 0 .. L /\ k # 0
    BY <1>0
  <2> QED
    BY <2>1, <2>2
<1>8. \A k \in 0 .. L : h[k] \in Seq(Chars)
  <2> DEFINE R == {k \in Nat : k <= L => h[k] \in Seq(Chars)}
  <2>1. 0 \in R
    <3>1. h[0] \in Seq(Chars)
      BY <1>7
    <3> QED
      BY <3>1
  <2>2. ASSUME NEW k \in Nat, k \in R PROVE k + 1 \in R
    <3> SUFFICES ASSUME k + 1 <= L PROVE h[k + 1] \in Seq(Chars)
      OBVIOUS
    <3>1. k <= L /\ k + 1 \in 1 .. L /\ k + 1 - 1 = k
      <4> HIDE DEF L
      <4> QED
        BY <1>0
    <3>2. h[k] \in Seq(Chars) /\ QuotedByte(bytes[k + 1]) \in Seq(Chars)
      BY <1>0, <2>2, <3>1, QuotedByteIs
    <3>3. h[k + 1] = Longer(h[k], k + 1)
      <4> HIDE DEF Longer, L
      <4> QED
        BY <1>7, <3>1
    <3> QED
      BY <3>2, <3>3, ConcatProperties
  <2> HIDE DEF R
  <2>3. Nat \subseteq R
    BY <2>1, <2>2, Induction
  <2>4. \A k \in 0 .. L : k \in Nat /\ k <= L
    BY <1>0
  <2> QED
    BY <2>3, <2>4 DEF R
<1> QED
  BY <1>5, <1>7, <1>8

LevelRec == [count : Nat, isObject : BOOLEAN]
Writer == [levels : Seq(LevelRec), text : Seq(Chars)]

\* A writer that can write: one level at least, and no more than there are.
CanWrite(w) == w \in Writer /\ Len(w.levels) \in 1 .. MaxLevels

LEMMA Emitted ==
  ASSUME NEW w, CanWrite(w), NEW chars \in Seq(Chars)
  PROVE  /\ CanWrite(Emit(w, chars))
         /\ Emit(w, chars).text = w.text \o chars /\ Emit(w, chars).levels = w.levels
<1>1. w.text \in Seq(Chars) /\ w.levels \in Seq(LevelRec) /\ w = [levels |-> w.levels, text |-> w.text]
  BY DEF CanWrite, Writer
<1>2. w.text \o chars \in Seq(Chars)
  BY <1>1, ConcatProperties
<1> DEFINE t == w.text \o chars
<1>3. Emit(w, chars) = [levels |-> w.levels, text |-> t]
  <2>1. Emit(w, chars) = [w EXCEPT !.text = t]
    BY DEF Emit
  <2> HIDE DEF t
  <2> QED
    BY <1>1, <2>1
<1> QED
  BY <1>1, <1>2, <1>3 DEF CanWrite, Writer

LEMMA SeparatorIs ==
  ASSUME NEW level
  PROVE  /\ Separator(level) \in Seq(Chars)
         /\ Separator(level) \in {<<>>, <<":">>, <<",">>}
<1>1. <<>> \in Seq(Chars) /\ <<":">> \in Seq(Chars) /\ <<",">> \in Seq(Chars)
  <2>1. ":" \in Chars /\ "," \in Chars
    BY CharsAre
  <2> QED
    BY <2>1, SeqOf, Zenon
<1>2. Separator(level) \in {<<>>, <<":">>, <<",">>}
  BY Zenon DEF Separator
<1> QED
  BY <1>1, <1>2

LEMMA Commified ==
  ASSUME NEW w, CanWrite(w)
  PROVE  LET n == Len(w.levels)
             c == Commify(w)
         IN  /\ CanWrite(c) /\ Len(c.levels) = n
             /\ c.text = w.text \o Separator(w.levels[n])
             /\ \A k \in 1 .. n :
                  /\ c.levels[k].isObject = w.levels[k].isObject
                  /\ c.levels[k].count = w.levels[k].count + (IF k = n THEN 1 ELSE 0)
<1> DEFINE n == Len(w.levels)
           l == w.levels[n]
           m == [l EXCEPT !.count = @ + 1]
           e == Emit(w, Separator(l))
           r == [w.levels EXCEPT ![n] = m]
           c == Commify(w)
<1>1. w.levels \in Seq(LevelRec) /\ n \in Nat /\ n \in 1 .. n /\ n \in 1 .. MaxLevels
      /\ DOMAIN w.levels = 1 .. n /\ \A k \in 1 .. n : w.levels[k] \in LevelRec
  BY MaxLevelsAssumption, ElementOfSeq, LenProperties DEF CanWrite, Writer
<1>2. m \in LevelRec /\ m.isObject = l.isObject /\ m.count = l.count + 1
  <2>1. l \in LevelRec
    BY <1>1
  <2> HIDE DEF l
  <2> QED
    BY <2>1 DEF LevelRec
<1>3. /\ CanWrite(e) /\ e.text = w.text \o Separator(l) /\ e.levels = w.levels
      /\ e = [levels |-> e.levels, text |-> e.text] /\ e.text \in Seq(Chars)
  <2>1. CanWrite(e) /\ e.text = w.text \o Separator(l) /\ e.levels = w.levels
    BY SeparatorIs, Emitted
  <2> HIDE DEF e
  <2> QED
    BY <2>1 DEF CanWrite, Writer
<1>4. c = [e EXCEPT !.levels = [e.levels EXCEPT ![n] = [e.levels[n] EXCEPT !.count = @ + 1]]]
  BY DEF Commify, LevelRef, CurrLevel
<1> HIDE DEF e, c
<1>5. c = [levels |-> r, text |-> e.text]
  BY <1>3, <1>4
<1> HIDE DEF m
<1>6. r \in Seq(LevelRec) /\ Len(r) = n /\ \A k \in 1 .. n : r[k] = IF k = n THEN m ELSE w.levels[k]
  BY <1>1, <1>2, ExceptSeq
<1> HIDE DEF r
<1>7. ASSUME NEW k \in 1 .. n
      PROVE  /\ r[k].isObject = w.levels[k].isObject
             /\ r[k].count = w.levels[k].count + (IF k = n THEN 1 ELSE 0)
  <2>1. CASE k = n
    BY <1>2, <1>6, <2>1
  <2>2. CASE k # n
    <3>1. r[k] = w.levels[k] /\ w.levels[k].count \in Nat
      BY <1>1, <1>6, <2>2 DEF LevelRec
    <3> QED
      BY <2>2, <3>1
  <2> QED
    BY <2>1, <2>2
<1>8. CanWrite(c) /\ c.levels = r /\ c.text = e.text
  BY <1>1, <1>3, <1>5, <1>6 DEF CanWrite, Writer
<1> QED
  BY <1>3, <1>6, <1>7, <1>8 DEF c

LEMMA Pushed ==
  ASSUME NEW w, CanWrite(w), NEW isObject \in BOOLEAN
  PROVE  LET n == Len(w.levels)
             p == PushLevel(w, isObject)
         IN  /\ CanWrite(p) /\ p.text = w.text
             /\ n < MaxLevels => /\ Len(p.levels) = n + 1 /\ p.levels[n + 1] = Level(isObject)
                                 /\ \A k \in 1 .. n : p.levels[k] = w.levels[k]
             /\ ~(n < MaxLevels) => p = w
<1> DEFINE n == Len(w.levels)
           p == PushLevel(w, isObject)
           a == Append(w.levels, Level(isObject))
<1>1. /\ w = [levels |-> w.levels, text |-> w.text] /\ w.text \in Seq(Chars)
      /\ w.levels \in Seq(LevelRec) /\ n \in Nat /\ n \in 1 .. MaxLevels /\ MaxLevels \in Nat
  BY MaxLevelsAssumption, LenProperties DEF CanWrite, Writer
<1>2. Level(isObject) \in LevelRec
  BY DEF Level, LevelRec
<1>3. a \in Seq(LevelRec) /\ Len(a) = n + 1 /\ a[n + 1] = Level(isObject) /\ \A k \in 1 .. n : a[k] = w.levels[k]
  BY <1>1, <1>2, AppendProperties
<1> HIDE DEF a
<1>4. CASE n < MaxLevels
  <2>1. p = [levels |-> a, text |-> w.text]
    BY <1>1, <1>4 DEF PushLevel, CurrLevel, a
  <2> HIDE DEF p
  <2>2. Len(a) \in 1 .. MaxLevels
    <3> HIDE DEF n
    <3> QED
      BY <1>1, <1>3, <1>4
  <2>3. CanWrite(p) /\ p.levels = a /\ p.text = w.text
    BY <1>1, <1>3, <2>1, <2>2 DEF CanWrite, Writer
  <2> QED
    BY <1>3, <1>4, <2>3 DEF p
<1>5. CASE ~(n < MaxLevels)
  BY <1>5 DEF PushLevel, CurrLevel
<1> QED
  BY <1>4, <1>5

LEMMA PoppedLevel ==
  ASSUME NEW w, CanWrite(w)
  PROVE  LET n == Len(w.levels)
             p == PopLevel(w)
         IN  /\ CanWrite(p) /\ p.text = w.text
             /\ n > 1 => /\ Len(p.levels) = n - 1
                         /\ \A k \in 1 .. n - 1 : p.levels[k] = w.levels[k]
             /\ ~(n > 1) => p = w
<1> DEFINE n == Len(w.levels)
           p == PopLevel(w)
           a == SubSeq(w.levels, 1, n - 1)
<1>1. /\ w = [levels |-> w.levels, text |-> w.text] /\ w.text \in Seq(Chars)
      /\ w.levels \in Seq(LevelRec) /\ n \in Nat /\ n \in 1 .. MaxLevels /\ MaxLevels \in Nat
  BY MaxLevelsAssumption, LenProperties DEF CanWrite, Writer
<1>2. CASE n > 1
  <2>1. n - 1 \in 1 .. n /\ n - 1 \in 1 .. MaxLevels
    <3> HIDE DEF n
    <3> QED
      BY <1>1, <1>2
  <2>2. a \in Seq(LevelRec) /\ Len(a) = n - 1 /\ \A k \in 1 .. n - 1 : a[k] = w.levels[k]
    <3>1. w.levels \in Seq(LevelRec) /\ 1 \in 1 .. Len(w.levels) + 1 /\ n - 1 \in 1 - 1 .. Len(w.levels)
      BY <1>1, <2>1
    <3>2. \A k \in 1 .. n - 1 : w.levels[k] \in LevelRec
      BY <1>1, <2>1, ElementOfSeq
    <3>3. n - 1 \in Nat
      BY <1>1, <1>2
    <3> HIDE DEF n
    <3> QED
      BY <1>1, <3>2, <3>3
  <2>3. p = [levels |-> a, text |-> w.text]
    BY <1>1, <1>2 DEF PopLevel, CurrLevel
  <2> HIDE DEF p, a
  <2>4. CanWrite(p) /\ p.levels = a /\ p.text = w.text
    BY <1>1, <2>1, <2>2, <2>3 DEF CanWrite, Writer
  <2> QED
    BY <1>2, <2>2, <2>4 DEF p
<1>3. CASE ~(n > 1)
  BY <1>3 DEF PopLevel, CurrLevel
<1> QED
  BY <1>2, <1>3

LEMMA StringQuoted ==
  ASSUME NEW bytes \in Seq(Chars)
  PROVE  /\ QuotedBytes(bytes) \in Seq(Chars)
         /\ <<Quote>> \o QuotedBytes(bytes) \o <<Quote>> \in Seq(Chars)
<1>1. QuotedBytes(bytes) \in Seq(Chars)
  <2>1. PICK f : /\ \A k \in 0 .. Len(bytes) : f[k] \in Seq(Chars)
                 /\ QuotedBytes(bytes) = f[Len(bytes)]
    BY QuotedIs
  <2>2. Len(bytes) \in 0 .. Len(bytes)
    OBVIOUS
  <2> QED
    BY <2>1, <2>2
<1>2. <<Quote>> \in Seq(Chars)
  BY CharsAre, SeqOf
<1>3. <<Quote>> \o QuotedBytes(bytes) \in Seq(Chars)
  BY <1>1, <1>2, ConcatProperties
<1> QED
  BY <1>1, <1>2, <1>3, ConcatProperties

LEMMA BracketsAre ==
  <<"{">> \in Seq(Chars) /\ <<"}">> \in Seq(Chars) /\ <<"[">> \in Seq(Chars) /\ <<"]">> \in Seq(Chars)
<1>1. "{" \in Chars /\ "}" \in Chars /\ "[" \in Chars /\ "]" \in Chars
  BY CharsAre
<1> QED
  BY <1>1, SeqOf, Zenon

LEMMA StringWritten ==
  ASSUME NEW w, CanWrite(w), NEW bytes \in Seq(Chars)
  PROVE  CanWrite(JemsString(w, bytes))
<1>1. CanWrite(Commify(w))
  BY Commified
<1> QED
  BY <1>1, StringQuoted, Emitted DEF JemsString

LEMMA ItemWritten ==
  ASSUME NEW w, CanWrite(w), NEW item \in Values
  PROVE  CanWrite(JemsItem(w, item))
<1>1. CanWrite(Commify(w))
  BY Commified
<1>2. CanWrite(ObjectOpen(w)) /\ CanWrite(ArrayOpen(w))
  <2>1. CanWrite(Emit(Commify(w), <<"{">>)) /\ CanWrite(Emit(Commify(w), <<"[">>))
    BY <1>1, BracketsAre, Emitted
  <2> QED
    BY <2>1, Pushed DEF ObjectOpen, ArrayOpen
<1>3. \A s \in Strings : CanWrite(JemsString(w, s))
  BY StringWritten, TextAssumption
<1>4. \A p \in Primitives : CanWrite(Primitive(w, p))
  <2>1. \A p \in Primitives : p \in Seq(Chars)
    BY TextAssumption
  <2> QED
    BY <1>1, <2>1, Emitted DEF Primitive
<1>5. CASE item.type = "object"
  BY <1>2, <1>5 DEF JemsItem
<1>6. CASE item.type = "array"
  BY <1>2, <1>6 DEF JemsItem
<1>7. ASSUME NEW s \in Strings, item = Item("string", s)
      PROVE  CanWrite(JemsItem(w, item))
  <2>1. item.type = "string" /\ item.bytes = s
    BY <1>7 DEF Item
  <2> QED
    BY <1>3, <2>1 DEF JemsItem
<1>8. ASSUME NEW p \in Primitives, item = Item("primitive", p)
      PROVE  CanWrite(JemsItem(w, item))
  <2>1. item.type = "primitive" /\ item.bytes = p
    BY <1>8 DEF Item
  <2> QED
    BY <1>4, <2>1 DEF JemsItem
<1>9. Item("object", <<>>).type = "object" /\ Item("array", <<>>).type = "array"
  BY DEF Item
<1> QED
  BY <1>5, <1>6, <1>7, <1>8, <1>9 DEF Values

LEMMA ContainerClosed ==
  ASSUME NEW w, CanWrite(w)
  PROVE  CanWrite(ObjectClose(w)) /\ CanWrite(ArrayClose(w))
<1>1. CanWrite(Emit(w, <<"}">>)) /\ CanWrite(Emit(w, <<"]">>))
  BY BracketsAre, Emitted
<1> QED
  BY <1>1, PoppedLevel DEF ObjectClose, ArrayClose
-------------------------------------------------------------------------------
(* Any text that comes is a sequence of characters. *)

LEMMA Piece ==
  ASSUME NEW T, NEW s \in Seq(T), NEW m \in Nat, m >= 1, NEW n \in Int, n <= Len(s)
  PROVE  SubSeq(s, m, n) \in Seq(T)
<1>1. CASE m <= n
  <2>1. m \in 1 .. Len(s) + 1 /\ n \in m - 1 .. Len(s)
    BY <1>1
  <2> QED
    BY <2>1, SubSeqProperties
<1>2. CASE ~(m <= n)
  <2>1. SubSeq(s, m, n) = <<>>
    BY <1>2
  <2> QED
    BY <2>1, SeqOf
<1> QED
  BY <1>1, <1>2

LEMMA Shortened ==
  ASSUME NEW text \in Seq(Chars)
  PROVE  Prefixes(text) \subseteq Seq(Chars) /\ WithoutOne(text) \subseteq Seq(Chars)
<1> DEFINE L == Len(text)
<1>1. L \in Nat /\ DOMAIN text = 1 .. L
  OBVIOUS
<1>2. ASSUME NEW n \in 0 .. L - 1 PROVE SubSeq(text, 1, n) \in Seq(Chars)
  <2>1. n \in Int /\ n <= L /\ 1 \in Nat /\ 1 >= 1
    <3> HIDE DEF L
    <3> QED
      BY <1>1
  <2> QED
    BY <2>1, Piece
<1>3. ASSUME NEW n \in 1 .. L
      PROVE  SubSeq(text, 1, n - 1) \o SubSeq(text, n + 1, L) \in Seq(Chars)
  <2>1. /\ n - 1 \in Int /\ n - 1 <= L /\ 1 \in Nat /\ 1 >= 1
        /\ n + 1 \in Nat /\ n + 1 >= 1 /\ L \in Int /\ L <= L
    <3> HIDE DEF L
    <3> QED
      BY <1>1
  <2>2. SubSeq(text, 1, n - 1) \in Seq(Chars) /\ SubSeq(text, n + 1, L) \in Seq(Chars)
    BY <2>1, Piece
  <2> QED
    BY <2>2, ConcatProperties
<1> QED
  BY <1>1, <1>2, <1>3 DEF Prefixes, WithoutOne

TextInv == ReaderInv /\ CanWrite(jems)

LEMMA Resets ==
  CanWrite(JemsReset)
<1>1. Level(FALSE) \in LevelRec
  BY DEF Level, LevelRec
<1>2. <<Level(FALSE)>> \in Seq(LevelRec) /\ <<>> \in Seq(Chars)
  BY <1>1, SeqOf
<1>3. Len(<<Level(FALSE)>>) = 1 /\ 1 \in 1 .. MaxLevels
  BY MaxLevelsAssumption
<1> QED
  BY <1>2, <1>3 DEF CanWrite, JemsReset, Writer

LEMMA Starts ==
  TextInit => TextInv
<1> SUFFICES ASSUME TextInit PROVE TextInv
  OBVIOUS
<1>1. json \in Seq(Chars) /\ pos = 1 /\ tokens = <<>> /\ toksuper = 0
  BY SeqOf DEF TextInit, JsmnInit
<1>2. CanWrite(JemsReset)
  BY Resets
<1> QED
  BY <1>1, <1>2, ReaderStarts DEF TextInv, TextInit

LEMMA Arrived ==
  ASSUME NEW from, NEW texts, texts \subseteq Seq(Chars), Arrives(from, texts)
  PROVE  ReaderInv' /\ UNCHANGED jems
<1>1. json' \in Seq(Chars) /\ pos' = 1 /\ tokens' = <<>> /\ toksuper' = 0 /\ UNCHANGED jems
  BY DEF Arrives, writerVars
<1> QED
  BY <1>1, ReaderRestarts

LEMMA TextSteps ==
  TextInv /\ [TextNext]_textVars => TextInv'
<1> SUFFICES ASSUME TextInv, [TextNext]_textVars PROVE TextInv'
  OBVIOUS
<1>0. ReaderInv /\ CanWrite(jems)
  BY DEF TextInv
<1>1. ASSUME UNCHANGED jsmnVars PROVE ReaderInv'
  BY <1>0, <1>1 DEF ReaderInv, jsmnVars, Nest
<1>2. CASE Write
  <2>1. PICK item \in Values : UNCHANGED jsmnVars /\ jems' = JemsItem(jems, item)
    BY <1>2 DEF Write, Means
  <2> QED
    BY <1>0, <1>1, <2>1, ItemWritten DEF TextInv
<1>3. CASE WriteKey
  <2>1. PICK key \in Keys, item \in Values :
          UNCHANGED jsmnVars /\ jems' = JemsItem(JemsString(jems, key), item)
    BY <1>3 DEF WriteKey, Means
  <2>2. key \in Seq(Chars)
    BY TextAssumption
  <2>3. CanWrite(JemsString(jems, key))
    BY <1>0, <2>2, StringWritten
  <2>4. CanWrite(JemsItem(JemsString(jems, key), item))
    BY <2>3, ItemWritten
  <2> QED
    BY <1>0, <1>1, <2>1, <2>4 DEF TextInv
<1>4. CASE Close
  <2>1. UNCHANGED jsmnVars /\ jems' \in {ObjectClose(jems), ArrayClose(jems)}
    BY <1>4 DEF Close
  <2> QED
    BY <1>0, <1>1, <2>1, ContainerClosed DEF TextInv
<1>5. CASE Deliver
  <2>1. jems.text \in Seq(Chars)
    BY <1>0 DEF CanWrite, Writer
  <2>2. {jems.text} \subseteq Seq(Chars) /\ Prefixes(jems.text) \subseteq Seq(Chars)
        /\ WithoutOne(jems.text) \subseteq Seq(Chars)
    BY <2>1, Shortened
  <2>3. \E from, texts : texts \subseteq Seq(Chars) /\ Arrives(from, texts)
    BY <1>5, <2>2 DEF Deliver
  <2> QED
    BY <1>0, <2>3, Arrived DEF TextInv
<1>6. CASE OthersSend
  <2>1. OtherTexts \subseteq Seq(Chars) /\ Arrives("other", OtherTexts)
    BY <1>6, TextAssumption DEF OthersSend
  <2> QED
    BY <1>0, <2>1, Arrived DEF TextInv
<1>7. CASE Read
  <2>1. Parse /\ UNCHANGED jems
    BY <1>7 DEF Read, writerVars
  <2> QED
    BY <1>0, <2>1, ParseKeeps DEF TextInv
<1>8. CASE ParsePattern
  <2>1. Patterns \subseteq Seq(Chars) /\ Arrives("pattern", Patterns)
    BY <1>8, TextAssumption DEF ParsePattern
  <2> QED
    BY <1>0, <2>1, Arrived DEF TextInv
<1>9. CASE Again
  <2>1. json' \in Seq(Chars) /\ pos' = 1 /\ tokens' = <<>> /\ toksuper' = 0 /\ jems' = JemsReset
    BY <1>9, SeqOf DEF Again
  <2> QED
    BY <2>1, ReaderRestarts, Resets DEF TextInv
<1>10. CASE UNCHANGED textVars
  BY <1>0, <1>1, <1>10 DEF TextInv, textVars, writerVars
<1> QED
  BY <1>2, <1>3, <1>4, <1>5, <1>6, <1>7, <1>8, <1>9, <1>10 DEF TextNext

LEMMA NestingSeen ==
  ReaderInv => TokensNest
<1> SUFFICES ASSUME ReaderInv PROVE TokensNest
  OBVIOUS
<1>1. /\ tokens \in Seq(TokenRec) /\ DOMAIN tokens = 1 .. Len(tokens) /\ Len(tokens) <= NumTokens
      /\ Nest(tokens, pos)
  BY ReaderTyped
<1>2. ASSUME NEW k \in DOMAIN tokens \ Open
      PROVE  tokens[k].start <= tokens[k].end /\ tokens[k].end <= pos
  <2>1. Placed(tokens[k], pos) /\ tokens[k].end # Unset
    BY <1>1, <1>2 DEF Nest, Open
  <2> QED
    BY <2>1 DEF Placed
<1>3. ASSUME NEW j \in DOMAIN tokens, NEW k \in DOMAIN tokens, j < k
      PROVE  /\ tokens[j].start < tokens[k].start
             /\ \/ j \in Open
                \/ tokens[j].end <= tokens[k].start
                \/ tokens[j].type \in Containers /\ k \notin Open /\ tokens[k].end < tokens[j].end
  <2>1. Apart(tokens[j], tokens[k])
    BY <1>1, <1>3 DEF Nest
  <2> QED
    BY <2>1 DEF Apart, Open
<1> QED
  BY <1>1, <1>2, <1>3 DEF TokensNest

(* Whatever text comes, the tokens of the reader lie within it, in order,  *)
(* apart or one inside the other, and what is open is inside nothing that  *)
(* is closed (jsmn_parse).                                                 *)
THEOREM TextKeepsTokensNest ==
  TextSpec => []TokensNest
<1>1. TextInit => TextInv
  BY Starts
<1>2. TextInv /\ [TextNext]_textVars => TextInv'
  BY TextSteps
<1>3. TextInv => TokensNest
  BY NestingSeen DEF TextInv
<1> QED
  BY <1>1, <1>2, <1>3, PTL DEF TextSpec
-------------------------------------------------------------------------------
(* What jems has quoted, the scan passes over, byte by byte, up to the     *)
(* quote that ends it, or to the end of the text if that comes first.      *)

LEMMA QuotedPieces ==
  ASSUME NEW bytes \in Seq(Chars)
  PROVE  \E o \in [0 .. Len(bytes) -> Nat] :
           /\ o[0] = 0 /\ o[Len(bytes)] = Len(QuotedBytes(bytes))
           /\ \A k \in 1 .. Len(bytes) :
                /\ o[k] = o[k - 1] + Len(QuotedByte(bytes[k])) /\ o[k] <= Len(QuotedBytes(bytes))
                /\ \A j \in 1 .. Len(QuotedByte(bytes[k])) :
                     QuotedBytes(bytes)[o[k - 1] + j] = QuotedByte(bytes[k])[j]
<1> DEFINE L == Len(bytes)
           Q == QuotedBytes(bytes)
           q(k) == QuotedByte(bytes[k])
<1>0. L \in Nat /\ \A k \in 1 .. L : q(k) \in Seq(Chars)
  BY QuotedByteIs
<1>1. PICK f : /\ f[0] = <<>>
               /\ \A k \in 1 .. L : f[k] = f[k - 1] \o q(k)
               /\ \A k \in 0 .. L : f[k] \in Seq(Chars)
               /\ Q = f[L]
  BY QuotedIs
<1> HIDE DEF L, Q, q
<1> DEFINE o == [k \in 0 .. L |-> Len(f[k])]
           Begins(k) == Len(f[k]) <= Len(Q) /\ \A i \in 1 .. Len(f[k]) : Q[i] = f[k][i]
           S == {d \in Nat : d <= L => Begins(L - d)}
<1>2. \A k \in 0 .. L : Len(f[k]) \in Nat
  BY <1>1, LenProperties
<1>3. ASSUME NEW k \in 1 .. L
      PROVE  /\ k - 1 \in 0 .. L /\ k \in 0 .. L
             /\ Len(f[k]) = Len(f[k - 1]) + Len(q(k)) /\ Len(f[k - 1]) \in Nat /\ Len(q(k)) \in Nat
             /\ \A i \in 1 .. Len(f[k - 1]) : f[k][i] = f[k - 1][i]
             /\ \A j \in 1 .. Len(q(k)) : f[k][Len(f[k - 1]) + j] = q(k)[j]
  <2>1. k - 1 \in 0 .. L /\ k \in 0 .. L
    BY <1>0
  <2>2. f[k] = f[k - 1] \o q(k) /\ f[k - 1] \in Seq(Chars) /\ q(k) \in Seq(Chars)
    BY <1>0, <1>1, <2>1
  <2> DEFINE a == f[k - 1]
             b == q(k)
  <2>3. f[k] = a \o b /\ a \in Seq(Chars) /\ b \in Seq(Chars)
    BY <2>2
  <2> HIDE DEF a, b
  <2>4. /\ Len(a \o b) = Len(a) + Len(b) /\ Len(a) \in Nat /\ Len(b) \in Nat
        /\ \A i \in 1 .. Len(a) : (a \o b)[i] = a[i]
        /\ \A i \in Len(a) + 1 .. Len(a) + Len(b) : (a \o b)[i] = b[i - Len(a)]
    BY <2>3, ConcatProperties, LenProperties
  <2>5. ASSUME NEW j \in 1 .. Len(b) PROVE (a \o b)[Len(a) + j] = b[j]
    <3>1. Len(a) + j \in Len(a) + 1 .. Len(a) + Len(b) /\ Len(a) + j - Len(a) = j
      BY <2>4
    <3> QED
      BY <2>4, <3>1
  <2> QED
    BY <2>1, <2>3, <2>4, <2>5 DEF a, b
<1>4. 0 \in S
  <2>1. L - 0 = L /\ L \in 0 .. L /\ Len(Q) \in Nat
    BY <1>0, <1>1, <1>2
  <2> QED
    BY <1>1, <2>1
<1>5. ASSUME NEW d \in Nat, d \in S PROVE d + 1 \in S
  <2> HIDE DEF Begins
  <2> SUFFICES ASSUME d + 1 <= L PROVE Begins(L - (d + 1))
    OBVIOUS
  <2> DEFINE k == L - d
  <2>1. k \in 1 .. L /\ L - (d + 1) = k - 1 /\ d <= L
    BY <1>0
  <2>2. Begins(k)
    BY <1>5, <2>1
  <2> HIDE DEF k
  <2>3. Len(Q) \in Nat
    BY <1>0, <1>1, <1>2
  <2>4. Begins(k - 1)
    <3>1. Len(f[k]) <= Len(Q) /\ \A i \in 1 .. Len(f[k]) : Q[i] = f[k][i]
      BY <2>2 DEF Begins
    <3>2. /\ Len(f[k]) = Len(f[k - 1]) + Len(q(k)) /\ Len(f[k - 1]) \in Nat /\ Len(q(k)) \in Nat
          /\ \A i \in 1 .. Len(f[k - 1]) : f[k][i] = f[k - 1][i]
      BY <1>3, <2>1
    <3>3. Len(f[k - 1]) <= Len(Q)
      BY ONLY <2>3, <3>1, <3>2
    <3>4. ASSUME NEW i \in 1 .. Len(f[k - 1]) PROVE Q[i] = f[k - 1][i]
      <4>1. i \in 1 .. Len(f[k])
        BY ONLY <3>2, <3>4
      <4> QED
        BY <3>1, <3>2, <4>1
    <3> QED
      BY <3>3, <3>4 DEF Begins
  <2> QED
    BY <2>1, <2>4
<1> HIDE DEF S
<1>6. Nat \subseteq S
  BY <1>4, <1>5, Induction
<1>7. ASSUME NEW k \in 0 .. L PROVE Begins(k)
  <2>1. L - k \in Nat /\ L - k <= L /\ L - (L - k) = k
    BY <1>0
  <2> HIDE DEF Begins
  <2> QED
    BY <1>6, <2>1 DEF S
<1>8. o \in [0 .. L -> Nat] /\ o[0] = 0 /\ o[L] = Len(Q)
  <2>1. 0 \in 0 .. L /\ L \in 0 .. L /\ Len(<<>>) = 0
    BY <1>0
  <2> QED
    BY <1>1, <1>2, <2>1
<1>9. ASSUME NEW k \in 1 .. L
      PROVE  /\ o[k] = o[k - 1] + Len(q(k)) /\ o[k] <= Len(Q)
             /\ \A j \in 1 .. Len(q(k)) : Q[o[k - 1] + j] = q(k)[j]
  <2>1. o[k] = Len(f[k]) /\ o[k - 1] = Len(f[k - 1])
    BY <1>3
  <2>2. Begins(k)
    BY <1>3, <1>7
  <2> HIDE DEF o
  <2>3. ASSUME NEW j \in 1 .. Len(q(k)) PROVE Q[o[k - 1] + j] = q(k)[j]
    <3>1. o[k - 1] + j \in 1 .. Len(f[k])
      BY <1>3, <2>1
    <3> QED
      BY <1>3, <2>1, <2>2, <3>1
  <2> QED
    BY <1>3, <2>1, <2>2, <2>3
<1> QED
  BY <1>8, <1>9 DEF L, Q, q

LEMMA QuotedByteCases ==
  ASSUME NEW b \in Chars
  PROVE  \/ /\ b \in {Quote, Backslash} /\ Len(QuotedByte(b)) = 2
            /\ QuotedByte(b)[1] = Backslash /\ QuotedByte(b)[2] = b
         \/ /\ b \notin {Quote, Backslash} /\ Len(QuotedByte(b)) = 1 /\ QuotedByte(b)[1] = b
         \/ /\ Len(QuotedByte(b)) = 6 /\ QuotedByte(b)[1] = Backslash /\ QuotedByte(b)[2] = "u"
            /\ \A k \in 3 .. 6 : QuotedByte(b)[k] = HexDigit
<1> DEFINE u == <<Backslash, "u", HexDigit, HexDigit, HexDigit, HexDigit>>
<1>1. CASE b \in {Quote, Backslash}
  <2>0. b # Control
    BY <1>1 DEF Control, Quote, Backslash
  <2>1. QuotedByte(b) = <<Backslash, b>>
    BY <1>1, <2>0, Zenon DEF QuotedByte
  <2> QED
    BY <1>1, <2>1
<1>2. CASE b \notin {Quote, Backslash} /\ b = Control
  <2>1. QuotedByte(b) = u
    BY <1>2 DEF QuotedByte
  <2>2. Len(u) = 6 /\ u[1] = Backslash /\ u[2] = "u" /\ \A k \in 3 .. 6 : u[k] = HexDigit
    OBVIOUS
  <2> HIDE DEF u
  <2> QED
    BY <2>1, <2>2
<1>3. CASE b \notin {Quote, Backslash} /\ b # Control
  <2>1. QuotedByte(b) = <<b>>
    BY <1>3, Zenon DEF QuotedByte
  <2> QED
    BY <1>3, <2>1
<1> QED
  BY <1>1, <1>2, <1>3

\* json has this piece at p, as far as it goes.
Has(p, piece) == \A k \in 1 .. Len(piece) : p + k - 1 <= Len(json) => json[p + k - 1] = piece[k]

LEMMA ScanPasses ==
  ASSUME json \in Seq(Chars), NEW p \in Nat \ {0}, p <= Len(json) + 1, NEW f,
         \A r \in p .. Len(json) + 1 : f[r] = Scanned(f, r),
         NEW b \in Chars, Has(p, QuotedByte(b))
  PROVE  f[p] = IF p + Len(QuotedByte(b)) <= Len(json) + 1 THEN f[p + Len(QuotedByte(b))] ELSE PART
<1> DEFINE L == Len(json)
           q == QuotedByte(b)
<1>0. L \in Nat /\ p \in Nat /\ p <= L + 1 /\ p # 0
  OBVIOUS
<1>1. f[L + 1] = PART
  <2>1. L + 1 \in p .. L + 1 /\ L + 1 > L
    <3> HIDE DEF L
    <3> QED
      BY <1>0
  <2> QED
    BY <2>1 DEF Scanned
<1>2. f[p] = Scanned(f, p)
  OBVIOUS
<1>3. \A k \in 1 .. Len(q) : p + k - 1 <= L => json[p + k - 1] = q[k]
  BY DEF Has
<1>4. CASE p = L + 1
  <2>1. Len(q) \in {1, 2, 6}
    BY QuotedByteCases
  <2>2. ~(p + Len(q) <= L + 1)
    <3> DEFINE c == Len(q)
    <3>1. c \in {1, 2, 6} /\ p = L + 1
      BY <1>4, <2>1
    <3> HIDE DEF L, c
    <3>2. ~(p + c <= L + 1)
      BY ONLY <1>0, <3>1
    <3> QED
      BY <3>2 DEF c
  <2> QED
    BY <1>1, <1>4, <2>2
<1>5. CASE p <= L /\ b \notin {Quote, Backslash} /\ Len(q) = 1 /\ q[1] = b
  <2>1. 1 \in 1 .. Len(q) /\ p + 1 - 1 = p
    BY <1>5
  <2>2. json[p] = b
    BY <1>3, <1>5, <2>1
  <2>3. Scanned(f, p) = f[p + 1] /\ p + 1 <= L + 1
    <3>1. ~(p > L)
      <4> HIDE DEF L
      <4> QED
        BY <1>0, <1>5
    <3> QED
      <4>1. json[p] # DoubleQuote /\ json[p] # Escape
        BY <1>5, <2>2 DEF Quote, Backslash, DoubleQuote, Escape
      <4>2. p <= L => p + 1 <= L + 1
        <5> HIDE DEF L
        <5> QED
          BY <1>0
      <4> QED
        BY <1>5, <3>1, <4>1, <4>2 DEF Scanned
  <2> QED
    BY <1>2, <1>5, <2>3
<1>6. CASE p <= L /\ b \in {Quote, Backslash} /\ Len(q) = 2 /\ q[1] = Backslash /\ q[2] = b
  <2>1. json[p] = Backslash
    <3>1. 1 \in 1 .. Len(q) /\ p + 1 - 1 = p
      BY <1>6
    <3> QED
      BY <1>3, <1>6, <3>1
  <2>2. CASE p = L
    <3>1. ~(p > L) /\ ~(p + 2 <= L + 1) /\ p + 1 = L + 1
      <4> HIDE DEF L
      <4> QED
        BY <1>0, <2>2
    <3>2. Scanned(f, p) = f[p + 1]
      BY <2>1, <2>2, <3>1 DEF Scanned, Backslash, DoubleQuote
    <3> QED
      BY <1>1, <1>2, <1>6, <3>1, <3>2
  <2>3. CASE p # L
    <3>1. ~(p > L) /\ p + 2 <= L + 1 /\ p + 1 <= L /\ p + 2 - 1 = p + 1 /\ 2 \in 1 .. 2
      <4> HIDE DEF L
      <4> QED
        BY <1>0, <1>6, <2>3
    <3>2. json[p + 1] = b
      <4>1. p + 2 - 1 <= L => json[p + 2 - 1] = q[2]
        BY <1>3, <1>6, <3>1
      <4> QED
        BY <1>6, <3>1, <4>1
    <3>3. Scanned(f, p) = f[p + 2]
      BY <1>6, <2>1, <2>3, <3>1, <3>2
      DEF Scanned, Quote, Backslash, DoubleQuote, Escape, Escapable
    <3> QED
      BY <1>2, <1>6, <3>1, <3>3
  <2> QED
    BY <2>2, <2>3
<1>7. CASE /\ p <= L /\ Len(q) = 6 /\ q[1] = Backslash /\ q[2] = "u"
           /\ \A k \in 3 .. 6 : q[k] = HexDigit
  <2>1. json[p] = Backslash
    <3>1. 1 \in 1 .. Len(q) /\ p + 1 - 1 = p
      BY <1>7
    <3> QED
      BY <1>3, <1>7, <3>1
  <2>2. CASE p = L
    <3>1. ~(p > L) /\ ~(p + 6 <= L + 1) /\ p + 1 = L + 1
      <4> HIDE DEF L
      <4> QED
        BY <1>0, <2>2
    <3>2. Scanned(f, p) = f[p + 1]
      BY <2>1, <2>2, <3>1 DEF Scanned, Backslash, DoubleQuote
    <3> QED
      BY <1>1, <1>2, <1>7, <3>1, <3>2
  <2>3. CASE p # L
    <3> DEFINE next == p + 2 + Digits(p + 2)
    <3>1. ~(p > L) /\ p + 1 <= L /\ p + 2 - 1 = p + 1 /\ 2 \in 1 .. 6 /\ p + 2 \in Nat \ {0} /\ p + 2 <= L + 1
      <4> HIDE DEF L
      <4> QED
        BY <1>0, <1>7, <2>3
    <3>2. json[p + 1] = "u"
      <4>1. p + 2 - 1 <= L => json[p + 2 - 1] = q[2]
        BY <1>3, <1>7, <3>1
      <4> QED
        BY <1>7, <3>1, <4>1
    <3>3. /\ Digits(p + 2) \in 0 .. 4 /\ next <= L + 1
          /\ Digits(p + 2) = 4 \/ next = L + 1 \/ json[next] \notin HexDigits
      BY <3>1, DigitsCounted
    <3>4. Scanned(f, p) = IF next = p + 6 \/ next > L THEN f[next] ELSE INVAL
      BY <2>1, <2>3, <3>1, <3>2 DEF Scanned, Backslash, DoubleQuote, Escape, Escapable
    <3> DEFINE d == Digits(p + 2)
    <3>5. d \in 0 .. 4 /\ next = p + 2 + d
      BY <3>3
    <3> HIDE DEF d, next
    <3>6. CASE d = 4
      <4>1. next = p + 6 /\ p + 6 <= L + 1
        <5> HIDE DEF L
        <5> QED
          BY <1>0, <3>3, <3>5, <3>6
      <4> QED
        BY <1>2, <1>7, <3>4, <4>1
    <3>7. CASE d # 4 /\ next = L + 1
      <4>1. next > L /\ ~(p + 6 <= L + 1)
        <5> HIDE DEF L
        <5> QED
          BY <1>0, <3>5, <3>7
      <4> QED
        BY <1>1, <1>2, <1>7, <3>4, <3>7, <4>1
    <3>8. CASE d # 4 /\ next # L + 1
      <4>1. d + 3 \in 3 .. 6 /\ d + 3 \in 1 .. 6 /\ p + (d + 3) - 1 = next /\ next <= L
        <5> HIDE DEF L
        <5> QED
          BY <1>0, <3>3, <3>5, <3>8
      <4>2. p + (d + 3) - 1 <= L => json[p + (d + 3) - 1] = q[d + 3]
        BY <1>3, <1>7, <4>1
      <4>3. json[next] = HexDigit
        BY <1>7, <4>1, <4>2
      <4> QED
        BY <3>3, <3>8, <4>3 DEF HexDigit, HexDigits, d
    <3> QED
      BY <3>6, <3>7, <3>8
  <2> QED
    BY <2>2, <2>3
<1>8. p <= L \/ p = L + 1
  <2> HIDE DEF L
  <2> QED
    BY <1>0
<1> QED
  BY <1>4, <1>5, <1>6, <1>7, <1>8, QuotedByteCases

LEMMA Concat ==
  ASSUME NEW T, NEW a \in Seq(T), NEW b \in Seq(T)
  PROVE  /\ a \o b \in Seq(T) /\ Len(a \o b) = Len(a) + Len(b) /\ Len(a) \in Nat /\ Len(b) \in Nat
         /\ \A i \in 1 .. Len(a) : (a \o b)[i] = a[i]
         /\ \A j \in 1 .. Len(b) : (a \o b)[Len(a) + j] = b[j]
<1>1. /\ a \o b \in Seq(T) /\ Len(a \o b) = Len(a) + Len(b) /\ Len(a) \in Nat /\ Len(b) \in Nat
      /\ \A i \in 1 .. Len(a) : (a \o b)[i] = a[i]
      /\ \A i \in Len(a) + 1 .. Len(a) + Len(b) : (a \o b)[i] = b[i - Len(a)]
  BY ConcatProperties, LenProperties
<1>2. ASSUME NEW j \in 1 .. Len(b) PROVE (a \o b)[Len(a) + j] = b[j]
  <2>1. Len(a) + j \in Len(a) + 1 .. Len(a) + Len(b) /\ Len(a) + j - Len(a) = j
    BY <1>1
  <2> QED
    BY <1>1, <2>1
<1> QED
  BY <1>1, <1>2

Enquoted(bytes) == <<Quote>> \o QuotedBytes(bytes) \o <<Quote>>

LEMMA EnquotedIs ==
  ASSUME NEW bytes \in Seq(Chars)
  PROVE  LET n == Len(QuotedBytes(bytes))
             e == Enquoted(bytes)
         IN  /\ n \in Nat /\ e \in Seq(Chars) /\ Len(e) = n + 2
             /\ e[1] = Quote /\ e[n + 2] = Quote
             /\ \A k \in 1 .. n : e[k + 1] = QuotedBytes(bytes)[k]
<1> DEFINE Q == QuotedBytes(bytes)
           n == Len(Q)
           a == <<Quote>>
           e == Enquoted(bytes)
<1>1. Q \in Seq(Chars) /\ n \in Nat /\ e \in Seq(Chars) /\ e = (a \o Q) \o a
  BY StringQuoted, LenProperties DEF Enquoted
<1>2. a \in Seq(Chars) /\ Len(a) = 1 /\ a[1] = Quote
  BY CharsAre, SeqOf
<1> HIDE DEF Q, e, a
<1> DEFINE b == a \o Q
<1>3. /\ b \in Seq(Chars) /\ Len(b) = n + 1 /\ b[1] = Quote
      /\ \A k \in 1 .. n : b[k + 1] = Q[k]
  <2>1. /\ b \in Seq(Chars) /\ Len(b) = Len(a) + n
        /\ \A i \in 1 .. Len(a) : b[i] = a[i]
        /\ \A k \in 1 .. n : b[Len(a) + k] = Q[k]
    <3>1. a \in Seq(Chars) /\ Q \in Seq(Chars)
      BY <1>1, <1>2
    <3> HIDE DEF b, n
    <3>2. /\ a \o Q \in Seq(Chars) /\ Len(a \o Q) = Len(a) + Len(Q)
          /\ \A i \in 1 .. Len(a) : (a \o Q)[i] = a[i]
          /\ \A k \in 1 .. Len(Q) : (a \o Q)[Len(a) + k] = Q[k]
      BY ONLY <3>1, Concat
    <3> QED
      BY <3>2, Zenon DEF b, n
  <2>2. 1 \in 1 .. Len(a) /\ \A k \in 1 .. n : Len(a) + k = k + 1
    BY <1>1, <1>2
  <2> HIDE DEF b, n
  <2> QED
    BY <1>1, <1>2, <2>1, <2>2
<1> HIDE DEF b
<1>4. /\ Len(b \o a) = Len(b) + Len(a) /\ \A i \in 1 .. Len(b) : (b \o a)[i] = b[i]
      /\ \A i \in 1 .. Len(a) : (b \o a)[Len(b) + i] = a[i]
  <2>1. b \in Seq(Chars) /\ a \in Seq(Chars)
    BY <1>2, <1>3
  <2> QED
    BY ONLY <2>1, Concat
<1>5. e = b \o a
  BY <1>1 DEF b
<1> HIDE DEF n
<1>6. Len(e) = n + 2 /\ e[1] = Quote
  <2>1. 1 \in 1 .. Len(b) /\ Len(b) + Len(a) = n + 2
    BY <1>1, <1>2, <1>3
  <2> QED
    BY <1>3, <1>4, <1>5, <2>1
<1>7. e[n + 2] = Quote
  <2>1. 1 \in 1 .. Len(a) /\ Len(b) + 1 = n + 2
    BY <1>1, <1>2, <1>3
  <2>2. e[Len(b) + 1] = a[1]
    BY <1>4, <1>5, <2>1
  <2> QED
    BY <1>2, <2>1, <2>2
<1>8. ASSUME NEW k \in 1 .. n PROVE e[k + 1] = Q[k]
  <2>1. k + 1 \in 1 .. Len(b)
    BY <1>1, <1>3
  <2> QED
    BY <1>3, <1>4, <1>5, <2>1
<1> QED
  BY <1>1, <1>6, <1>7, <1>8 DEF Q, n, e

LEMMA ClosingFound ==
  ASSUME json \in Seq(Chars), NEW p \in 1 .. Len(json), NEW bytes \in Seq(Chars), Has(p, Enquoted(bytes))
  PROVE  ClosingQuote(p) = LET e == p + Len(Enquoted(bytes)) - 1
                           IN  IF e <= Len(json) THEN e ELSE PART
<1> DEFINE J == Len(json)
           L == Len(bytes)
           Q == QuotedBytes(bytes)
           n == Len(Q)
           E == Enquoted(bytes)
           q(k) == QuotedByte(bytes[k])
           e == p + n + 1
           answer == IF e <= J THEN e ELSE PART
<1>0. J \in Nat /\ L \in Nat /\ p \in 1 .. J /\ p \in Nat /\ \A k \in 1 .. L : bytes[k] \in Chars
  OBVIOUS
<1>1. /\ n \in Nat /\ Len(E) = n + 2 /\ E[1] = Quote /\ E[n + 2] = Quote
      /\ \A k \in 1 .. n : E[k + 1] = Q[k]
  BY EnquotedIs
<1>2. PICK f : ScansFrom(f, p)
  BY QuoteFound
<1>3. PICK o \in [0 .. L -> Nat] :
        /\ o[0] = 0 /\ o[L] = n
        /\ \A k \in 1 .. L : /\ o[k] = o[k - 1] + Len(q(k)) /\ o[k] <= n
                             /\ \A j \in 1 .. Len(q(k)) : Q[o[k - 1] + j] = q(k)[j]
  BY QuotedPieces
<1>4. \A r \in p + 1 .. J + 1 : f[r] = Scanned(f, r)
  BY <1>2 DEF ScansFrom
<1>5. ClosingQuote(p) = f[p + 1]
  BY <1>2 DEF ScansFrom
<1>6. \A i \in 1 .. n + 2 : p + i - 1 <= J => json[p + i - 1] = E[i]
  BY <1>1 DEF Has
<1>7. \A k \in 0 .. L : o[k] \in Nat
  BY <1>3
<1> DEFINE Right(k) == p + 1 + o[k] <= J + 1 => f[p + 1 + o[k]] = answer
           S == {d \in Nat : d <= L => Right(L - d)}
<1> HIDE DEF q, E, L, J
<1>8. 0 \in S
  <2>1. L - 0 = L /\ p + 1 + o[L] = e
    <3> HIDE DEF n
    <3> QED
      BY <1>0, <1>1, <1>3
  <2>2. ASSUME e <= J + 1 PROVE f[e] = answer
    <3>1. e \in p + 1 .. J + 1
      <4> HIDE DEF n
      <4> QED
        BY <1>0, <1>1, <2>2
    <3>2. f[e] = Scanned(f, e)
      BY <1>4, <3>1
    <3>3. CASE e <= J
      <4>1. n + 2 \in 1 .. n + 2 /\ p + (n + 2) - 1 = e /\ ~(e > J)
        <5> HIDE DEF n
        <5> QED
          BY <1>0, <1>1, <3>3
      <4>2. p + (n + 2) - 1 <= J => json[p + (n + 2) - 1] = E[n + 2]
        BY <1>6, <4>1
      <4>3. json[e] = DoubleQuote
        BY <1>1, <3>3, <4>1, <4>2 DEF Quote, DoubleQuote
      <4> HIDE DEF e
      <4> QED
        BY <3>2, <3>3, <4>1, <4>3 DEF Scanned, J
    <3>4. CASE ~(e <= J)
      <4>1. e > J
        <5> HIDE DEF n
        <5> QED
          BY <1>0, <1>1, <3>4
      <4> HIDE DEF e
      <4> QED
        BY <3>2, <3>4, <4>1 DEF Scanned, J
    <3> QED
      BY <3>3, <3>4
  <2> HIDE DEF e, answer
  <2> QED
    BY <2>1, <2>2
<1>9. ASSUME NEW d \in Nat, d \in S PROVE d + 1 \in S
  <2> HIDE DEF answer
  <2> SUFFICES ASSUME d + 1 <= L, p + 1 + o[L - (d + 1)] <= J + 1
               PROVE  f[p + 1 + o[L - (d + 1)]] = answer
    OBVIOUS
  <2> DEFINE k == L - d
             c == Len(q(k))
             r == p + 1 + o[k - 1]
  <2>1. k \in 1 .. L /\ L - (d + 1) = k - 1 /\ d <= L /\ k - 1 \in 0 .. L /\ k \in 0 .. L
    BY <1>0
  <2>2. Right(k)
    BY <1>9, <2>1
  <2> HIDE DEF k
  <2>3. o[k] = o[k - 1] + c /\ o[k] <= n /\ o[k - 1] \in Nat /\ o[k] \in Nat
        /\ \A j \in 1 .. c : Q[o[k - 1] + j] = q(k)[j]
    BY <1>3, <1>7, <2>1
  <2>4. bytes[k] \in Chars /\ q(k) \in Seq(Chars) /\ c \in Nat
    BY <1>0, <2>1, QuotedByteIs, LenProperties DEF q
  <2> HIDE DEF c
  <2>5. r \in Nat \ {0} /\ r \in p + 1 .. J + 1 /\ r + c = p + 1 + o[k] /\ r <= J + 1
    <3> DEFINE x == o[k - 1]
               y == o[k]
    <3>1. p + 1 + x <= J + 1
      BY <2>1
    <3>2. x \in Nat /\ y \in Nat /\ y = x + c /\ c \in Nat /\ p \in Nat /\ J \in Nat
      BY <1>0, <2>3, <2>4
    <3> HIDE DEF x, y
    <3>3. /\ p + 1 + x \in Nat \ {0} /\ p + 1 + x \in p + 1 .. J + 1
          /\ p + 1 + x + c = p + 1 + y /\ p + 1 + x <= J + 1
      BY ONLY <3>1, <3>2
    <3> QED
      BY <3>3 DEF x, y
  <2>6. Has(r, q(k))
    <3> SUFFICES ASSUME NEW j \in 1 .. c, r + j - 1 <= J PROVE json[r + j - 1] = q(k)[j]
      BY DEF Has, J, c
    <3> HIDE DEF n
    <3> DEFINE i == o[k - 1] + j
    <3>1. i \in 1 .. n /\ i + 1 \in 1 .. n + 2 /\ p + (i + 1) - 1 = r + j - 1
      <4> DEFINE x == o[k - 1]
                 y == o[k]
      <4>1. /\ x \in Nat /\ y \in Nat /\ y = x + c /\ y <= n /\ n \in Nat /\ c \in Nat
            /\ p \in Nat /\ j \in 1 .. c
        BY <1>0, <1>1, <2>3, <2>4
      <4> HIDE DEF x, y
      <4>2. /\ x + j \in 1 .. n /\ x + j + 1 \in 1 .. n + 2
            /\ p + (x + j + 1) - 1 = p + 1 + x + j - 1
        BY ONLY <4>1
      <4> QED
        BY <4>2 DEF x
    <3>2. Q[i] = q(k)[j]
      BY <2>3
    <3> HIDE DEF i, r
    <3>3. p + (i + 1) - 1 <= J => json[p + (i + 1) - 1] = E[i + 1]
      BY <1>6, <3>1
    <3> QED
      BY <1>1, <3>1, <3>2, <3>3
  <2>7. \A x \in r .. J + 1 : f[x] = Scanned(f, x)
    <3>1. \A x \in r .. J + 1 : x \in p + 1 .. J + 1
      BY <1>0, <2>5
    <3> QED
      BY <1>4, <3>1
  <2> HIDE DEF r
  <2>8. f[r] = IF r + c <= J + 1 THEN f[r + c] ELSE PART
    BY <2>4, <2>5, <2>6, <2>7, ScanPasses DEF J, c, q
  <2>9. CASE r + c <= J + 1
    BY <2>1, <2>2, <2>5, <2>8, <2>9 DEF r
  <2>10. CASE ~(r + c <= J + 1)
    <3>1. ~(e <= J)
      <4> DEFINE y == o[k]
      <4>1. y \in Nat /\ y <= n /\ n \in Nat /\ p \in Nat /\ J \in Nat
        <5> HIDE DEF n
        <5> QED
          BY <1>0, <1>1, <2>3
      <4>2. ~(p + 1 + y <= J + 1)
        BY <2>5, <2>10
      <4> HIDE DEF n, y
      <4>3. ~(p + n + 1 <= J)
        BY ONLY <4>1, <4>2
      <4> QED
        BY <4>3
    <3> QED
      BY <2>1, <2>8, <2>10, <3>1 DEF answer, r
  <2> QED
    BY <2>9, <2>10
<1> HIDE DEF S
<1>10. L \in S
  <2>1. Nat \subseteq S
    BY <1>8, <1>9, Induction
  <2> QED
    BY <1>0, <2>1
<1>11. f[p + 1] = answer
  <2> HIDE DEF answer
  <2>1. L <= L /\ L - L = 0 /\ p + 1 + o[0] = p + 1 /\ p + 1 <= J + 1
    BY <1>0, <1>3
  <2>2. Right(0)
    BY <1>0, <1>10, <2>1 DEF S
  <2> QED
    BY <2>1, <2>2
<1>12. p + Len(E) - 1 = e
  <2> HIDE DEF n
  <2> QED
    BY <1>0, <1>1
<1> QED
  BY <1>5, <1>11, <1>12 DEF E, J
-------------------------------------------------------------------------------
(* The reader's way through a text that jems writes: from what it is at to *)
(* what it is at after the next bracket, string, primitive or separator.   *)

IsAt(text, s, chars) == s.pos <= Len(text) /\ text[s.pos] \in chars

OpenOf(toks) == {k \in DOMAIN toks : toks[k].end = Unset}

Place == [pos : Nat \ {0}, tokens : Seq(TokenRec), super : Nat]
Good(s) == s \in Place /\ s.super <= Len(s.tokens)
Fresh == [pos |-> 1, tokens |-> <<>>, super |-> 0]

\* The text has this piece at p.
Shows(text, p, piece) ==
  p + Len(piece) <= Len(text) + 1 /\ \A k \in 1 .. Len(piece) : text[p + k - 1] = piece[k]

Opens(text, s, t) ==
  /\ IsAt(text, s, {"{", "["})
  /\ t = [pos |-> s.pos + 1,
          tokens |-> Append(CountedOf(s.tokens, s.super),
                            JsonToken(IF text[s.pos] = "{" THEN "object" ELSE "array", s.pos, Unset)),
          super |-> Len(s.tokens) + 1]

Closes(text, s, t) ==
  LET c == Innermost(OpenOf(s.tokens))
  IN  /\ IsAt(text, s, {"}", "]"})
      /\ OpenOf(s.tokens) # {}
      /\ s.tokens[c].type = IF text[s.pos] = "}" THEN "object" ELSE "array"
      /\ t = [pos |-> s.pos + 1,
              tokens |-> [s.tokens EXCEPT ![c].end = s.pos + 1],
              super |-> Innermost(OpenOf(s.tokens) \ {c})]

StringNext(text, s, t) ==
  \E bytes \in Seq(Chars) :
    LET e == s.pos + Len(Enquoted(bytes)) - 1
    IN  /\ Shows(text, s.pos, Enquoted(bytes))
        /\ t = [pos |-> e + 1,
                tokens |-> CountedOf(Append(s.tokens, JsonToken("string", s.pos + 1, e)), s.super),
                super |-> s.super]

PrimitiveNext(text, s, t) ==
  \E p \in Primitives :
    LET e == s.pos + Len(p)
    IN  /\ Shows(text, s.pos, p)
        /\ e = Len(text) + 1 \/ text[e] \in Delimiters
        /\ t = [pos |-> e,
                tokens |-> CountedOf(Append(s.tokens, JsonToken("primitive", s.pos, e)), s.super),
                super |-> s.super]

ColonNext(text, s, t) ==
  IsAt(text, s, {":"}) /\ t = [pos |-> s.pos + 1, tokens |-> s.tokens, super |-> Len(s.tokens)]

AfterComma(toks, super) ==
  IF super # 0 /\ toks[super].type \notin Containers /\ OpenOf(toks) # {}
  THEN Innermost(OpenOf(toks)) ELSE super

CommaNext(text, s, t) ==
  /\ IsAt(text, s, {","})
  /\ t = [pos |-> s.pos + 1, tokens |-> s.tokens, super |-> AfterComma(s.tokens, s.super)]

Lexeme(text, s, t) ==
  \/ Opens(text, s, t) \/ Closes(text, s, t)
  \/ StringNext(text, s, t) \/ PrimitiveNext(text, s, t)
  \/ ColonNext(text, s, t) \/ CommaNext(text, s, t)

\* The document has not ended: its first token, if there is one, is open.
InProgress(s) == s.tokens = <<>> \/ s.tokens[1].end = Unset

Way(text, st, n) ==
  /\ \A i \in 0 .. n : Good(st[i])
  /\ \A i \in 0 .. n - 1 : Lexeme(text, st[i], st[i + 1]) /\ InProgress(st[i])
  /\ \A i, j \in 0 .. n : i <= j => Len(st[i].tokens) <= Len(st[j].tokens)

Leads(text, s, t) ==
  \E st : \E n \in Nat : Way(text, st, n) /\ st[n] = t /\ \E i \in 0 .. n : st[i] = s

AfterText(text, s) == s.pos = Len(text) + 1 /\ Leads(text, Fresh, s)

\* What may follow a text, for what is there to be read as before.
Joins(text, chars) ==
  chars = <<>> \/ text = <<>> \/ chars[1] \in Delimiters \/ text[Len(text)] \in Structural

LEMMA PrimitivesAre ==
  ASSUME NEW p \in Primitives
  PROVE  /\ p \in Seq(Chars) /\ Len(p) \in Nat \ {0}
         /\ \A k \in 1 .. Len(p) : p[k] \notin Structural /\ p[k] \notin Unprintable
<1>1. p \in Seq(Chars) /\ p # <<>> /\ \A k \in DOMAIN p : p[k] \notin Structural \union Unprintable
  BY TextAssumption
<1>2. Len(p) \in Nat /\ DOMAIN p = 1 .. Len(p) /\ Len(p) # 0
  BY <1>1, LenProperties, EmptySeq
<1> QED
  BY <1>1, <1>2

\* What adding a token makes of the tokens.
MoreTokens(r, toks, t, super) ==
  /\ r \in Seq(TokenRec) /\ Len(r) = Len(toks) + 1 /\ Len(toks) \in Nat
  /\ r = Append(CountedOf(toks, super), t)
  /\ r[Len(toks) + 1] = t
  /\ \A k \in 1 .. Len(toks) :
       /\ r[k].type = toks[k].type /\ r[k].start = toks[k].start /\ r[k].end = toks[k].end
       /\ r[k].size = toks[k].size + (IF k = super THEN 1 ELSE 0)

LEMMA TokensMore ==
  ASSUME NEW toks \in Seq(TokenRec), NEW t \in TokenRec, NEW super \in 0 .. Len(toks)
  PROVE  MoreTokens(CountedOf(Append(toks, t), super), toks, t, super)
<1> DEFINE a == Append(toks, t)
           c == CountedOf(toks, super)
           d == Append(c, t)
           r == CountedOf(a, super)
           n == Len(toks)
<1>1. n \in Nat /\ \A k \in 1 .. n : toks[k] \in TokenRec
  BY LenProperties, ElementOfSeq
<1>2. /\ c \in Seq(TokenRec) /\ Len(c) = n
      /\ \A k \in 1 .. n :
           /\ c[k].type = toks[k].type /\ c[k].start = toks[k].start /\ c[k].end = toks[k].end
           /\ c[k].size = toks[k].size + (IF k = super THEN 1 ELSE 0)
  BY CountedTokens
<1>3. /\ a \in Seq(TokenRec) /\ Len(a) = n + 1 /\ a[n + 1] = t
      /\ \A k \in 1 .. n : a[k] = toks[k]
  BY AppendProperties
<1> HIDE DEF c
<1>4. /\ d \in Seq(TokenRec) /\ Len(d) = n + 1 /\ d[n + 1] = t
      /\ \A k \in 1 .. n : d[k] = c[k]
  BY <1>2, AppendProperties
<1>5. r = d
  <2>1. CASE super = 0
    BY <2>1 DEF CountedOf, c
  <2>2. CASE super # 0
    <3> DEFINE x == [toks[super] EXCEPT !.size = @ + 1]
               e == [toks EXCEPT ![super] = x]
    <3>1. super \in 1 .. n /\ super \in 1 .. n + 1
      BY <1>1, <2>2
    <3>2. c = e /\ r = [a EXCEPT ![super] = x]
      <4>1. r = [a EXCEPT ![super] = [a[super] EXCEPT !.size = @ + 1]] /\ c = e
        BY <2>2 DEF CountedOf, c
      <4>2. a[super] = toks[super]
        BY <1>3, <3>1
      <4> HIDE DEF a, r, e
      <4> QED
        BY <4>1, <4>2
    <3>3. x \in TokenRec
      <4>1. toks[super] \in TokenRec
        BY <1>1, <3>1
      <4> DEFINE u == toks[super]
      <4>2. u \in TokenRec /\ u.size + 1 \in Nat
        BY <4>1 DEF TokenRec
      <4> HIDE DEF u
      <4>3. [u EXCEPT !.size = @ + 1] \in TokenRec
        BY <4>2 DEF TokenRec
      <4> QED
        BY <4>3 DEF u
    <3> HIDE DEF x
    <3>4. /\ e \in Seq(TokenRec) /\ Len(e) = n
          /\ \A k \in 1 .. n : e[k] = IF k = super THEN x ELSE toks[k]
      BY <1>1, <3>1, <3>3, ExceptSeq
    <3> HIDE DEF a, d, e
    <3>5. /\ r \in Seq(TokenRec) /\ Len(r) = n + 1
          /\ \A k \in 1 .. n + 1 : r[k] = IF k = super THEN x ELSE a[k]
      <4>1. super \in 1 .. Len(a)
        BY <1>3, <3>1
      <4> HIDE DEF r
      <4> QED
        BY <1>3, <3>2, <3>3, <4>1, ExceptSeq
    <3> HIDE DEF r
    <3>6. ASSUME NEW k \in 1 .. n + 1 PROVE r[k] = d[k]
      <4>1. CASE k = n + 1
        <5>1. k # super
          BY <1>1, <3>1, <4>1
        <5> QED
          BY <1>3, <1>4, <3>5, <4>1, <5>1
      <4>2. CASE k # n + 1
        <5>1. k \in 1 .. n
          BY <1>1, <4>2
        <5> QED
          BY <1>3, <1>4, <3>2, <3>4, <3>5, <5>1
      <4> QED
        BY <4>1, <4>2
    <3> QED
      BY <1>4, <3>5, <3>6, SeqEqual
  <2> QED
    BY <2>1, <2>2
<1> HIDE DEF d
<1>6. \A k \in 1 .. n : r[k] = c[k]
  BY <1>4, <1>5
<1> HIDE DEF r
<1>7. r \in Seq(TokenRec) /\ Len(r) = n + 1 /\ r[n + 1] = t
  BY <1>4, <1>5
<1> HIDE DEF n
<1>8. \A k \in 1 .. n :
        /\ r[k].type = toks[k].type /\ r[k].start = toks[k].start /\ r[k].end = toks[k].end
        /\ r[k].size = toks[k].size + (IF k = super THEN 1 ELSE 0)
  BY <1>2, <1>6
<1>9. r = Append(CountedOf(toks, super), t)
  BY <1>5, Zenon DEF d, c
<1>10. MoreTokens(r, toks, t, super)
  BY <1>1, <1>7, <1>8, <1>9, Zenon DEF MoreTokens, n
<1> QED
  BY <1>10, Zenon DEF r, a

LEMMA AddedTokens ==
  ASSUME NEW toks \in Seq(TokenRec), NEW t \in TokenRec, NEW super \in 0 .. Len(toks)
  PROVE  LET r == CountedOf(Append(toks, t), super)
         IN  /\ r \in Seq(TokenRec) /\ Len(r) = Len(toks) + 1 /\ Len(toks) \in Nat
             /\ r = Append(CountedOf(toks, super), t)
             /\ r[Len(toks) + 1] = t
             /\ \A k \in 1 .. Len(toks) :
                  /\ r[k].type = toks[k].type /\ r[k].start = toks[k].start /\ r[k].end = toks[k].end
                  /\ r[k].size = toks[k].size + (IF k = super THEN 1 ELSE 0)
<1> DEFINE r == CountedOf(Append(toks, t), super)
<1>1. MoreTokens(r, toks, t, super)
  BY TokensMore
<1> HIDE DEF r
<1>2. /\ r \in Seq(TokenRec) /\ Len(r) = Len(toks) + 1 /\ Len(toks) \in Nat
      /\ r = Append(CountedOf(toks, super), t)
      /\ r[Len(toks) + 1] = t
      /\ \A k \in 1 .. Len(toks) :
           /\ r[k].type = toks[k].type /\ r[k].start = toks[k].start /\ r[k].end = toks[k].end
           /\ r[k].size = toks[k].size + (IF k = super THEN 1 ELSE 0)
  BY <1>1, Zenon DEF MoreTokens
<1> QED
  BY <1>2, Zenon DEF r

LEMMA OpenOfIs ==
  ASSUME NEW toks \in Seq(TokenRec)
  PROVE  /\ Len(toks) \in Nat /\ OpenOf(toks) = {k \in 1 .. Len(toks) : toks[k].end = Unset}
         /\ OpenOf(toks) \subseteq 1 .. Len(toks)
         /\ Innermost(OpenOf(toks)) \in 0 .. Len(toks)
         /\ OpenOf(toks) # {} =>
              /\ Innermost(OpenOf(toks)) \in OpenOf(toks)
              /\ Innermost(OpenOf(toks)) \in 1 .. Len(toks)
              /\ \A k \in OpenOf(toks) : k <= Innermost(OpenOf(toks))
<1> DEFINE O == OpenOf(toks)
<1>1. Len(toks) \in Nat /\ O = {k \in 1 .. Len(toks) : toks[k].end = Unset} /\ O \subseteq 1 .. Len(toks)
  BY LenProperties DEF OpenOf
<1> HIDE DEF O
<1>2. Innermost(O) \in 0 .. Len(toks) /\ (O # {} => Innermost(O) \in O /\ \A k \in O : k <= Innermost(O))
  BY <1>1, InnermostIs
<1> QED
  BY <1>1, <1>2 DEF O

LEMMA ClosedTokens ==
  ASSUME NEW toks \in Seq(TokenRec), NEW c \in 1 .. Len(toks), NEW e \in Nat
  PROVE  LET r == [toks EXCEPT ![c].end = e]
         IN  /\ r \in Seq(TokenRec) /\ Len(r) = Len(toks)
             /\ \A k \in 1 .. Len(toks) :
                  /\ r[k].type = toks[k].type /\ r[k].start = toks[k].start /\ r[k].size = toks[k].size
                  /\ r[k].end = IF k = c THEN e ELSE toks[k].end
<1> DEFINE t == [toks[c] EXCEPT !.end = e]
           r == [toks EXCEPT ![c] = t]
<1>1. \A k \in 1 .. Len(toks) : toks[k] \in TokenRec
  BY ElementOfSeq
<1>2. /\ t \in TokenRec /\ t.type = toks[c].type /\ t.start = toks[c].start /\ t.size = toks[c].size
      /\ t.end = e
  <2> DEFINE u == toks[c]
  <2>1. u \in TokenRec /\ t = [u EXCEPT !.end = e]
    BY <1>1
  <2> HIDE DEF t, u
  <2>2. t \in TokenRec /\ t.type = u.type /\ t.start = u.start /\ t.size = u.size /\ t.end = e
    BY <2>1 DEF TokenRec
  <2> QED
    BY <2>2 DEF u
<1> HIDE DEF t
<1>3. /\ r \in Seq(TokenRec) /\ Len(r) = Len(toks)
      /\ \A k \in 1 .. Len(toks) : r[k] = IF k = c THEN t ELSE toks[k]
  BY <1>1, <1>2, ExceptSeq
<1>4. r = [toks EXCEPT ![c].end = e]
  BY DEF t
<1> HIDE DEF r
<1>5. ASSUME NEW k \in 1 .. Len(toks)
      PROVE  /\ r[k].type = toks[k].type /\ r[k].start = toks[k].start /\ r[k].size = toks[k].size
             /\ r[k].end = IF k = c THEN e ELSE toks[k].end
  BY <1>2, <1>3
<1> QED
  BY <1>3, <1>4, <1>5

LEMMA LexemeIs ==
  ASSUME NEW text \in Seq(Chars), NEW s, Good(s), NEW t, Lexeme(text, s, t)
  PROVE  Good(t) /\ Len(s.tokens) <= Len(t.tokens) /\ s.pos <= Len(text)
<1> DEFINE toks == s.tokens
           n == Len(toks)
           L == Len(text)
           p == s.pos
<1>1. /\ toks \in Seq(TokenRec) /\ n \in Nat /\ s.super \in 0 .. n /\ p \in Nat \ {0} /\ L \in Nat
      /\ s = [pos |-> p, tokens |-> toks, super |-> s.super]
  <2>1. toks \in Seq(TokenRec) /\ s.super \in Nat /\ s.super <= n /\ p \in Nat \ {0}
        /\ s = [pos |-> p, tokens |-> toks, super |-> s.super]
    BY DEF Good, Place
  <2>2. n \in Nat /\ L \in Nat
    BY <2>1, LenProperties
  <2> QED
    BY <2>1, <2>2
<1> HIDE DEF n, p, L, toks
<1>2. ASSUME NEW q \in Nat \ {0}, NEW r \in Seq(TokenRec), NEW x \in 0 .. Len(r),
             t = [pos |-> q, tokens |-> r, super |-> x]
      PROVE  Good(t) /\ t.tokens = r
  <2>1. x \in Nat /\ x <= Len(r)
    <3>1. Len(r) \in Nat
      BY LenProperties
    <3> QED
      BY <3>1
  <2> QED
    BY <1>2, <2>1 DEF Good, Place
<1>3. ASSUME NEW tok \in TokenRec, NEW q \in Nat \ {0}, NEW x \in 0 .. n + 1,
             t = [pos |-> q, tokens |-> CountedOf(Append(toks, tok), s.super), super |-> x]
      PROVE  Good(t) /\ n <= Len(t.tokens)
  <2> DEFINE r == CountedOf(Append(toks, tok), s.super)
  <2>1. r \in Seq(TokenRec) /\ Len(r) = n + 1
    BY <1>1, AddedTokens DEF n
  <2>2. x \in 0 .. Len(r) /\ n <= n + 1
    BY <1>1, <2>1
  <2> HIDE DEF r
  <2>3. t = [pos |-> q, tokens |-> r, super |-> x]
    BY <1>3 DEF r
  <2> QED
    BY <1>2, <2>1, <2>2, <2>3
<1>4. CASE Opens(text, s, t)
  <2> DEFINE tok == JsonToken(IF text[p] = "{" THEN "object" ELSE "array", p, Unset)
  <2>1. tok \in TokenRec
    BY <1>1 DEF JsonToken, TokenRec, Unset
  <2>2. Append(CountedOf(toks, s.super), tok) = CountedOf(Append(toks, tok), s.super)
    <3> HIDE DEF tok
    <3> QED
      BY <1>1, <2>1, AddedTokens DEF n
  <2>3. t = [pos |-> p + 1, tokens |-> Append(CountedOf(toks, s.super), tok), super |-> n + 1] /\ p <= L
    BY <1>4 DEF Opens, IsAt, toks, p, n, L
  <2>4. p + 1 \in Nat \ {0} /\ n + 1 \in 0 .. n + 1
    BY <1>1
  <2> HIDE DEF tok
  <2>5. Good(t) /\ n <= Len(t.tokens)
    BY <1>3, <2>1, <2>2, <2>3, <2>4
  <2> QED
    BY <2>3, <2>5 DEF n, p, L, toks
<1>5. CASE Closes(text, s, t)
  <2> DEFINE c == Innermost(OpenOf(toks))
             d == Innermost(OpenOf(toks) \ {c})
             r == [toks EXCEPT ![c].end = p + 1]
  <2>1. t = [pos |-> p + 1, tokens |-> r, super |-> d] /\ p <= L /\ OpenOf(toks) # {}
    BY <1>5 DEF Closes, IsAt, toks, p, L
  <2>2. c \in 1 .. Len(toks)
    BY <1>1, <2>1, OpenOfIs
  <2>3. d \in 0 .. n
    <3>1. OpenOf(toks) \ {c} \subseteq 1 .. n
      BY <1>1, OpenOfIs DEF n
    <3> QED
      BY <1>1, <3>1, InnermostIs
  <2> HIDE DEF c, d
  <2>4. r \in Seq(TokenRec) /\ Len(r) = n
    <3>1. p + 1 \in Nat
      BY <1>1
    <3> QED
      BY <1>1, <2>2, <3>1, ClosedTokens DEF n
  <2> HIDE DEF r
  <2>5. p + 1 \in Nat \ {0} /\ n <= n
    BY <1>1
  <2>6. Good(t) /\ n <= Len(t.tokens)
    BY <1>2, <2>1, <2>3, <2>4, <2>5
  <2> QED
    BY <2>1, <2>6 DEF n, p, L, toks
<1>6. CASE StringNext(text, s, t)
  <2>1. PICK bytes \in Seq(Chars) :
          LET e == p + Len(Enquoted(bytes)) - 1
          IN  /\ Shows(text, p, Enquoted(bytes))
              /\ t = [pos |-> e + 1,
                      tokens |-> CountedOf(Append(toks, JsonToken("string", p + 1, e)), s.super),
                      super |-> s.super]
    BY <1>6 DEF StringNext, p, toks
  <2> DEFINE m == Len(Enquoted(bytes))
             e == p + m - 1
             tok == JsonToken("string", p + 1, e)
  <2>2. m \in Nat /\ m >= 2
    BY EnquotedIs
  <2>3. p + m <= L + 1
    BY <2>1 DEF Shows, L
  <2> HIDE DEF m
  <2>4. e \in Nat /\ e + 1 \in Nat \ {0} /\ p + 1 \in Nat \ {0} /\ p <= L
    <3>1. p \in Nat /\ p # 0 /\ L \in Nat /\ m \in Nat /\ m >= 2 /\ p + m <= L + 1
      BY <1>1, <2>2, <2>3
    <3> HIDE DEF p, L
    <3> QED
      BY ONLY <3>1
  <2> HIDE DEF e
  <2>5. tok \in TokenRec
    BY <2>4 DEF JsonToken, TokenRec
  <2>6. t = [pos |-> e + 1, tokens |-> CountedOf(Append(toks, tok), s.super), super |-> s.super]
    BY <2>1 DEF e, m
  <2>7. s.super \in 0 .. n + 1
    BY <1>1
  <2> HIDE DEF tok
  <2>8. Good(t) /\ n <= Len(t.tokens)
    BY <1>3, <2>4, <2>5, <2>6, <2>7
  <2> QED
    BY <2>4, <2>8 DEF n, p, L, toks
<1>7. CASE PrimitiveNext(text, s, t)
  <2>1. PICK x \in Primitives :
          LET e == p + Len(x)
          IN  /\ Shows(text, p, x)
              /\ t = [pos |-> e,
                      tokens |-> CountedOf(Append(toks, JsonToken("primitive", p, e)), s.super),
                      super |-> s.super]
    BY <1>7 DEF PrimitiveNext, p, toks
  <2> DEFINE m == Len(x)
             e == p + m
             tok == JsonToken("primitive", p, e)
  <2>2. m \in Nat /\ m # 0
    BY PrimitivesAre
  <2>3. p + m <= L + 1
    BY <2>1 DEF Shows, L
  <2> HIDE DEF m
  <2>4. e \in Nat \ {0} /\ p <= L
    BY <1>1, <2>2, <2>3
  <2> HIDE DEF e
  <2>5. tok \in TokenRec
    BY <1>1, <2>4 DEF JsonToken, TokenRec
  <2>6. t = [pos |-> e, tokens |-> CountedOf(Append(toks, tok), s.super), super |-> s.super]
    BY <2>1 DEF e, m
  <2>7. s.super \in 0 .. n + 1
    BY <1>1
  <2> HIDE DEF tok
  <2>8. Good(t) /\ n <= Len(t.tokens)
    BY <1>3, <2>4, <2>5, <2>6, <2>7
  <2> QED
    BY <2>4, <2>8 DEF n, p, L, toks
<1>8. ASSUME NEW x \in 0 .. n, p <= L, t = [pos |-> p + 1, tokens |-> toks, super |-> x]
      PROVE  Good(t) /\ Len(s.tokens) <= Len(t.tokens) /\ s.pos <= Len(text)
  <2>1. p + 1 \in Nat \ {0} /\ n <= n
    BY <1>1
  <2>2. x \in 0 .. Len(toks)
    BY DEF n
  <2>3. Good(t) /\ t.tokens = toks
    BY <1>1, <1>2, <1>8, <2>1, <2>2
  <2> QED
    BY <1>8, <2>1, <2>3 DEF n, p, L, toks
<1>9. CASE ColonNext(text, s, t)
  <2>1. t = [pos |-> p + 1, tokens |-> toks, super |-> n] /\ p <= L
    BY <1>9 DEF ColonNext, IsAt, p, n, toks, L
  <2>2. n \in 0 .. n
    BY <1>1
  <2> QED
    BY <1>8, <2>1, <2>2
<1>10. CASE CommaNext(text, s, t)
  <2> DEFINE x == AfterComma(toks, s.super)
  <2>1. t = [pos |-> p + 1, tokens |-> toks, super |-> x] /\ p <= L
    BY <1>10 DEF CommaNext, IsAt, p, toks, L
  <2>2. x \in 0 .. n
    BY <1>1, OpenOfIs DEF AfterComma, n
  <2> HIDE DEF x
  <2> QED
    BY <1>8, <2>1, <2>2
<1> QED
  BY <1>4, <1>5, <1>6, <1>7, <1>9, <1>10 DEF Lexeme, n, p, L, toks

LEMMA ShownStays ==
  ASSUME NEW text \in Seq(Chars), NEW chars \in Seq(Chars), NEW p \in Nat \ {0}
  PROVE  /\ Len(text \o chars) = Len(text) + Len(chars)
         /\ p <= Len(text) => p <= Len(text \o chars) /\ (text \o chars)[p] = text[p]
         /\ \A piece \in Seq(Chars) : Shows(text, p, piece) => Shows(text \o chars, p, piece)
<1> DEFINE L == Len(text)
           c == Len(chars)
           u == text \o chars
<1>1. /\ L \in Nat /\ c \in Nat /\ u \in Seq(Chars) /\ Len(u) = L + c
      /\ \A i \in 1 .. L : u[i] = text[i]
  BY Concat
<1> HIDE DEF u, c
<1>2. p <= L => p <= Len(u) /\ u[p] = text[p]
  <2> HIDE DEF L
  <2> QED
    BY <1>1
<1>3. ASSUME NEW piece \in Seq(Chars), Shows(text, p, piece) PROVE Shows(u, p, piece)
  <2> DEFINE n == Len(piece)
  <2>1. n \in Nat /\ p + n <= L + 1 /\ \A k \in 1 .. n : text[p + k - 1] = piece[k]
    BY <1>3 DEF Shows
  <2> HIDE DEF n, L
  <2>2. p + n <= Len(u) + 1
    BY <1>1, <2>1
  <2>3. ASSUME NEW k \in 1 .. n PROVE u[p + k - 1] = piece[k]
    <3>1. p + k - 1 \in 1 .. L
      BY <1>1, <2>1
    <3> QED
      BY <1>1, <2>1, <3>1
  <2> QED
    BY <2>2, <2>3 DEF Shows, n
<1> QED
  BY <1>1, <1>2, <1>3 DEF u, c

LEMMA LexemeStays ==
  ASSUME NEW text \in Seq(Chars), NEW chars \in Seq(Chars), Joins(text, chars),
         NEW s, Good(s), NEW t, Lexeme(text, s, t)
  PROVE  Lexeme(text \o chars, s, t)
<1> DEFINE u == text \o chars
           p == s.pos
           L == Len(text)
<1> SUFFICES Lexeme(u, s, t)
  OBVIOUS
<1>1. p \in Nat \ {0} /\ L \in Nat
  BY DEF Good, Place
<1>2. /\ Len(u) = L + Len(chars) /\ Len(chars) \in Nat
      /\ p <= L => p <= Len(u) /\ u[p] = text[p]
      /\ \A piece \in Seq(Chars) : Shows(text, p, piece) => Shows(u, p, piece)
  <2> HIDE DEF p
  <2> QED
    BY <1>1, ShownStays
<1> HIDE DEF u, L
<1>3. ASSUME NEW S, IsAt(text, s, S) PROVE IsAt(u, s, S) /\ u[p] = text[p]
  BY <1>2, <1>3 DEF IsAt, L
<1>4. CASE Opens(text, s, t)
  BY <1>3, <1>4 DEF Opens, Lexeme
<1>5. CASE Closes(text, s, t)
  BY <1>3, <1>5 DEF Closes, Lexeme
<1>6. CASE StringNext(text, s, t)
  <2>1. \A bytes \in Seq(Chars) : Enquoted(bytes) \in Seq(Chars)
    BY EnquotedIs
  <2>2. StringNext(u, s, t)
    BY <1>2, <1>6, <2>1 DEF StringNext
  <2> QED
    BY <2>2 DEF Lexeme
<1>7. CASE PrimitiveNext(text, s, t)
  <2>1. PICK x \in Primitives :
          LET e == p + Len(x)
          IN  /\ Shows(text, p, x)
              /\ e = L + 1 \/ text[e] \in Delimiters
              /\ t = [pos |-> e,
                      tokens |-> CountedOf(Append(s.tokens, JsonToken("primitive", p, e)), s.super),
                      super |-> s.super]
    BY <1>7 DEF PrimitiveNext, L
  <2> DEFINE m == Len(x)
             e == p + m
  <2>2. /\ x \in Seq(Chars) /\ m \in Nat \ {0} /\ \A k \in 1 .. m : x[k] \notin Structural
    BY PrimitivesAre
  <2>3. Shows(u, p, x) /\ p + m <= L + 1 /\ \A k \in 1 .. m : text[p + k - 1] = x[k]
    BY <1>2, <2>1, <2>2 DEF Shows, L
  <2>4. e \in Nat \ {0} /\ e <= L + 1
    <3> HIDE DEF m, p
    <3> QED
      BY <1>1, <2>2, <2>3
  <2>5. e = Len(u) + 1 \/ u[e] \in Delimiters
    <3>1. CASE e # L + 1
      <4>1. text[e] \in Delimiters
        BY <2>1, <3>1
      <4> HIDE DEF e
      <4>2. e <= L
        BY <1>1, <2>4, <3>1
      <4>3. u[e] = text[e]
        BY <2>4, <4>2, ShownStays DEF u, L
      <4> QED
        BY <4>1, <4>3
    <3>2. CASE e = L + 1
      <4>1. m \in 1 .. m /\ p + m - 1 = L /\ L # 0
        <5> HIDE DEF p, m
        <5> QED
          BY <1>1, <2>2, <3>2
      <4>2. text[L] \notin Structural
        <5>1. text[p + m - 1] = x[m]
          BY <2>3, <4>1
        <5> QED
          BY <2>2, <4>1, <5>1
      <4>3. text # <<>>
        BY <4>1 DEF L
      <4>4. CASE chars = <<>>
        <5>1. Len(chars) = 0
          BY <4>4
        <5> HIDE DEF e
        <5> QED
          BY <1>1, <1>2, <3>2, <5>1
      <4>5. CASE chars # <<>> /\ chars[1] \in Delimiters
        <5>1. Len(chars) # 0
          BY <4>5, EmptySeq
        <5>2. 1 \in 1 .. Len(chars)
          BY <1>2, <5>1
        <5>3. u[L + 1] = chars[1]
          BY <5>2, Concat DEF u, L
        <5> HIDE DEF e
        <5> QED
          BY <3>2, <4>5, <5>3
      <4> QED
        BY <4>2, <4>3, <4>4, <4>5 DEF Joins, L
    <3> QED
      BY <3>1, <3>2
  <2>6. t = [pos |-> e,
             tokens |-> CountedOf(Append(s.tokens, JsonToken("primitive", p, e)), s.super),
             super |-> s.super]
    BY <2>1
  <2>7. PrimitiveNext(u, s, t)
    BY <2>3, <2>5, <2>6 DEF PrimitiveNext
  <2> QED
    BY <2>7 DEF Lexeme
<1>8. CASE ColonNext(text, s, t)
  BY <1>3, <1>8 DEF ColonNext, Lexeme
<1>9. CASE CommaNext(text, s, t)
  BY <1>3, <1>9 DEF CommaNext, Lexeme
<1> QED
  BY <1>4, <1>5, <1>6, <1>7, <1>8, <1>9 DEF Lexeme, u

LEMMA WrittenOn ==
  ASSUME NEW text \in Seq(Chars), NEW chars \in Seq(Chars), Joins(text, chars),
         NEW s, AfterText(text, s), InProgress(s),
         NEW t, Lexeme(text \o chars, s, t), t.pos = Len(text \o chars) + 1
  PROVE  AfterText(text \o chars, t) /\ Good(t) /\ Good(s)
<1> DEFINE u == text \o chars
<1>0. u \in Seq(Chars)
  BY Concat
<1>w. PICK st : \E n \in Nat : Way(text, st, n) /\ st[n] = s /\ \E i \in 0 .. n : st[i] = Fresh
  BY DEF AfterText, Leads
<1>1. PICK n \in Nat : Way(text, st, n) /\ st[n] = s /\ \E i \in 0 .. n : st[i] = Fresh
  BY <1>w
<1>2. Good(s)
  <2>1. n \in 0 .. n
    OBVIOUS
  <2> QED
    BY <1>1, <2>1 DEF Way
<1> HIDE DEF u
<1>3. Lexeme(u, s, t)
  BY DEF u
<1>4. Good(t) /\ Len(s.tokens) <= Len(t.tokens)
  BY <1>0, <1>2, <1>3, LexemeIs
<1> DEFINE st2 == [i \in 0 .. n + 1 |-> IF i = n + 1 THEN t ELSE st[i]]
<1>5. st2[n + 1] = t /\ \A i \in 0 .. n : st2[i] = st[i]
  OBVIOUS
<1> HIDE DEF st2
<1>6. \A i \in 0 .. n + 1 : i \in 0 .. n \/ i = n + 1
  OBVIOUS
<1>7. \A i \in 0 .. n + 1 : Good(st2[i])
  BY <1>1, <1>4, <1>5, <1>6 DEF Way
<1>8. ASSUME NEW i \in 0 .. n + 1 - 1
      PROVE  Lexeme(u, st2[i], st2[i + 1]) /\ InProgress(st2[i])
  <2>1. i \in 0 .. n /\ st2[i] = st[i] /\ (i # n => i \in 0 .. n - 1 /\ i + 1 \in 0 .. n)
    BY <1>5
  <2>2. CASE i = n
    BY <1>1, <1>3, <1>5, <2>1, <2>2
  <2>3. CASE i # n
    <3>1. Lexeme(text, st[i], st[i + 1]) /\ InProgress(st[i]) /\ Good(st[i]) /\ st2[i + 1] = st[i + 1]
      BY <1>1, <1>5, <2>1, <2>3 DEF Way
    <3>2. Lexeme(u, st[i], st[i + 1])
      BY <3>1, LexemeStays DEF u
    <3> QED
      BY <2>1, <3>1, <3>2
  <2> QED
    BY <2>2, <2>3
<1>9. ASSUME NEW i \in 0 .. n + 1, NEW j \in 0 .. n + 1, i <= j
      PROVE  Len(st2[i].tokens) <= Len(st2[j].tokens)
  <2>0. \A k \in 0 .. n : k \in 0 .. n /\ Good(st[k]) /\ Len(st[k].tokens) <= Len(s.tokens)
    <3>1. \A k \in 0 .. n : k <= n /\ n \in 0 .. n
      OBVIOUS
    <3> QED
      BY <1>1, <3>1 DEF Way
  <2>1. \A x : Good(x) => Len(x.tokens) \in Nat
    <3>1. \A x : Good(x) => x.tokens \in Seq(TokenRec)
      BY DEF Good, Place
    <3> QED
      BY <3>1, LenProperties
  <2>2. CASE j = n + 1 /\ i \in 0 .. n
    <3>1. st2[j] = t /\ st2[i] = st[i]
      BY <1>5, <2>2
    <3> QED
      BY <1>2, <1>4, <2>0, <2>1, <2>2, <3>1
  <2>3. CASE j = n + 1 /\ i = n + 1
    BY <1>4, <1>5, <2>1, <2>3
  <2>4. CASE j \in 0 .. n
    <3>1. i \in 0 .. n
      BY <1>9, <2>4
    <3> QED
      BY <1>1, <1>5, <1>9, <2>4, <3>1 DEF Way
  <2> QED
    BY <1>6, <2>2, <2>3, <2>4
<1>10. Way(u, st2, n + 1)
  BY <1>7, <1>8, <1>9 DEF Way
<1>11. \E i \in 0 .. n + 1 : st2[i] = Fresh
  BY <1>1, <1>5
<1>12. n + 1 \in Nat
  OBVIOUS
<1>13. Leads(u, Fresh, t)
  BY <1>5, <1>10, <1>11, <1>12 DEF Leads
<1> QED
  BY <1>2, <1>4, <1>13 DEF AfterText, u

LEMMA NothingWritten ==
  AfterText(<<>>, Fresh) /\ Good(Fresh)
<1>1. Good(Fresh)
  BY SeqOf, LenProperties DEF Good, Fresh, Place
<1> DEFINE st == [i \in 0 .. 0 |-> Fresh]
<1>2. Way(<<>>, st, 0)
  <2>1. \A i \in 0 .. 0 : st[i] = Fresh
    OBVIOUS
  <2>2. Len(Fresh.tokens) <= Len(Fresh.tokens)
    BY LenProperties, <1>1 DEF Good, Place
  <2>3. \A i \in 0 .. 0 - 1 : FALSE
    OBVIOUS
  <2> HIDE DEF st
  <2> QED
    BY <1>1, <2>1, <2>2, <2>3 DEF Way
<1>3. 0 \in Nat /\ st[0] = Fresh /\ 0 \in 0 .. 0
  OBVIOUS
<1> HIDE DEF st
<1>4. Leads(<<>>, Fresh, Fresh)
  BY <1>2, <1>3 DEF Leads
<1>5. Fresh.pos = Len(<<>>) + 1
  BY DEF Fresh
<1> QED
  BY <1>1, <1>4, <1>5 DEF AfterText

LEMMA LeadsOn ==
  ASSUME NEW text, NEW s, NEW t, Leads(text, s, t)
  PROVE  /\ Good(s) /\ Good(t) /\ Len(s.tokens) <= Len(t.tokens)
         /\ s = t \/ /\ InProgress(s)
                     /\ \E r : Lexeme(text, s, r) /\ Leads(text, r, t)
<1>w. PICK st : \E n \in Nat : Way(text, st, n) /\ st[n] = t /\ \E i \in 0 .. n : st[i] = s
  BY DEF Leads
<1>1. PICK n \in Nat : Way(text, st, n) /\ st[n] = t /\ \E i \in 0 .. n : st[i] = s
  BY <1>w
<1>2. PICK i \in 0 .. n : st[i] = s
  BY <1>1
<1>3. n \in 0 .. n /\ i <= n
  OBVIOUS
<1>4. Good(s) /\ Good(t) /\ Len(s.tokens) <= Len(t.tokens)
  BY <1>1, <1>2, <1>3 DEF Way
<1>5. CASE i = n
  BY <1>1, <1>2, <1>4, <1>5
<1>6. CASE i # n
  <2>1. i \in 0 .. n - 1 /\ i + 1 \in 0 .. n
    BY <1>6
  <2>2. InProgress(s) /\ Lexeme(text, s, st[i + 1])
    BY <1>1, <1>2, <2>1 DEF Way
  <2>3. Leads(text, st[i + 1], t)
    BY <1>1, <2>1 DEF Leads
  <2> QED
    BY <1>4, <2>2, <2>3
<1> QED
  BY <1>5, <1>6
-------------------------------------------------------------------------------
(* What the reader does at a place on its way, the text having come whole  *)
(* or cut off: it goes on to the next place, or finds no room for a token, *)
(* or meets the cut.                                                       *)

Here == [pos |-> pos, tokens |-> tokens, super |-> toksuper]

IsCut(text) ==
  /\ json \in Seq(Chars) /\ Len(json) <= Len(text)
  /\ \A k \in 1 .. Len(json) : json[k] = text[k]

LEMMA HereIs ==
  ASSUME Good(Here), NEW text \in Seq(Chars), IsCut(text)
  PROVE  /\ pos \in Nat \ {0} /\ tokens \in Seq(TokenRec) /\ toksuper \in 0 .. Len(tokens)
         /\ Len(tokens) \in Nat /\ Open = OpenOf(tokens)
         /\ Len(json) \in Nat /\ Len(text) \in Nat
         /\ pos <= Len(json) => pos \in 1 .. Len(json) /\ json[pos] = text[pos]
         /\ Here.pos = pos /\ Here.tokens = tokens /\ Here.super = toksuper
<1>1. /\ pos \in Nat \ {0} /\ tokens \in Seq(TokenRec) /\ toksuper \in Nat /\ toksuper <= Len(tokens)
      /\ Here.pos = pos /\ Here.tokens = tokens /\ Here.super = toksuper
  BY DEF Good, Here, Place
<1>2. json \in Seq(Chars) /\ \A k \in 1 .. Len(json) : json[k] = text[k]
  BY DEF IsCut
<1>3. Len(tokens) \in Nat /\ Len(json) \in Nat /\ Len(text) \in Nat
  BY <1>1, <1>2, LenProperties
<1> DEFINE n == Len(json)
           m == Len(tokens)
<1>4. pos <= n => pos \in 1 .. n
  <2>1. n \in Nat /\ pos \in Nat /\ pos # 0
    BY <1>1, <1>3
  <2> HIDE DEF n
  <2> QED
    BY ONLY <2>1
<1>5. toksuper \in 0 .. m
  <2>1. m \in Nat /\ toksuper \in Nat /\ toksuper <= m
    BY <1>1, <1>3
  <2> HIDE DEF m
  <2> QED
    BY ONLY <2>1
<1>6. Open = OpenOf(tokens)
  BY DEF Open, OpenOf
<1> QED
  BY <1>1, <1>2, <1>3, <1>4, <1>5, <1>6

LEMMA OneCase ==
  ASSUME Good(Here), NEW text \in Seq(Chars), IsCut(text), Parse
  PROVE  /\ result = None
         /\ pos > Len(json) => ParseEnd
         /\ pos <= Len(json) =>
              /\ json[pos] \in {"{", "["} => ParseOpen
              /\ json[pos] \in {"}", "]"} => ParseClose
              /\ json[pos] = DoubleQuote => ParseString
              /\ json[pos] = ":" => ParseColon
              /\ json[pos] = "," => ParseComma
              /\ json[pos] \notin Structural => ParsePrimitive
<1>1. /\ ParseOpen => result = None /\ pos <= Len(json) /\ json[pos] \in {"{", "["}
      /\ ParseClose => result = None /\ pos <= Len(json) /\ json[pos] \in {"}", "]"}
      /\ ParseString => result = None /\ pos <= Len(json) /\ json[pos] = DoubleQuote
      /\ ParseSpace => result = None /\ pos <= Len(json) /\ json[pos] = Space
      /\ ParseColon => result = None /\ pos <= Len(json) /\ json[pos] = ":"
      /\ ParseComma => result = None /\ pos <= Len(json) /\ json[pos] = ","
  BY DEF ParseOpen, ParseClose, ParseString, ParseSpace, ParseColon, ParseComma, At
<1>2. ParseEnd => result = None /\ pos > Len(json)
  BY DEF ParseEnd
<1>3. ParsePrimitive =>
        /\ result = None /\ pos <= Len(json)
        /\ json[pos] \notin {"{", "[", "}", "]", DoubleQuote, ":", ",", Space}
  BY DEF ParsePrimitive, At
<1>4. ~(pos <= Len(json) /\ pos > Len(json))
  <2>1. pos \in Nat /\ Len(json) \in Nat
    BY HereIs
  <2> QED
    BY <2>1
<1>5. Structural = {"{", "}", "[", "]", ":", ",", DoubleQuote, Space}
  BY DEF Structural, Quote, DoubleQuote
<1> QED
  BY <1>1, <1>2, <1>3, <1>4, <1>5 DEF Parse, DoubleQuote, Space

LEMMA BracketRead ==
  ASSUME NEW text \in Seq(Chars), IsCut(text), Good(Here), Parse, pos <= Len(json),
         NEW t, Opens(text, Here, t) \/ Closes(text, Here, t)
  PROVE  /\ json' = json
         /\ \/ result' = None /\ Here' = t
            \/ result' = NOMEM /\ Len(tokens) = NumTokens /\ Len(t.tokens) = Len(tokens) + 1
<1>1. /\ pos \in Nat \ {0} /\ tokens \in Seq(TokenRec) /\ toksuper \in 0 .. Len(tokens)
      /\ Len(tokens) \in Nat /\ Open = OpenOf(tokens) /\ json[pos] = text[pos]
      /\ Here.pos = pos /\ Here.tokens = tokens /\ Here.super = toksuper
      /\ Len(json) \in Nat
  BY HereIs
<1>2. result = None
  BY OneCase
<1>3. CASE Opens(text, Here, t)
  <2> DEFINE tok == JsonToken(IF json[pos] = "{" THEN "object" ELSE "array", pos, Unset)
             a == Append(CountedOf(tokens, toksuper), tok)
  <2>1. /\ json[pos] \in {"{", "["}
        /\ t = [pos |-> pos + 1, tokens |-> a, super |-> Len(tokens) + 1]
    BY <1>1, <1>3 DEF Opens, IsAt
  <2>2. ParseOpen
    BY <1>1, <2>1, OneCase
  <2>3. tok \in TokenRec
    BY <1>1 DEF JsonToken, TokenRec, Unset
  <2>4. Len(a) = Len(tokens) + 1
    <3> HIDE DEF tok
    <3> QED
      BY <1>1, <2>3, AddedTokens
  <2>5. IF Full THEN Fails(NOMEM)
        ELSE tokens' = a /\ toksuper' = Len(tokens') /\ Goes(pos + 1)
    BY <2>2 DEF ParseOpen, Counted, CountedOf
  <2> HIDE DEF a
  <2>6. CASE Full
    BY <2>1, <2>4, <2>5, <2>6 DEF Full, Fails
  <2>7. CASE ~Full
    <3>1. /\ tokens' = a /\ toksuper' = Len(tokens) + 1 /\ pos' = pos + 1
          /\ json' = json /\ result' = result
      BY <2>4, <2>5, <2>7 DEF Goes
    <3> QED
      BY <1>2, <2>1, <3>1 DEF Here
  <2> QED
    BY <2>6, <2>7
<1>4. CASE Closes(text, Here, t)
  <2> DEFINE c == Innermost(Open)
             a == [tokens EXCEPT ![c].end = pos + 1]
             failed == c = 0 \/ tokens[c].type # (IF json[pos] = "}" THEN "object" ELSE "array")
  <2>1. /\ json[pos] \in {"}", "]"} /\ Open # {}
        /\ tokens[c].type = IF json[pos] = "}" THEN "object" ELSE "array"
        /\ t = [pos |-> pos + 1, tokens |-> a, super |-> Innermost(Open \ {c})]
    BY <1>1, <1>4 DEF Closes, IsAt
  <2>2. ParseClose
    BY <1>1, <2>1, OneCase
  <2>3. c # 0
    <3>1. c \in 1 .. Len(tokens)
      BY <1>1, <2>1, OpenOfIs
    <3> HIDE DEF c
    <3> QED
      BY <1>1, <3>1
  <2>4. IF failed THEN Fails(INVAL)
        ELSE tokens' = a /\ toksuper' = Innermost(Open \ {c}) /\ Goes(pos + 1)
    BY <2>2 DEF ParseClose
  <2>5. ~failed
    BY <2>1, <2>3
  <2> HIDE DEF a, c, failed
  <2>6. /\ tokens' = a /\ toksuper' = Innermost(Open \ {c}) /\ pos' = pos + 1
        /\ json' = json /\ result' = result
    BY <2>4, <2>5 DEF Goes
  <2> QED
    BY <1>2, <2>1, <2>6 DEF Here
<1> QED
  BY <1>3, <1>4

LEMMA SeparatorRead ==
  ASSUME NEW text \in Seq(Chars), IsCut(text), Good(Here), Parse, pos <= Len(json),
         NEW t, ColonNext(text, Here, t) \/ CommaNext(text, Here, t)
  PROVE  json' = json /\ result' = None /\ Here' = t
<1>1. /\ pos \in Nat \ {0} /\ Open = OpenOf(tokens) /\ json[pos] = text[pos]
      /\ Here.pos = pos /\ Here.tokens = tokens /\ Here.super = toksuper
      /\ Len(json) \in Nat
  BY HereIs
<1>2. result = None
  BY OneCase
<1>3. CASE ColonNext(text, Here, t)
  <2>1. json[pos] = ":" /\ t = [pos |-> pos + 1, tokens |-> tokens, super |-> Len(tokens)]
    BY <1>1, <1>3 DEF ColonNext, IsAt
  <2>2. ParseColon
    BY <1>1, <2>1, OneCase
  <2> QED
    BY <1>2, <2>1, <2>2 DEF ParseColon, Goes, Here
<1>4. CASE CommaNext(text, Here, t)
  <2>1. json[pos] = ","
    BY <1>1, <1>4 DEF CommaNext, IsAt
  <2>2. t = [pos |-> pos + 1, tokens |-> tokens, super |-> AfterComma(tokens, toksuper)]
    BY <1>1, <1>4 DEF CommaNext
  <2>3. ParseComma
    BY <1>1, <2>1, OneCase
  <2>4. toksuper' = AfterComma(tokens, toksuper)
    BY <1>1, <2>3 DEF ParseComma, AfterComma
  <2>5. pos' = pos + 1 /\ tokens' = tokens /\ json' = json /\ result' = result
    BY <2>3 DEF ParseComma, Goes
  <2> QED
    BY <1>2, <2>2, <2>4, <2>5 DEF Here
<1> QED
  BY <1>3, <1>4

LEMMA StringRead ==
  ASSUME NEW text \in Seq(Chars), IsCut(text), Good(Here), Parse, pos <= Len(json),
         NEW t, StringNext(text, Here, t)
  PROVE  \/ json' = json /\ result' = None /\ Here' = t
         \/ result' = NOMEM /\ Len(tokens) = NumTokens /\ Len(t.tokens) = Len(tokens) + 1
         \/ Len(json) < Len(text) /\ result' = PART
<1>1. /\ pos \in Nat \ {0} /\ tokens \in Seq(TokenRec) /\ toksuper \in 0 .. Len(tokens)
      /\ Len(tokens) \in Nat /\ json[pos] = text[pos] /\ pos \in 1 .. Len(json)
      /\ Here.pos = pos /\ Here.tokens = tokens /\ Here.super = toksuper
      /\ Len(json) \in Nat /\ Len(text) \in Nat
  BY HereIs
<1>2. result = None
  BY OneCase
<1>3. PICK bytes \in Seq(Chars) :
        LET e == pos + Len(Enquoted(bytes)) - 1
        IN  /\ Shows(text, pos, Enquoted(bytes))
            /\ t = [pos |-> e + 1,
                    tokens |-> CountedOf(Append(tokens, JsonToken("string", pos + 1, e)), toksuper),
                    super |-> toksuper]
  BY <1>1 DEF StringNext
<1> DEFINE E == Enquoted(bytes)
           m == Len(E)
           e == pos + m - 1
           tok == JsonToken("string", pos + 1, e)
           a == CountedOf(Append(tokens, tok), toksuper)
           J == Len(json)
<1>4. m \in Nat /\ m >= 2 /\ E[1] = Quote
  BY EnquotedIs
<1>5. pos + m <= Len(text) + 1 /\ \A k \in 1 .. m : text[pos + k - 1] = E[k]
  BY <1>3 DEF Shows
<1>6. json[pos] = DoubleQuote
  <2>1. 1 \in 1 .. m /\ pos + 1 - 1 = pos
    <3> HIDE DEF m
    <3> QED
      BY <1>1, <1>4
  <2>2. text[pos + 1 - 1] = E[1]
    BY <1>5, <2>1
  <2> QED
    BY <1>1, <1>4, <2>1, <2>2 DEF Quote, DoubleQuote
<1>7. ParseString
  BY <1>1, <1>6, OneCase
<1>8. Has(pos, E)
  <2>1. ASSUME NEW k \in 1 .. m, pos + k - 1 <= J PROVE json[pos + k - 1] = E[k]
    <3>1. pos + k - 1 \in 1 .. J
      <4> HIDE DEF J, m
      <4>1. pos \in Nat /\ pos # 0 /\ k \in 1 .. m /\ m \in Nat /\ J \in Nat
        BY <1>1, <1>4 DEF J
      <4> QED
        BY ONLY <2>1, <4>1
    <3>2. json[pos + k - 1] = text[pos + k - 1]
      BY <3>1 DEF IsCut
    <3> QED
      BY <1>5, <3>2
  <2> QED
    BY <2>1 DEF Has
<1>9. ClosingQuote(pos) = IF e <= J THEN e ELSE PART
  <2>1. json \in Seq(Chars)
    BY DEF IsCut
  <2> QED
    BY <1>1, <1>8, <2>1, ClosingFound
<1> HIDE DEF m, E, J
<1>10. e \in Nat /\ ~(e < 0) /\ pos + 1 \in Nat \ {0} /\ e <= Len(text)
  <2> DEFINE N == Len(text)
  <2>1. pos \in Nat /\ pos # 0 /\ m \in Nat /\ m >= 2 /\ N \in Nat /\ pos + m <= N + 1 /\ e = pos + m - 1
    <3> HIDE DEF m
    <3>1. m \in Nat /\ m >= 2
      BY <1>4
    <3>2. N \in Nat
      BY LenProperties
    <3> QED
      BY <1>1, <1>5, <3>1, <3>2, Zenon DEF N, e
  <2> HIDE DEF N, m, e
  <2>2. e \in Nat /\ ~(e < 0) /\ pos + 1 \in Nat \ {0} /\ e <= N
    BY ONLY <2>1
  <2> QED
    BY <2>2, Zenon DEF N
<1> HIDE DEF e
<1>11. CASE ~(e <= J)
  <2>1. ClosingQuote(pos) = PART /\ PART < 0
    BY <1>9, <1>11 DEF PART
  <2>2. Fails(PART)
    BY <1>7, <2>1 DEF ParseString
  <2>3. J < Len(text)
    BY <1>1, <1>10, <1>11 DEF J
  <2> QED
    BY <2>2, <2>3 DEF Fails, J
<1>12. CASE e <= J
  <2>1. ClosingQuote(pos) = e
    BY <1>9, <1>12
  <2>2. IF Full THEN Fails(NOMEM) ELSE tokens' = a /\ Goes(e + 1) /\ UNCHANGED toksuper
    BY <1>7, <1>10, <2>1 DEF ParseString, Counted, CountedOf
  <2>3. tok \in TokenRec
    BY <1>10 DEF JsonToken, TokenRec
  <2>4. t = [pos |-> e + 1, tokens |-> a, super |-> toksuper]
    BY <1>3 DEF e, m, E
  <2> HIDE DEF tok
  <2>5. Len(a) = Len(tokens) + 1
    <3>1. tokens \in Seq(TokenRec) /\ toksuper \in 0 .. Len(tokens) /\ tok \in TokenRec
      BY <1>1, <2>3
    <3>2. MoreTokens(a, tokens, tok, toksuper)
      BY ONLY <3>1, TokensMore
    <3> HIDE DEF a
    <3> QED
      BY <3>2, Zenon DEF MoreTokens
  <2> HIDE DEF a
  <2>6. CASE Full
    BY <2>2, <2>4, <2>5, <2>6 DEF Full, Fails
  <2>7. CASE ~Full
    BY <1>2, <2>2, <2>4, <2>7 DEF Goes, Here
  <2> QED
    BY <2>6, <2>7
<1> QED
  BY <1>11, <1>12

LEMMA PrimitiveRead ==
  ASSUME NEW text \in Seq(Chars), IsCut(text), Good(Here), Parse, pos <= Len(json),
         NEW t, PrimitiveNext(text, Here, t)
  PROVE  \/ json' = json /\ result' = None /\ Here' = t
         \/ result' = NOMEM /\ Len(tokens) = NumTokens /\ Len(t.tokens) = Len(tokens) + 1
         \/ /\ Len(json) < Len(text) /\ json' = json /\ result' = None /\ pos' = Len(json) + 1
            /\ tokens' = CountedOf(Append(tokens, JsonToken("primitive", pos, Len(json) + 1)), toksuper)
            /\ toksuper' = toksuper
<1>1. /\ pos \in Nat \ {0} /\ tokens \in Seq(TokenRec) /\ toksuper \in 0 .. Len(tokens)
      /\ Len(tokens) \in Nat /\ json[pos] = text[pos] /\ pos \in 1 .. Len(json)
      /\ Here.pos = pos /\ Here.tokens = tokens /\ Here.super = toksuper
      /\ Len(json) \in Nat /\ Len(text) \in Nat /\ Len(json) <= Len(text) /\ json \in Seq(Chars)
  BY HereIs DEF IsCut
<1>2. result = None
  BY OneCase
<1>3. PICK x \in Primitives :
        LET e == pos + Len(x)
        IN  /\ Shows(text, pos, x)
            /\ e = Len(text) + 1 \/ text[e] \in Delimiters
            /\ t = [pos |-> e,
                    tokens |-> CountedOf(Append(tokens, JsonToken("primitive", pos, e)), toksuper),
                    super |-> toksuper]
  BY <1>1 DEF PrimitiveNext
<1> DEFINE m == Len(x)
           e == pos + m
           J == Len(json)
           T == Len(text)
           E == PrimitiveEnd
           a(k) == CountedOf(Append(tokens, JsonToken("primitive", pos, k)), toksuper)
<1>4. m \in Nat \ {0} /\ \A k \in 1 .. m : x[k] \notin Structural /\ x[k] \notin Unprintable
  BY PrimitivesAre
<1>5. e <= T + 1 /\ \A k \in 1 .. m : text[pos + k - 1] = x[k]
  BY <1>3 DEF Shows
<1>6. /\ E \in pos .. J + 1
      /\ E = J + 1 \/ json[E] \in Delimiters
      /\ \A k \in pos .. E - 1 : json[k] \notin Delimiters
  BY <1>1, PrimitiveEnds
<1>0. /\ J \in Nat /\ T \in Nat /\ J <= T /\ pos \in Nat /\ pos # 0 /\ pos <= J
      /\ m \in Nat /\ m # 0 /\ Len(tokens) \in Nat
  BY <1>1, <1>4
<1> HIDE DEF m, J, T, E
<1>7. ASSUME NEW i \in Nat, pos <= i, i < e, i <= J
      PROVE  json[i] \notin Structural /\ json[i] \notin Unprintable
  <2>1. i - pos + 1 \in 1 .. m /\ pos + (i - pos + 1) - 1 = i /\ i \in 1 .. J
    BY <1>0, <1>7
  <2>2. json[i] = text[i]
    BY <2>1 DEF IsCut, J
  <2>3. text[pos + (i - pos + 1) - 1] = x[i - pos + 1]
    BY <1>5, <2>1
  <2> QED
    BY <1>4, <2>1, <2>2, <2>3
<1>8. json[pos] \notin Structural
  <2>1. pos \in Nat /\ pos <= pos /\ pos < e /\ pos <= J
    BY <1>0
  <2> QED
    BY <1>7, <2>1
<1>9. ParsePrimitive
  BY <1>1, <1>8, OneCase
<1>10. Delimiters \subseteq Structural
  BY DEF Delimiters, Structural
<1>11. E \in Nat /\ pos <= E /\ E <= J + 1
  BY <1>0, <1>6
<1>12. E = IF e <= J + 1 THEN e ELSE J + 1
  <2>1. E >= e \/ E = J + 1
    <3> SUFFICES ASSUME E < e, E # J + 1 PROVE FALSE
      BY <1>0, <1>11
    <3>1. E <= J
      BY <1>0, <1>11
    <3> QED
      BY <1>6, <1>7, <1>10, <1>11, <3>1
  <2>2. ASSUME e <= J PROVE E <= e
    <3> SUFFICES ASSUME e < E PROVE FALSE
      BY <1>0, <1>11
    <3>1. e \in pos .. E - 1 /\ e # T + 1 /\ e \in 1 .. J
      BY <1>0, <1>11, <2>2
    <3>2. text[e] \in Delimiters
      BY <1>3, <3>1 DEF m, T
    <3>3. json[e] = text[e]
      BY <3>1 DEF IsCut, J
    <3> HIDE DEF e
    <3> QED
      BY <1>6, <3>1, <3>2, <3>3
  <2> QED
    BY <1>0, <1>11, <2>1, <2>2
<1>13. ~\E k \in pos .. E - 1 : json[k] \in Unprintable
  <2> SUFFICES ASSUME NEW k \in pos .. E - 1 PROVE json[k] \notin Unprintable
    OBVIOUS
  <2>1. k \in Nat /\ pos <= k /\ k < e /\ k <= J
    BY <1>0, <1>11, <1>12
  <2> QED
    BY <1>7, <2>1
<1>14. IF Full THEN Fails(NOMEM) ELSE tokens' = a(E) /\ Goes(E) /\ UNCHANGED toksuper
  BY <1>9, <1>13 DEF ParsePrimitive, E, Counted, CountedOf
<1>15. e \in Nat
  BY <1>0
<1>16. t = [pos |-> e, tokens |-> a(e), super |-> toksuper]
  BY <1>3 DEF m
<1> HIDE DEF e
<1>17. Len(t.tokens) = Len(tokens) + 1
  <2> DEFINE tok == JsonToken("primitive", pos, e)
  <2>1. tok \in TokenRec
    BY <1>1, <1>15 DEF JsonToken, TokenRec
  <2>2. t.tokens = CountedOf(Append(tokens, tok), toksuper)
    BY <1>16
  <2> HIDE DEF tok
  <2>3. tokens \in Seq(TokenRec) /\ toksuper \in 0 .. Len(tokens)
    BY <1>1
  <2> DEFINE r == CountedOf(Append(tokens, tok), toksuper)
  <2>4. MoreTokens(r, tokens, tok, toksuper)
    BY ONLY <2>1, <2>3, TokensMore
  <2> HIDE DEF r
  <2>5. Len(r) = Len(tokens) + 1
    BY <2>4, Zenon DEF MoreTokens
  <2> QED
    BY <2>2, <2>5, Zenon DEF r
<1> HIDE DEF a
<1>18. CASE Full
  BY <1>14, <1>17, <1>18 DEF Full, Fails
<1>19. CASE ~Full /\ e <= J + 1
  <2>1. E = e
    BY <1>12, <1>19
  <2> QED
    BY <1>2, <1>14, <1>16, <1>19, <2>1 DEF Goes, Here
<1>20. CASE ~Full /\ ~(e <= J + 1)
  <2>1. E = J + 1 /\ J < T
    BY <1>0, <1>5, <1>12, <1>15, <1>20 DEF e
  <2>2. tokens' = a(J + 1) /\ pos' = J + 1 /\ json' = json /\ result' = None /\ toksuper' = toksuper
    BY <1>2, <1>14, <1>20, <2>1 DEF Goes
  <2> QED
    BY <2>1, <2>2 DEF a, J, T
<1> QED
  BY <1>18, <1>19, <1>20
-------------------------------------------------------------------------------
(* The tokens at a place, and the items that they stand for. *)

ItemRec ==
  [type : {"object", "array", "string", "primitive"}, bytes : Seq(Chars), size : Nat]

Said(item) == IF item.type = "string" THEN QuotedBytes(item.bytes) ELSE item.bytes

IsItem(text, t, item) ==
  /\ t.type = item.type
  /\ IF t.type \in Containers THEN item.bytes = <<>>
     ELSE /\ t.start <= t.end /\ t.end <= Len(text) + 1
          /\ SubSeq(text, t.start, t.end - 1) = Said(item)

Match(text, toks, items, sized) ==
  /\ items \in Seq(ItemRec) /\ Len(toks) = Len(items)
  /\ \A k \in 1 .. Len(items) : IsItem(text, toks[k], items[k])
  /\ sized => \A k \in 1 .. Len(items) : toks[k].size = items[k].size

\* An item more, that counts as one of the parent's.
Add(items, parent, item) == Append(Counting(items, parent), item)

LEMMA CountedItems ==
  ASSUME NEW items \in Seq(ItemRec), NEW parent \in 0 .. Len(items)
  PROVE  LET r == Counting(items, parent)
         IN  /\ r \in Seq(ItemRec) /\ Len(r) = Len(items)
             /\ \A k \in 1 .. Len(items) :
                  /\ r[k].type = items[k].type /\ r[k].bytes = items[k].bytes
                  /\ r[k].size = items[k].size + (IF k = parent THEN 1 ELSE 0)
<1> DEFINE r == Counting(items, parent)
<1>1. Len(items) \in Nat /\ DOMAIN items = 1 .. Len(items) /\ \A k \in 1 .. Len(items) : items[k] \in ItemRec
  BY LenProperties, ElementOfSeq
<1>2. CASE parent = 0
  <2>1. r = items
    BY <1>2 DEF Counting
  <2>2. \A k \in 1 .. Len(items) : k # parent /\ items[k].size \in Nat
    BY <1>1, <1>2 DEF ItemRec
  <2> HIDE DEF r
  <2> QED
    BY <2>1, <2>2 DEF r
<1>3. CASE parent # 0
  <2> DEFINE t == [items[parent] EXCEPT !.size = @ + 1]
             e == [items EXCEPT ![parent] = t]
  <2>1. parent \in 1 .. Len(items)
    BY <1>1, <1>3
  <2>2. t \in ItemRec /\ t.type = items[parent].type /\ t.bytes = items[parent].bytes
        /\ t.size = items[parent].size + 1
    <3> DEFINE u == items[parent]
    <3>1. u \in ItemRec /\ t = [u EXCEPT !.size = @ + 1]
      BY <1>1, <2>1
    <3> HIDE DEF t
    <3>2. t = [u EXCEPT !.size = u.size + 1]
      BY <3>1
    <3> HIDE DEF u
    <3>3. u.size + 1 \in Nat
      BY <3>1 DEF ItemRec
    <3>4. t \in ItemRec /\ t.type = u.type /\ t.bytes = u.bytes /\ t.size = u.size + 1
      BY <3>1, <3>2, <3>3 DEF ItemRec
    <3> QED
      BY <3>4 DEF u
  <2> HIDE DEF t
  <2>3. /\ e \in Seq(ItemRec) /\ Len(e) = Len(items)
        /\ \A k \in 1 .. Len(items) : e[k] = IF k = parent THEN t ELSE items[k]
    BY <1>1, <2>1, <2>2, ExceptSeq
  <2>4. r = e
    BY <1>3 DEF Counting, t
  <2> HIDE DEF e
  <2>5. ASSUME NEW k \in 1 .. Len(items)
        PROVE  /\ e[k].type = items[k].type /\ e[k].bytes = items[k].bytes
               /\ e[k].size = items[k].size + (IF k = parent THEN 1 ELSE 0)
    <3>1. CASE k = parent
      BY <2>2, <2>3, <3>1
    <3>2. CASE k # parent
      <4>1. e[k] = items[k] /\ items[k].size \in Nat
        BY <1>1, <2>3, <3>2 DEF ItemRec
      <4> QED
        BY <3>2, <4>1
    <3> QED
      BY <3>1, <3>2
  <2> HIDE DEF r
  <2> QED
    BY <2>3, <2>4, <2>5 DEF r
<1> QED
  BY <1>2, <1>3

\* What adding an item makes of the items.
MoreItems(r, items, parent, item) ==
  /\ r \in Seq(ItemRec) /\ Len(r) = Len(items) + 1 /\ Len(items) \in Nat
  /\ r[Len(items) + 1] = item
  /\ \A k \in 1 .. Len(items) :
       /\ r[k].type = items[k].type /\ r[k].bytes = items[k].bytes
       /\ r[k].size = items[k].size + (IF k = parent THEN 1 ELSE 0)

LEMMA ItemsMore ==
  ASSUME NEW items \in Seq(ItemRec), NEW parent \in 0 .. Len(items), NEW item \in ItemRec
  PROVE  MoreItems(Add(items, parent, item), items, parent, item)
<1> DEFINE c == Counting(items, parent)
           n == Len(items)
           r == Add(items, parent, item)
<1>1. /\ c \in Seq(ItemRec) /\ Len(c) = n /\ n \in Nat
      /\ \A k \in 1 .. n :
           /\ c[k].type = items[k].type /\ c[k].bytes = items[k].bytes
           /\ c[k].size = items[k].size + (IF k = parent THEN 1 ELSE 0)
  BY CountedItems, LenProperties
<1>2. r = Append(c, item)
  BY DEF Add
<1> HIDE DEF c, r
<1>3. r \in Seq(ItemRec) /\ Len(r) = n + 1 /\ r[n + 1] = item /\ \A k \in 1 .. n : r[k] = c[k]
  BY <1>1, <1>2, AppendProperties
<1> HIDE DEF n
<1>4. /\ r \in Seq(ItemRec) /\ Len(r) = n + 1 /\ n \in Nat
      /\ r[n + 1] = item
      /\ \A k \in 1 .. n :
           /\ r[k].type = items[k].type /\ r[k].bytes = items[k].bytes
           /\ r[k].size = items[k].size + (IF k = parent THEN 1 ELSE 0)
  BY <1>1, <1>3
<1>5. MoreItems(r, items, parent, item)
  BY <1>4, Zenon DEF MoreItems, n
<1> QED
  BY <1>5, Zenon DEF r

LEMMA AddedItems ==
  ASSUME NEW items \in Seq(ItemRec), NEW parent \in 0 .. Len(items), NEW item \in ItemRec
  PROVE  LET r == Add(items, parent, item)
         IN  /\ r \in Seq(ItemRec) /\ Len(r) = Len(items) + 1 /\ Len(items) \in Nat
             /\ r[Len(items) + 1] = item
             /\ \A k \in 1 .. Len(items) :
                  /\ r[k].type = items[k].type /\ r[k].bytes = items[k].bytes
                  /\ r[k].size = items[k].size + (IF k = parent THEN 1 ELSE 0)
<1> DEFINE r == Add(items, parent, item)
<1>1. MoreItems(r, items, parent, item)
  BY ItemsMore
<1> HIDE DEF r
<1>2. /\ r \in Seq(ItemRec) /\ Len(r) = Len(items) + 1 /\ Len(items) \in Nat
      /\ r[Len(items) + 1] = item
      /\ \A k \in 1 .. Len(items) :
           /\ r[k].type = items[k].type /\ r[k].bytes = items[k].bytes
           /\ r[k].size = items[k].size + (IF k = parent THEN 1 ELSE 0)
  BY <1>1, Zenon DEF MoreItems
<1> QED
  BY <1>2, Zenon DEF r

LEMMA PieceIs ==
  ASSUME NEW T, NEW u \in Seq(T), NEW q \in Seq(T), NEW a \in Nat \ {0},
         a + Len(q) <= Len(u) + 1, \A k \in 1 .. Len(q) : u[a + k - 1] = q[k]
  PROVE  SubSeq(u, a, a + Len(q) - 1) = q
<1> DEFINE n == Len(q)
           L == Len(u)
           v == SubSeq(u, a, a + n - 1)
<1>1. n \in Nat /\ L \in Nat
  BY LenProperties
<1>2. /\ v \in Seq(T) /\ Len(v) = n
      /\ \A k \in 1 .. n : v[k] = u[a + k - 1]
  <2>1. a \in 1 .. L + 1 /\ a + n - 1 \in a - 1 .. L
    <3>1. a \in Nat \ {0} /\ a + n <= L + 1
      OBVIOUS
    <3> HIDE DEF n, L
    <3> QED
      BY <1>1, <3>1
  <2>2. /\ v \in Seq(T)
        /\ Len(v) = (a + n - 1) - a + 1
        /\ \A k \in 1 .. (a + n - 1) - a + 1 : v[k] = u[a + k - 1]
    BY <2>1, SubSeqProperties
  <2>3. (a + n - 1) - a + 1 = n
    <3> HIDE DEF n
    <3> QED
      BY <1>1
  <2> HIDE DEF n, v
  <2> QED
    BY <2>2, <2>3
<1> HIDE DEF v
<1>3. \A k \in 1 .. n : v[k] = q[k]
  BY <1>2
<1>4. v = q
  BY <1>2, <1>3, SeqEqual
<1> QED
  BY <1>4 DEF v

LEMMA PieceStays ==
  ASSUME NEW T, NEW u \in Seq(T), NEW c \in Seq(T), NEW a \in Nat \ {0}, NEW b \in Int,
         b <= Len(u), a <= b + 1
  PROVE  SubSeq(u \o c, a, b) = SubSeq(u, a, b)
<1> DEFINE v == u \o c
           L == Len(u)
           q == SubSeq(u, a, b)
           n == b - a + 1
<1>1. /\ v \in Seq(T) /\ L \in Nat /\ Len(c) \in Nat /\ Len(v) = L + Len(c)
      /\ \A k \in 1 .. L : v[k] = u[k]
  BY Concat
<1>2. b <= L /\ a <= b + 1 /\ a \in Nat \ {0} /\ b \in Int
  OBVIOUS
<1> HIDE DEF v, L
<1>3. a \in 1 .. L + 1 /\ b \in a - 1 .. L
  BY <1>1, <1>2
<1>4. q \in Seq(T) /\ Len(q) = n /\ \A k \in 1 .. n : q[k] = u[a + k - 1]
  BY <1>3, SubSeqProperties DEF L
<1> HIDE DEF q
<1>5. a + Len(q) <= Len(v) + 1 /\ a + Len(q) - 1 = b /\ n \in Nat
  BY <1>1, <1>2, <1>4
<1>6. ASSUME NEW k \in 1 .. Len(q) PROVE v[a + k - 1] = q[k]
  <2>1. k \in 1 .. n /\ a + k - 1 \in 1 .. L
    BY <1>1, <1>2, <1>4, <1>5
  <2> QED
    BY <1>1, <1>4, <2>1
<1>7. SubSeq(v, a, a + Len(q) - 1) = q
  <2>1. v \in Seq(T) /\ q \in Seq(T) /\ a \in Nat \ {0}
    BY <1>1, <1>4
  <2>2. a + Len(q) <= Len(v) + 1
    BY <1>5
  <2> QED
    BY ONLY <1>6, <2>1, <2>2, PieceIs, ZenonT(30)
<1> QED
  BY <1>5, <1>7 DEF v, q

LEMMA ItemStays ==
  ASSUME NEW text \in Seq(Chars), NEW chars \in Seq(Chars), NEW t \in TokenRec, NEW item,
         IsItem(text, t, item)
  PROVE  IsItem(text \o chars, t, item)
<1> DEFINE u == text \o chars
<1>1. Len(u) = Len(text) + Len(chars) /\ Len(text) \in Nat /\ Len(chars) \in Nat
  BY Concat
<1>2. t.start \in Nat \ {0} /\ t.end \in Nat
  BY DEF TokenRec
<1>3. CASE t.type \in Containers
  BY <1>3 DEF IsItem
<1>4. CASE t.type \notin Containers
  <2>1. /\ t.start <= t.end /\ t.end <= Len(text) + 1
        /\ SubSeq(text, t.start, t.end - 1) = Said(item) /\ t.type = item.type
    BY <1>4 DEF IsItem
  <2>2. t.end - 1 \in Int /\ t.end - 1 <= Len(text) /\ t.start <= (t.end - 1) + 1
    BY <1>1, <1>2, <2>1
  <2>3. SubSeq(u, t.start, t.end - 1) = SubSeq(text, t.start, t.end - 1)
    BY <1>2, <2>2, PieceStays
  <2> HIDE DEF u
  <2>4. t.end <= Len(u) + 1
    BY <1>1, <1>2, <2>1
  <2> QED
    BY <1>4, <2>1, <2>3, <2>4 DEF IsItem, u
<1> QED
  BY <1>3, <1>4

LEMMA MatchStays ==
  ASSUME NEW text \in Seq(Chars), NEW chars \in Seq(Chars), NEW toks \in Seq(TokenRec), NEW items,
         NEW sized, Match(text, toks, items, sized)
  PROVE  Match(text \o chars, toks, items, sized)
<1>1. \A k \in 1 .. Len(items) : toks[k] \in TokenRec /\ IsItem(text, toks[k], items[k])
  BY ElementOfSeq DEF Match
<1>2. \A k \in 1 .. Len(items) : IsItem(text \o chars, toks[k], items[k])
  BY <1>1, ItemStays
<1> QED
  BY <1>2 DEF Match

LEMMA MatchAdded ==
  ASSUME NEW text \in Seq(Chars), NEW chars \in Seq(Chars), NEW toks \in Seq(TokenRec), NEW items,
         NEW sized \in BOOLEAN, Match(text, toks, items, sized),
         NEW tok \in TokenRec, NEW item \in ItemRec, IsItem(text \o chars, tok, item),
         tok.size = 0, item.size = 0,
         NEW super \in 0 .. Len(toks), NEW parent \in 0 .. Len(items), sized => super = parent
  PROVE  Match(text \o chars, CountedOf(Append(toks, tok), super), Add(items, parent, item), sized)
<1> DEFINE u == text \o chars
           r == CountedOf(Append(toks, tok), super)
           a == Add(items, parent, item)
           n == Len(items)
<1>1. items \in Seq(ItemRec) /\ Len(toks) = n
  BY DEF Match
<1>2. /\ r \in Seq(TokenRec) /\ Len(r) = n + 1 /\ n \in Nat /\ r[n + 1] = tok
      /\ \A k \in 1 .. n :
           /\ r[k].type = toks[k].type /\ r[k].start = toks[k].start /\ r[k].end = toks[k].end
           /\ r[k].size = toks[k].size + (IF k = super THEN 1 ELSE 0)
  <2>1. toks \in Seq(TokenRec) /\ tok \in TokenRec /\ super \in 0 .. Len(toks)
    OBVIOUS
  <2>2. MoreTokens(r, toks, tok, super)
    BY ONLY <2>1, TokensMore
  <2> HIDE DEF r, n
  <2>3. /\ r \in Seq(TokenRec) /\ Len(r) = Len(toks) + 1 /\ Len(toks) \in Nat
        /\ r[Len(toks) + 1] = tok
        /\ \A k \in 1 .. Len(toks) :
             /\ r[k].type = toks[k].type /\ r[k].start = toks[k].start /\ r[k].end = toks[k].end
             /\ r[k].size = toks[k].size + (IF k = super THEN 1 ELSE 0)
    BY <2>2, Zenon DEF MoreTokens
  <2> QED
    BY <1>1, <2>3, Zenon
<1>3. /\ a \in Seq(ItemRec) /\ Len(a) = n + 1 /\ a[n + 1] = item
      /\ \A k \in 1 .. n :
           /\ a[k].type = items[k].type /\ a[k].bytes = items[k].bytes
           /\ a[k].size = items[k].size + (IF k = parent THEN 1 ELSE 0)
  <2>1. items \in Seq(ItemRec) /\ item \in ItemRec /\ parent \in 0 .. Len(items)
    BY <1>1
  <2>2. MoreItems(a, items, parent, item)
    BY ONLY <2>1, ItemsMore
  <2> HIDE DEF a
  <2> QED
    BY <2>2, Zenon DEF MoreItems
<1>4. Match(u, toks, items, sized) /\ IsItem(u, tok, item)
  BY MatchStays
<1> HIDE DEF u, r, a
<1>5. ASSUME NEW k \in 1 .. n + 1 PROVE IsItem(u, r[k], a[k])
  <2>1. CASE k = n + 1
    BY <1>2, <1>3, <1>4, <2>1
  <2>2. CASE k # n + 1
    <3>1. k \in 1 .. n
      <4> HIDE DEF n
      <4> QED
        BY <1>2, <2>2
    <3>2. IsItem(u, toks[k], items[k])
      BY <1>4, <3>1 DEF Match
    <3>3. /\ r[k].type = toks[k].type /\ r[k].start = toks[k].start /\ r[k].end = toks[k].end
          /\ a[k].type = items[k].type /\ a[k].bytes = items[k].bytes
      BY <1>2, <1>3, <3>1
    <3> QED
      BY <3>2, <3>3, Zenon DEF IsItem, Said
  <2> QED
    BY <2>1, <2>2
<1>6. ASSUME sized, NEW k \in 1 .. n + 1 PROVE r[k].size = a[k].size
  <2>1. CASE k = n + 1
    BY <1>2, <1>3, <2>1
  <2>2. CASE k # n + 1
    <3>1. k \in 1 .. n
      <4> HIDE DEF n
      <4> QED
        BY <1>2, <2>2
    <3>2. toks[k].size = items[k].size /\ super = parent
      BY <1>4, <1>6, <3>1 DEF Match
    <3> QED
      BY <1>2, <1>3, <3>1, <3>2
  <2> QED
    BY <2>1, <2>2
<1>7. Match(u, r, a, sized)
  <2> HIDE DEF n
  <2> QED
    BY <1>2, <1>3, <1>5, <1>6 DEF Match
<1> QED
  BY <1>7 DEF u, r, a
-------------------------------------------------------------------------------
(* What the text says so far: the items, and which of them are open. *)

Ready(text) == text = <<>> \/ text[Len(text)] \in Structural

Stage(text, s, items, O, sized) ==
  AfterText(text, s) /\ Match(text, s.tokens, items, sized) /\ OpenOf(s.tokens) = O

\* At some stage, and the next item goes under this one.
Reached(text, items, O, sized, under) ==
  \E s : Stage(text, s, items, O, sized) /\ s.super = under

Below(items, O, under) ==
  IF under # 0 /\ items[under].type \notin Containers /\ O # {} THEN Innermost(O) ELSE under

LEMMA StageIs ==
  ASSUME NEW text \in Seq(Chars), NEW s, NEW items, NEW O, NEW sized,
         Stage(text, s, items, O, sized)
  PROVE  /\ Good(s) /\ s.tokens \in Seq(TokenRec) /\ items \in Seq(ItemRec)
         /\ Len(items) \in Nat /\ Len(s.tokens) = Len(items) /\ s.super \in 0 .. Len(items)
         /\ s.pos = Len(text) + 1 /\ Len(text) \in Nat
         /\ O \subseteq 1 .. Len(items)
         /\ InProgress(s) <=> items = <<>> \/ 1 \in O
         /\ Ready(text) => \A chars : Joins(text, chars)
<1>1. Leads(text, Fresh, s) /\ s.pos = Len(text) + 1 /\ OpenOf(s.tokens) = O
  BY DEF Stage, AfterText
<1>2. Good(s)
  BY <1>1, LeadsOn
<1>3. /\ s.tokens \in Seq(TokenRec) /\ s.super \in Nat /\ s.super <= Len(s.tokens)
  BY <1>2 DEF Good, Place
<1>4. items \in Seq(ItemRec) /\ Len(s.tokens) = Len(items)
  BY DEF Stage, Match
<1>5. Len(items) \in Nat /\ Len(text) \in Nat
  BY <1>4, LenProperties
<1>6. O = {k \in 1 .. Len(items) : s.tokens[k].end = Unset}
  BY <1>1, <1>3, <1>4, OpenOfIs
<1>7. (s.tokens = <<>> <=> Len(items) = 0) /\ (items = <<>> <=> Len(items) = 0)
  BY <1>3, <1>4, EmptySeq
<1>8. InProgress(s) <=> items = <<>> \/ 1 \in O
  BY <1>5, <1>6, <1>7 DEF InProgress
<1>9. Ready(text) => \A chars : Joins(text, chars)
  BY DEF Ready, Joins
<1> QED
  BY <1>1, <1>2, <1>3, <1>4, <1>5, <1>6, <1>8, <1>9

LEMMA OneMore ==
  ASSUME NEW text \in Seq(Chars), NEW x \in Chars
  PROVE  /\ <<x>> \in Seq(Chars) /\ Len(<<x>>) = 1 /\ <<x>>[1] = x /\ <<x>> # <<>>
         /\ text \o <<x>> \in Seq(Chars) /\ Len(text) \in Nat
         /\ Len(text \o <<x>>) = Len(text) + 1 /\ (text \o <<x>>)[Len(text) + 1] = x
         /\ x \in Structural => Ready(text \o <<x>>)
<1>1. <<x>> \in Seq(Chars) /\ Len(<<x>>) = 1 /\ <<x>>[1] = x /\ <<x>> # <<>>
  BY SeqOf
<1> DEFINE c == <<x>>
           u == text \o c
<1>2. c \in Seq(Chars) /\ Len(c) = 1 /\ c[1] = x
  BY <1>1
<1> HIDE DEF c
<1>3. /\ u \in Seq(Chars) /\ Len(text) \in Nat /\ Len(u) = Len(text) + 1
      /\ u[Len(text) + 1] = c[1]
  <2>1. /\ u \in Seq(Chars) /\ Len(text) \in Nat /\ Len(u) = Len(text) + Len(c)
        /\ \A k \in 1 .. Len(c) : u[Len(text) + k] = c[k]
    <3>1. text \in Seq(Chars) /\ c \in Seq(Chars)
      BY <1>2
    <3> QED
      BY ONLY <3>1, Concat
  <2>2. 1 \in 1 .. Len(c)
    BY <1>2
  <2> QED
    BY <1>2, <2>1, <2>2
<1> HIDE DEF u
<1>4. x \in Structural => Ready(u)
  BY <1>2, <1>3 DEF Ready
<1> QED
  BY <1>1, <1>2, <1>3, <1>4 DEF u, c

LEMMA SeparatorAdded ==
  ASSUME NEW text \in Seq(Chars), NEW items, NEW O, NEW sized \in BOOLEAN, NEW under,
         Reached(text, items, O, sized, under), items = <<>> \/ 1 \in O,
         NEW colon
  PROVE  LET c == IF colon THEN <<":">> ELSE <<",">>
         IN  /\ Ready(text \o c)
             /\ Reached(text \o c, items, O, sized,
                        IF colon THEN Len(items) ELSE Below(items, O, under))
<1>a. PICK s : Stage(text, s, items, O, sized) /\ s.super = under
  BY DEF Reached
<1> DEFINE x == IF colon THEN ":" ELSE ","
           c == <<x>>
           u == text \o c
           super == IF x = ":" THEN Len(s.tokens) ELSE AfterComma(s.tokens, s.super)
           t == [pos |-> s.pos + 1, tokens |-> s.tokens, super |-> super]
<1>1. /\ Good(s) /\ s.tokens \in Seq(TokenRec) /\ Len(s.tokens) = Len(items)
      /\ s.pos = Len(text) + 1 /\ Len(text) \in Nat /\ InProgress(s) /\ s.super \in 0 .. Len(items)
  BY <1>a, StageIs
<1>0. c = IF colon THEN <<":">> ELSE <<",">>
  OBVIOUS
<1>2. x \in Chars /\ x \in Structural /\ x \in Delimiters /\ (x = ":" <=> colon) /\ (~colon => x = ",")
  BY CharsAre DEF Delimiters, Structural
<1> HIDE DEF x
<1>3. /\ c \in Seq(Chars) /\ c[1] = x /\ u \in Seq(Chars)
      /\ Len(u) = Len(text) + 1 /\ u[Len(text) + 1] = x /\ Ready(u)
  BY <1>2, OneMore
<1>4. t.pos = Len(u) + 1 /\ t.tokens = s.tokens /\ t.super = super
  BY <1>1, <1>3
<1>5. Joins(text, c)
  BY <1>2, <1>3 DEF Joins
<1>6. Lexeme(u, s, t)
  <2> HIDE DEF u
  <2>0. s.pos <= Len(u) /\ u[s.pos] = x
    <3>1. s.pos = Len(text) + 1 /\ Len(u) = Len(text) + 1 /\ Len(text) \in Nat /\ u[Len(text) + 1] = x
      BY <1>1, <1>3
    <3> QED
      BY ONLY <3>1
  <2>1. CASE x = ":"
    <3>1. IsAt(u, s, {":"})
      BY <2>0, <2>1, Zenon DEF IsAt
    <3> QED
      BY <2>1, <3>1 DEF Lexeme, ColonNext
  <2>2. CASE x # ":"
    <3>0. x = ","
      BY <1>2, <2>2
    <3>1. IsAt(u, s, {","})
      BY <2>0, <3>0, Zenon DEF IsAt
    <3> QED
      BY <2>2, <3>1 DEF Lexeme, CommaNext
  <2> QED
    BY <2>1, <2>2
<1> HIDE DEF c, t
<1>7. AfterText(u, t)
  <2>1. AfterText(text, s)
    BY <1>a DEF Stage
  <2> QED
    BY <1>1, <1>3, <1>4, <1>5, <1>6, <2>1, WrittenOn
<1>8. Match(u, t.tokens, items, sized)
  BY <1>a, <1>1, <1>3, <1>4, MatchStays DEF Stage
<1>9. OpenOf(t.tokens) = O
  BY <1>a, <1>4 DEF Stage
<1>10. Stage(u, t, items, O, sized)
  BY <1>7, <1>8, <1>9 DEF Stage
<1>11. AfterComma(s.tokens, under) = Below(items, O, under)
  <2>1. under # 0 => s.tokens[under].type = items[under].type
    BY <1>a, <1>1 DEF Stage, Match, IsItem
  <2>2. OpenOf(s.tokens) = O
    BY <1>a DEF Stage
  <2> QED
    BY <2>1, <2>2, Zenon DEF AfterComma, Below
<1>12. t.super = IF colon THEN Len(items) ELSE Below(items, O, under)
  BY <1>a, <1>1, <1>2, <1>4, <1>11
<1>13. Reached(u, items, O, sized, IF colon THEN Len(items) ELSE Below(items, O, under))
  BY <1>10, <1>12, Zenon DEF Reached
<1> QED
  BY <1>0, <1>3, <1>13

LEMMA TokenAdded ==
  ASSUME NEW text \in Seq(Chars), NEW s, NEW items, NEW O, NEW sized \in BOOLEAN,
         Stage(text, s, items, O, sized), InProgress(s),
         NEW chars \in Seq(Chars), Joins(text, chars),
         NEW tok \in TokenRec, NEW item \in ItemRec, IsItem(text \o chars, tok, item),
         tok.size = 0, item.size = 0,
         NEW parent \in 0 .. Len(items), sized => s.super = parent,
         NEW t, Lexeme(text \o chars, s, t), t.pos = Len(text \o chars) + 1,
         t.tokens = CountedOf(Append(s.tokens, tok), s.super)
  PROVE  Stage(text \o chars, t, Add(items, parent, item),
               IF tok.end = Unset THEN O \union {Len(items) + 1} ELSE O, sized)
<1> DEFINE u == text \o chars
           n == Len(items)
           toks == s.tokens
           P == IF tok.end = Unset THEN O \union {n + 1} ELSE O
<1>1. /\ toks \in Seq(TokenRec) /\ Len(toks) = n /\ n \in Nat /\ s.super \in 0 .. n
      /\ O = OpenOf(toks) /\ Match(text, toks, items, sized) /\ AfterText(text, s)
  BY StageIs DEF Stage
<1>2. AfterText(u, t)
  BY <1>1, WrittenOn
<1>3. Match(u, t.tokens, Add(items, parent, item), sized)
  <2>1. s.super \in 0 .. Len(toks)
    BY <1>1
  <2> HIDE DEF n, toks
  <2>2. Match(text \o chars, CountedOf(Append(toks, tok), s.super), Add(items, parent, item), sized)
    BY <1>1, <2>1, MatchAdded DEF n
  <2> QED
    BY <2>2, Zenon DEF toks, u
<1>4. OpenOf(t.tokens) = P
  <2> DEFINE r == t.tokens
  <2> HIDE DEF u, n, toks, r, P
  <2>1. /\ r \in Seq(TokenRec) /\ Len(r) = n + 1 /\ r[n + 1] = tok
        /\ \A k \in 1 .. n : r[k].end = toks[k].end
    <3>1. toks \in Seq(TokenRec) /\ tok \in TokenRec /\ s.super \in 0 .. Len(toks)
      BY <1>1
    <3> DEFINE a == CountedOf(Append(toks, tok), s.super)
               c == s.super
    <3>2. MoreTokens(a, toks, tok, c)
      BY <3>1, TokensMore, Zenon
    <3>3. r = a
      BY Zenon DEF r, toks
    <3> HIDE DEF a, c
    <3>4. /\ a \in Seq(TokenRec) /\ Len(a) = Len(toks) + 1 /\ a[Len(toks) + 1] = tok
          /\ \A k \in 1 .. Len(toks) : a[k].end = toks[k].end
      BY <3>2, Zenon DEF MoreTokens
    <3>5. Len(toks) = n
      BY <1>1
    <3> QED
      BY <3>3, <3>4, <3>5, Zenon
  <2>2. /\ OpenOf(r) = {k \in 1 .. n + 1 : r[k].end = Unset}
        /\ O = {k \in 1 .. n : toks[k].end = Unset}
    BY <1>1, <2>1, OpenOfIs
  <2>3. \A k \in 1 .. n + 1 : k \in OpenOf(r) <=> k \in P
    <3>1. ASSUME NEW k \in 1 .. n PROVE k \in OpenOf(r) <=> k \in P
      <4>1. k \in OpenOf(r) <=> k \in O
        BY <1>1, <2>1, <2>2
      <4>2. k # n + 1
        BY <1>1
      <4> QED
        BY <4>1, <4>2 DEF P
    <3>2. n + 1 \in OpenOf(r) <=> n + 1 \in P
      <4>1. n + 1 \notin O /\ n + 1 \in 1 .. n + 1
        BY <1>1, <2>2
      <4> QED
        BY <2>1, <2>2, <4>1 DEF P
    <3>3. \A k \in 1 .. n + 1 : k \in 1 .. n \/ k = n + 1
      BY <1>1
    <3> QED
      BY <3>1, <3>2, <3>3
  <2>4. P \subseteq 1 .. n + 1 /\ OpenOf(r) \subseteq 1 .. n + 1
    <3>1. 1 .. n \subseteq 1 .. n + 1 /\ n + 1 \in 1 .. n + 1
      BY <1>1
    <3>2. O \subseteq 1 .. n
      BY <2>2
    <3> QED
      BY <2>2, <3>1, <3>2 DEF P
  <2>5. OpenOf(r) = P
    BY <2>3, <2>4
  <2> QED
    BY <2>5 DEF r
<1> HIDE DEF P
<1>5. Stage(u, t, Add(items, parent, item), P, sized)
  BY <1>2, <1>3, <1>4 DEF Stage
<1> QED
  BY <1>5 DEF u, P, n

LEMMA OpenAdded ==
  ASSUME NEW text \in Seq(Chars), NEW items, NEW O, NEW sized \in BOOLEAN, NEW under,
         Reached(text, items, O, sized, under), items = <<>> \/ 1 \in O, Ready(text),
         NEW object \in BOOLEAN,
         NEW parent \in 0 .. Len(items), sized => under = parent
  PROVE  LET c == IF object THEN <<"{">> ELSE <<"[">>
             type == IF object THEN "object" ELSE "array"
         IN  /\ Ready(text \o c)
             /\ Reached(text \o c, Add(items, parent, Item(type, <<>>)),
                        O \union {Len(items) + 1}, sized, Len(items) + 1)
<1>a. PICK s : Stage(text, s, items, O, sized) /\ s.super = under
  BY DEF Reached
<1> DEFINE x == IF object THEN "{" ELSE "["
           type == IF object THEN "object" ELSE "array"
           c == <<x>>
           u == text \o c
           tok == JsonToken(type, s.pos, Unset)
           item == Item(type, <<>>)
           r == CountedOf(Append(s.tokens, tok), s.super)
           t == [pos |-> s.pos + 1, tokens |-> r, super |-> Len(s.tokens) + 1]
<1>1. /\ Good(s) /\ s.tokens \in Seq(TokenRec) /\ Len(s.tokens) = Len(items)
      /\ s.pos = Len(text) + 1 /\ Len(text) \in Nat /\ s.super \in 0 .. Len(items)
      /\ InProgress(s) /\ \A chars : Joins(text, chars)
  BY <1>a, StageIs
<1>b. (c = IF object THEN <<"{">> ELSE <<"[">>) /\ (sized => s.super = parent)
  BY <1>a
<1>2. /\ x \in Structural /\ x \in Chars /\ (type = "object" \/ type = "array")
      /\ (x = "{" \/ x = "[") /\ (type = IF x = "{" THEN "object" ELSE "array")
  BY CharsAre DEF Structural
<1> HIDE DEF x, type
<1>3. /\ c \in Seq(Chars) /\ u \in Seq(Chars)
      /\ Len(u) = Len(text) + 1 /\ u[Len(text) + 1] = x /\ Ready(u)
  BY <1>2, OneMore
<1>4. tok \in TokenRec /\ tok.size = 0 /\ tok.type = type /\ tok.end = Unset
  <2>1. s.pos = Len(text) + 1 /\ Len(text) \in Nat
    BY <1>1
  <2>2. s.pos \in Nat \ {0}
    BY ONLY <2>1
  <2> QED
    BY <1>2, <2>2 DEF JsonToken, TokenRec, Unset
<1>5. item \in ItemRec /\ item.size = 0 /\ item.type = type /\ item.bytes = <<>>
  BY <1>2, SeqOf DEF Item, ItemRec
<1>6. IsItem(u, tok, item)
  <2> HIDE DEF tok, item
  <2> QED
    BY <1>2, <1>4, <1>5 DEF IsItem, Containers
<1>7. t.pos = s.pos + 1 /\ t.tokens = r /\ t.super = Len(s.tokens) + 1
  OBVIOUS
<1>8. Lexeme(u, s, t)
  <2>1. s.pos <= Len(u) /\ u[s.pos] = x
    <3> HIDE DEF u
    <3>1. s.pos = Len(text) + 1 /\ Len(u) = Len(text) + 1 /\ Len(text) \in Nat /\ u[Len(text) + 1] = x
      BY <1>1, <1>3
    <3> QED
      BY ONLY <3>1
  <2> HIDE DEF u
  <2>2. /\ IsAt(u, s, {"{", "["})
        /\ type = IF u[s.pos] = "{" THEN "object" ELSE "array"
    BY <1>2, <2>1 DEF IsAt
  <2>3. r = Append(CountedOf(s.tokens, s.super), tok)
    <3>1. s.tokens \in Seq(TokenRec) /\ tok \in TokenRec /\ s.super \in 0 .. Len(s.tokens)
      BY <1>1, <1>4
    <3> DEFINE toks == s.tokens
               super == s.super
    <3> HIDE DEF tok, t, r, toks, super
    <3>2. toks \in Seq(TokenRec) /\ tok \in TokenRec /\ super \in 0 .. Len(toks)
      BY <3>1 DEF toks, super
    <3> DEFINE a == CountedOf(Append(toks, tok), super)
    <3>3. MoreTokens(a, toks, tok, super)
      BY ONLY <3>2, TokensMore
    <3> HIDE DEF a
    <3>4. a = Append(CountedOf(toks, super), tok)
      BY <3>3, Zenon DEF MoreTokens
    <3> QED
      BY <3>4, Zenon DEF a, r, toks, super
  <2>4. Opens(u, s, t)
    <3>1. t = [pos |-> s.pos + 1,
               tokens |-> Append(CountedOf(s.tokens, s.super),
                                 JsonToken(IF u[s.pos] = "{" THEN "object" ELSE "array", s.pos, Unset)),
               super |-> Len(s.tokens) + 1]
      <4>1. Append(CountedOf(s.tokens, s.super), tok)
              = Append(CountedOf(s.tokens, s.super),
                       JsonToken(IF u[s.pos] = "{" THEN "object" ELSE "array", s.pos, Unset))
        BY <2>2, Zenon
      <4> HIDE DEF tok, r
      <4> QED
        BY <2>3, <4>1, Zenon
    <3> HIDE DEF t
    <3> QED
      BY <2>2, <3>1, Zenon DEF Opens
  <2> QED
    BY <2>4 DEF Lexeme
<1> HIDE DEF c, tok, item, t
<1>9. t.pos = Len(u) + 1
  BY <1>1, <1>3, <1>7
<1>10. Stage(u, t, Add(items, parent, item),
             IF tok.end = Unset THEN O \union {Len(items) + 1} ELSE O, sized)
  <2>1. t.tokens = CountedOf(Append(s.tokens, tok), s.super)
    BY <1>7
  <2> QED
    <3>1. /\ text \in Seq(Chars) /\ sized \in BOOLEAN
          /\ Stage(text, s, items, O, sized) /\ InProgress(s)
          /\ c \in Seq(Chars) /\ Joins(text, c)
          /\ tok \in TokenRec /\ item \in ItemRec /\ IsItem(text \o c, tok, item)
          /\ tok.size = 0 /\ item.size = 0
          /\ parent \in 0 .. Len(items) /\ (sized => s.super = parent)
          /\ Lexeme(text \o c, s, t) /\ t.pos = Len(text \o c) + 1
          /\ t.tokens = CountedOf(Append(s.tokens, tok), s.super)
      BY <1>a, <1>b, <1>1, <1>3, <1>4, <1>5, <1>6, <1>8, <1>9, <2>1
    <3> QED
      BY ONLY <3>1, TokenAdded
<1>11. Stage(u, t, Add(items, parent, item), O \union {Len(items) + 1}, sized)
  BY <1>4, <1>10, Zenon
<1>12. t.super = Len(items) + 1
  BY <1>1, <1>7
<1>13. Reached(u, Add(items, parent, item), O \union {Len(items) + 1}, sized, Len(items) + 1)
  BY <1>11, <1>12, Zenon DEF Reached
<1> QED
  BY <1>b, <1>3, <1>13, Zenon DEF u, item, type

LEMMA Shown ==
  ASSUME NEW text \in Seq(Chars), NEW piece \in Seq(Chars)
  PROVE  LET u == text \o piece
         IN  /\ u \in Seq(Chars) /\ Len(u) = Len(text) + Len(piece) /\ Len(piece) \in Nat
             /\ Len(text) \in Nat
             /\ Shows(u, Len(text) + 1, piece)
             /\ \A k \in 1 .. Len(piece) : u[Len(text) + k] = piece[k]
<1> DEFINE u == text \o piece
<1>1. /\ u \in Seq(Chars) /\ Len(u) = Len(text) + Len(piece) /\ Len(text) \in Nat /\ Len(piece) \in Nat
      /\ \A k \in 1 .. Len(piece) : u[Len(text) + k] = piece[k]
  <2>1. text \in Seq(Chars) /\ piece \in Seq(Chars)
    OBVIOUS
  <2> QED
    BY ONLY <2>1, Concat
<1> HIDE DEF u
<1>2. (Len(text) + 1) + Len(piece) <= Len(u) + 1
  BY <1>1
<1>3. ASSUME NEW k \in 1 .. Len(piece) PROVE u[(Len(text) + 1) + k - 1] = piece[k]
  <2>1. (Len(text) + 1) + k - 1 = Len(text) + k
    BY <1>1
  <2> QED
    BY <1>1, <2>1
<1>4. Shows(u, Len(text) + 1, piece)
  BY <1>2, <1>3 DEF Shows
<1> QED
  BY <1>1, <1>4 DEF u

LEMMA StringAdded ==
  ASSUME NEW text \in Seq(Chars), NEW items, NEW O, NEW sized \in BOOLEAN, NEW under,
         Reached(text, items, O, sized, under), items = <<>> \/ 1 \in O, Ready(text),
         NEW bytes \in Seq(Chars),
         NEW parent \in 0 .. Len(items), sized => under = parent
  PROVE  Reached(text \o Enquoted(bytes), Add(items, parent, Item("string", bytes)), O, sized, under)
<1>a. PICK s : Stage(text, s, items, O, sized) /\ s.super = under
  BY DEF Reached
<1> DEFINE E == Enquoted(bytes)
           m == Len(E)
           Q == QuotedBytes(bytes)
           n == Len(Q)
           u == text \o E
           L == Len(text)
           p == s.pos
           e == p + m - 1
           tok == JsonToken("string", p + 1, e)
           item == Item("string", bytes)
           r == CountedOf(Append(s.tokens, tok), s.super)
           t == [pos |-> e + 1, tokens |-> r, super |-> s.super]
<1>1. /\ Good(s) /\ s.tokens \in Seq(TokenRec) /\ Len(s.tokens) = Len(items)
      /\ p = L + 1 /\ L \in Nat /\ s.super \in 0 .. Len(items)
      /\ InProgress(s) /\ \A chars : Joins(text, chars)
  BY <1>a, StageIs
<1>b. sized => s.super = parent
  BY <1>a
<1>2. /\ n \in Nat /\ E \in Seq(Chars) /\ m = n + 2
      /\ \A k \in 1 .. n : E[k + 1] = Q[k]
  BY EnquotedIs
<1>3. Q \in Seq(Chars)
  BY StringQuoted
<1> HIDE DEF E
<1>4. /\ u \in Seq(Chars) /\ Len(u) = L + m /\ Shows(u, L + 1, E)
      /\ \A k \in 1 .. m : u[L + k] = E[k]
  BY <1>2, Shown
<1> HIDE DEF m, Q, n, u, L, p
<1>5. /\ p \in Nat \ {0} /\ e = L + n + 2 /\ e \in Nat /\ e # 0 /\ p + 1 <= e /\ e <= Len(u) + 1
      /\ p + 1 \in Nat \ {0} /\ e + 1 = Len(u) + 1 /\ e - 1 = (p + 1) + n - 1
      /\ (p + 1) + n <= Len(u) + 1
  <2>1. p = L + 1 /\ L \in Nat /\ n \in Nat /\ m = n + 2 /\ Len(u) = L + m
    BY <1>1, <1>2, <1>4
  <2> QED
    BY ONLY <2>1
<1>6. SubSeq(u, p + 1, e - 1) = Q
  <2>1. ASSUME NEW k \in 1 .. n PROVE u[(p + 1) + k - 1] = Q[k]
    <3>1. (p + 1) + k - 1 = L + (k + 1) /\ k + 1 \in 1 .. m
      BY <1>1, <1>2
    <3> QED
      BY <1>2, <1>4, <3>1
  <2> DEFINE a == p + 1
  <2> HIDE DEF a
  <2>2. /\ u \in Seq(Chars) /\ Q \in Seq(Chars) /\ a \in Nat \ {0}
        /\ a + Len(Q) <= Len(u) + 1 /\ \A k \in 1 .. Len(Q) : u[a + k - 1] = Q[k]
    BY <1>3, <1>4, <1>5, <2>1 DEF a, n
  <2>3. SubSeq(u, a, a + Len(Q) - 1) = Q
    BY ONLY <2>2, PieceIs
  <2> QED
    BY <1>5, <2>3 DEF a, n
<1> HIDE DEF e
<1>7. /\ tok \in TokenRec /\ tok.size = 0 /\ tok.type = "string" /\ tok.start = p + 1
      /\ tok.end = e /\ tok.end # Unset
  BY <1>5 DEF JsonToken, TokenRec, Unset
<1>8. item \in ItemRec /\ item.size = 0 /\ item.type = "string" /\ item.bytes = bytes
  BY DEF Item, ItemRec
<1>9. IsItem(u, tok, item)
  <2>1. tok.type \notin Containers /\ Said(item) = Q
    BY <1>7, <1>8 DEF Containers, Said, Q
  <2> HIDE DEF tok, item
  <2> QED
    BY <1>5, <1>6, <1>7, <1>8, <2>1 DEF IsItem
<1>10. t.pos = e + 1 /\ t.tokens = r /\ t.super = s.super
  OBVIOUS
<1>11. Lexeme(u, s, t)
  <2>1. Shows(u, p, E)
    BY <1>1, <1>4
  <2>2. StringNext(u, s, t)
    <3> HIDE DEF tok
    <3>1. /\ Shows(u, s.pos, Enquoted(bytes))
          /\ t = [pos |-> (s.pos + Len(Enquoted(bytes)) - 1) + 1,
                  tokens |-> CountedOf(Append(s.tokens, JsonToken("string", s.pos + 1,
                                                 s.pos + Len(Enquoted(bytes)) - 1)), s.super),
                  super |-> s.super]
      BY <2>1, Zenon DEF p, E, e, m, tok
    <3> HIDE DEF t
    <3> QED
      BY <3>1, Zenon DEF StringNext
  <2> QED
    BY <2>2 DEF Lexeme
<1> HIDE DEF tok, item, t
<1>12. t.pos = Len(u) + 1
  BY <1>5, <1>10
<1>13. Stage(u, t, Add(items, parent, item),
             IF tok.end = Unset THEN O \union {Len(items) + 1} ELSE O, sized)
  <2>1. t.tokens = CountedOf(Append(s.tokens, tok), s.super)
    BY <1>10
  <2> QED
    <3>1. /\ text \in Seq(Chars) /\ sized \in BOOLEAN
          /\ Stage(text, s, items, O, sized) /\ InProgress(s)
          /\ E \in Seq(Chars) /\ Joins(text, E)
          /\ tok \in TokenRec /\ item \in ItemRec /\ IsItem(text \o E, tok, item)
          /\ tok.size = 0 /\ item.size = 0
          /\ parent \in 0 .. Len(items) /\ (sized => s.super = parent)
          /\ Lexeme(text \o E, s, t) /\ t.pos = Len(text \o E) + 1
          /\ t.tokens = CountedOf(Append(s.tokens, tok), s.super)
      BY <1>a, <1>b, <1>1, <1>2, <1>7, <1>8, <1>9, <1>11, <1>12, <2>1 DEF u
    <3>2. Stage(text \o E, t, Add(items, parent, item),
                IF tok.end = Unset THEN O \union {Len(items) + 1} ELSE O, sized)
      BY ONLY <3>1, TokenAdded
    <3> QED
      BY <3>2 DEF u
<1>14. Stage(u, t, Add(items, parent, item), O, sized)
  BY <1>7, <1>13, Zenon
<1>15. Reached(u, Add(items, parent, item), O, sized, under)
  <2>1. t.super = under
    BY <1>a, <1>10
  <2> QED
    BY <1>14, <2>1, Zenon DEF Reached
<1> QED
  BY <1>15 DEF u, E, item

LEMMA PrimitiveAdded ==
  ASSUME NEW text \in Seq(Chars), NEW items, NEW O, NEW sized \in BOOLEAN, NEW under,
         Reached(text, items, O, sized, under), items = <<>> \/ 1 \in O, Ready(text),
         NEW x \in Primitives,
         NEW parent \in 0 .. Len(items), sized => under = parent
  PROVE  Reached(text \o x, Add(items, parent, Item("primitive", x)), O, sized, under)
<1>a. PICK s : Stage(text, s, items, O, sized) /\ s.super = under
  BY DEF Reached
<1> DEFINE m == Len(x)
           u == text \o x
           L == Len(text)
           p == s.pos
           e == p + m
           tok == JsonToken("primitive", p, e)
           item == Item("primitive", x)
           r == CountedOf(Append(s.tokens, tok), s.super)
           t == [pos |-> e, tokens |-> r, super |-> s.super]
<1>1. /\ Good(s) /\ s.tokens \in Seq(TokenRec) /\ Len(s.tokens) = Len(items)
      /\ p = L + 1 /\ L \in Nat /\ s.super \in 0 .. Len(items)
      /\ InProgress(s) /\ \A chars : Joins(text, chars)
  BY <1>a, StageIs
<1>b. sized => s.super = parent
  BY <1>a
<1>2. x \in Seq(Chars) /\ m \in Nat \ {0}
  BY PrimitivesAre
<1>4. /\ u \in Seq(Chars) /\ Len(u) = L + m /\ Shows(u, L + 1, x)
      /\ \A k \in 1 .. m : u[L + k] = x[k]
  BY <1>2, Shown
<1> HIDE DEF m, u, L, p
<1>5. /\ p \in Nat \ {0} /\ e = Len(u) + 1 /\ e \in Nat /\ e # 0 /\ p <= e
      /\ e - 1 = p + m - 1
  <2>1. p = L + 1 /\ L \in Nat /\ m \in Nat \ {0} /\ Len(u) = L + m
    BY <1>1, <1>2, <1>4
  <2> QED
    BY ONLY <2>1
<1>6. SubSeq(u, p, e - 1) = x
  <2>1. ASSUME NEW k \in 1 .. m PROVE u[p + k - 1] = x[k]
    <3>1. p + k - 1 = L + k
      BY <1>1, <1>2
    <3> QED
      BY <1>4, <3>1
  <2>2. /\ u \in Seq(Chars) /\ x \in Seq(Chars) /\ p \in Nat \ {0}
        /\ p + Len(x) <= Len(u) + 1 /\ \A k \in 1 .. Len(x) : u[p + k - 1] = x[k]
    <3>1. p + m <= Len(u) + 1
      BY <1>1, <1>2, <1>4
    <3> QED
      BY <1>2, <1>4, <1>5, <2>1, <3>1 DEF m
  <2>3. SubSeq(u, p, p + Len(x) - 1) = x
    BY ONLY <2>2, PieceIs
  <2> QED
    BY <1>5, <2>3 DEF m
<1>7. /\ tok \in TokenRec /\ tok.size = 0 /\ tok.type = "primitive" /\ tok.start = p
      /\ tok.end = e /\ tok.end # Unset
  <2> HIDE DEF e
  <2> QED
    BY <1>5 DEF JsonToken, TokenRec, Unset
<1>8. item \in ItemRec /\ item.size = 0 /\ item.type = "primitive" /\ item.bytes = x
  BY <1>2 DEF Item, ItemRec
<1>9. IsItem(u, tok, item)
  <2>1. tok.type \notin Containers /\ Said(item) = x
    BY <1>7, <1>8 DEF Containers, Said
  <2>2. e <= Len(u) + 1
    BY <1>4, <1>5
  <2> HIDE DEF tok, item, e
  <2> QED
    BY <1>5, <1>6, <1>7, <1>8, <2>1, <2>2 DEF IsItem
<1>10. t.pos = e /\ t.tokens = r /\ t.super = s.super
  OBVIOUS
<1>11. Lexeme(u, s, t)
  <2>1. Shows(u, p, x)
    BY <1>1, <1>4
  <2>2. PrimitiveNext(u, s, t)
    <3> HIDE DEF tok
    <3>1. /\ Shows(u, s.pos, x)
          /\ s.pos + Len(x) = Len(u) + 1
          /\ t = [pos |-> s.pos + Len(x),
                  tokens |-> CountedOf(Append(s.tokens, JsonToken("primitive", s.pos,
                                                 s.pos + Len(x))), s.super),
                  super |-> s.super]
      BY <1>5, <2>1, Zenon DEF p, e, m, tok
    <3> HIDE DEF t
    <3> QED
      BY <3>1, Zenon DEF PrimitiveNext
  <2> QED
    BY <2>2 DEF Lexeme
<1> HIDE DEF tok, item, t
<1>12. t.pos = Len(u) + 1
  BY <1>5, <1>10
<1>13. Stage(u, t, Add(items, parent, item),
             IF tok.end = Unset THEN O \union {Len(items) + 1} ELSE O, sized)
  <2>1. t.tokens = CountedOf(Append(s.tokens, tok), s.super)
    BY <1>10
  <2> QED
    <3>1. /\ text \in Seq(Chars) /\ sized \in BOOLEAN
          /\ Stage(text, s, items, O, sized) /\ InProgress(s)
          /\ x \in Seq(Chars) /\ Joins(text, x)
          /\ tok \in TokenRec /\ item \in ItemRec /\ IsItem(text \o x, tok, item)
          /\ tok.size = 0 /\ item.size = 0
          /\ parent \in 0 .. Len(items) /\ (sized => s.super = parent)
          /\ Lexeme(text \o x, s, t) /\ t.pos = Len(text \o x) + 1
          /\ t.tokens = CountedOf(Append(s.tokens, tok), s.super)
      BY <1>a, <1>b, <1>1, <1>2, <1>7, <1>8, <1>9, <1>11, <1>12, <2>1 DEF u
    <3>2. Stage(text \o x, t, Add(items, parent, item),
                IF tok.end = Unset THEN O \union {Len(items) + 1} ELSE O, sized)
      BY ONLY <3>1, TokenAdded
    <3> QED
      BY <3>2 DEF u
<1>14. Stage(u, t, Add(items, parent, item), O, sized)
  BY <1>7, <1>13, Zenon
<1>15. Reached(u, Add(items, parent, item), O, sized, under)
  <2>1. t.super = under
    BY <1>a, <1>10
  <2> QED
    BY <1>14, <2>1, Zenon DEF Reached
<1> QED
  BY <1>15 DEF u, item

LEMMA CloseAdded ==
  ASSUME NEW text \in Seq(Chars), NEW items, NEW O, NEW sized \in BOOLEAN, NEW under,
         Reached(text, items, O, sized, under), 1 \in O,
         NEW object \in BOOLEAN,
         items[Innermost(O)].type = IF object THEN "object" ELSE "array"
  PROVE  LET c == IF object THEN <<"}">> ELSE <<"]">>
         IN  /\ Ready(text \o c)
             /\ Reached(text \o c, items, O \ {Innermost(O)}, sized, Innermost(O \ {Innermost(O)}))
<1>a. PICK s : Stage(text, s, items, O, sized) /\ s.super = under
  BY DEF Reached
<1> DEFINE x == IF object THEN "}" ELSE "]"
           c == <<x>>
           u == text \o c
           toks == s.tokens
           n == Len(items)
           k0 == Innermost(O)
           e == s.pos + 1
           r == [toks EXCEPT ![k0].end = e]
           t == [pos |-> s.pos + 1, tokens |-> r, super |-> Innermost(O \ {k0})]
<1>1. /\ Good(s) /\ toks \in Seq(TokenRec) /\ Len(toks) = n /\ n \in Nat
      /\ s.pos = Len(text) + 1 /\ Len(text) \in Nat /\ O = OpenOf(toks)
      /\ Match(text, toks, items, sized) /\ InProgress(s)
  BY <1>a, StageIs DEF Stage
<1>b. c = IF object THEN <<"}">> ELSE <<"]">>
  OBVIOUS
<1>2. /\ x \in Structural /\ x \in Delimiters /\ x \in Chars /\ (x = "}" \/ x = "]")
      /\ items[k0].type = IF x = "}" THEN "object" ELSE "array"
  BY CharsAre DEF Structural, Delimiters
<1> HIDE DEF x
<1>3. /\ c \in Seq(Chars) /\ c[1] = x /\ u \in Seq(Chars)
      /\ Len(u) = Len(text) + 1 /\ u[Len(text) + 1] = x /\ Ready(u)
  BY <1>2, OneMore
<1> HIDE DEF c, toks, n, k0
<1>4. Joins(text, c)
  BY <1>2, <1>3 DEF Joins
<1>5. k0 \in O /\ k0 \in 1 .. n /\ O = {k \in 1 .. n : toks[k].end = Unset}
  BY <1>1, OpenOfIs DEF k0
<1>6. e \in Nat /\ e # Unset
  <2>1. s.pos = Len(text) + 1 /\ Len(text) \in Nat
    BY <1>1
  <2> QED
    BY ONLY <2>1 DEF Unset
<1> HIDE DEF e
<1>7. /\ r \in Seq(TokenRec) /\ Len(r) = n
      /\ \A k \in 1 .. n :
           /\ r[k].type = toks[k].type /\ r[k].start = toks[k].start /\ r[k].size = toks[k].size
           /\ r[k].end = IF k = k0 THEN e ELSE toks[k].end
  <2>1. toks \in Seq(TokenRec) /\ k0 \in 1 .. Len(toks) /\ e \in Nat
    BY <1>1, <1>5, <1>6
  <2>2. /\ r \in Seq(TokenRec) /\ Len(r) = Len(toks)
        /\ \A k \in 1 .. Len(toks) :
             /\ r[k].type = toks[k].type /\ r[k].start = toks[k].start /\ r[k].size = toks[k].size
             /\ r[k].end = IF k = k0 THEN e ELSE toks[k].end
    BY ONLY <2>1, ClosedTokens
  <2> HIDE DEF r
  <2> QED
    BY <1>1, <2>2
<1>8. t.pos = s.pos + 1 /\ t.tokens = r /\ t.super = Innermost(O \ {k0})
  OBVIOUS
<1>9. toks[k0].type = IF x = "}" THEN "object" ELSE "array"
  <2>1. toks[k0].type = items[k0].type
    BY <1>1, <1>5 DEF Match, IsItem, n
  <2> QED
    BY <1>2, <2>1, Zenon
<1>10. Lexeme(u, s, t)
  <2>1. s.pos <= Len(u) /\ u[s.pos] = x
    <3> HIDE DEF u
    <3>1. s.pos = Len(text) + 1 /\ Len(u) = Len(text) + 1 /\ Len(text) \in Nat /\ u[Len(text) + 1] = x
      BY <1>1, <1>3
    <3> QED
      BY ONLY <3>1
  <2> HIDE DEF u
  <2>2. IsAt(u, s, {"}", "]"})
    BY <1>2, <2>1 DEF IsAt
  <2>3. t = [pos |-> s.pos + 1, tokens |-> [s.tokens EXCEPT ![k0].end = s.pos + 1],
             super |-> Innermost(O \ {k0})]
    BY Zenon DEF toks, e
  <2> HIDE DEF t
  <2>4. s.tokens[k0].type = IF u[s.pos] = "}" THEN "object" ELSE "array"
    BY <1>9, <2>1, Zenon DEF toks
  <2>5. OpenOf(s.tokens) = O
    BY <1>1, Zenon DEF toks
  <2>6. Closes(u, s, t)
    BY <2>2, <2>3, <2>4, <2>5, Zenon DEF Closes, k0
  <2> QED
    BY <2>6 DEF Lexeme
<1> HIDE DEF t
<1>11. t.pos = Len(u) + 1
  BY <1>1, <1>3, <1>8
<1>12. AfterText(u, t)
  <2>1. AfterText(text, s)
    BY <1>a DEF Stage
  <2> QED
    BY <1>1, <1>3, <1>4, <1>10, <1>11, <2>1, WrittenOn
<1>13. Match(u, t.tokens, items, sized)
  <2>1. Match(u, toks, items, sized)
    BY <1>1, <1>3, MatchStays
  <2> HIDE DEF u, r
  <2>2. ASSUME NEW k \in 1 .. Len(items) PROVE IsItem(u, r[k], items[k])
    <3>1. k \in 1 .. n
      BY DEF n
    <3>2. IsItem(u, toks[k], items[k])
      BY <2>1 DEF Match
    <3>3. CASE k = k0
      <4>1. toks[k].type \in Containers
        BY <1>9, <3>3 DEF Containers
      <4>2. r[k].type = toks[k].type
        BY <1>7, <3>1
      <4> QED
        BY <3>2, <4>1, <4>2, Zenon DEF IsItem
    <3>4. CASE k # k0
      <4>1. r[k].type = toks[k].type /\ r[k].start = toks[k].start /\ r[k].end = toks[k].end
        BY <1>7, <3>1, <3>4
      <4> QED
        BY <3>2, <4>1, Zenon DEF IsItem
    <3> QED
      BY <3>3, <3>4
  <2>3. ASSUME sized, NEW k \in 1 .. Len(items) PROVE r[k].size = items[k].size
    <3>1. k \in 1 .. n
      BY DEF n
    <3>2. toks[k].size = items[k].size
      BY <2>1, <2>3 DEF Match
    <3> QED
      BY <1>7, <3>1, <3>2
  <2>4. items \in Seq(ItemRec) /\ Len(r) = Len(items)
    BY <1>1, <1>7 DEF Match, n
  <2> QED
    BY <1>8, <2>2, <2>3, <2>4 DEF Match
<1>14. OpenOf(t.tokens) = O \ {k0}
  <2> HIDE DEF r, u
  <2>1. OpenOf(r) = {k \in 1 .. n : r[k].end = Unset}
    BY <1>7, OpenOfIs
  <2>2. ASSUME NEW k \in 1 .. n PROVE r[k].end = Unset <=> k \in O \ {k0}
    <3>1. r[k].end = IF k = k0 THEN e ELSE toks[k].end
      BY <1>7
    <3> QED
      BY <1>5, <1>6, <3>1
  <2>3. O \subseteq 1 .. n
    BY <1>5
  <2> QED
    BY <1>8, <2>1, <2>2, <2>3
<1>15. Stage(u, t, items, O \ {k0}, sized)
  BY <1>12, <1>13, <1>14 DEF Stage
<1>16. Reached(u, items, O \ {k0}, sized, Innermost(O \ {k0}))
  BY <1>8, <1>15, Zenon DEF Reached
<1> QED
  BY <1>b, <1>3, <1>16, Zenon DEF u, k0
-------------------------------------------------------------------------------
(* What the client has open, outermost first; and the writer's levels.     *)

Opened(open) == {open[i] : i \in 1 .. Len(open)}
Deeper(open) == \A i, j \in 1 .. Len(open) : i < j => open[i] < open[j]

LEMMA OpenedIs ==
  ASSUME NEW open \in Seq(Nat \ {0}), Deeper(open), open # <<>>
  PROVE  LET n == Len(open)
         IN  /\ n \in Nat \ {0} /\ open[n] \in Opened(open) /\ open[n] \in Nat \ {0}
             /\ Innermost(Opened(open)) = open[n]
<1> DEFINE n == Len(open)
           O == Opened(open)
<1>1. n \in Nat \ {0} /\ \A i \in 1 .. n : open[i] \in Nat \ {0}
  <2>1. n \in Nat /\ \A i \in 1 .. n : open[i] \in Nat \ {0}
    BY LenProperties, ElementOfSeq
  <2>2. n # 0
    BY EmptySeq
  <2> QED
    BY <2>1, <2>2
<1>2. n \in 1 .. n /\ open[n] \in O
  <2>1. n \in 1 .. n
    <3> HIDE DEF n
    <3> QED
      BY <1>1
  <2> QED
    BY <2>1 DEF Opened
<1>3. ASSUME NEW k \in O PROVE k <= open[n] /\ k \in 1 .. open[n]
  <2>1. PICK i \in 1 .. n : k = open[i]
    BY DEF Opened
  <2>2. i = n \/ i < n
    <3> HIDE DEF n
    <3> QED
      BY <1>1
  <2>3. i < n => k < open[n]
    BY <1>2, <2>1 DEF Deeper
  <2> HIDE DEF n
  <2>4. k \in Nat \ {0} /\ open[n] \in Nat
    BY <1>1, <1>2, <2>1
  <2> QED
    BY <2>1, <2>2, <2>3, <2>4
<1> HIDE DEF n, O
<1>4. O \subseteq 1 .. open[n] /\ open[n] \in Nat /\ O # {}
  BY <1>1, <1>2, <1>3
<1>5. Innermost(O) \in O /\ \A k \in O : k <= Innermost(O)
  BY <1>4, InnermostIs
<1>6. Innermost(O) = open[n]
  <2>1. open[n] <= Innermost(O) /\ Innermost(O) <= open[n]
    BY <1>2, <1>3, <1>5
  <2>2. Innermost(O) \in Nat /\ open[n] \in Nat
    <3> DEFINE m == open[n]
    <3>1. Innermost(O) \in 1 .. m /\ m \in Nat
      BY <1>4, <1>5
    <3> HIDE DEF m
    <3> QED
      BY <3>1 DEF m
  <2> QED
    BY <2>1, <2>2
<1> QED
  BY <1>1, <1>2, <1>6 DEF n, O

LEMMA OpenedMore ==
  ASSUME NEW open \in Seq(Nat \ {0}), Deeper(open), NEW k \in Nat \ {0},
         \A j \in Opened(open) : j < k
  PROVE  LET r == Append(open, k)
         IN  /\ r \in Seq(Nat \ {0}) /\ Deeper(r) /\ Opened(r) = Opened(open) \union {k}
             /\ Len(r) = Len(open) + 1 /\ r[Len(open) + 1] = k /\ Len(open) \in Nat
             /\ \A i \in 1 .. Len(open) : r[i] = open[i]
<1> DEFINE n == Len(open)
           r == Append(open, k)
<1>1. /\ r \in Seq(Nat \ {0}) /\ Len(r) = n + 1 /\ n \in Nat /\ r[n + 1] = k
      /\ \A i \in 1 .. n : r[i] = open[i]
  BY AppendProperties, LenProperties
<1> HIDE DEF r
<1>2. \A i \in 1 .. n : open[i] < k
  BY DEF Opened
<1>3. Deeper(open) => \A i, j \in 1 .. n : i < j => open[i] < open[j]
  BY DEF Deeper
<1>4. \A i \in 1 .. n : open[i] \in Opened(open)
  BY DEF Opened
<1>5. \A j \in Opened(open) : \E i \in 1 .. n : j = open[i]
  BY DEF Opened
<1> HIDE DEF n
<1>6. \A i \in 1 .. n + 1 : i \in 1 .. n \/ i = n + 1
  BY <1>1
<1>7. ASSUME NEW i \in 1 .. n + 1, NEW j \in 1 .. n + 1, i < j PROVE r[i] < r[j]
  <2>1. i \in 1 .. n
    BY <1>1, <1>7
  <2>2. CASE j \in 1 .. n
    BY <1>1, <1>3, <1>7, <2>1, <2>2
  <2>3. CASE j = n + 1
    BY <1>1, <1>2, <2>1, <2>3
  <2> QED
    BY <1>6, <2>2, <2>3
<1>8. Deeper(r)
  BY <1>1, <1>7 DEF Deeper
<1>9. Opened(r) = Opened(open) \union {k}
  <2>1. ASSUME NEW j \in Opened(r) PROVE j \in Opened(open) \union {k}
    <3>1. PICK i \in 1 .. n + 1 : j = r[i]
      BY <1>1 DEF Opened
    <3> QED
      BY <1>1, <1>4, <1>6, <3>1
  <2>2. ASSUME NEW j \in Opened(open) \union {k} PROVE j \in Opened(r)
    <3>1. \E i \in 1 .. n + 1 : j = r[i]
      <4>1. CASE j = k
        <5>1. n + 1 \in 1 .. n + 1
          BY <1>1
        <5> QED
          BY <1>1, <4>1, <5>1
      <4>2. CASE j \in Opened(open)
        <5>1. PICK i \in 1 .. n : j = open[i]
          BY <1>5, <4>2
        <5>2. i \in 1 .. n + 1
          BY <1>1
        <5> QED
          BY <1>1, <5>1, <5>2
      <4> QED
        BY <4>1, <4>2
    <3> QED
      BY <1>1, <3>1 DEF Opened
  <2> QED
    BY <2>1, <2>2
<1> QED
  BY <1>1, <1>8, <1>9 DEF n, r

LEMMA OpenedLess ==
  ASSUME NEW open \in Seq(Nat \ {0}), Deeper(open), open # <<>>
  PROVE  LET n == Len(open)
             r == SubSeq(open, 1, n - 1)
         IN  /\ r \in Seq(Nat \ {0}) /\ Deeper(r) /\ Opened(r) = Opened(open) \ {open[n]}
             /\ Len(r) = n - 1
             /\ \A i \in 1 .. n - 1 : r[i] = open[i]
<1> DEFINE n == Len(open)
           r == SubSeq(open, 1, n - 1)
<1>1. n \in Nat \ {0} /\ open[n] \in Opened(open)
  BY OpenedIs
<1>2. /\ r \in Seq(Nat \ {0}) /\ Len(r) = n - 1
      /\ \A i \in 1 .. n - 1 : r[i] = open[i]
  <2>1. 1 \in 1 .. Len(open) + 1 /\ n - 1 \in 1 - 1 .. Len(open) /\ (n - 1) - 1 + 1 = n - 1
    <3>1. Len(open) = n
      OBVIOUS
    <3> HIDE DEF n
    <3> QED
      BY <1>1, <3>1
  <2>2. /\ r \in Seq(Nat \ {0})
        /\ Len(r) = (n - 1) - 1 + 1
        /\ \A i \in 1 .. (n - 1) - 1 + 1 : r[i] = open[1 + i - 1]
    BY <2>1, SubSeqProperties
  <2> HIDE DEF r, n
  <2>3. \A i \in 1 .. n - 1 : 1 + i - 1 = i
    BY <1>1
  <2> QED
    BY <2>1, <2>2, <2>3
<1> HIDE DEF r
<1>3. \A i, j \in 1 .. n : i < j => open[i] < open[j] /\ open[i] # open[j]
  <2>1. \A i \in 1 .. n : open[i] \in Nat
    BY LenProperties, ElementOfSeq
  <2>2. \A i, j \in 1 .. n : i < j => open[i] < open[j]
    BY DEF Deeper
  <2> QED
    BY <2>1, <2>2
<1>4. \A j \in Opened(open) : \E i \in 1 .. n : j = open[i]
  BY DEF Opened
<1>5. \A i \in 1 .. n : open[i] \in Opened(open)
  BY DEF Opened
<1> HIDE DEF n
<1>6. /\ 1 .. n - 1 \subseteq 1 .. n /\ n \in 1 .. n
      /\ \A i \in 1 .. n : i = n \/ (i < n /\ i \in 1 .. n - 1)
      /\ \A i \in 1 .. n - 1 : i < n
  BY <1>1
<1>7. Deeper(r)
  BY <1>2, <1>3, <1>6 DEF Deeper
<1>8. Opened(r) = Opened(open) \ {open[n]}
  <2>1. ASSUME NEW j \in Opened(r) PROVE j \in Opened(open) \ {open[n]}
    <3>1. PICK i \in 1 .. n - 1 : j = r[i]
      BY <1>2 DEF Opened
    <3>2. i \in 1 .. n /\ i < n /\ j = open[i]
      BY <1>2, <1>6, <3>1
    <3> QED
      BY <1>3, <1>5, <1>6, <3>2
  <2>2. ASSUME NEW j \in Opened(open) \ {open[n]} PROVE j \in Opened(r)
    <3>1. PICK i \in 1 .. n : j = open[i]
      BY <1>4, <2>2
    <3>2. i \in 1 .. n - 1
      BY <1>6, <2>2, <3>1
    <3>3. i \in 1 .. Len(r) /\ j = r[i]
      BY <1>2, <3>1, <3>2
    <3> QED
      BY <3>3 DEF Opened
  <2> QED
    BY <2>1, <2>2
<1> QED
  BY <1>2, <1>7, <1>8 DEF n, r

ParentOf(open) == IF open = <<>> THEN 0 ELSE open[Len(open)]

Nested(items, open) ==
  /\ open \in Seq(Nat \ {0}) /\ Deeper(open)
  /\ \A i \in 1 .. Len(open) : items[open[i]].type \in Containers
  /\ open # <<>> => open[1] = 1

Top(w) == w.levels[Len(w.levels)]

\* The levels are those of what is open.
InStep(w, items, open) ==
  /\ Len(open) < MaxLevels /\ Len(w.levels) = Len(open) + 1
  /\ \A i \in 1 .. Len(open) : w.levels[i + 1].isObject <=> items[open[i]].type = "object"

\* Below the levels' end, and of what is open, no object waits for a value.
Even(w, n) == \A i \in 1 .. n : w.levels[i + 1].isObject => w.levels[i + 1].count % 2 = 0

IsValue(items, k) == k \in 1 .. Len(items) /\ items[k].type \notin Containers

Link(w, items, open, deep, under) ==
  /\ CanWrite(w) /\ Nested(items, open)
  /\ Reached(w.text, items, Opened(open), ~deep, under)
  /\ Top(w).count = 0 => Ready(w.text)
  /\ ~deep =>
       /\ InStep(w, items, open) /\ Even(w, Len(open))
       /\ open # <<>> =>
            under = ParentOf(open) \/ (Top(w).count # 0 /\ IsValue(items, under))

\* What the next item goes under when the separator is read.
After(level, items, O, under) ==
  IF level.count = 0 THEN under
  ELSE IF level.isObject /\ level.count % 2 = 1 THEN Len(items)
  ELSE Below(items, O, under)

LEMMA Separated ==
  ASSUME NEW w, CanWrite(w), NEW items, NEW O, NEW sized \in BOOLEAN, NEW under,
         Reached(w.text, items, O, sized, under), items = <<>> \/ 1 \in O,
         Top(w).count = 0 => Ready(w.text)
  PROVE  /\ Reached(Commify(w).text, items, O, sized, After(Top(w), items, O, under))
         /\ Ready(Commify(w).text)
<1> DEFINE l == Top(w)
           text == w.text
           c == Commify(w)
<1>1. text \in Seq(Chars) /\ c.text = text \o Separator(l)
  BY Commified DEF CanWrite, Writer, Top
<1>2. Reached(text, items, O, sized, under) /\ (l.count = 0 => Ready(text))
  OBVIOUS
<1> HIDE DEF l, text, c
<1>3. CASE l.count = 0
  <2>1. c.text = text
    <3>1. Separator(l) = <<>>
      BY <1>3 DEF Separator
    <3>2. text \o <<>> = text
      BY <1>1, ConcatEmptySeq
    <3> QED
      BY <1>1, <3>1, <3>2
  <2>2. After(l, items, O, under) = under
    BY <1>3 DEF After
  <2>3. Reached(c.text, items, O, sized, After(l, items, O, under)) /\ Ready(c.text)
    BY <1>2, <1>3, <2>1, <2>2
  <2> QED
    BY <2>3 DEF c, l
<1>4. CASE l.count # 0
  <2> DEFINE odd == l.isObject /\ l.count % 2 = 1
             x == IF odd THEN <<":">> ELSE <<",">>
  <2>1. Separator(l) = x
    BY <1>4 DEF Separator
  <2> HIDE DEF odd
  <2>2. /\ Ready(text \o x)
        /\ Reached(text \o x, items, O, sized, IF odd THEN Len(items) ELSE Below(items, O, under))
    BY <1>1, <1>2, SeparatorAdded
  <2> HIDE DEF x
  <2>3. After(l, items, O, under) = IF odd THEN Len(items) ELSE Below(items, O, under)
    BY <1>4 DEF After, odd
  <2>4. c.text = text \o x
    BY <1>1, <2>1
  <2> QED
    BY <2>2, <2>3, <2>4 DEF c, l
<1> QED
  BY <1>3, <1>4

LEMMA ReachedIs ==
  ASSUME NEW text \in Seq(Chars), NEW items, NEW O, NEW sized, NEW under,
         Reached(text, items, O, sized, under)
  PROVE  /\ items \in Seq(ItemRec) /\ Len(items) \in Nat /\ O \subseteq 1 .. Len(items)
         /\ under \in 0 .. Len(items)
         /\ Reached(text, items, O, FALSE, under)
<1>1. PICK s : Stage(text, s, items, O, sized) /\ s.super = under
  BY DEF Reached
<1>2. /\ items \in Seq(ItemRec) /\ Len(items) \in Nat /\ O \subseteq 1 .. Len(items)
      /\ s.super \in 0 .. Len(items)
  BY <1>1, StageIs
<1>3. Stage(text, s, items, O, FALSE)
  BY <1>1 DEF Stage, Match
<1>4. Reached(text, items, O, FALSE, under)
  BY <1>1, <1>3, Zenon DEF Reached
<1> QED
  BY <1>1, <1>2, <1>4

\* What is open is among the items, the last one innermost.
Among(items, open, under) ==
  /\ items \in Seq(ItemRec) /\ Len(items) \in Nat
  /\ open \in Seq(Nat \ {0}) /\ Len(open) \in Nat /\ Opened(open) \subseteq 1 .. Len(items)
  /\ \A i \in 1 .. Len(open) : open[i] \in 1 .. Len(items) /\ open[i] \in Opened(open)
  /\ ParentOf(open) \in 0 .. Len(items) /\ under \in 0 .. Len(items)
  /\ open = <<>> <=> Len(open) = 0
  /\ open # <<>> =>
       /\ 1 \in Opened(open) /\ Len(open) \in 1 .. Len(open)
       /\ ParentOf(open) = open[Len(open)] /\ ParentOf(open) \in 1 .. Len(items)
       /\ items[ParentOf(open)].type \in Containers
       /\ Innermost(Opened(open)) = ParentOf(open)

LEMMA LinkIs ==
  ASSUME NEW w, NEW items, NEW open, NEW deep \in BOOLEAN, NEW under,
         Link(w, items, open, deep, under)
  PROVE  Among(items, open, under)
<1>1. /\ w.text \in Seq(Chars) /\ Nested(items, open)
      /\ Reached(w.text, items, Opened(open), ~deep, under)
  BY DEF Link, CanWrite, Writer
<1>3. /\ items \in Seq(ItemRec) /\ Len(items) \in Nat
      /\ Opened(open) \subseteq 1 .. Len(items) /\ under \in 0 .. Len(items)
  BY <1>1, ReachedIs
<1>4. open \in Seq(Nat \ {0}) /\ Len(open) \in Nat
  BY <1>1, LenProperties DEF Nested
<1>5. \A i \in 1 .. Len(open) : open[i] \in 1 .. Len(items) /\ open[i] \in Opened(open)
  BY <1>3 DEF Opened
<1>6. open = <<>> <=> Len(open) = 0
  BY <1>4, EmptySeq
<1>7. ASSUME open # <<>>
      PROVE  /\ 1 \in Opened(open) /\ Len(open) \in 1 .. Len(open)
             /\ ParentOf(open) = open[Len(open)] /\ ParentOf(open) \in 1 .. Len(items)
             /\ items[ParentOf(open)].type \in Containers
             /\ Innermost(Opened(open)) = ParentOf(open)
  <2>1. Len(open) \in 1 .. Len(open) /\ 1 \in 1 .. Len(open)
    BY <1>4, <1>6, <1>7
  <2>2. open[1] = 1
    BY <1>1, <1>7 DEF Nested
  <2>3. Innermost(Opened(open)) = open[Len(open)]
    BY <1>1, <1>4, <1>7, OpenedIs DEF Nested
  <2> QED
    BY <1>1, <1>5, <1>7, <2>1, <2>2, <2>3 DEF ParentOf, Nested
<1>8. ParentOf(open) \in 0 .. Len(items)
  <2>1. CASE open = <<>>
    BY <1>3, <2>1 DEF ParentOf
  <2>2. CASE open # <<>>
    <3>1. ParentOf(open) \in 1 .. Len(items)
      BY <1>7, <2>2
    <3> QED
      BY <1>3, <3>1
  <2> QED
    BY <2>1, <2>2
<1> QED
  BY <1>1, <1>3, <1>4, <1>5, <1>6, <1>7, <1>8 DEF Among

LEMMA SeparatorLinked ==
  ASSUME NEW w, NEW items, NEW open, NEW deep \in BOOLEAN, NEW under,
         Link(w, items, open, deep, under), items = <<>> \/ open # <<>>
  PROVE  LET a == After(Top(w), items, Opened(open), under)
         IN  /\ Reached(Commify(w).text, items, Opened(open), ~deep, a)
             /\ Ready(Commify(w).text) /\ a \in 0 .. Len(items)
             /\ ~deep => a = ParentOf(open)
<1> DEFINE O == Opened(open)
           l == Top(w)
           a == After(l, items, O, under)
           parent == ParentOf(open)
<1>1. /\ CanWrite(w) /\ Reached(w.text, items, O, ~deep, under)
      /\ l.count = 0 => Ready(w.text)
      /\ ~deep =>
           /\ InStep(w, items, open) /\ Even(w, Len(open))
           /\ open # <<>> => under = parent \/ (l.count # 0 /\ IsValue(items, under))
  BY DEF Link
<1>2. /\ Len(items) \in Nat /\ Len(open) \in Nat /\ under \in 0 .. Len(items)
      /\ open = <<>> <=> Len(open) = 0
      /\ open # <<>> =>
           /\ 1 \in O /\ Len(open) \in 1 .. Len(open) /\ parent \in 1 .. Len(items)
           /\ items[parent].type \in Containers /\ Innermost(O) = parent
  <2>1. Among(items, open, under)
    BY LinkIs
  <2> QED
    BY <2>1 DEF Among, O, parent
<1>3. (~deep) \in BOOLEAN /\ (items = <<>> \/ 1 \in O)
  BY <1>2
<1> HIDE DEF O, l, a, parent
<1>4. Reached(Commify(w).text, items, O, ~deep, a) /\ Ready(Commify(w).text)
  BY <1>1, <1>3, Separated DEF l, a
<1>5. a \in 0 .. Len(items)
  <2> DEFINE text == Commify(w).text
             sized == ~deep
  <2>1. Reached(text, items, O, sized, a) /\ text \in Seq(Chars)
    BY <1>1, <1>4, Commified DEF CanWrite, Writer
  <2> HIDE DEF text, sized
  <2> QED
    BY ONLY <2>1, ReachedIs
<1>6. ASSUME ~deep PROVE a = parent
  <2>1. CASE open = <<>>
    <3>1. items = <<>> /\ parent = 0
      BY <2>1 DEF parent, ParentOf
    <3>2. Len(items) = 0
      BY <3>1
    <3> QED
      BY <1>5, <3>1, <3>2
  <2>2. CASE open # <<>>
    <3>1. ~(l.isObject /\ l.count % 2 = 1)
      <4>1. /\ Len(w.levels) = Len(open) + 1 /\ Len(open) \in 1 .. Len(open)
            /\ \A i \in 1 .. Len(open) : w.levels[i + 1].isObject => w.levels[i + 1].count % 2 = 0
        BY <1>1, <1>2, <1>6, <2>2 DEF InStep, Even
      <4>2. l = w.levels[Len(open) + 1]
        BY <4>1 DEF l, Top
      <4>3. l.isObject => l.count % 2 = 0
        BY <4>1, <4>2
      <4>4. l.count % 2 = 0 => l.count % 2 # 1
        OBVIOUS
      <4> QED
        BY <4>3, <4>4
    <3>2. under = parent \/ (l.count # 0 /\ IsValue(items, under))
      BY <1>1, <1>6, <2>2
    <3>3. O # {} /\ Innermost(O) = parent /\ items[parent].type \in Containers
      BY <1>2, <2>2
    <3>4. Below(items, O, parent) = parent
      BY <3>3 DEF Below
    <3>5. IsValue(items, under) => Below(items, O, under) = parent
      BY <3>3 DEF Below, IsValue
    <3> QED
      BY <3>1, <3>2, <3>4, <3>5 DEF a, After
  <2> QED
    BY <2>1, <2>2
<1> QED
  BY <1>4, <1>5, <1>6 DEF O, l, a, parent

-------------------------------------------------------------------------------
(* An item is written. *)

Bytes(item) ==
  CASE item.type = "object" -> <<"{">>
    [] item.type = "array" -> <<"[">>
    [] item.type = "string" -> Enquoted(item.bytes)
    [] item.type = "primitive" -> item.bytes

LEMMA ValuesAre ==
  ASSUME NEW item \in Values
  PROVE  /\ item \in ItemRec /\ item.size = 0
         /\ item.type \in {"object", "array"} => item = Item(item.type, <<>>)
         /\ item.type = "string" => item = Item("string", item.bytes) /\ item.bytes \in Seq(Chars)
         /\ item.type = "primitive" => item = Item("primitive", item.bytes) /\ item.bytes \in Primitives
<1>1. <<>> \in Seq(Chars) /\ Strings \subseteq Seq(Chars) /\ Primitives \subseteq Seq(Chars)
  BY SeqOf, TextAssumption
<1>2. CASE item = Item("object", <<>>)
  BY <1>1, <1>2 DEF Item, ItemRec
<1>6. CASE item = Item("array", <<>>)
  BY <1>1, <1>6 DEF Item, ItemRec
<1>3. CASE \E s \in Strings : item = Item("string", s)
  BY <1>1, <1>3 DEF Item, ItemRec
<1>4. CASE \E p \in Primitives : item = Item("primitive", p)
  BY <1>1, <1>4 DEF Item, ItemRec
<1>5. \/ item = Item("object", <<>>) \/ item = Item("array", <<>>)
      \/ \E s \in Strings : item = Item("string", s)
      \/ \E p \in Primitives : item = Item("primitive", p)
  BY DEF Values
<1> QED
  BY <1>2, <1>3, <1>4, <1>5, <1>6

LEMMA BytesAdded ==
  ASSUME NEW text \in Seq(Chars), NEW items, NEW O, NEW sized \in BOOLEAN, NEW under,
         Reached(text, items, O, sized, under), items = <<>> \/ 1 \in O, Ready(text),
         NEW item \in Values,
         NEW parent \in 0 .. Len(items), sized => under = parent
  PROVE  LET u == text \o Bytes(item)
         IN  /\ item.type \in Containers =>
                  Ready(u) /\ Reached(u, Add(items, parent, item), O \union {Len(items) + 1}, sized,
                                      Len(items) + 1)
             /\ item.type \notin Containers => Reached(u, Add(items, parent, item), O, sized, under)
<1> DEFINE u == text \o Bytes(item)
           A == Add(items, parent, item)
           type == item.type
           bytes == item.bytes
<1>1. /\ type = "object" \/ type = "array" => item = Item(type, <<>>)
      /\ type = "string" => item = Item("string", bytes) /\ bytes \in Seq(Chars)
      /\ type = "primitive" => item = Item("primitive", bytes) /\ bytes \in Primitives
      /\ type \in {"object", "array", "string", "primitive"}
      /\ u = text \o CASE type = "object" -> <<"{">>
                       [] type = "array" -> <<"[">>
                       [] type = "string" -> Enquoted(bytes)
                       [] type = "primitive" -> bytes
  BY ValuesAre, Zenon DEF Bytes, ItemRec
<1> HIDE DEF u, A, type, bytes
<1>2. type \in Containers <=> type = "object" \/ type = "array"
  BY DEF Containers
<1>3. ASSUME type = "object" \/ type = "array"
      PROVE  Ready(u) /\ Reached(u, A, O \union {Len(items) + 1}, sized, Len(items) + 1)
  <2> DEFINE object == type = "object"
             c == IF object THEN <<"{">> ELSE <<"[">>
             t == IF object THEN "object" ELSE "array"
  <2>1. u = text \o c /\ type = t
    <3>1. CASE type = "object"
      BY <1>1, <3>1
    <3>2. CASE type = "array"
      BY <1>1, <3>2
    <3> QED
      BY <1>3, <3>1, <3>2
  <2>2. object \in BOOLEAN
    OBVIOUS
  <2> HIDE DEF object
  <2>3. /\ Ready(text \o c)
        /\ Reached(text \o c, Add(items, parent, Item(t, <<>>)), O \union {Len(items) + 1}, sized,
                   Len(items) + 1)
    BY <2>2, OpenAdded
  <2> HIDE DEF c, t
  <2>4. A = Add(items, parent, Item(t, <<>>))
    BY <1>1, <1>3, <2>1 DEF A
  <2> QED
    BY <2>1, <2>3, <2>4
<1>4. ASSUME type = "string" PROVE Reached(u, A, O, sized, under)
  <2>1. u = text \o Enquoted(bytes) /\ A = Add(items, parent, Item("string", bytes)) /\ bytes \in Seq(Chars)
    BY <1>1, <1>4 DEF A
  <2>2. Reached(text \o Enquoted(bytes), Add(items, parent, Item("string", bytes)), O, sized, under)
    BY <2>1, StringAdded
  <2> QED
    BY <2>1, <2>2
<1>5. ASSUME type = "primitive" PROVE Reached(u, A, O, sized, under)
  <2>1. u = text \o bytes /\ A = Add(items, parent, Item("primitive", bytes)) /\ bytes \in Primitives
    BY <1>1, <1>5 DEF A
  <2>2. Reached(text \o bytes, Add(items, parent, Item("primitive", bytes)), O, sized, under)
    BY <2>1, PrimitiveAdded
  <2> QED
    BY <2>1, <2>2
<1>6. type \notin Containers => type = "string" \/ type = "primitive"
  BY <1>1, <1>2
<1> QED
  BY <1>2, <1>3, <1>4, <1>5, <1>6 DEF u, A, type

\* What becomes of the writer: its levels but for the separator's count.
Grows(j, c, n, type) ==
  /\ CanWrite(j)
  /\ IF type \in Containers /\ n < MaxLevels
     THEN /\ Len(j.levels) = n + 1 /\ j.levels[n + 1] = Level(type = "object")
          /\ \A k \in 1 .. n : j.levels[k] = c.levels[k]
     ELSE j.levels = c.levels

LEMMA JemsItemIs ==
  ASSUME NEW w, CanWrite(w), NEW item \in Values
  PROVE  LET j == JemsItem(w, item)
             c == Commify(w)
         IN  j.text = c.text \o Bytes(item) /\ Grows(j, c, Len(w.levels), item.type)
<1> DEFINE j == JemsItem(w, item)
           c == Commify(w)
           n == Len(w.levels)
           type == item.type
           bytes == item.bytes
<1>1. CanWrite(c) /\ Len(c.levels) = n
  BY Commified
<1>2. /\ type = "object" \/ type = "array" => item = Item(type, <<>>)
      /\ type = "string" => item = Item("string", bytes) /\ bytes \in Seq(Chars)
      /\ type = "primitive" => item = Item("primitive", bytes) /\ bytes \in Primitives
      /\ type \in {"object", "array", "string", "primitive"}
  BY ValuesAre, Zenon DEF ItemRec
<1>3. /\ type = "object" => j = PushLevel(Emit(c, <<"{">>), TRUE) /\ Bytes(item) = <<"{">>
      /\ type = "array" => j = PushLevel(Emit(c, <<"[">>), FALSE) /\ Bytes(item) = <<"[">>
      /\ type = "string" => j = Emit(c, Enquoted(bytes)) /\ Bytes(item) = Enquoted(bytes)
      /\ type = "primitive" => j = Emit(c, bytes) /\ Bytes(item) = bytes
  BY DEF JemsItem, Bytes, ObjectOpen, ArrayOpen, JemsString, Primitive, Enquoted
<1> HIDE DEF j, c, n, type, bytes
<1>4. type \in Containers <=> type = "object" \/ type = "array"
  BY DEF Containers
<1>5. ASSUME NEW b \in Seq(Chars), NEW o \in BOOLEAN, j = PushLevel(Emit(c, b), o),
             type \in Containers, o <=> type = "object"
      PROVE  j.text = c.text \o b /\ Grows(j, c, n, type)
  <2> DEFINE e == Emit(c, b)
  <2>1. CanWrite(e) /\ e.text = c.text \o b /\ e.levels = c.levels
    BY <1>1, Emitted
  <2> HIDE DEF e
  <2>2. /\ CanWrite(j) /\ j.text = e.text
        /\ n < MaxLevels => /\ Len(j.levels) = n + 1 /\ j.levels[n + 1] = Level(o)
                            /\ \A k \in 1 .. n : j.levels[k] = e.levels[k]
        /\ ~(n < MaxLevels) => j = e
    <3> DEFINE m == Len(e.levels)
               p == PushLevel(e, o)
    <3>1. /\ CanWrite(p) /\ p.text = e.text
          /\ m < MaxLevels => /\ Len(p.levels) = m + 1 /\ p.levels[m + 1] = Level(o)
                              /\ \A k \in 1 .. m : p.levels[k] = e.levels[k]
          /\ ~(m < MaxLevels) => p = e
      BY <2>1, Pushed, Zenon
    <3>2. m = n /\ p = j
      BY <1>1, <1>5, <2>1 DEF e
    <3> HIDE DEF m, p
    <3> QED
      BY <3>1, <3>2
  <2>3. Level(o) = Level(type = "object")
    BY <1>5 DEF Level
  <2> QED
    BY <1>5, <2>1, <2>2, <2>3 DEF Grows
<1>6. ASSUME NEW b \in Seq(Chars), j = Emit(c, b), type \notin Containers
      PROVE  j.text = c.text \o b /\ Grows(j, c, n, type)
  <2>1. CanWrite(j) /\ j.text = c.text \o b /\ j.levels = c.levels
    BY <1>1, <1>6, Emitted
  <2> QED
    BY <1>6, <2>1 DEF Grows
<1>7. CASE type = "object"
  BY <1>3, <1>4, <1>5, <1>7, BracketsAre DEF j, c, n, type
<1>8. CASE type = "array"
  BY <1>3, <1>4, <1>5, <1>8, BracketsAre DEF j, c, n, type
<1>9. CASE type = "string"
  <2>1. Enquoted(bytes) \in Seq(Chars)
    BY <1>2, <1>9, EnquotedIs
  <2> QED
    BY <1>3, <1>4, <1>6, <1>9, <2>1 DEF j, c, n, type
<1>10. CASE type = "primitive"
  <2>1. bytes \in Seq(Chars)
    BY <1>2, <1>10, PrimitivesAre
  <2> QED
    BY <1>3, <1>4, <1>6, <1>10, <2>1 DEF j, c, n, type
<1> QED
  BY <1>2, <1>7, <1>8, <1>9, <1>10

\* What was there has the types it had.
Extends(more, items) ==
  Len(items) <= Len(more) /\ \A k \in 1 .. Len(items) : more[k].type = items[k].type

LEMMA AddExtends ==
  ASSUME NEW items \in Seq(ItemRec), NEW parent \in 0 .. Len(items), NEW item \in ItemRec
  PROVE  LET r == Add(items, parent, item)
         IN  /\ r \in Seq(ItemRec) /\ Len(r) = Len(items) + 1 /\ Len(items) \in Nat
             /\ r[Len(items) + 1].type = item.type /\ Extends(r, items)
<1> DEFINE r == Add(items, parent, item)
           n == Len(items)
<1>1. /\ r \in Seq(ItemRec) /\ Len(r) = Len(items) + 1 /\ Len(items) \in Nat
      /\ r[Len(items) + 1] = item
      /\ \A k \in 1 .. Len(items) :
           /\ r[k].type = items[k].type /\ r[k].bytes = items[k].bytes
           /\ r[k].size = items[k].size + (IF k = parent THEN 1 ELSE 0)
  BY AddedItems
<1> HIDE DEF r
<1>2. Len(items) <= Len(r)
  <2> HIDE DEF n
  <2>1. Len(r) = n + 1 /\ n \in Nat
    BY <1>1 DEF n
  <2>2. n <= n + 1
    BY ONLY <2>1
  <2> QED
    BY <2>1, <2>2 DEF n
<1>3. Extends(r, items)
  BY <1>1, <1>2 DEF Extends
<1> QED
  BY <1>1, <1>3 DEF r

LEMMA NestedMore ==
  ASSUME NEW items, NEW open, NEW under, Nested(items, open), Among(items, open, under),
         items = <<>> \/ open # <<>>,
         NEW more, Extends(more, items)
  PROVE  /\ Nested(more, open)
         /\ more[Len(items) + 1].type \in Containers =>
              LET r == Append(open, Len(items) + 1)
              IN  /\ Nested(more, r) /\ Opened(r) = Opened(open) \union {Len(items) + 1}
                  /\ Len(r) = Len(open) + 1 /\ r[Len(open) + 1] = Len(items) + 1 /\ r # <<>>
                  /\ \A i \in 1 .. Len(open) : r[i] = open[i]
<1> DEFINE n == Len(items)
           m == Len(open)
           k == n + 1
           r == Append(open, k)
<1>1. /\ open \in Seq(Nat \ {0}) /\ Deeper(open) /\ m \in Nat /\ n \in Nat
      /\ \A i \in 1 .. m : items[open[i]].type \in Containers /\ open[i] \in 1 .. n
      /\ open # <<>> => open[1] = 1
      /\ Opened(open) \subseteq 1 .. n /\ (open = <<>> <=> m = 0)
  BY DEF Nested, Among
<1>2. \A i \in 1 .. n : more[i].type = items[i].type
  BY DEF Extends
<1> HIDE DEF m, n
<1>3. \A i \in 1 .. m : more[open[i]].type \in Containers
  BY <1>1, <1>2
<1>4. Nested(more, open)
  BY <1>1, <1>3 DEF Nested, m
<1>5. ASSUME more[k].type \in Containers
      PROVE  /\ Nested(more, r) /\ Opened(r) = Opened(open) \union {k}
             /\ Len(r) = m + 1 /\ r[m + 1] = k /\ r # <<>>
             /\ \A i \in 1 .. m : r[i] = open[i]
  <2>1. k \in Nat \ {0} /\ \A j \in Opened(open) : j < k
    <3>1. k \in Nat \ {0} /\ \A j \in 1 .. n : j < k
      BY <1>1
    <3> QED
      BY <1>1, <3>1
  <2> HIDE DEF k
  <2>2. /\ r \in Seq(Nat \ {0}) /\ Deeper(r) /\ Opened(r) = Opened(open) \union {k}
        /\ Len(r) = m + 1 /\ r[m + 1] = k
        /\ \A i \in 1 .. m : r[i] = open[i]
    BY <1>1, <2>1, OpenedMore DEF m
  <2> HIDE DEF r
  <2>3. r # <<>>
    <3>1. Len(r) # 0
      BY <1>1, <2>2
    <3> QED
      BY <2>2, <3>1, EmptySeq
  <2>4. ASSUME NEW i \in 1 .. m + 1 PROVE more[r[i]].type \in Containers
    <3>1. i \in 1 .. m \/ i = m + 1
      BY <1>1
    <3>2. CASE i \in 1 .. m
      BY <1>3, <2>2, <3>2
    <3>3. CASE i = m + 1
      BY <1>5, <2>2, <3>3
    <3> QED
      BY <3>1, <3>2, <3>3
  <2>5. r[1] = 1
    <3>1. CASE open = <<>>
      <4>1. n = 0
        BY <3>1 DEF n
      <4> QED
        BY <1>1, <2>2, <3>1, <4>1 DEF k
    <3>2. CASE open # <<>>
      <4>1. 1 \in 1 .. m
        BY <1>1, <3>2
      <4> QED
        BY <1>1, <2>2, <3>2, <4>1
    <3> QED
      BY <3>1, <3>2
  <2> QED
    BY <2>2, <2>3, <2>4, <2>5 DEF Nested
<1> QED
  BY <1>4, <1>5 DEF n, m, k, r

LEMMA AmongMore ==
  ASSUME NEW items, NEW open, NEW under, Nested(items, open), Among(items, open, under),
         NEW more \in Seq(ItemRec), Len(more) = Len(items) + 1, Extends(more, items),
         NEW next \in 0 .. Len(more)
  PROVE  Among(more, open, next)
<1> DEFINE n == Len(items)
           p == ParentOf(open)
<1>1. /\ n \in Nat /\ Len(more) = n + 1
      /\ open \in Seq(Nat \ {0}) /\ Len(open) \in Nat /\ Opened(open) \subseteq 1 .. n
      /\ \A i \in 1 .. Len(open) : open[i] \in 1 .. n /\ open[i] \in Opened(open)
      /\ p \in 0 .. n
      /\ open = <<>> <=> Len(open) = 0
      /\ open # <<>> =>
           /\ 1 \in Opened(open) /\ Len(open) \in 1 .. Len(open)
           /\ p = open[Len(open)] /\ p \in 1 .. n
           /\ items[p].type \in Containers
           /\ Innermost(Opened(open)) = p
  BY DEF Among
<1>2. \A i \in 1 .. n : more[i].type = items[i].type
  BY DEF Extends
<1> HIDE DEF n, p
<1>3. 1 .. n \subseteq 1 .. Len(more) /\ 0 .. n \subseteq 0 .. Len(more) /\ Len(more) \in Nat
  BY <1>1
<1>4. open # <<>> => more[p].type \in Containers /\ p \in 1 .. Len(more)
  BY <1>1, <1>2, <1>3
<1>5. /\ Opened(open) \subseteq 1 .. Len(more) /\ p \in 0 .. Len(more)
      /\ \A i \in 1 .. Len(open) : open[i] \in 1 .. Len(more)
  BY <1>1, <1>3
<1> QED
  BY <1>1, <1>3, <1>4, <1>5 DEF Among, p

LEMMA CommifiedCounts ==
  ASSUME NEW w, CanWrite(w)
  PROVE  LET n == Len(w.levels)
             c == Commify(w)
         IN  n \in Nat /\ n \in 1 .. n /\ Len(c.levels) = n /\ c.levels[n].count # 0
<1> DEFINE n == Len(w.levels)
           c == Commify(w)
<1>1. /\ Len(c.levels) = n
      /\ \A i \in 1 .. n : c.levels[i].count = w.levels[i].count + (IF i = n THEN 1 ELSE 0)
  BY Commified
<1>2. w.levels \in Seq(LevelRec) /\ n \in Nat /\ n \in 1 .. MaxLevels
  BY LenProperties DEF CanWrite, Writer
<1>3. n \in 1 .. n
  <2> HIDE DEF n
  <2> QED
    BY <1>2, MaxLevelsAssumption
<1>4. c.levels[n].count # 0
  <2> DEFINE x == w.levels[n].count
  <2>1. x \in Nat
    <3>1. w.levels[n] \in LevelRec
      BY <1>2, <1>3, ElementOfSeq
    <3> QED
      BY <3>1 DEF LevelRec
  <2>2. c.levels[n].count = x + 1
    BY <1>1, <1>3
  <2> HIDE DEF x
  <2> QED
    BY <2>1, <2>2
<1> QED
  BY <1>1, <1>2, <1>3, <1>4

LEMMA ValueLinked ==
  ASSUME NEW w, CanWrite(w), NEW items, NEW open, NEW deep \in BOOLEAN, NEW under,
         Nested(items, open), Among(items, open, under),
         Reached(Commify(w).text, items, Opened(open), ~deep, under), Ready(Commify(w).text),
         items = <<>> \/ open # <<>>,
         NEW item \in Values, NEW parent \in 0 .. Len(items),
         ~deep => /\ under = parent /\ InStep(w, items, open) /\ Even(Commify(w), Len(open))
                  /\ open # <<>> => parent = ParentOf(open) \/ IsValue(items, parent)
  PROVE  LET j == JemsItem(w, item)
             more == Add(items, parent, item)
             k == Len(items) + 1
         IN  /\ item.type \in Containers =>
                  Link(j, more, Append(open, k), deep \/ Len(open) + 1 >= MaxLevels, k)
             /\ item.type \notin Containers =>
                  Link(j, more, open, deep \/ Len(open) >= MaxLevels, under)
<1> DEFINE j == JemsItem(w, item)
           c == Commify(w)
           more == Add(items, parent, item)
           k == Len(items) + 1
           r == Append(open, k)
           N == Len(w.levels)
           m == Len(open)
           O == Opened(open)
           text == c.text
           u == text \o Bytes(item)
           type == item.type
           sized == ~deep
           opens == type \in Containers
<1>1. /\ CanWrite(c) /\ Len(c.levels) = N /\ N \in Nat /\ N \in 1 .. N /\ text \in Seq(Chars)
      /\ \A i \in 1 .. N : c.levels[i].isObject = w.levels[i].isObject
      /\ c.levels[N].count # 0
  <2>1. /\ CanWrite(c) /\ Len(c.levels) = N
        /\ \A i \in 1 .. N : c.levels[i].isObject = w.levels[i].isObject
    BY Commified
  <2>2. text \in Seq(Chars)
    BY <2>1 DEF CanWrite, Writer
  <2>3. N \in Nat /\ N \in 1 .. N /\ c.levels[N].count # 0
    BY CommifiedCounts
  <2> QED
    BY <2>1, <2>2, <2>3
<1>2. j.text = u /\ Grows(j, c, N, type)
  BY JemsItemIs
<1>3. /\ items \in Seq(ItemRec) /\ item \in ItemRec /\ Len(items) \in Nat /\ m \in Nat
      /\ \A i \in 1 .. m : open[i] \in 1 .. Len(items)
      /\ (items = <<>> \/ 1 \in O) /\ sized \in BOOLEAN
  BY ValuesAre DEF Among
<1>4. /\ more \in Seq(ItemRec) /\ Len(more) = k /\ more[k].type = type /\ Extends(more, items)
  BY <1>3, AddExtends
<1>5. /\ opens => Ready(u) /\ Reached(u, more, O \union {k}, sized, k)
      /\ ~opens => Reached(u, more, O, sized, under)
  <2>1. /\ text \in Seq(Chars) /\ sized \in BOOLEAN /\ Reached(text, items, O, sized, under)
        /\ (items = <<>> \/ 1 \in O) /\ Ready(text) /\ (sized => under = parent)
        /\ item \in Values /\ parent \in 0 .. Len(items)
    BY <1>1, <1>3
  <2> HIDE DEF text, O, sized
  <2> QED
    BY ONLY <2>1, BytesAdded DEF u, more, k, opens, type
<1>6. /\ Nested(more, open)
      /\ opens => /\ Nested(more, r) /\ Opened(r) = O \union {k}
                  /\ Len(r) = m + 1 /\ r[m + 1] = k /\ r # <<>>
                  /\ \A i \in 1 .. m : r[i] = open[i]
  BY <1>4, NestedMore
<1>7. /\ ~deep => /\ under = parent /\ m < MaxLevels /\ N = m + 1
                  /\ \A i \in 1 .. m : w.levels[i + 1].isObject <=> items[open[i]].type = "object"
                  /\ \A i \in 1 .. m : c.levels[i + 1].isObject => c.levels[i + 1].count % 2 = 0
                  /\ open # <<>> => parent = ParentOf(open) \/ IsValue(items, parent)
      /\ \A i \in 1 .. Len(items) : i \in 1 .. k /\ more[i].type = items[i].type
  <2>1. \A i \in 1 .. Len(items) : i \in 1 .. k
    BY <1>3
  <2> QED
    BY <1>4, <2>1 DEF InStep, Even, Extends
<1>8. /\ CanWrite(j) /\ j.text \in Seq(Chars)
      /\ opens /\ N < MaxLevels =>
           /\ Len(j.levels) = N + 1 /\ j.levels[N + 1] = Level(type = "object")
           /\ \A i \in 1 .. N : j.levels[i] = c.levels[i]
      /\ ~opens => j.levels = c.levels
  BY <1>2 DEF Grows, CanWrite, Writer
<1> HIDE DEF j, c, more, k, r, N, m, O, text, u, sized, opens
<1>9. \A i \in 1 .. m : more[open[i]].type = items[open[i]].type
  BY <1>3, <1>7
<1>10. ~deep => \A i \in 1 .. m : i + 1 \in 1 .. N
  BY <1>1, <1>3, <1>7
<1>11. ASSUME opens PROVE Link(j, more, r, deep \/ m + 1 >= MaxLevels, k)
  <2> DEFINE deep2 == deep \/ m + 1 >= MaxLevels
  <2>1. deep2 \in BOOLEAN /\ (deep2 \/ ~deep)
    OBVIOUS
  <2>2. Reached(j.text, more, Opened(r), ~deep2, k)
    <3>1. CASE deep2
      <4>1. Reached(u, more, O \union {k}, FALSE, k)
        BY <1>2, <1>5, <1>8, <1>11, ReachedIs
      <4> QED
        BY <1>2, <1>6, <1>11, <3>1, <4>1
    <3>2. CASE ~deep2
      <4>1. (~deep2) = TRUE /\ sized = TRUE
        BY <3>2 DEF sized
      <4> QED
        BY <1>2, <1>5, <1>6, <1>11, <4>1
    <3> QED
      BY <3>1, <3>2
  <2>3. ASSUME ~deep2 PROVE InStep(j, more, r) /\ Even(j, m + 1)
    <3>1. ~deep /\ m + 1 < MaxLevels /\ N = m + 1 /\ N < MaxLevels
      BY <1>3, <1>7, <2>3, MaxLevelsAssumption
    <3>2. /\ Len(j.levels) = N + 1 /\ j.levels[N + 1] = Level(type = "object")
          /\ \A i \in 1 .. N : j.levels[i] = c.levels[i]
      BY <1>8, <1>11, <3>1
    <3>3. ASSUME NEW i \in 1 .. m
          PROVE  /\ j.levels[i + 1].isObject <=> more[r[i]].type = "object"
                 /\ j.levels[i + 1].isObject => j.levels[i + 1].count % 2 = 0
      <4>1. i + 1 \in 1 .. N /\ j.levels[i + 1] = c.levels[i + 1]
        BY <1>10, <3>1, <3>2
      <4>2. c.levels[i + 1].isObject = w.levels[i + 1].isObject
        BY <1>1, <4>1
      <4>3. more[r[i]].type = items[open[i]].type
        BY <1>6, <1>9, <1>11
      <4>4. /\ w.levels[i + 1].isObject <=> items[open[i]].type = "object"
            /\ c.levels[i + 1].isObject => c.levels[i + 1].count % 2 = 0
        BY <1>7, <3>1
      <4> QED
        BY <4>1, <4>2, <4>3, <4>4, Zenon
    <3>4. /\ j.levels[m + 2].isObject <=> more[r[m + 1]].type = "object"
          /\ j.levels[m + 2].isObject => j.levels[m + 2].count % 2 = 0
      <4>1. N + 1 = m + 2
        BY <1>3, <3>1
      <4>2. j.levels[m + 2].isObject = (type = "object") /\ j.levels[m + 2].count = 0
        BY <3>2, <4>1 DEF Level
      <4>3. 0 % 2 = 0
        OBVIOUS
      <4> QED
        BY <1>4, <1>6, <1>11, <4>2, <4>3
    <3>5. \A i \in 1 .. m + 1 : i \in 1 .. m \/ (i = m + 1 /\ i + 1 = m + 2)
      BY <1>3
    <3>6. Len(r) = m + 1 /\ Len(r) < MaxLevels /\ Len(j.levels) = Len(r) + 1
      BY <1>6, <1>11, <3>1, <3>2
    <3>7. \A i \in 1 .. m + 1 :
            /\ j.levels[i + 1].isObject <=> more[r[i]].type = "object"
            /\ j.levels[i + 1].isObject => j.levels[i + 1].count % 2 = 0
      BY <3>3, <3>4, <3>5
    <3> QED
      BY <3>6, <3>7 DEF InStep, Even
  <2>4. k = ParentOf(r) /\ Len(r) = m + 1
    BY <1>6, <1>11 DEF ParentOf
  <2>5. Ready(j.text)
    BY <1>2, <1>5, <1>11
  <2> HIDE DEF deep2
  <2>6. Link(j, more, r, deep2, k)
    BY <1>6, <1>8, <1>11, <2>2, <2>3, <2>4, <2>5 DEF Link
  <2> QED
    BY <2>6 DEF deep2
<1>12. ASSUME ~opens PROVE Link(j, more, open, deep \/ m >= MaxLevels, under)
  <2> DEFINE deep2 == deep \/ m >= MaxLevels
  <2>1. deep2 = deep
    <3>1. ~deep => ~(m >= MaxLevels)
      BY <1>3, <1>7, MaxLevelsAssumption
    <3> QED
      BY <3>1
  <2> HIDE DEF deep2
  <2>2. Reached(j.text, more, Opened(open), ~deep, under)
    BY <1>2, <1>5, <1>12 DEF sized, O
  <2>3. Top(j).count # 0
    <3>1. Top(j) = c.levels[N]
      BY <1>1, <1>8, <1>12 DEF Top
    <3> QED
      BY <1>1, <3>1
  <2>4. ASSUME ~deep PROVE InStep(j, more, open) /\ Even(j, m)
    <3>1. m < MaxLevels /\ Len(j.levels) = m + 1 /\ j.levels = c.levels
      BY <1>1, <1>7, <1>8, <1>12, <2>4
    <3>2. ASSUME NEW i \in 1 .. m
          PROVE  /\ j.levels[i + 1].isObject <=> more[open[i]].type = "object"
                 /\ j.levels[i + 1].isObject => j.levels[i + 1].count % 2 = 0
      <4>1. i + 1 \in 1 .. N
        BY <1>10, <2>4
      <4>2. c.levels[i + 1].isObject = w.levels[i + 1].isObject
        BY <1>1, <4>1
      <4>3. more[open[i]].type = items[open[i]].type
        BY <1>9
      <4>4. /\ w.levels[i + 1].isObject <=> items[open[i]].type = "object"
            /\ c.levels[i + 1].isObject => c.levels[i + 1].count % 2 = 0
        BY <1>7, <2>4
      <4> QED
        BY <3>1, <4>2, <4>3, <4>4, Zenon
    <3> QED
      BY <3>1, <3>2 DEF InStep, Even, m
  <2>5. ASSUME ~deep, open # <<>> PROVE under = ParentOf(open) \/ IsValue(more, under)
    <3>1. IsValue(items, under) => IsValue(more, under)
      BY <1>4, <1>7 DEF IsValue
    <3> QED
      BY <1>7, <2>5, <3>1
  <2>6. Link(j, more, open, deep, under)
    BY <1>6, <1>8, <2>2, <2>3, <2>4, <2>5 DEF Link, m
  <2> QED
    BY <2>1, <2>6 DEF deep2
<1> QED
  BY <1>11, <1>12 DEF j, more, k, r, m, opens, type

\* After one more separator, and after two, in the level of what is innermost.
LEMMA LevelsCounted ==
  ASSUME NEW w, CanWrite(w), NEW items, NEW open, NEW under, Among(items, open, under),
         InStep(w, items, open), Even(w, Len(open))
  PROVE  LET c == Commify(w)
             inObject == open # <<>> /\ items[ParentOf(open)].type = "object"
         IN  /\ ~inObject => Even(c, Len(open))
             /\ inObject => Top(c).isObject /\ Top(c).count % 2 = 1 /\ Top(c).count # 0
             /\ \A d : CanWrite(d) /\ d.levels = c.levels =>
                  /\ InStep(d, items, open)
                  /\ inObject => Even(Commify(d), Len(open))
<1> DEFINE c == Commify(w)
           inObject == open # <<>> /\ items[ParentOf(open)].type = "object"
           N == Len(w.levels)
           m == Len(open)
           P == ParentOf(open)
<1>1. /\ CanWrite(c) /\ Len(c.levels) = N /\ N \in Nat /\ N = m + 1 /\ m \in Nat /\ m < MaxLevels
      /\ \A i \in 1 .. N : /\ c.levels[i].isObject = w.levels[i].isObject
                           /\ c.levels[i].count = w.levels[i].count + (IF i = N THEN 1 ELSE 0)
      /\ \A i \in 1 .. N : w.levels[i].count \in Nat
  <2>1. w.levels \in Seq(LevelRec) /\ N \in Nat
    BY LenProperties DEF CanWrite, Writer
  <2>2. \A i \in 1 .. N : w.levels[i] \in LevelRec
    BY <2>1, ElementOfSeq
  <2>3. \A i \in 1 .. N : w.levels[i].count \in Nat
    BY <2>2 DEF LevelRec
  <2>4. N = m + 1 /\ m \in Nat /\ m < MaxLevels
    BY DEF InStep, Among
  <2> QED
    BY <2>1, <2>3, <2>4, Commified
<1>2. /\ \A i \in 1 .. m : w.levels[i + 1].isObject <=> items[open[i]].type = "object"
      /\ \A i \in 1 .. m : w.levels[i + 1].isObject => w.levels[i + 1].count % 2 = 0
      /\ open # <<>> => m \in 1 .. m /\ P = open[m]
      /\ open = <<>> <=> m = 0
  BY DEF InStep, Even, Among
<1>4. inObject <=> open # <<>> /\ items[P].type = "object"
  OBVIOUS
<1>5. Top(c) = c.levels[N]
  BY <1>1 DEF Top
<1> HIDE DEF c, N, m, P, inObject
<1>3. \A i \in 1 .. m : i + 1 \in 1 .. N /\ (i + 1 = N => i = m)
  <2>1. N = m + 1 /\ m \in Nat
    BY <1>1
  <2> QED
    BY ONLY <2>1
<1>6. \A x \in Nat : x % 2 = 0 => (x + 1) % 2 = 1 /\ (x + 1) # 0 /\ ((x + 1) + 1) % 2 = 0
  OBVIOUS
<1>7. ASSUME inObject
      PROVE  /\ m \in 1 .. m /\ m + 1 = N /\ w.levels[N].isObject /\ w.levels[N].count % 2 = 0
             /\ w.levels[N].count \in Nat /\ N \in 1 .. N
  <2>1. m \in 1 .. m /\ m + 1 = N /\ N \in 1 .. N
    BY <1>1, <1>2, <1>3, <1>4, <1>7
  <2>2. w.levels[m + 1].isObject /\ w.levels[m + 1].count % 2 = 0
    BY <1>2, <1>4, <1>7, <2>1
  <2> QED
    BY <1>1, <2>1, <2>2
<1>8. ASSUME inObject
      PROVE  Top(c).isObject /\ Top(c).count % 2 = 1 /\ Top(c).count # 0
  <2> DEFINE x == w.levels[N].count
  <2>1. x \in Nat /\ x % 2 = 0 /\ c.levels[N].isObject = w.levels[N].isObject /\ c.levels[N].count = x + 1
    BY <1>1, <1>7, <1>8
  <2> HIDE DEF x
  <2>2. (x + 1) % 2 = 1 /\ (x + 1) # 0
    BY <1>6, <2>1
  <2> QED
    BY <1>5, <1>7, <1>8, <2>1, <2>2
<1>9. ASSUME ~inObject PROVE Even(c, m)
  <2>1. ASSUME NEW i \in 1 .. m, c.levels[i + 1].isObject PROVE c.levels[i + 1].count % 2 = 0
    <3>1. i + 1 \in 1 .. N /\ w.levels[i + 1].isObject /\ w.levels[i + 1].count % 2 = 0
          /\ w.levels[i + 1].count \in Nat
      BY <1>1, <1>2, <1>3, <2>1
    <3>2. i + 1 # N
      <4>1. SUFFICES ASSUME i + 1 = N PROVE FALSE
        OBVIOUS
      <4>2. i = m /\ m # 0
        BY <1>1, <1>3, <4>1
      <4>3. items[open[m]].type = "object" /\ open # <<>>
        BY <1>2, <3>1, <4>2
      <4> QED
        BY <1>2, <1>4, <1>9, <4>3
    <3> DEFINE y == w.levels[i + 1].count
    <3>3. c.levels[i + 1].count = y + 0 /\ y \in Nat /\ y % 2 = 0
      BY <1>1, <3>1, <3>2
    <3> HIDE DEF y
    <3>4. y + 0 = y
      BY <3>3
    <3> QED
      BY <3>3, <3>4
  <2> QED
    BY <2>1 DEF Even
<1>10. ASSUME NEW d, CanWrite(d), d.levels = c.levels
       PROVE  InStep(d, items, open) /\ (inObject => Even(Commify(d), m))
  <2>1. InStep(d, items, open)
    <3>1. \A i \in 1 .. m : d.levels[i + 1].isObject <=> items[open[i]].type = "object"
      <4> TAKE i \in 1 .. m
      <4>1. i + 1 \in 1 .. N
        BY <1>3
      <4>2. c.levels[i + 1].isObject = w.levels[i + 1].isObject
        BY <1>1, <4>1
      <4> QED
        BY <1>2, <1>10, <4>2, Zenon
    <3> QED
      BY <1>1, <1>10, <3>1 DEF InStep, m
  <2>2. ASSUME inObject, NEW i \in 1 .. m, Commify(d).levels[i + 1].isObject
        PROVE  Commify(d).levels[i + 1].count % 2 = 0
    <3> DEFINE e == Commify(d)
               y == w.levels[i + 1].count
    <3>1. \A n \in 1 .. N : /\ e.levels[n].isObject = d.levels[n].isObject
                            /\ e.levels[n].count = d.levels[n].count + (IF n = N THEN 1 ELSE 0)
      <4>1. CanWrite(d) /\ Len(d.levels) = N
        BY <1>1, <1>10
      <4> QED
        BY ONLY <4>1, Commified
    <3>2. i + 1 \in 1 .. N
      BY <1>3
    <3>3. /\ e.levels[i + 1].isObject = c.levels[i + 1].isObject
          /\ e.levels[i + 1].count = c.levels[i + 1].count + (IF i + 1 = N THEN 1 ELSE 0)
      BY <1>10, <3>1, <3>2
    <3>4. /\ c.levels[i + 1].isObject = w.levels[i + 1].isObject
          /\ c.levels[i + 1].count = y + (IF i + 1 = N THEN 1 ELSE 0) /\ y \in Nat
      BY <1>1, <3>2
    <3>5. y % 2 = 0
      BY <1>2, <2>2, <3>3, <3>4
    <3>6. e.levels[i + 1].count = (y + 1) + 1 \/ e.levels[i + 1].count = (y + 0) + 0
      BY <3>3, <3>4, Zenon
    <3> HIDE DEF y, e
    <3>7. ((y + 1) + 1) % 2 = 0 /\ (y + 0) + 0 = y
      BY <1>6, <3>4, <3>5
    <3> QED
      BY <3>5, <3>6, <3>7 DEF e
  <2>3. inObject => Even(Commify(d), m)
    BY <2>2 DEF Even
  <2> QED
    BY <2>1, <2>3
<1> QED
  BY <1>8, <1>9, <1>10 DEF c, m, P, inObject

Linked(w, items, open, deep) == \E under : Link(w, items, open, deep, under)

\* What is open when this item has been written, the last of so many.
OpenedBy(open, item, n) == IF item.type \in Containers THEN Append(open, n) ELSE open

LEMMA ItemLinked ==
  ASSUME NEW w, CanWrite(w), NEW items, NEW open, NEW deep \in BOOLEAN, NEW under,
         Nested(items, open), Among(items, open, under),
         Reached(Commify(w).text, items, Opened(open), ~deep, under), Ready(Commify(w).text),
         items = <<>> \/ open # <<>>,
         NEW item \in Values, NEW parent \in 0 .. Len(items),
         ~deep => /\ under = parent /\ InStep(w, items, open) /\ Even(Commify(w), Len(open))
                  /\ open # <<>> => parent = ParentOf(open) \/ IsValue(items, parent)
  PROVE  LET open2 == OpenedBy(open, item, Len(items) + 1)
         IN  Linked(JemsItem(w, item), Add(items, parent, item), open2,
                    deep \/ Len(open2) >= MaxLevels)
<1> DEFINE j == JemsItem(w, item)
           more == Add(items, parent, item)
           k == Len(items) + 1
           r == Append(open, k)
           open2 == OpenedBy(open, item, k)
<1>1. /\ item.type \in Containers => Link(j, more, r, deep \/ Len(open) + 1 >= MaxLevels, k)
      /\ item.type \notin Containers => Link(j, more, open, deep \/ Len(open) >= MaxLevels, under)
  BY ValueLinked
<1>2. open \in Seq(Nat \ {0}) /\ k \in Nat \ {0}
  BY DEF Among
<1> HIDE DEF j, more, k
<1>3. Len(r) = Len(open) + 1
  BY <1>2, AppendProperties
<1>4. CASE item.type \in Containers
  <2>1. open2 = r
    BY <1>4 DEF OpenedBy
  <2>2. Link(j, more, open2, deep \/ Len(open2) >= MaxLevels, k)
    BY <1>1, <1>3, <1>4, <2>1
  <2> HIDE DEF open2
  <2>3. Linked(j, more, open2, deep \/ Len(open2) >= MaxLevels)
    BY <2>2, Zenon DEF Linked
  <2> QED
    BY <2>3 DEF j, more, k, open2
<1>5. CASE item.type \notin Containers
  <2>1. open2 = open
    BY <1>5 DEF OpenedBy
  <2>2. Link(j, more, open2, deep \/ Len(open2) >= MaxLevels, under)
    BY <1>1, <1>5, <2>1
  <2> HIDE DEF open2
  <2>3. Linked(j, more, open2, deep \/ Len(open2) >= MaxLevels)
    BY <2>2, Zenon DEF Linked
  <2> QED
    BY <2>3 DEF j, more, k, open2
<1> QED
  BY <1>4, <1>5

LEMMA ValueWritten ==
  ASSUME NEW w, NEW items, NEW open, NEW deep \in BOOLEAN, Linked(w, items, open, deep),
         items = <<>> \/ (open # <<>> /\ items[ParentOf(open)].type # "object"),
         NEW item \in Values
  PROVE  LET open2 == OpenedBy(open, item, Len(items) + 1)
         IN  Linked(JemsItem(w, item), Add(items, ParentOf(open), item), open2,
                    deep \/ Len(open2) >= MaxLevels)
<1>a. PICK under : Link(w, items, open, deep, under)
  BY DEF Linked
<1> DEFINE O == Opened(open)
           a == After(Top(w), items, O, under)
           P == ParentOf(open)
           text == Commify(w).text
<1>1. /\ CanWrite(w) /\ Nested(items, open)
      /\ ~deep => /\ InStep(w, items, open) /\ Even(w, Len(open))
  BY <1>a DEF Link
<1>2. Among(items, open, under)
  BY <1>a, LinkIs
<1>3. items = <<>> \/ open # <<>>
  OBVIOUS
<1>4. /\ Reached(text, items, O, ~deep, a) /\ Ready(text) /\ a \in 0 .. Len(items)
      /\ ~deep => a = P
  BY <1>a, <1>3, SeparatorLinked
<1>5. Among(items, open, a) /\ P \in 0 .. Len(items)
  BY <1>2, <1>4 DEF Among
<1>6. ~(open # <<>> /\ items[P].type = "object")
  <2>1. CASE items = <<>>
    <3>1. Len(items) = 0
      BY <2>1
    <3>2. open # <<>> => P \in 1 .. Len(items)
      BY <1>2 DEF Among
    <3> QED
      BY <3>1, <3>2
  <2>2. CASE items # <<>>
    BY <2>2
  <2> QED
    BY <2>1, <2>2
<1>7. ~deep => Even(Commify(w), Len(open))
  BY <1>1, <1>2, <1>6, LevelsCounted
<1> HIDE DEF a, P
<1> QED
  BY <1>1, <1>3, <1>4, <1>5, <1>7, ItemLinked DEF P

LEMMA KeyWritten ==
  ASSUME NEW w, NEW items, NEW open, NEW deep \in BOOLEAN, Linked(w, items, open, deep),
         open # <<>>, items[ParentOf(open)].type = "object",
         NEW key \in Seq(Chars), NEW item \in Values
  PROVE  LET one == Add(items, ParentOf(open), Item("string", key))
             open2 == OpenedBy(open, item, Len(one) + 1)
         IN  /\ Len(one) = Len(items) + 1
             /\ Linked(JemsItem(JemsString(w, key), item), Add(one, Len(one), item), open2,
                       deep \/ Len(open2) >= MaxLevels)
<1>a. PICK under : Link(w, items, open, deep, under)
  BY DEF Linked
<1> DEFINE O == Opened(open)
           a == After(Top(w), items, O, under)
           P == ParentOf(open)
           c == Commify(w)
           text == c.text
           keyItem == Item("string", key)
           one == Add(items, P, keyItem)
           v == JemsString(w, key)
           vtext == v.text
           n == Len(one)
           b == After(Top(v), one, O, a)
           sized == ~deep
<1>1. /\ CanWrite(w) /\ Nested(items, open)
      /\ ~deep => /\ InStep(w, items, open) /\ Even(w, Len(open))
  BY <1>a DEF Link
<1>2. Among(items, open, under)
  BY <1>a, LinkIs
<1>3. items = <<>> \/ open # <<>>
  OBVIOUS
<1>4. /\ Reached(text, items, O, sized, a) /\ Ready(text) /\ a \in 0 .. Len(items)
      /\ ~deep => a = P
  BY <1>a, <1>3, SeparatorLinked
<1>5. /\ items \in Seq(ItemRec) /\ P \in 0 .. Len(items) /\ 1 \in O /\ Len(items) \in Nat
  BY <1>2 DEF Among
<1>6. CanWrite(c) /\ text \in Seq(Chars) /\ sized \in BOOLEAN
  <2>1. CanWrite(c)
    BY <1>1, Commified
  <2> QED
    BY <2>1 DEF CanWrite, Writer
<1>7. Reached(text \o Enquoted(key), one, O, sized, a)
  <2>1. /\ text \in Seq(Chars) /\ sized \in BOOLEAN /\ Reached(text, items, O, sized, a)
        /\ (items = <<>> \/ 1 \in O) /\ Ready(text) /\ (sized => a = P)
        /\ key \in Seq(Chars) /\ P \in 0 .. Len(items)
    BY <1>4, <1>5, <1>6
  <2> HIDE DEF text, O, sized, a, P
  <2> QED
    BY ONLY <2>1, StringAdded DEF one, keyItem
<1>8. /\ CanWrite(v) /\ v.text = text \o Enquoted(key) /\ v.levels = c.levels
  <2>1. Enquoted(key) \in Seq(Chars)
    BY EnquotedIs
  <2>2. v = Emit(c, Enquoted(key))
    BY DEF JemsString, Enquoted
  <2> HIDE DEF v, c
  <2> QED
    BY <1>6, <2>1, <2>2, Emitted
<1>9. /\ one \in Seq(ItemRec) /\ n = Len(items) + 1 /\ n \in 0 .. n /\ n \in 1 .. n
      /\ one[n].type = "string" /\ Extends(one, items) /\ 0 .. Len(items) \subseteq 0 .. n
  <2>1. keyItem \in ItemRec /\ keyItem.type = "string"
    BY DEF Item, ItemRec
  <2> HIDE DEF keyItem
  <2>2. /\ one \in Seq(ItemRec) /\ Len(one) = Len(items) + 1
        /\ one[Len(items) + 1].type = keyItem.type /\ Extends(one, items)
    BY <1>5, <2>1, AddExtends
  <2> HIDE DEF one, P
  <2>3. n = Len(items) + 1
    BY <2>2
  <2> HIDE DEF n
  <2>4. n \in 0 .. n /\ n \in 1 .. n /\ 0 .. Len(items) \subseteq 0 .. n
    BY <1>5, <2>3
  <2> QED
    BY <2>1, <2>2, <2>3, <2>4
<1>10. ~deep => /\ Top(v).isObject /\ Top(v).count % 2 = 1 /\ Top(v).count # 0
                /\ Even(Commify(v), Len(open)) /\ InStep(v, items, open)
  <2>1. Top(v) = Top(c)
    BY <1>8 DEF Top
  <2>2. ~deep => /\ Top(c).isObject /\ Top(c).count % 2 = 1 /\ Top(c).count # 0
                 /\ \A d : CanWrite(d) /\ d.levels = c.levels =>
                      InStep(d, items, open) /\ Even(Commify(d), Len(open))
    BY <1>1, <1>2, LevelsCounted
  <2> HIDE DEF v, c
  <2> QED
    BY <1>8, <2>1, <2>2
<1>11. Top(v).count # 0
  <2>1. c.levels[Len(w.levels)].count # 0 /\ Len(c.levels) = Len(w.levels)
    BY <1>1, CommifiedCounts
  <2> QED
    BY <1>8, <2>1 DEF Top
<1> HIDE DEF c, text, v, O, a, P, one, sized
<1>12. /\ Reached(Commify(v).text, one, O, sized, b) /\ Ready(Commify(v).text)
  <2>1. Reached(v.text, one, O, sized, a)
    BY <1>7, <1>8
  <2>2. CanWrite(v) /\ sized \in BOOLEAN /\ (one = <<>> \/ 1 \in O) /\ Top(v).count # 0
    BY <1>5, <1>6, <1>8, <1>11
  <2> QED
    BY <2>1, <2>2, Separated
<1>13. b \in 0 .. n /\ (~deep => b = n)
  <2>1. ~deep => b = n
    BY <1>10 DEF After
  <2>2. CanWrite(v) /\ Reached(Commify(v).text, one, O, sized, b)
    BY <1>8, <1>12
  <2>3. Commify(v).text \in Seq(Chars)
    BY <2>2, Commified DEF CanWrite, Writer
  <2> DEFINE x == Commify(v).text
  <2> HIDE DEF x, b
  <2>4. x \in Seq(Chars) /\ Reached(x, one, O, sized, b)
    BY <2>2, <2>3 DEF x
  <2>5. b \in 0 .. Len(one)
    BY ONLY <2>4, ReachedIs
  <2> QED
    BY <2>1, <2>5
<1> HIDE DEF b
<1>14. Nested(one, open) /\ Among(one, open, b)
  <2>1. Nested(one, open)
    BY <1>1, <1>2, <1>9, NestedMore
  <2>2. Among(one, open, b)
    BY <1>1, <1>2, <1>9, <1>13, AmongMore
  <2> QED
    BY <2>1, <2>2
<1>15. ~deep => /\ b = n /\ InStep(v, one, open) /\ Even(Commify(v), Len(open))
                /\ open # <<>> => n = ParentOf(open) \/ IsValue(one, n)
  <2>1. IsValue(one, n)
    BY <1>9 DEF IsValue, Containers
  <2>2. InStep(v, items, open) => InStep(v, one, open)
    <3>1. \A i \in 1 .. Len(open) : one[open[i]].type = items[open[i]].type
      BY <1>2, <1>9 DEF Among, Extends
    <3> QED
      BY <3>1 DEF InStep
  <2> QED
    BY <1>10, <1>13, <2>1, <2>2
<1> DEFINE open2 == OpenedBy(open, item, n + 1)
<1>16. Linked(JemsItem(v, item), Add(one, n, item), open2, deep \/ Len(open2) >= MaxLevels)
  <2>1. /\ CanWrite(v) /\ Reached(Commify(v).text, one, Opened(open), ~deep, b)
        /\ Ready(Commify(v).text) /\ n \in 0 .. Len(one) /\ (one = <<>> \/ open # <<>>)
    BY <1>8, <1>9, <1>12 DEF O, sized
  <2>2. ~deep => /\ b = n /\ InStep(v, one, open) /\ Even(Commify(v), Len(open))
                 /\ open # <<>> => n = ParentOf(open) \/ IsValue(one, n)
    BY <1>15
  <2> QED
    BY <1>14, <2>1, <2>2, ItemLinked
<1> QED
  BY <1>9, <1>16 DEF v, one, P

LEMMA Closed ==
  ASSUME NEW w, NEW items, NEW open, NEW deep \in BOOLEAN, Linked(w, items, open, deep),
         open # <<>>
  PROVE  LET object == items[ParentOf(open)].type = "object"
         IN  Linked(IF object THEN ObjectClose(w) ELSE ArrayClose(w), items,
                    SubSeq(open, 1, Len(open) - 1), deep)
<1>a. PICK under : Link(w, items, open, deep, under)
  BY DEF Linked
<1> DEFINE O == Opened(open)
           P == ParentOf(open)
           m == Len(open)
           r == SubSeq(open, 1, m - 1)
           object == items[P].type = "object"
           c == IF object THEN <<"}">> ELSE <<"]">>
           text == w.text
           u == text \o c
           e == Emit(w, c)
           j == IF object THEN ObjectClose(w) ELSE ArrayClose(w)
           next == Innermost(O \ {P})
           sized == ~deep
<1>1. /\ CanWrite(w) /\ Reached(text, items, O, sized, under)
      /\ ~deep => /\ InStep(w, items, open) /\ Even(w, Len(open))
      /\ open \in Seq(Nat \ {0}) /\ Deeper(open) /\ open[1] = 1
      /\ \A i \in 1 .. m : items[open[i]].type \in Containers
      /\ object \in BOOLEAN /\ sized \in BOOLEAN
  BY <1>a DEF Link, Nested
<1>2. /\ items \in Seq(ItemRec) /\ 1 \in O /\ P = open[m] /\ Innermost(O) = P /\ m \in Nat /\ m \in 1 .. m
      /\ items[P].type \in Containers
  <2>1. Among(items, open, under)
    BY <1>a, LinkIs
  <2> QED
    BY <2>1 DEF Among
<1>3. /\ CanWrite(e) /\ e.text = u /\ e.levels = w.levels /\ text \in Seq(Chars)
      /\ j = PopLevel(e)
  <2>1. c \in Seq(Chars) /\ text \in Seq(Chars)
    <3>1. <<"}">> \in Seq(Chars) /\ <<"]">> \in Seq(Chars)
      BY BracketsAre
    <3> HIDE DEF object
    <3> QED
      BY <1>1, <3>1 DEF CanWrite, Writer
  <2>2. j = PopLevel(e)
    BY DEF ObjectClose, ArrayClose
  <2> HIDE DEF c, j
  <2> QED
    BY <1>1, <2>1, <2>2, Emitted
<1>4. Ready(u) /\ Reached(u, items, O \ {P}, sized, next)
  <2>1. items[Innermost(O)].type = IF object THEN "object" ELSE "array"
    BY <1>2 DEF Containers
  <2>2. /\ text \in Seq(Chars) /\ sized \in BOOLEAN /\ Reached(text, items, O, sized, under) /\ 1 \in O
        /\ object \in BOOLEAN /\ items[Innermost(O)].type = (IF object THEN "object" ELSE "array")
        /\ Innermost(O) = P
    BY <1>1, <1>2, <1>3, <2>1
  <2> HIDE DEF text, sized, object, O, P
  <2> QED
    BY ONLY <2>2, CloseAdded, ZenonT(60) DEF u, c, next
<1>5. /\ r \in Seq(Nat \ {0}) /\ Deeper(r) /\ Opened(r) = O \ {P} /\ Len(r) = m - 1
      /\ \A i \in 1 .. m - 1 : r[i] = open[i]
  BY <1>1, <1>2, OpenedLess
<1>6. LET n == Len(e.levels)
      IN  /\ CanWrite(j) /\ j.text = e.text
          /\ n > 1 => /\ Len(j.levels) = n - 1
                      /\ \A k \in 1 .. n - 1 : j.levels[k] = e.levels[k]
  <2> HIDE DEF j, e
  <2> QED
    BY <1>3, PoppedLevel
<1> HIDE DEF O, P, m, r, object, c, text, u, e, j, next, sized
<1>7. /\ m - 1 \in Nat /\ 1 .. m - 1 \subseteq 1 .. m /\ \A i \in 1 .. m - 1 : i + 1 \in 1 .. m
      /\ (m - 1 # 0 => 1 \in 1 .. m - 1)
  <2>1. m \in Nat /\ m \in 1 .. m
    BY <1>2
  <2> QED
    BY ONLY <2>1
<1>8. Len(r) \in Nat /\ (r = <<>> <=> m - 1 = 0)
  BY <1>5, <1>7, EmptySeq
<1>9. Nested(items, r)
  <2>1. \A i \in 1 .. Len(r) : items[r[i]].type \in Containers
    BY <1>1, <1>5, <1>7
  <2>2. r # <<>> => r[1] = 1
    BY <1>1, <1>5, <1>7, <1>8
  <2> QED
    BY <1>5, <2>1, <2>2 DEF Nested
<1>10. r # <<>> => next = ParentOf(r)
  <2>1. ASSUME r # <<>> PROVE Innermost(Opened(r)) = r[Len(r)]
    BY <1>5, <2>1, OpenedIs
  <2> QED
    BY <1>5, <2>1 DEF ParentOf, next
<1>11. ASSUME ~deep PROVE InStep(j, items, r) /\ Even(j, Len(r))
  <2>1. /\ m < MaxLevels /\ Len(w.levels) = m + 1
        /\ \A i \in 1 .. m : w.levels[i + 1].isObject <=> items[open[i]].type = "object"
        /\ \A i \in 1 .. m : w.levels[i + 1].isObject => w.levels[i + 1].count % 2 = 0
    BY <1>1, <1>11 DEF InStep, Even, m
  <2>2. m + 1 > 1 /\ (m + 1) - 1 = m /\ m - 1 < MaxLevels /\ m = (m - 1) + 1
    <3>1. m \in Nat /\ m \in 1 .. m /\ MaxLevels \in Nat /\ m < MaxLevels
      BY <1>2, <2>1, MaxLevelsAssumption
    <3> QED
      BY ONLY <3>1
  <2>3. Len(j.levels) = m /\ \A k \in 1 .. m : j.levels[k] = w.levels[k]
    BY <1>3, <1>6, <2>1, <2>2
  <2>4. \A i \in 1 .. m - 1 :
          /\ j.levels[i + 1].isObject <=> items[r[i]].type = "object"
          /\ j.levels[i + 1].isObject => j.levels[i + 1].count % 2 = 0
    BY <1>5, <1>7, <2>1, <2>3
  <2> QED
    BY <1>5, <2>2, <2>3, <2>4 DEF InStep, Even
<1>12. Reached(j.text, items, Opened(r), ~deep, next) /\ Ready(j.text)
  BY <1>3, <1>4, <1>5, <1>6 DEF sized
<1>13. Link(j, items, r, deep, next)
  BY <1>6, <1>9, <1>10, <1>11, <1>12 DEF Link
<1>14. Linked(j, items, r, deep)
  BY <1>13, Zenon DEF Linked
<1> QED
  BY <1>14 DEF j, r, m, object, P

LEMMA NothingLinked ==
  Linked(JemsReset, <<>>, <<>>, FALSE)
<1> DEFINE w == JemsReset
           e == <<>>
<1>1. CanWrite(w) /\ w.text = e /\ Len(w.levels) = 1 /\ Len(e) = 0
  BY Resets DEF JemsReset
<1>2. e \in Seq(ItemRec) /\ e \in Seq(Nat \ {0})
  BY SeqOf
<1>3. AfterText(e, Fresh) /\ Fresh.tokens = e /\ Fresh.super = 0
  BY NothingWritten DEF Fresh
<1> HIDE DEF w
<1>4. Opened(e) = {} /\ OpenOf(e) = {}
  BY <1>1 DEF Opened, OpenOf
<1>5. \A i \in 1 .. Len(e) : FALSE
  BY <1>1
<1>6. Nested(e, e)
  BY <1>2, <1>5 DEF Nested, Deeper
<1>7. Match(e, Fresh.tokens, e, TRUE)
  BY <1>2, <1>3, <1>5 DEF Match
<1>8. Stage(e, Fresh, e, Opened(e), TRUE)
  BY <1>3, <1>4, <1>7 DEF Stage
<1>9. Reached(e, e, Opened(e), TRUE, 0)
  BY <1>3, <1>8, Zenon DEF Reached
<1>10. InStep(w, e, e)
  BY <1>1, <1>5, MaxLevelsAssumption DEF InStep
<1>11. Even(w, Len(e))
  BY <1>5 DEF Even
<1>12. Reached(w.text, e, Opened(e), ~FALSE, 0) /\ Ready(w.text)
  BY <1>1, <1>9 DEF Ready
<1>13. Link(w, e, e, FALSE, 0)
  BY <1>1, <1>6, <1>10, <1>11, <1>12 DEF Link
<1> QED
  BY <1>13, Zenon DEF Linked, w, e

(* What the client means, what is open and what the writer has written     *)
(* agree, whatever it does next.                                           *)
WriterInv == tooDeep \in BOOLEAN /\ Linked(jems, meant, opened, tooDeep)

LEMMA MeansIs ==
  ASSUME NEW items, NEW last, Means(items, last)
  PROVE  /\ meant' = items /\ opened' = OpenedBy(opened, last, Len(items))
         /\ tooDeep' = (tooDeep \/ Len(opened') >= MaxLevels)
         /\ source = "" /\ source' = ""
BY DEF Means, OpenedBy

LEMMA TwoAdded ==
  ASSUME NEW items \in Seq(ItemRec), NEW parent \in 0 .. Len(items),
         NEW key \in Seq(Chars), NEW item \in ItemRec
  PROVE  LET one == Add(items, parent, Item("string", key))
         IN  Counting(items, parent) \o <<[Item("string", key) EXCEPT !.size = 1], item>>
               = Add(one, Len(items) + 1, item)
<1> DEFINE k == Item("string", key)
           k1 == [k EXCEPT !.size = 1]
           c == Counting(items, parent)
           one == Add(items, parent, k)
           n == Len(items)
           two == Add(one, n + 1, item)
           pair == <<k1, item>>
           cat == c \o pair
<1>1. k \in ItemRec /\ k1 \in ItemRec /\ k.size = 0
  BY DEF Item, ItemRec
<1>2. n \in Nat /\ c \in Seq(ItemRec) /\ Len(c) = n
  BY CountedItems, LenProperties
<1>3. one = Append(c, k)
  BY DEF Add
<1> HIDE DEF c, one, two, n
<1>4. /\ one \in Seq(ItemRec) /\ Len(one) = n + 1 /\ one[n + 1] = k
      /\ \A i \in 1 .. n : one[i] = c[i]
  BY <1>1, <1>2, <1>3, AppendProperties
<1>5. n + 1 # 0 /\ n + 1 \in 1 .. n + 1
  BY <1>2
<1> DEFINE e == [one EXCEPT ![n + 1] = k1]
<1>6. two = Append(e, item)
  <2>1. [one[n + 1] EXCEPT !.size = @ + 1] = k1
    <3>1. one[n + 1].size + 1 = 1
      BY <1>1, <1>4
    <3>2. [one[n + 1] EXCEPT !.size = one[n + 1].size + 1] = [k EXCEPT !.size = 1]
      BY <1>4, <3>1
    <3> QED
      BY <3>2
  <2> HIDE DEF k1
  <2>2. Counting(one, n + 1) = e
    BY <1>5, <2>1 DEF Counting
  <2> QED
    BY <2>2 DEF two, Add
<1> HIDE DEF k1, k
<1>7. /\ e \in Seq(ItemRec) /\ Len(e) = n + 1
      /\ \A i \in 1 .. n + 1 : e[i] = IF i = n + 1 THEN k1 ELSE one[i]
  BY <1>1, <1>4, <1>5, ExceptSeq
<1> HIDE DEF e
<1>8. /\ two \in Seq(ItemRec) /\ Len(two) = n + 2 /\ two[n + 2] = item
      /\ \A i \in 1 .. n + 1 : two[i] = e[i]
  <2>1. /\ two \in Seq(ItemRec) /\ Len(two) = Len(e) + 1 /\ two[Len(e) + 1] = item
        /\ \A i \in 1 .. Len(e) : two[i] = e[i]
    BY <1>6, <1>7, AppendProperties
  <2>2. (n + 1) + 1 = n + 2
    BY <1>2
  <2> QED
    BY <1>7, <2>1, <2>2
<1>9. pair \in Seq(ItemRec) /\ Len(pair) = 2 /\ pair[1] = k1 /\ pair[2] = item
  BY <1>1
<1> HIDE DEF pair
<1>10. /\ cat \in Seq(ItemRec) /\ Len(cat) = n + 2
       /\ \A i \in 1 .. n : cat[i] = c[i]
       /\ \A i \in 1 .. 2 : cat[n + i] = pair[i]
  <2>1. /\ cat \in Seq(ItemRec) /\ Len(cat) = Len(c) + Len(pair)
        /\ \A i \in 1 .. Len(c) : cat[i] = c[i]
        /\ \A i \in 1 .. Len(pair) : cat[Len(c) + i] = pair[i]
    <3>1. c \in Seq(ItemRec) /\ pair \in Seq(ItemRec)
      BY <1>2, <1>9
    <3> QED
      BY ONLY <3>1, Concat
  <2> HIDE DEF cat
  <2> QED
    BY <1>2, <1>9, <2>1
<1> HIDE DEF cat
<1>11. ASSUME NEW i \in 1 .. n + 2 PROVE cat[i] = two[i]
  <2>1. i \in 1 .. n \/ i = n + 1 \/ i = n + 2
    BY <1>2
  <2>2. CASE i \in 1 .. n
    <3>1. i \in 1 .. n + 1 /\ i # n + 1
      BY <1>2, <2>2
    <3> QED
      BY <1>4, <1>7, <1>8, <1>10, <2>2, <3>1
  <2>3. CASE i = n + 1
    <3>1. 1 \in 1 .. 2 /\ cat[n + 1] = pair[1]
      BY <1>10
    <3> QED
      BY <1>5, <1>7, <1>8, <1>9, <2>3, <3>1
  <2>4. CASE i = n + 2
    <3>1. 2 \in 1 .. 2 /\ cat[n + 2] = pair[2]
      BY <1>10
    <3> QED
      BY <1>8, <1>9, <2>4, <3>1
  <2> QED
    BY <2>1, <2>2, <2>3, <2>4
<1>12. cat = two
  BY <1>8, <1>10, <1>11, SeqEqual
<1> QED
  BY <1>12 DEF cat, two, c, one, n, pair, k1, k

LEMMA WriterTyped ==
  ASSUME WriterInv
  PROVE  meant \in Seq(ItemRec) /\ Len(meant) \in Nat /\ ParentOf(opened) \in 0 .. Len(meant)
<1>1. PICK under : Link(jems, meant, opened, tooDeep, under)
  BY DEF WriterInv, Linked
<1>2. Among(meant, opened, under)
  BY <1>1, LinkIs DEF WriterInv
<1> QED
  BY <1>2 DEF Among

LEMMA WriteKeeps ==
  ASSUME WriterInv, Write
  PROVE  WriterInv'
<1> DEFINE P == ParentOf(opened)
<1>1. PICK item \in Values :
        /\ Means(Append(Counting(meant, Parent), item), item)
        /\ jems' = JemsItem(jems, item)
  BY DEF Write
<1> DEFINE more == Add(meant, P, item)
           open2 == OpenedBy(opened, item, Len(meant) + 1)
<1>2. Append(Counting(meant, Parent), item) = more
  BY DEF Add, Parent, ParentOf
<1>3. Len(more) = Len(meant) + 1
  <2>1. meant \in Seq(ItemRec) /\ P \in 0 .. Len(meant) /\ item \in ItemRec
    BY WriterTyped, ValuesAre
  <2> HIDE DEF P
  <2> QED
    BY <2>1, AddedItems
<1> HIDE DEF more
<1>4. meant' = more /\ opened' = open2 /\ tooDeep' = (tooDeep \/ Len(opened') >= MaxLevels)
  BY <1>1, <1>2, <1>3, MeansIs
<1>5. meant = <<>> \/ (opened # <<>> /\ meant[P].type # "object")
  BY DEF Write, InObject, Parent, ParentOf
<1>6. tooDeep \in BOOLEAN /\ Linked(jems, meant, opened, tooDeep)
  BY DEF WriterInv
<1>7. Linked(JemsItem(jems, item), more, open2, tooDeep \/ Len(open2) >= MaxLevels)
  BY <1>5, <1>6, ValueWritten DEF more
<1> HIDE DEF open2
<1>8. Linked(jems', meant', opened', tooDeep') /\ tooDeep' \in BOOLEAN
  BY <1>1, <1>4, <1>7, Zenon
<1> QED
  BY <1>8 DEF WriterInv, Linked

LEMMA WriteKeyKeeps ==
  ASSUME WriterInv, WriteKey
  PROVE  WriterInv'
<1> DEFINE P == ParentOf(opened)
<1>1. PICK key \in Keys, item \in Values :
        /\ Means(Counting(meant, Parent) \o <<[Item("string", key) EXCEPT !.size = 1], item>>, item)
        /\ jems' = JemsItem(JemsString(jems, key), item)
  BY DEF WriteKey
<1> DEFINE one == Add(meant, P, Item("string", key))
           n == Len(one)
           two == Add(one, n, item)
           open2 == OpenedBy(opened, item, n + 1)
<1>2. meant \in Seq(ItemRec) /\ P \in 0 .. Len(meant) /\ item \in ItemRec /\ key \in Seq(Chars)
      /\ Len(meant) \in Nat
  BY WriterTyped, ValuesAre, TextAssumption
<1>3. opened # <<>> /\ meant[P].type = "object"
  BY DEF WriteKey, InObject, Parent, ParentOf
<1>4. tooDeep \in BOOLEAN /\ Linked(jems, meant, opened, tooDeep)
  BY DEF WriterInv
<1>5. /\ n = Len(meant) + 1
      /\ Linked(JemsItem(JemsString(jems, key), item), two, open2, tooDeep \/ Len(open2) >= MaxLevels)
  BY <1>2, <1>3, <1>4, KeyWritten
<1>6. Counting(meant, Parent) \o <<[Item("string", key) EXCEPT !.size = 1], item>> = two
  <2>1. Counting(meant, P) \o <<[Item("string", key) EXCEPT !.size = 1], item>>
          = Add(one, Len(meant) + 1, item)
    BY <1>2, TwoAdded
  <2>2. Parent = P
    BY DEF Parent, ParentOf
  <2> HIDE DEF P, one
  <2> QED
    BY <1>5, <2>1, <2>2
<1>7. Len(two) = n + 1
  <2>1. one \in Seq(ItemRec)
    <3>1. Item("string", key) \in ItemRec
      BY <1>2 DEF Item, ItemRec
    <3> QED
      BY <1>2, <3>1, AddedItems
  <2> HIDE DEF one
  <2>2. n \in 0 .. Len(one) /\ one \in Seq(ItemRec) /\ item \in ItemRec
    BY <1>2, <1>5, <2>1
  <2> HIDE DEF n
  <2>3. Len(two) = Len(one) + 1
    BY <2>2, AddedItems
  <2> QED
    BY <2>3 DEF n
<1> HIDE DEF two, one, n, P
<1>8. meant' = two /\ opened' = open2 /\ tooDeep' = (tooDeep \/ Len(opened') >= MaxLevels)
  BY <1>1, <1>6, <1>7, MeansIs
<1> HIDE DEF open2
<1>9. Linked(jems', meant', opened', tooDeep') /\ tooDeep' \in BOOLEAN
  BY <1>1, <1>4, <1>5, <1>8, Zenon
<1> QED
  BY <1>9 DEF WriterInv, Linked

LEMMA CloseKept ==
  ASSUME WriterInv, Close
  PROVE  WriterInv'
<1> DEFINE object == meant[ParentOf(opened)].type = "object"
           j == IF object THEN ObjectClose(jems) ELSE ArrayClose(jems)
           r == SubSeq(opened, 1, Len(opened) - 1)
<1>1. opened # <<>> /\ opened' = r /\ meant' = meant /\ tooDeep' = tooDeep /\ jems' = j
  BY DEF Close, InObject, Parent, ParentOf
<1>2. tooDeep \in BOOLEAN /\ Linked(jems, meant, opened, tooDeep)
  BY DEF WriterInv
<1>3. Linked(j, meant, r, tooDeep)
  BY <1>1, <1>2, Closed
<1> HIDE DEF j, r
<1>4. Linked(jems', meant', opened', tooDeep') /\ tooDeep' \in BOOLEAN
  BY <1>1, <1>2, <1>3, Zenon
<1> QED
  BY <1>4 DEF WriterInv, Linked

-------------------------------------------------------------------------------
(* The text is read.                                                       *)

LEMMA WholeRead ==
  ASSUME NEW text \in Seq(Chars), NEW s, NEW items, NEW sized, Stage(text, s, items, {}, sized),
         json = text, Leads(text, Here, s), Parse
  PROVE  \/ json' = text /\ result' = None /\ Leads(text, Here', s)
         \/ result' = NOMEM /\ Len(items) > NumTokens
         \/ json' = text /\ Here' = s /\ result' = Len(items)
<1>1. /\ Good(Here) /\ Good(s)
      /\ Here = s \/ /\ InProgress(Here)
                     /\ \E r : Lexeme(text, Here, r) /\ Leads(text, r, s)
  BY LeadsOn
<1>2. IsCut(text)
  BY DEF IsCut
<1>3. /\ Here.pos = pos /\ Here.tokens = tokens /\ Open = OpenOf(tokens)
      /\ Len(json) \in Nat /\ Len(text) \in Nat /\ Len(tokens) \in Nat
  BY <1>1, <1>2, HereIs
<1>4. /\ s.pos = Len(text) + 1 /\ Len(s.tokens) = Len(items) /\ OpenOf(s.tokens) = {}
      /\ Len(items) \in Nat
  BY StageIs DEF Stage
<1>5. CASE Here = s
  <2>1. pos > Len(json)
    <3>1. pos = Len(json) + 1 /\ Len(json) \in Nat
      BY <1>3, <1>4, <1>5
    <3> QED
      BY ONLY <3>1
  <2>2. ParseEnd
    BY <1>1, <1>2, <2>1, OneCase
  <2>3. Open = {} /\ Len(tokens) = Len(items)
    BY <1>3, <1>4, <1>5
  <2>4. result' = Len(items) /\ json' = json /\ Here' = Here
    BY <2>2, <2>3 DEF ParseEnd, Here
  <2> QED
    BY <1>5, <2>4
<1>6. CASE Here # s
  <2>1. PICK r : Lexeme(text, Here, r) /\ Leads(text, r, s)
    BY <1>1, <1>6
  <2>2. Len(r.tokens) <= Len(s.tokens) /\ Len(r.tokens) \in Nat
    BY <2>1, LeadsOn, LenProperties DEF Good, Place
  <2>3. pos <= Len(json)
    BY <1>1, <1>3, <2>1, LexemeIs
  <2>4. ASSUME result' = NOMEM, Len(tokens) = NumTokens, Len(r.tokens) = Len(tokens) + 1
        PROVE  Len(items) > NumTokens
    <3>1. /\ NumTokens + 1 <= Len(items) /\ Len(items) \in Nat /\ NumTokens \in Nat
      BY <1>4, <2>2, <2>4, NumTokensAssumption
    <3> QED
      BY ONLY <3>1
  <2>5. \/ json' = json /\ result' = None /\ Here' = r
        \/ result' = NOMEM /\ Len(tokens) = NumTokens /\ Len(r.tokens) = Len(tokens) + 1
    <3>1. ~(Len(json) < Len(text))
      BY <1>3
    <3>2. CASE Opens(text, Here, r) \/ Closes(text, Here, r)
      BY <1>1, <1>2, <2>3, <3>2, BracketRead
    <3>3. CASE StringNext(text, Here, r)
      BY <1>1, <1>2, <2>3, <3>1, <3>3, StringRead
    <3>4. CASE PrimitiveNext(text, Here, r)
      BY <1>1, <1>2, <2>3, <3>1, <3>4, PrimitiveRead
    <3>5. CASE ColonNext(text, Here, r) \/ CommaNext(text, Here, r)
      BY <1>1, <1>2, <2>3, <3>5, SeparatorRead
    <3> QED
      BY <2>1, <3>2, <3>3, <3>4, <3>5 DEF Lexeme
  <2> QED
    BY <2>1, <2>4, <2>5
<1> QED
  BY <1>5, <1>6

\* The first token stays open, as long as nothing but a cut primitive comes.
LEMMA FirstStays ==
  ASSUME NEW toks \in Seq(TokenRec), NEW super \in 0 .. Len(toks), NEW tok \in TokenRec,
         toks # <<>>, toks[1].end = Unset
  PROVE  LET r == CountedOf(Append(toks, tok), super)
         IN  r # <<>> /\ r[1].end = Unset
<1> DEFINE n == Len(toks)
           r == CountedOf(Append(toks, tok), super)
<1>1. n \in Nat /\ n # 0
  BY LenProperties, EmptySeq
<1>2. /\ r \in Seq(TokenRec) /\ Len(r) = n + 1
      /\ \A k \in 1 .. n : r[k].end = toks[k].end
  <2>1. MoreTokens(r, toks, tok, super)
    BY TokensMore
  <2> HIDE DEF r
  <2> QED
    BY <2>1, Zenon DEF MoreTokens, n
<1> HIDE DEF n, r
<1>3. 1 \in 1 .. n /\ n + 1 # 0
  BY <1>1
<1>4. r # <<>>
  BY <1>2, <1>3, EmptySeq
<1> QED
  BY <1>2, <1>3, <1>4 DEF r

\* A document that begins with a primitive is nothing else.
LEMMA OnlyPrimitive ==
  ASSUME NEW text \in Seq(Chars), NEW s, NEW items, NEW sized, Stage(text, s, items, {}, sized),
         NEW p, Good(p), p.tokens = <<>>, NEW r, PrimitiveNext(text, p, r), Leads(text, r, s)
  PROVE  items[1].type \notin Containers
<1>1. PICK x \in Primitives :
        LET e == p.pos + Len(x)
        IN  r = [pos |-> e,
                 tokens |-> CountedOf(Append(p.tokens, JsonToken("primitive", p.pos, e)), p.super),
                 super |-> p.super]
  BY DEF PrimitiveNext
<1> DEFINE e == p.pos + Len(x)
           tok == JsonToken("primitive", p.pos, e)
           toks == CountedOf(Append(<<>>, tok), p.super)
<1>2. p.pos \in Nat \ {0} /\ Len(x) \in Nat \ {0} /\ p.super \in 0 .. Len(<<>>) /\ <<>> \in Seq(TokenRec)
  <2>1. p.pos \in Nat \ {0} /\ Len(x) \in Nat \ {0} /\ p.super \in Nat /\ p.super <= Len(p.tokens)
    BY PrimitivesAre DEF Good, Place
  <2>2. Len(p.tokens) = 0 /\ Len(<<>>) = 0
    OBVIOUS
  <2> QED
    BY <2>1, <2>2, SeqOf
<1>3. r.tokens = toks
  BY <1>1
<1>4. tok \in TokenRec /\ tok.type = "primitive" /\ tok.end # Unset
  BY <1>2 DEF JsonToken, TokenRec, Unset
<1>5. Len(toks) = 1 /\ toks[1] = tok
  <2> HIDE DEF tok
  <2> DEFINE none == <<>>
             one == CountedOf(Append(none, tok), p.super)
  <2>1. none \in Seq(TokenRec) /\ p.super \in 0 .. Len(none) /\ Len(none) + 1 = 1 /\ toks = one
    BY <1>2
  <2> HIDE DEF none
  <2>2. Len(one) = Len(none) + 1 /\ one[Len(none) + 1] = tok
    BY <1>4, <2>1, AddedTokens
  <2> HIDE DEF one, toks
  <2> QED
    BY <2>1, <2>2
<1> HIDE DEF toks, tok
<1>6. ~InProgress(r)
  <2>1. toks # <<>>
    <3>1. Len(<<>>) = 0 /\ 1 # 0
      OBVIOUS
    <3> QED
      BY <1>5, <3>1, Zenon
  <2> QED
    BY <1>3, <1>4, <1>5, <2>1 DEF InProgress
<1>7. r = s
  BY <1>6, LeadsOn
<1>8. Match(text, s.tokens, items, sized)
  BY DEF Stage
<1>9. 1 \in 1 .. Len(items) /\ s.tokens[1].type = "primitive"
  <2>1. Len(s.tokens) = 1 /\ s.tokens[1].type = "primitive"
    BY <1>3, <1>4, <1>5, <1>7
  <2>2. Len(items) = 1
    BY <1>8, <2>1 DEF Match
  <2> QED
    BY <2>1, <2>2
<1>10. items[1].type = "primitive"
  BY <1>8, <1>9 DEF Match, IsItem
<1> QED
  BY <1>10 DEF Containers

\* Of a document that is an object or array, the reader has the first token, and it is open.
Begun(items, toks) == items[1].type \in Containers => toks # <<>> /\ toks[1].end = Unset

LEMMA CutRead ==
  ASSUME NEW text \in Seq(Chars), NEW s, NEW items, NEW sized, Stage(text, s, items, {}, sized),
         IsCut(text), Len(json) < Len(text), Good(Here), pos <= Len(json) + 1,
         Leads(text, Here, s) \/ (pos = Len(json) + 1 /\ Begun(items, tokens)), Parse
  PROVE  \/ /\ json' = json /\ result' = None
            /\ Leads(text, Here', s) \/ (pos' = Len(json) + 1 /\ Begun(items, tokens'))
         \/ result' # None /\ (items[1].type \in Containers => result' < 1)
<1>1. /\ Here.pos = pos /\ Here.tokens = tokens /\ Here.super = toksuper
      /\ Open = OpenOf(tokens) /\ pos \in Nat \ {0}
      /\ Len(json) \in Nat /\ Len(text) \in Nat /\ Len(tokens) \in Nat
      /\ tokens \in Seq(TokenRec) /\ toksuper \in 0 .. Len(tokens)
  BY HereIs
<1>2. /\ s.pos = Len(text) + 1 /\ s.tokens \in Seq(TokenRec) /\ Len(s.tokens) = Len(items)
      /\ OpenOf(s.tokens) = {} /\ Len(items) \in Nat /\ Match(text, s.tokens, items, sized)
  BY StageIs DEF Stage
<1>3. NOMEM # None /\ PART # None /\ NOMEM < 1 /\ PART < 1 /\ 0 # None
  BY DEF NOMEM, PART, None
<1>4. ASSUME tokens # <<>>, tokens[1].end = Unset
      PROVE  Open # {}
  <2>1. Len(tokens) # 0
    BY <1>1, <1>4, EmptySeq
  <2>2. 1 \in 1 .. Len(tokens)
    BY <1>1, <2>1
  <2>3. 1 \in OpenOf(tokens)
    BY <1>1, <1>4, <2>2, OpenOfIs
  <2> QED
    BY <1>1, <2>3
<1>5. ASSUME ParseEnd, tokens # <<>> => tokens[1].end = Unset \/ items[1].type \notin Containers
      PROVE  result' # None /\ (items[1].type \in Containers => result' < 1)
  <2>1. result' = IF Open # {} THEN PART ELSE Len(tokens)
    BY <1>5 DEF ParseEnd
  <2>2. result' # None
    <3>1. Len(tokens) # None
      BY <1>1 DEF None
    <3> QED
      BY <1>3, <2>1, <3>1
  <2>3. ASSUME items[1].type \in Containers PROVE result' < 1
    <3>1. CASE tokens = <<>>
      <4>1. Len(tokens) = 0
        BY <3>1
      <4>2. result' = PART \/ result' = 0
        BY <2>1, <4>1
      <4> QED
        BY <1>3, <4>2
    <3>2. CASE tokens # <<>>
      BY <1>3, <1>4, <1>5, <2>1, <2>3, <3>2
    <3> QED
      BY <3>1, <3>2
  <2> QED
    BY <2>2, <2>3
<1>6. CASE ~Leads(text, Here, s)
  <2>1. pos = Len(json) + 1 /\ Begun(items, tokens)
    BY <1>6
  <2>2. pos > Len(json)
    BY <1>1, <2>1
  <2>3. ParseEnd
    BY <2>2, OneCase
  <2> QED
    BY <1>5, <2>1, <2>3 DEF Begun
<1>7. CASE Leads(text, Here, s)
  <2>1. Here # s
    <3>1. pos # Len(text) + 1
      BY <1>1
    <3> QED
      BY <1>1, <1>2, <3>1
  <2>2. InProgress(Here) /\ \E r : Lexeme(text, Here, r) /\ Leads(text, r, s)
    BY <1>7, <2>1, LeadsOn
  <2>3. PICK r : Lexeme(text, Here, r) /\ Leads(text, r, s)
    BY <2>2
  <2>4. tokens = <<>> \/ tokens[1].end = Unset
    BY <1>1, <2>2 DEF InProgress
  <2>5. CASE pos > Len(json)
    <3>1. ParseEnd
      BY <2>5, OneCase
    <3> QED
      BY <1>5, <2>4, <3>1
  <2>6. CASE pos <= Len(json)
    <3>1. CASE Opens(text, Here, r) \/ Closes(text, Here, r)
      <4>1. json' = json /\ ((result' = None /\ Here' = r) \/ result' = NOMEM)
        BY <2>6, <3>1, BracketRead
      <4> QED
        BY <1>3, <2>3, <4>1
    <3>2. CASE StringNext(text, Here, r)
      <4>1. \/ json' = json /\ result' = None /\ Here' = r
            \/ result' = NOMEM \/ result' = PART
        BY <2>6, <3>2, StringRead
      <4> QED
        BY <1>3, <2>3, <4>1
    <3>3. CASE PrimitiveNext(text, Here, r)
      <4> DEFINE tok == JsonToken("primitive", pos, Len(json) + 1)
      <4>1. \/ json' = json /\ result' = None /\ Here' = r
            \/ result' = NOMEM
            \/ /\ json' = json /\ result' = None /\ pos' = Len(json) + 1
               /\ tokens' = CountedOf(Append(tokens, tok), toksuper)
        BY <2>6, <3>3, PrimitiveRead
      <4>2. ASSUME tokens' = CountedOf(Append(tokens, tok), toksuper)
            PROVE  Begun(items, tokens')
        <5>1. tok \in TokenRec
          <6>1. Len(json) + 1 \in Nat
            BY <1>1
          <6> QED
            BY <1>1, <6>1 DEF JsonToken, TokenRec
        <5>2. CASE tokens # <<>>
          <6>1. tokens' # <<>> /\ tokens'[1].end = Unset
            BY <1>1, <2>4, <4>2, <5>1, <5>2, FirstStays
          <6> QED
            BY <6>1 DEF Begun
        <5>3. CASE tokens = <<>>
          <6>1. items[1].type \notin Containers
            BY <1>1, <1>2, <2>3, <3>3, <5>3, OnlyPrimitive
          <6> QED
            BY <6>1 DEF Begun
        <5> QED
          BY <5>2, <5>3
      <4> QED
        BY <1>3, <2>3, <4>1, <4>2
    <3>4. CASE ColonNext(text, Here, r) \/ CommaNext(text, Here, r)
      <4>1. json' = json /\ result' = None /\ Here' = r
        BY <2>6, <3>4, SeparatorRead
      <4> QED
        BY <2>3, <4>1
    <3> QED
      BY <2>3, <3>1, <3>2, <3>3, <3>4 DEF Lexeme
  <2> QED
    BY <1>1, <2>5, <2>6
<1> QED
  BY <1>6, <1>7

-------------------------------------------------------------------------------
(* From what the client means to what the reader finds.                    *)

\* The reader has not returned: it is on its way to s, or where a primitive was cut off.
OnTheWay(text, s) ==
  /\ result = None
  /\ \/ source = "whole" /\ json = text /\ Leads(text, Here, s)
     \/ /\ source = "cut" /\ IsCut(text) /\ Len(json) < Len(text)
        /\ Leads(text, Here, s) \/ (pos = Len(json) + 1 /\ Begun(meant, tokens))

Returned(text, s) ==
  \/ /\ source = "whole"
     /\ \/ result = NOMEM /\ Len(meant) > NumTokens
        \/ json = text /\ Here = s /\ result = Len(meant)
  \/ source = "cut" /\ result # None /\ (meant[1].type \in Containers => result < 1)

ReadInv ==
  source \in {"whole", "cut"} =>
    \E s : /\ Stage(jems.text, s, meant, {}, ~tooDeep)
           /\ OnTheWay(jems.text, s) \/ Returned(jems.text, s)

DocInv == TextInv /\ WriterInv /\ ReadInv

LEMMA Complete ==
  ASSUME WriterInv, opened = <<>>
  PROVE  /\ jems.text \in Seq(Chars)
         /\ \E s : Stage(jems.text, s, meant, {}, ~tooDeep) /\ Leads(jems.text, Fresh, s)
<1>1. PICK under : Link(jems, meant, opened, tooDeep, under)
  BY DEF WriterInv, Linked
<1>2. Opened(opened) = {}
  <2>1. Len(opened) = 0
    OBVIOUS
  <2> QED
    BY <2>1 DEF Opened
<1>3. CanWrite(jems) /\ Reached(jems.text, meant, {}, ~tooDeep, under)
  BY <1>1, <1>2 DEF Link
<1>4. PICK s : Stage(jems.text, s, meant, {}, ~tooDeep)
  BY <1>3 DEF Reached
<1>5. Leads(jems.text, Fresh, s)
  BY <1>4 DEF Stage, AfterText
<1> QED
  BY <1>3, <1>4, <1>5, Zenon DEF CanWrite, Writer

LEMMA PrefixIs ==
  ASSUME NEW text \in Seq(Chars), NEW part \in Prefixes(text)
  PROVE  /\ part \in Seq(Chars) /\ Len(part) < Len(text) /\ Len(part) <= Len(text)
         /\ \A k \in 1 .. Len(part) : part[k] = text[k]
<1> DEFINE L == Len(text)
<1>1. PICK n \in 0 .. L - 1 : part = SubSeq(text, 1, n)
  BY DEF Prefixes
<1>2. L \in Nat
  BY LenProperties
<1> HIDE DEF L
<1>3. n \in Nat /\ n < L /\ n \in 1 - 1 .. L /\ 1 \in 1 .. L + 1 /\ n - 1 + 1 = n
      /\ \A k \in 1 .. n : 1 + k - 1 = k
  BY <1>1, <1>2
<1>4. /\ part \in Seq(Chars) /\ Len(part) = n - 1 + 1
      /\ \A k \in 1 .. n - 1 + 1 : part[k] = text[1 + k - 1]
  BY <1>1, <1>3, SubSeqProperties DEF L
<1>5. /\ part \in Seq(Chars) /\ Len(part) = n
      /\ \A k \in 1 .. n : part[k] = text[k]
  BY <1>3, <1>4
<1>6. n <= L
  BY <1>2, <1>3
<1> QED
  BY <1>3, <1>5, <1>6 DEF L

LEMMA DeliverReads ==
  ASSUME WriterInv, Deliver
  PROVE  ReadInv'
<1>1. opened = <<>>
  BY DEF Deliver
<1> DEFINE text == jems.text
<1>2. text \in Seq(Chars)
  BY <1>1, Complete
<1>3. PICK s : Stage(text, s, meant, {}, ~tooDeep) /\ Leads(text, Fresh, s)
  BY <1>1, Complete
<1>4. ASSUME NEW from, NEW texts, Arrives(from, texts)
      PROVE  /\ source' = from /\ json' \in texts /\ result' = None /\ Here' = Fresh
             /\ meant' = meant /\ jems' = jems /\ tooDeep' = tooDeep
  BY <1>4 DEF Arrives, Here, Fresh, writerVars
<1>5. ASSUME OnTheWay(text, s)', meant' = meant, jems' = jems, tooDeep' = tooDeep
      PROVE  ReadInv'
  BY <1>3, <1>5 DEF ReadInv
<1>6. CASE Arrives("whole", {text})
  <2>1. OnTheWay(text, s)'
    BY <1>3, <1>4, <1>6 DEF OnTheWay
  <2> QED
    BY <1>4, <1>5, <1>6, <2>1
<1>7. CASE Arrives("cut", Prefixes(text))
  <2>1. json' \in Prefixes(text)
    BY <1>4, <1>7
  <2>2. IsCut(text)' /\ Len(json') < Len(text)
    BY <1>2, <1>4, <1>7, <2>1, PrefixIs DEF IsCut
  <2>3. OnTheWay(text, s)'
    BY <1>3, <1>4, <1>7, <2>2 DEF OnTheWay
  <2> QED
    BY <1>4, <1>5, <1>7, <2>3
<1>8. CASE Arrives("damaged", WithoutOne(text))
  BY <1>4, <1>8 DEF ReadInv
<1> QED
  BY <1>6, <1>7, <1>8 DEF Deliver

LEMMA ReadReads ==
  ASSUME TextInv, ReadInv, Read
  PROVE  ReadInv'
<1> DEFINE text == jems.text
           sized == ~tooDeep
<1>1. Parse /\ meant' = meant /\ jems' = jems /\ tooDeep' = tooDeep /\ source' = source
  BY DEF Read, writerVars
<1>2. text \in Seq(Chars) /\ Good(Here) /\ pos <= Len(json) + 1 /\ result = None
  <2>1. /\ pos \in Nat \ {0} /\ tokens \in Seq(TokenRec) /\ Len(tokens) \in Nat
        /\ toksuper \in 0 .. Len(tokens) /\ pos <= Len(json) + 1
    BY ReaderTyped DEF TextInv
  <2>2. toksuper \in Nat /\ toksuper <= Len(tokens)
    BY <2>1
  <2>3. Good(Here)
    BY <2>1, <2>2 DEF Good, Here, Place
  <2>4. result = None
    BY <1>1 DEF Parse, ParseOpen, ParseClose, ParseString, ParsePrimitive, ParseSpace,
                ParseColon, ParseComma, ParseEnd, At
  <2> QED
    BY <2>1, <2>3, <2>4 DEF TextInv, CanWrite, Writer
<1>3. CASE source \notin {"whole", "cut"}
  BY <1>1, <1>3 DEF ReadInv
<1>4. CASE source \in {"whole", "cut"}
  <2>1. PICK s : Stage(text, s, meant, {}, sized) /\ (OnTheWay(text, s) \/ Returned(text, s))
    BY <1>4 DEF ReadInv
  <2>2. ASSUME OnTheWay(text, s)' \/ Returned(text, s)' PROVE ReadInv'
    BY <1>1, <2>1, <2>2 DEF ReadInv
  <2>3. OnTheWay(text, s)
    <3>1. NOMEM # None
      BY DEF NOMEM, None
    <3>2. Len(meant) # None
      <4>1. Len(meant) \in Nat
        BY <1>2, <2>1, StageIs
      <4> QED
        BY <4>1 DEF None
    <3> QED
      BY <1>2, <2>1, <3>1, <3>2 DEF Returned
  <2> HIDE DEF text, sized
  <2>4. text' = text
    BY <1>1 DEF text
  <2>5. CASE source = "whole"
    <3>1. json = text /\ Leads(text, Here, s)
      BY <2>3, <2>5 DEF OnTheWay
    <3>2. \/ json' = text /\ result' = None /\ Leads(text, Here', s)
          \/ result' = NOMEM /\ Len(meant) > NumTokens
          \/ json' = text /\ Here' = s /\ result' = Len(meant)
      BY <1>1, <1>2, <2>1, <3>1, WholeRead
    <3>3. OnTheWay(text, s)' \/ Returned(text, s)'
      BY <1>1, <2>4, <2>5, <3>2 DEF OnTheWay, Returned
    <3> QED
      BY <2>2, <3>3
  <2>6. CASE source = "cut"
    <3>1. /\ IsCut(text) /\ Len(json) < Len(text)
          /\ Leads(text, Here, s) \/ (pos = Len(json) + 1 /\ Begun(meant, tokens))
      BY <2>3, <2>6 DEF OnTheWay
    <3>2. \/ /\ json' = json /\ result' = None
             /\ Leads(text, Here', s) \/ (pos' = Len(json) + 1 /\ Begun(meant, tokens'))
          \/ result' # None /\ (meant[1].type \in Containers => result' < 1)
      BY <1>1, <1>2, <2>1, <3>1, CutRead
    <3>3. OnTheWay(text, s)' \/ Returned(text, s)'
      <4>1. json' = json => IsCut(text)'
        BY <2>4, <3>1 DEF IsCut
      <4> QED
        BY <1>1, <2>4, <2>6, <3>1, <3>2, <4>1 DEF OnTheWay, Returned
    <3> QED
      BY <2>2, <3>3
  <2> QED
    BY <1>4, <2>5, <2>6
<1> QED
  BY <1>3, <1>4

LEMMA OthersRead ==
  ASSUME ReadInv, TextNext \/ UNCHANGED textVars, ~Deliver, ~Read
  PROVE  ReadInv'
<1>1. CASE Write \/ WriteKey \/ Close
  BY <1>1 DEF Write, WriteKey, Close, Means, ReadInv
<1>2. CASE OthersSend \/ ParsePattern
  BY <1>2 DEF OthersSend, ParsePattern, Arrives, ReadInv
<1>3. CASE Again
  BY <1>3 DEF Again, ReadInv
<1>4. CASE UNCHANGED textVars
  BY <1>4 DEF textVars, jsmnVars, writerVars, ReadInv, OnTheWay, Returned, Here, IsCut
<1> QED
  BY <1>1, <1>2, <1>3, <1>4 DEF TextNext

LEMMA WriterKeeps ==
  ASSUME WriterInv, TextNext \/ UNCHANGED textVars
  PROVE  WriterInv'
<1>1. CASE UNCHANGED writerVars
  BY <1>1 DEF WriterInv, Linked, writerVars
<1>2. CASE Again
  <2>1. Linked(jems', meant', opened', tooDeep') /\ tooDeep' = FALSE
    BY <1>2, NothingLinked DEF Again
  <2> QED
    BY <2>1 DEF WriterInv, Linked
<1>3. CASE Deliver \/ OthersSend \/ Read \/ ParsePattern \/ UNCHANGED textVars
  BY <1>1, <1>3 DEF Deliver, OthersSend, Read, ParsePattern, Arrives, textVars
<1> QED
  BY <1>2, <1>3, WriteKeeps, WriteKeyKeeps, CloseKept DEF TextNext

LEMMA DocStarts ==
  TextInit => DocInv
<1> SUFFICES ASSUME TextInit PROVE DocInv
  OBVIOUS
<1>1. /\ jems = JemsReset /\ meant = <<>> /\ opened = <<>> /\ tooDeep = FALSE /\ source = ""
  BY DEF TextInit
<1>2. WriterInv
  BY <1>1, NothingLinked DEF WriterInv
<1>3. ReadInv
  BY <1>1 DEF ReadInv
<1> QED
  BY <1>2, <1>3, Starts DEF DocInv

LEMMA DocSteps ==
  DocInv /\ [TextNext]_textVars => DocInv'
<1> SUFFICES ASSUME DocInv, [TextNext]_textVars PROVE DocInv'
  OBVIOUS
<1>1. TextInv /\ WriterInv /\ ReadInv
  BY DEF DocInv
<1>2. TextInv'
  BY <1>1, TextSteps
<1>3. WriterInv'
  BY <1>1, WriterKeeps
<1>4. ReadInv'
  BY <1>1, DeliverReads, ReadReads, OthersRead
<1> QED
  BY <1>2, <1>3, <1>4 DEF DocInv

LEMMA MatchFound ==
  ASSUME tokens \in Seq(TokenRec), NEW sized \in BOOLEAN, Match(json, tokens, meant, sized)
  PROVE  Uncounted(Found) = Uncounted(Expected) /\ (sized => Found = Expected)
<1> DEFINE n == Len(meant)
<1>1. /\ meant \in Seq(ItemRec) /\ Len(tokens) = n
      /\ \A k \in 1 .. n : /\ IsItem(json, tokens[k], meant[k])
                           /\ sized => tokens[k].size = meant[k].size
  BY DEF Match
<1>2. DOMAIN meant = 1 .. n /\ DOMAIN tokens = 1 .. n
  BY <1>1, LenProperties
<1> HIDE DEF n
<1> DEFINE F(k) == [type |-> tokens[k].type, size |-> tokens[k].size,
                    bytes |-> IF tokens[k].type \in Containers THEN <<>>
                              ELSE SubSeq(json, tokens[k].start, tokens[k].end - 1)]
           E(k) == [meant[k] EXCEPT !.bytes = IF meant[k].type = "string" THEN QuotedBytes(@) ELSE @]
<1>3. ASSUME NEW k \in 1 .. n
      PROVE  /\ [F(k) EXCEPT !.size = 0] = [E(k) EXCEPT !.size = 0]
             /\ sized => F(k) = E(k)
  <2> DEFINE t == tokens[k]
             item == meant[k]
             bytes == IF item.type = "string" THEN QuotedBytes(item.bytes) ELSE item.bytes
             piece == SubSeq(json, t.start, t.end - 1)
  <2>1. item \in ItemRec /\ k \in 1 .. Len(meant)
    BY <1>1, ElementOfSeq DEF n
  <2>2. E(k) = [item EXCEPT !.bytes = bytes]
    OBVIOUS
  <2>3. t.type = item.type /\ (sized => t.size = item.size)
        /\ (IF t.type \in Containers THEN item.bytes = <<>> ELSE piece = bytes)
    BY <1>1 DEF IsItem, Said
  <2>4. F(k) = [type |-> t.type, size |-> t.size,
                bytes |-> IF t.type \in Containers THEN <<>> ELSE piece]
    OBVIOUS
  <2>5. t.type \in Containers => bytes = <<>>
    BY <2>3 DEF Containers
  <2> HIDE DEF bytes, piece, t, E, F
  <2>6. item = [type |-> item.type, bytes |-> item.bytes, size |-> item.size]
    BY <2>1 DEF ItemRec
  <2> HIDE DEF item
  <2>7. E(k) = [type |-> item.type, bytes |-> bytes, size |-> item.size]
    BY <2>2, <2>6
  <2>8. F(k) = [type |-> item.type, size |-> t.size, bytes |-> bytes]
    BY <2>3, <2>4, <2>5
  <2>9. sized => F(k) = E(k)
    BY <2>3, <2>7, <2>8
  <2>10. [F(k) EXCEPT !.size = 0] = [type |-> item.type, size |-> 0, bytes |-> bytes]
    BY <2>8
  <2>11. [E(k) EXCEPT !.size = 0] = [type |-> item.type, size |-> 0, bytes |-> bytes]
    BY <2>7
  <2> QED
    BY <2>9, <2>10, <2>11
<1>4. Found = [k \in 1 .. n |-> F(k)] /\ Expected = [k \in 1 .. n |-> E(k)]
  BY <1>2 DEF Found, Expected
<1> HIDE DEF F, E
<1>5. sized => Found = Expected
  BY <1>3, <1>4
<1>6. /\ Uncounted(Found) = [k \in 1 .. n |-> [F(k) EXCEPT !.size = 0]]
      /\ Uncounted(Expected) = [k \in 1 .. n |-> [E(k) EXCEPT !.size = 0]]
  BY <1>4 DEF Uncounted
<1> QED
  BY <1>3, <1>5, <1>6

LEMMA DocumentSeen ==
  DocInv => DocumentRead /\ CutRefused
<1> SUFFICES ASSUME DocInv PROVE DocumentRead /\ CutRefused
  OBVIOUS
<1>1. TextInv /\ WriterInv /\ ReadInv
  BY DEF DocInv
<1>2. CASE source = "whole" /\ result # None
  <2> DEFINE text == jems.text
  <2>1. PICK s : /\ Stage(text, s, meant, {}, ~tooDeep)
                 /\ OnTheWay(text, s) \/ Returned(text, s)
    BY <1>1, <1>2 DEF ReadInv
  <2>2. \/ result = NOMEM /\ Len(meant) > NumTokens
        \/ json = text /\ Here = s /\ result = Len(meant)
    BY <1>2, <2>1 DEF OnTheWay, Returned
  <2>3. /\ Len(meant) \in Nat /\ NumTokens \in Nat
        /\ tokens \in Seq(TokenRec) /\ Len(tokens) <= NumTokens
    BY <1>1, WriterTyped, ReaderTyped, NumTokensAssumption DEF TextInv
  <2>4. Match(text, s.tokens, meant, ~tooDeep) /\ (~tooDeep) \in BOOLEAN
    BY <2>1 DEF Stage
  <2> HIDE DEF text
  <2>5. CASE result = NOMEM /\ Len(meant) > NumTokens
    <3>1. ~(Len(meant) <= NumTokens)
      BY <2>3, <2>5
    <3> QED
      BY <1>2, <2>5, <3>1 DEF DocumentRead, CutRefused
  <2>6. CASE json = text /\ Here = s /\ result = Len(meant)
    <3>1. s.tokens = tokens
      BY <2>6 DEF Here
    <3>2. Uncounted(Found) = Uncounted(Expected) /\ (~tooDeep => Found = Expected)
      BY <2>3, <2>4, <2>6, <3>1, MatchFound
    <3>3. Len(tokens) = Len(meant)
      BY <2>4, <3>1 DEF Match
    <3>4. Len(meant) <= NumTokens
      BY <2>3, <3>3
    <3> QED
      BY <1>2, <2>6, <3>2, <3>4 DEF DocumentRead, CutRefused
  <2> QED
    BY <2>2, <2>5, <2>6
<1>3. CASE source = "cut" /\ meant[1].type \in Containers /\ result # None
  <2>1. \E s : OnTheWay(jems.text, s) \/ Returned(jems.text, s)
    BY <1>1, <1>3 DEF ReadInv
  <2>2. result < 1
    BY <1>3, <2>1 DEF OnTheWay, Returned
  <2> QED
    BY <1>3, <2>2 DEF DocumentRead, CutRefused
<1> QED
  BY <1>2, <1>3 DEF DocumentRead, CutRefused

(* What jems has written, jsmn reads back, every item with its bytes, and  *)
(* with as many items in it as it has if the levels have sufficed, or it   *)
(* says that the tokens do not suffice (jems_string and its like,          *)
(* jsmn_parse).                                                            *)
THEOREM TextReadsDocument ==
  TextSpec => []DocumentRead
<1>1. DocInv => DocumentRead
  BY DocumentSeen
<1> QED
  BY <1>1, DocStarts, DocSteps, PTL DEF TextSpec

(* An object or array of which the end is missing is never read as one     *)
(* (jems_writer of tstat_model.c, jsmn_parse).                             *)
THEOREM TextRefusesCut ==
  TextSpec => []CutRefused
<1>1. DocInv => CutRefused
  BY DocumentSeen
<1> QED
  BY <1>1, DocStarts, DocSteps, PTL DEF TextSpec
-------------------------------------------------------------------------------
(* Patterns.  In an object that holds no others keys and values take       *)
(* turns, so that a pattern can be compared pair by pair.                  *)

InPairs(items) ==
  IsFlat(items) =>
    /\ Len(items) % 2 = 1
    /\ \A k \in 2 .. Len(items) : IF k % 2 = 0 THEN items[k].type = "string" ELSE items[k].size = 0

LEMMA PairAdded ==
  ASSUME NEW items \in Seq(ItemRec), InPairs(items),
         NEW parent \in 1 .. Len(items), items[parent].type = "object",
         NEW key \in ItemRec, key.type = "string", NEW item \in ItemRec, item.size = 0
  PROVE  InPairs(Add(Add(items, parent, key), Len(Add(items, parent, key)), item))
<1> DEFINE n == Len(items)
           one == Add(items, parent, key)
           two == Add(one, Len(one), item)
<1>1. n \in Nat /\ parent \in Nat /\ parent # 0 /\ parent <= n /\ parent \in 0 .. n
  BY LenProperties
<1>2. MoreItems(one, items, parent, key)
  BY <1>1, ItemsMore
<1> HIDE DEF one
<1>3. /\ one \in Seq(ItemRec) /\ Len(one) = n + 1 /\ one[n + 1] = key
      /\ \A k \in 1 .. n : /\ one[k].type = items[k].type
                           /\ one[k].size = items[k].size + (IF k = parent THEN 1 ELSE 0)
  BY <1>2, Zenon DEF MoreItems, n
<1>4. MoreItems(two, one, Len(one), item)
  <2>1. Len(one) \in 0 .. Len(one)
    BY <1>1, <1>3
  <2> QED
    BY <1>3, <2>1, ItemsMore
<1> HIDE DEF two, n
<1>5. /\ two \in Seq(ItemRec) /\ Len(two) = n + 2 /\ two[n + 2] = item
      /\ \A k \in 1 .. n + 1 : /\ two[k].type = one[k].type
                               /\ two[k].size = one[k].size + (IF k = n + 1 THEN 1 ELSE 0)
  <2>1. /\ two \in Seq(ItemRec) /\ Len(two) = Len(one) + 1 /\ two[Len(one) + 1] = item
        /\ \A k \in 1 .. Len(one) : /\ two[k].type = one[k].type
                                    /\ two[k].size = one[k].size + (IF k = Len(one) THEN 1 ELSE 0)
    BY <1>4, Zenon DEF MoreItems
  <2>2. (n + 1) + 1 = n + 2
    BY <1>1
  <2> QED
    BY <1>3, <2>1, <2>2
<1>6. SUFFICES ASSUME IsFlat(two)
               PROVE  /\ (n + 2) % 2 = 1
                      /\ \A k \in 2 .. n + 2 :
                           IF k % 2 = 0 THEN two[k].type = "string" ELSE two[k].size = 0
  BY <1>5 DEF InPairs, one, two
<1>7. \A k \in 1 .. n : two[k].type = items[k].type
  <2>1. \A k \in 1 .. n : k \in 1 .. n + 1
    BY <1>1
  <2> QED
    BY <1>3, <1>5, <2>1
<1>8. two[1].type = "object" /\ \A k \in 2 .. n + 2 : two[k].type \notin Containers
  BY <1>5, <1>6 DEF IsFlat
<1>9. IsFlat(items)
  <2>1. 1 \in 1 .. n /\ \A k \in 2 .. n : k \in 1 .. n /\ k \in 2 .. n + 2
    BY <1>1
  <2>2. items # <<>>
    <3>1. Len(<<>>) = 0 /\ n # 0
      BY <1>1
    <3> QED
      BY <3>1 DEF n
  <2> QED
    BY <1>7, <1>8, <2>1, <2>2 DEF IsFlat, n
<1>10. parent = 1
  <2>1. CASE parent # 1
    <3>1. parent \in 2 .. n + 2 /\ parent \in 1 .. n
      BY <1>1, <2>1
    <3> QED
      BY <1>7, <1>8, <3>1 DEF Containers
  <2> QED
    BY <2>1
<1>11. /\ n % 2 = 1
       /\ \A k \in 2 .. n : IF k % 2 = 0 THEN items[k].type = "string" ELSE items[k].size = 0
  BY <1>9 DEF InPairs, n
<1>12. (n + 1) % 2 = 0 /\ (n + 2) % 2 = 1
  BY <1>1, <1>11
<1>13. ASSUME NEW k \in 2 .. n + 2
       PROVE  IF k % 2 = 0 THEN two[k].type = "string" ELSE two[k].size = 0
  <2>1. k \in 2 .. n \/ k = n + 1 \/ k = n + 2
    BY <1>1
  <2>2. CASE k \in 2 .. n
    <3>1. k \in 1 .. n /\ k \in 1 .. n + 1 /\ k # 1 /\ k # n + 1
      BY <1>1, <2>2
    <3>2. items[k].size \in Nat
      <4>1. items[k] \in ItemRec
        BY <3>1, ElementOfSeq DEF n
      <4> QED
        BY <4>1 DEF ItemRec
    <3>3. two[k].type = items[k].type
      BY <1>7, <3>1
    <3>4. two[k].size = (items[k].size + 0) + 0
      BY <1>3, <1>5, <1>10, <3>1
    <3> QED
      BY <1>11, <2>2, <3>2, <3>3, <3>4
  <2>3. CASE k = n + 1
    <3>1. n + 1 \in 1 .. n + 1
      BY <1>1
    <3> QED
      BY <1>3, <1>5, <1>12, <2>3, <3>1
  <2>4. CASE k = n + 2
    BY <1>5, <1>12, <2>4, 1 # 0
  <2> QED
    BY <2>1, <2>2, <2>3, <2>4
<1> QED
  BY <1>12, <1>13

LEMMA PairsKept ==
  ASSUME WriterInv, InPairs(meant), TextNext \/ UNCHANGED textVars
  PROVE  InPairs(meant')
<1> DEFINE P == ParentOf(opened)
<1>1. meant \in Seq(ItemRec) /\ Len(meant) \in Nat /\ P \in 0 .. Len(meant)
  BY WriterTyped
<1>2. opened # <<>> => P # 0 /\ meant[P].type \in Containers
  <2>1. PICK under : Link(jems, meant, opened, tooDeep, under)
    BY DEF WriterInv, Linked
  <2>2. opened \in Seq(Nat \ {0}) /\ \A i \in 1 .. Len(opened) : meant[opened[i]].type \in Containers
    BY <2>1 DEF Link, Nested
  <2>3. opened # <<>> => Len(opened) \in 1 .. Len(opened)
    BY <2>2
  <2> QED
    BY <2>2, <2>3, ElementOfSeq DEF ParentOf
<1>3. CASE Write
  <2>1. PICK item \in Values : Means(Append(Counting(meant, Parent), item), item)
    BY <1>3 DEF Write
  <2> DEFINE more == Add(meant, P, item)
  <2>2. meant' = more
    <3>1. Append(Counting(meant, Parent), item) = more
      BY DEF Add, Parent, ParentOf
    <3> HIDE DEF more
    <3> QED
      BY <2>1, <3>1, MeansIs
  <2>3. item \in ItemRec /\ P \in 0 .. Len(meant)
    BY <1>1, ValuesAre
  <2>4. MoreItems(more, meant, P, item)
    BY <1>1, <2>3, ItemsMore
  <2> HIDE DEF more
  <2>5. /\ Len(more) = Len(meant) + 1
        /\ \A k \in 1 .. Len(meant) : more[k].type = meant[k].type
    BY <2>4, Zenon DEF MoreItems
  <2>6. CASE meant = <<>>
    <3>1. Len(meant) = 0
      BY <2>6
    <3>2. Len(more) % 2 = 1 /\ 2 .. Len(more) = {}
      BY <2>5, <3>1
    <3> QED
      BY <2>2, <3>2 DEF InPairs
  <2>7. CASE opened # <<>> /\ meant[P].type # "object"
    <3>1. ~IsFlat(more)
      <4> SUFFICES ASSUME IsFlat(more) PROVE FALSE
        OBVIOUS
      <4>1. P \in 1 .. Len(meant) /\ (P = 1 \/ P \in 2 .. Len(more))
        <5> HIDE DEF P
        <5> QED
          BY <1>1, <1>2, <2>5, <2>7
      <4>2. more[P].type = "object" \/ more[P].type \notin Containers
        BY <4>1 DEF IsFlat
      <4>3. more[P].type = meant[P].type
        BY <2>5, <4>1
      <4> QED
        BY <1>2, <2>7, <4>2, <4>3
    <3> QED
      BY <2>2, <3>1 DEF InPairs
  <2> QED
    BY <1>3, <2>6, <2>7 DEF Write, InObject, Parent, ParentOf
<1>4. CASE WriteKey
  <2>1. PICK key \in Keys, item \in Values :
          Means(Counting(meant, Parent) \o <<[Item("string", key) EXCEPT !.size = 1], item>>, item)
    BY <1>4 DEF WriteKey
  <2> DEFINE k == Item("string", key)
             one == Add(meant, P, k)
             two == Add(one, Len(one), item)
  <2>2. opened # <<>> /\ meant[P].type = "object"
    BY <1>4 DEF WriteKey, InObject, Parent, ParentOf
  <2>3. key \in Seq(Chars) /\ item \in ItemRec /\ item.size = 0 /\ k \in ItemRec /\ k.type = "string"
    BY ValuesAre, TextAssumption DEF Item, ItemRec
  <2>4. P \in 1 .. Len(meant)
    <3> HIDE DEF P
    <3> QED
      BY <1>1, <1>2, <2>2
  <2>5. Len(one) = Len(meant) + 1
    BY <1>1, <2>3, AddedItems
  <2>6. meant' = two
    <3>1. Counting(meant, P) \o <<[k EXCEPT !.size = 1], item>> = Add(one, Len(meant) + 1, item)
      BY <1>1, <2>3, TwoAdded
    <3>2. Parent = P
      BY DEF Parent, ParentOf
    <3>3. meant' = Counting(meant, Parent) \o <<[k EXCEPT !.size = 1], item>>
      BY <2>1, MeansIs
    <3> HIDE DEF P, one, k
    <3> QED
      BY <2>5, <3>1, <3>2, <3>3
  <2> HIDE DEF k, P
  <2>7. InPairs(two)
    BY <1>1, <2>2, <2>3, <2>4, PairAdded
  <2> HIDE DEF two
  <2> QED
    BY <2>6, <2>7
<1>5. CASE Again
  BY <1>5 DEF Again, InPairs, IsFlat
<1>6. CASE ~Write /\ ~WriteKey /\ ~Again
  <2>1. meant' = meant
    BY <1>6 DEF TextNext, Close, Deliver, OthersSend, Read, ParsePattern, Arrives, writerVars, textVars
  <2> QED
    BY <2>1
<1> QED
  BY <1>3, <1>4, <1>5, <1>6

\* The document that a pattern is compared with is the one that was meant.
Compared ==
  source = "pattern" =>
    document.tokens \in Seq(TokenRec) /\ Match(document.text, document.tokens, meant, FALSE)

PatternInv == DocInv /\ InPairs(meant) /\ Compared

LEMMA DocumentKept ==
  ASSUME DocInv, ParsePattern
  PROVE  Compared'
<1> DEFINE text == jems.text
<1>1. /\ source = "whole" /\ result > 0 /\ meant' = meant
      /\ document' = [text |-> json, tokens |-> tokens]
  BY DEF ParsePattern, Arrives, writerVars, Parsed
<1>2. PICK s : /\ Stage(text, s, meant, {}, ~tooDeep)
               /\ OnTheWay(text, s) \/ Returned(text, s)
  BY <1>1 DEF DocInv, ReadInv
<1>3. json = text /\ Here = s
  BY <1>1, <1>2 DEF OnTheWay, Returned, None, NOMEM
<1>4. Match(text, s.tokens, meant, FALSE)
  BY <1>2 DEF Stage, Match
<1>5. s.tokens = tokens
  BY <1>3 DEF Here
<1>6. tokens \in Seq(TokenRec)
  BY ReaderTyped DEF DocInv, TextInv
<1> HIDE DEF text
<1>7. document'.tokens = tokens /\ document'.text = json
  BY <1>1
<1>8. Match(document'.text, document'.tokens, meant', FALSE)
  BY <1>1, <1>3, <1>4, <1>5, <1>7
<1> QED
  BY <1>6, <1>7, <1>8 DEF Compared

LEMMA PatternSteps ==
  PatternInv /\ [TextNext]_textVars => PatternInv'
<1> SUFFICES ASSUME PatternInv, [TextNext]_textVars PROVE PatternInv'
  OBVIOUS
<1>1. DocInv /\ WriterInv /\ InPairs(meant) /\ Compared
  BY DEF PatternInv, DocInv
<1>2. DocInv'
  BY <1>1, DocSteps
<1>3. InPairs(meant)'
  BY <1>1, PairsKept
<1>4. Compared'
  <2>1. CASE ParsePattern
    BY <1>1, <2>1, DocumentKept
  <2>2. CASE Read \/ UNCHANGED textVars
    <3>1. source' = source /\ document' = document /\ meant' = meant
      BY <2>2 DEF Read, writerVars, textVars
    <3> QED
      BY <1>1, <3>1 DEF Compared
  <2>3. CASE Write \/ WriteKey \/ Close \/ Deliver \/ OthersSend \/ Again
    <3>1. source' # "pattern"
      BY <2>3 DEF Write, WriteKey, Close, Deliver, OthersSend, Again, Means, Arrives
    <3> QED
      BY <3>1 DEF Compared
  <2> QED
    BY <2>1, <2>2, <2>3 DEF TextNext
<1> QED
  BY <1>2, <1>3, <1>4 DEF PatternInv

\* What is expected of an item, and found in a token.
ExpectedOf(item) == [item EXCEPT !.bytes = IF item.type = "string" THEN QuotedBytes(@) ELSE @]

FoundIn(text, t) ==
  [type |-> t.type, size |-> t.size,
   bytes |-> IF t.type \in Containers THEN <<>> ELSE SubSeq(text, t.start, t.end - 1)]

Wildcard == Item("primitive", <<"?">>)

\* A token of the document and one of the pattern; one of the pattern alone.
SameToken(text, u, other, t) ==
  u.type = t.type /\ SubSeq(text, u.start, u.end - 1) = SubSeq(other, t.start, t.end - 1)

Stands(other, t) == t.type = "primitive" /\ SubSeq(other, t.start, t.end - 1) = <<"?">>

LEMMA KeyCompared ==
  ASSUME NEW item \in ItemRec, NEW text, NEW u \in TokenRec, IsItem(text, u, item),
         NEW other, NEW t \in TokenRec, t.type = "string", item.type = "string"
  PROVE  /\ ~Stands(other, t)
         /\ SameToken(text, u, other, t) <=> FoundIn(other, t).bytes = ExpectedOf(item).bytes
<1> DEFINE a == SubSeq(text, u.start, u.end - 1)
           b == SubSeq(other, t.start, t.end - 1)
           q == QuotedBytes(item.bytes)
<1>1. u.type = "string" /\ u.type \notin Containers /\ t.type \notin Containers
  BY DEF IsItem, Containers
<1>2. a = q
  BY <1>1 DEF IsItem, Said
<1> HIDE DEF a, b, q
<1>3. FoundIn(other, t).bytes = b
  BY <1>1 DEF FoundIn, b
<1>4. ExpectedOf(item).bytes = q
  BY DEF ExpectedOf, ItemRec, q
<1>5. SameToken(text, u, other, t) <=> a = b
  BY <1>1 DEF SameToken, a, b
<1> QED
  BY <1>1, <1>2, <1>3, <1>4, <1>5 DEF Stands

LEMMA ValueCompared ==
  ASSUME NEW item \in ItemRec, NEW text, NEW u \in TokenRec, IsItem(text, u, item),
         NEW other, NEW t \in TokenRec,
         t.type \notin Containers, item.type \notin Containers, t.size = 0, item.size = 0
  PROVE  Stands(other, t) \/ SameToken(text, u, other, t)
         <=> FoundIn(other, t) = Wildcard \/ FoundIn(other, t) = ExpectedOf(item)
<1> DEFINE a == SubSeq(text, u.start, u.end - 1)
           b == SubSeq(other, t.start, t.end - 1)
           q == Said(item)
           any == <<"?">>
<1>1. u.type = item.type /\ a = q
  BY DEF IsItem
<1> HIDE DEF a, b, any
<1>2. FoundIn(other, t) = [type |-> t.type, size |-> 0, bytes |-> b]
  BY DEF FoundIn, b
<1>3. ExpectedOf(item) = [type |-> item.type, size |-> 0, bytes |-> q]
  <2>1. item = [type |-> item.type, bytes |-> item.bytes, size |-> 0]
    BY DEF ItemRec
  <2>2. q = IF item.type = "string" THEN QuotedBytes(item.bytes) ELSE item.bytes
    BY DEF Said
  <2>3. ExpectedOf(item) = [item EXCEPT !.bytes = q]
    BY <2>2 DEF ExpectedOf
  <2> HIDE DEF q
  <2> QED
    BY <2>1, <2>3
<1>4. Wildcard = [type |-> "primitive", size |-> 0, bytes |-> any]
  BY DEF Item, Wildcard, any
<1> HIDE DEF q
<1>5. FoundIn(other, t) = Wildcard <=> t.type = "primitive" /\ b = any
  BY <1>2, <1>4
<1>6. FoundIn(other, t) = ExpectedOf(item) <=> t.type = item.type /\ b = q
  BY <1>2, <1>3
<1>7. Stands(other, t) <=> t.type = "primitive" /\ b = any
  BY Zenon DEF Stands, b, any
<1>8. SameToken(text, u, other, t) <=> u.type = t.type /\ a = b
  BY Zenon DEF SameToken, a, b
<1> QED
  BY <1>1, <1>5, <1>6, <1>7, <1>8

LEMMA FoundIs ==
  ASSUME tokens \in Seq(TokenRec), meant \in Seq(ItemRec)
  PROVE  /\ Len(Found) = Len(tokens) /\ Len(Expected) = Len(meant)
         /\ Found = <<>> <=> Len(tokens) = 0
         /\ \A k \in 1 .. Len(tokens) : Found[k] = FoundIn(json, tokens[k])
         /\ \A k \in 1 .. Len(meant) : Expected[k] = ExpectedOf(meant[k])
<1> DEFINE n == Len(tokens)
           m == Len(meant)
           F(k) == FoundIn(json, tokens[k])
           E(k) == ExpectedOf(meant[k])
<1>1. n \in Nat /\ m \in Nat /\ DOMAIN tokens = 1 .. n /\ DOMAIN meant = 1 .. m
  BY LenProperties
<1>2. Found = [k \in 1 .. n |-> F(k)] /\ Expected = [k \in 1 .. m |-> E(k)]
  BY <1>1 DEF Found, Expected, FoundIn, ExpectedOf
<1> HIDE DEF n, m, F, E
<1>3. Len(Found) = n /\ Len(Expected) = m /\ (Found = <<>> <=> n = 0)
  BY <1>1, <1>2
<1>4. (\A k \in 1 .. n : Found[k] = F(k)) /\ (\A k \in 1 .. m : Expected[k] = E(k))
  BY <1>2
<1> QED
  BY <1>3, <1>4 DEF n, m, F, E

\* The pairs that a pattern has are those of the document that comes first.
LEMMA PairsCompared ==
  ASSUME tokens \in Seq(TokenRec), meant \in Seq(ItemRec), document.tokens \in Seq(TokenRec),
         Match(document.text, document.tokens, meant, FALSE),
         InPairs(meant), IsFlat(meant), IsPattern(Found)
  PROVE  LET patt == Parsed(json, tokens)
         IN  /\ Len(document.tokens) = Len(meant)
             /\ Len(tokens) % 2 = 1 /\ Len(meant) % 2 = 1
             /\ TokenMatches(document, patt, 1)
             /\ \A n \in 1 .. (Len(tokens) - 1) \div 2 :
                  2 * n + 1 <= Len(meant) =>
                    (TokenMatches(document, patt, 2 * n) /\ TokenMatches(document, patt, 2 * n + 1)
                       <=> Suits(Pairs(Found)[n], Pairs(Expected)[n]))
<1> DEFINE p == Len(tokens)
           c == Len(meant)
           patt == Parsed(json, tokens)
<1>1. p \in Nat /\ c \in Nat /\ Len(document.tokens) = c
  BY LenProperties DEF Match
<1>2. /\ Len(Found) = p /\ Len(Expected) = c
      /\ \A k \in 1 .. p : Found[k] = FoundIn(json, tokens[k])
      /\ \A k \in 1 .. c : Expected[k] = ExpectedOf(meant[k])
      /\ p # 0
  BY FoundIs DEF IsPattern, IsFlat
<1>3. /\ \A k \in 1 .. p : tokens[k] \in TokenRec
      /\ \A k \in 1 .. c : meant[k] \in ItemRec /\ document.tokens[k] \in TokenRec
                           /\ IsItem(document.text, document.tokens[k], meant[k])
  BY <1>1, ElementOfSeq DEF Match
<1>4. /\ \A k \in 2 .. c : meant[k].type \notin Containers
      /\ c % 2 = 1
      /\ \A k \in 2 .. c : IF k % 2 = 0 THEN meant[k].type = "string" ELSE meant[k].size = 0
  BY DEF IsFlat, InPairs
<1>5. /\ p % 2 = 1 /\ Found[1].type = "object"
      /\ \A k \in 2 .. p : Found[k].type \notin Containers
      /\ \A n \in 1 .. (p - 1) \div 2 : Found[2 * n].type = "string" /\ Found[2 * n + 1].size = 0
  BY <1>2 DEF IsPattern, IsFlat, Pairs
<1> HIDE DEF p, c
<1>6. \A k : patt.tokens = tokens /\ patt.text = json
             /\ BytesOf(patt, k) = SubSeq(json, tokens[k].start, tokens[k].end - 1)
             /\ BytesOf(document, k) = SubSeq(document.text, document.tokens[k].start,
                                              document.tokens[k].end - 1)
  BY DEF Parsed, BytesOf
<1>7. \A k \in 1 .. p : Found[k].type = tokens[k].type /\ Found[k].size = tokens[k].size
  BY <1>2 DEF FoundIn
<1> HIDE DEF patt
<1>8. TokenMatches(document, patt, 1)
  <2>1. 1 \in 1 .. p
    BY <1>1, <1>2
  <2> QED
    BY <1>5, <1>6, <1>7, <2>1 DEF TokenMatches, Containers
<1>9. ASSUME NEW n \in 1 .. (p - 1) \div 2, 2 * n + 1 <= c
      PROVE  TokenMatches(document, patt, 2 * n) /\ TokenMatches(document, patt, 2 * n + 1)
               <=> Suits(Pairs(Found)[n], Pairs(Expected)[n])
  <2> DEFINE i == 2 * n
             j == 2 * n + 1
  <2>1. n \in Nat /\ i \in 2 .. p /\ j \in 2 .. p /\ i \in 2 .. c /\ j \in 2 .. c
        /\ i % 2 = 0 /\ j % 2 = 1 /\ n \in 1 .. (c - 1) \div 2
    BY <1>1, <1>9
  <2>2. i \in 1 .. p /\ j \in 1 .. p /\ i \in 1 .. c /\ j \in 1 .. c
    BY <1>1, <2>1
  <2>3. Pairs(Found)[n] = <<Found[i], Found[j]>> /\ Pairs(Expected)[n] = <<Expected[i], Expected[j]>>
    BY <1>2, <2>1 DEF Pairs
  <2>4. tokens[i].type = "string" /\ tokens[j].size = 0
    BY <1>5, <1>7, <1>9, <2>2
  <2> HIDE DEF i, j
  <2>5. tokens[i].type \notin Containers /\ tokens[j].type \notin Containers
    BY <1>5, <1>7, <2>1, <2>2
  <2>6. meant[i].type = "string" /\ meant[j].type \notin Containers /\ meant[j].size = 0
    BY <1>4, <2>1, 1 # 0
  <2> DEFINE text == document.text
  <2>7. TokenMatches(document, patt, i) <=> Found[i].bytes = Expected[i].bytes
    <3> DEFINE T == tokens[i]
               U == document.tokens[i]
               M == meant[i]
    <3>1. /\ M \in ItemRec /\ U \in TokenRec /\ IsItem(text, U, M) /\ T \in TokenRec
          /\ T.type = "string" /\ M.type = "string"
      BY <1>3, <2>2, <2>4, <2>6
    <3>2. Found[i].bytes = FoundIn(json, T).bytes /\ Expected[i].bytes = ExpectedOf(M).bytes
      BY <1>2, <2>2
    <3>3. TokenMatches(document, patt, i) <=> Stands(json, T) \/ SameToken(text, U, json, T)
      BY <1>6, <2>5 DEF TokenMatches, Stands, SameToken
    <3> HIDE DEF T, U, M, text
    <3>4. /\ ~Stands(json, T)
          /\ SameToken(text, U, json, T) <=> FoundIn(json, T).bytes = ExpectedOf(M).bytes
      BY ONLY <3>1, KeyCompared
    <3> QED
      BY <3>2, <3>3, <3>4
  <2>8. TokenMatches(document, patt, j) <=> Found[j] = Wildcard \/ Found[j] = Expected[j]
    <3> DEFINE T == tokens[j]
               U == document.tokens[j]
               M == meant[j]
    <3>1. /\ M \in ItemRec /\ U \in TokenRec /\ IsItem(text, U, M) /\ T \in TokenRec
          /\ T.type \notin Containers /\ M.type \notin Containers /\ T.size = 0 /\ M.size = 0
      BY <1>3, <2>2, <2>4, <2>5, <2>6
    <3>2. Found[j] = FoundIn(json, T) /\ Expected[j] = ExpectedOf(M)
      BY <1>2, <2>2
    <3>3. TokenMatches(document, patt, j) <=> Stands(json, T) \/ SameToken(text, U, json, T)
      BY <1>6, <2>5 DEF TokenMatches, Stands, SameToken
    <3> HIDE DEF T, U, M, text
    <3>4. Stands(json, T) \/ SameToken(text, U, json, T)
            <=> FoundIn(json, T) = Wildcard \/ FoundIn(json, T) = ExpectedOf(M)
      BY ONLY <3>1, ValueCompared
    <3> QED
      BY <3>2, <3>3, <3>4
  <2>9. Suits(Pairs(Found)[n], Pairs(Expected)[n])
          <=> /\ Found[i].bytes = Expected[i].bytes
              /\ Found[j] = Wildcard \/ Found[j] = Expected[j]
    BY <2>3 DEF Suits, Wildcard
  <2> QED
    BY <2>7, <2>8, <2>9, Zenon DEF i, j
<1> QED
  BY <1>1, <1>4, <1>5, <1>8, <1>9 DEF p, c, patt

LEMMA PatternSeen ==
  PatternInv => PatternFinds
<1> DEFINE patt == Parsed(json, tokens)
           wanted == Pairs(Found)
           given == Pairs(Expected)
<1> SUFFICES ASSUME PatternInv, source = "pattern", IsFlat(meant), IsPattern(Found)
             PROVE  /\ Answers(FALSE) = {Suit /\ Len(wanted) = Len(given)}
                    /\ ~Suit => Answers(TRUE) = {FALSE}
  BY DEF PatternFinds, ComparesPairs
<1> DEFINE p == Len(tokens)
           c == Len(meant)
           x == (p - 1) \div 2
           y == (c - 1) \div 2
           Fits(k) == TokenMatches(document, patt, k)
           S(n) == Suits(wanted[n], given[n])
<1>1. /\ tokens \in Seq(TokenRec) /\ meant \in Seq(ItemRec) /\ p \in Nat /\ c \in Nat
      /\ document.tokens \in Seq(TokenRec)
      /\ Match(document.text, document.tokens, meant, FALSE) /\ InPairs(meant)
  BY ReaderTyped, WriterTyped DEF PatternInv, DocInv, TextInv, Compared
<1>2. /\ Len(document.tokens) = c /\ p % 2 = 1 /\ c % 2 = 1
      /\ Fits(1)
      /\ \A n \in 1 .. x : 2 * n + 1 <= c => (Fits(2 * n) /\ Fits(2 * n + 1) <=> S(n))
  BY <1>1, PairsCompared
<1>3. Len(Found) = p /\ Len(Expected) = c
  BY <1>1, FoundIs
<1> HIDE DEF p, c
<1>4. /\ x \in Nat /\ y \in Nat /\ p = 2 * x + 1 /\ c = 2 * y + 1
  <2>1. p \in Nat /\ p % 2 = 1 /\ c \in Nat /\ c % 2 = 1
    BY <1>1, <1>2
  <2>2. x \in Nat /\ p = 2 * x + 1
    BY ONLY <2>1
  <2>3. y \in Nat /\ c = 2 * y + 1
    BY ONLY <2>1
  <2> QED
    BY <2>2, <2>3
<1> HIDE DEF x, y
<1>5. DOMAIN wanted = 1 .. x /\ Len(wanted) = x /\ Len(given) = y
  BY <1>3, <1>4 DEF Pairs, x, y
<1>6. Suit <=> x <= y /\ \A n \in 1 .. x : S(n)
  BY <1>5 DEF Suit
<1> HIDE DEF wanted, given, patt, S, Fits
<1>7. x <= y => ((\A k \in 1 .. p : Fits(k)) <=> \A n \in 1 .. x : S(n))
  <2> SUFFICES ASSUME x <= y PROVE (\A k \in 1 .. p : Fits(k)) <=> \A n \in 1 .. x : S(n)
    OBVIOUS
  <2>1. ASSUME NEW n \in 1 .. x
        PROVE  /\ 2 * n \in 1 .. p /\ 2 * n + 1 \in 1 .. p
               /\ Fits(2 * n) /\ Fits(2 * n + 1) <=> S(n)
    BY <1>2, <1>4
  <2>2. ASSUME NEW k \in 1 .. p
        PROVE  k = 1 \/ \E n \in 1 .. x : k = 2 * n \/ k = 2 * n + 1
    <3>1. k \div 2 \in 0 .. x /\ (k = 2 * (k \div 2) \/ k = 2 * (k \div 2) + 1)
      BY <1>4
    <3>2. k # 1 => k \div 2 # 0
      BY <1>4
    <3>3. k # 1 => k \div 2 \in 1 .. x
      BY <1>4, <3>1, <3>2
    <3> QED
      BY <3>1, <3>3
  <2> QED
    BY <1>2, <2>1, <2>2
<1>8. (\E k \in 1 .. p : ~Fits(k)) <=> ~(\A k \in 1 .. p : Fits(k))
  OBVIOUS
<1>9. Len(patt.tokens) = p
  BY DEF Parsed, patt, p
<1> DEFINE misses(extras) == \/ c < p
                             \/ ~extras /\ c # p
                             \/ \E k \in 1 .. p : ~Fits(k)
<1>10. \A extras \in BOOLEAN :
         Answers(extras) = IF misses(extras) THEN {FALSE} ELSE IF c = p THEN {TRUE} ELSE BOOLEAN
  BY <1>2, <1>9 DEF Answers, PatternMatches, Fits, patt
<1>11. (c < p <=> ~(x <= y)) /\ (c = p <=> x = y)
  BY <1>4
<1>12. misses(TRUE) <=> ~Suit
  BY <1>6, <1>7, <1>8, <1>11
<1>13. misses(FALSE) <=> ~(Suit /\ x = y)
  BY <1>6, <1>7, <1>8, <1>11
<1> HIDE DEF misses
<1>14. /\ Answers(TRUE) = IF misses(TRUE) THEN {FALSE} ELSE IF c = p THEN {TRUE} ELSE BOOLEAN
       /\ Answers(FALSE) = IF misses(FALSE) THEN {FALSE} ELSE IF c = p THEN {TRUE} ELSE BOOLEAN
  BY <1>10
<1>15. Suit \in BOOLEAN
  BY DEF Suit
<1>16. ~Suit => Answers(TRUE) = {FALSE}
  BY <1>12, <1>14
<1>17. Answers(FALSE) = {Suit /\ x = y}
  <2>1. CASE misses(FALSE)
    BY <1>13, <1>14, <2>1
  <2>2. CASE ~misses(FALSE)
    <3>1. Suit /\ x = y
      BY <1>13, <1>15, <2>2
    <3> QED
      BY <1>11, <1>14, <2>2, <3>1
  <2> QED
    BY <2>1, <2>2
<1> QED
  BY <1>5, <1>16, <1>17

(* A pattern of keys and values matches, of the documents that jems has    *)
(* written and that are flat, those that have these keys and values, a ?   *)
(* for any value, and no others; and if others are allowed, none that does *)
(* not begin with these (jsmn_pattern_matches).                            *)
THEOREM PatternFindsPairs ==
  TextSpec => []PatternFinds
<1>1. TextInit => PatternInv
  <2>1. TextInit => InPairs(meant) /\ Compared
    BY DEF TextInit, InPairs, IsFlat, Compared
  <2> QED
    BY <2>1, DocStarts DEF PatternInv
<1>2. PatternInv /\ [TextNext]_textVars => PatternInv'
  BY PatternSteps
<1>3. PatternInv => PatternFinds
  BY PatternSeen
<1> QED
  BY <1>1, <1>2, <1>3, PTL DEF TextSpec
====
