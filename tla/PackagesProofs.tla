----------------------------- MODULE PackagesProofs -----------------------------
(***************************************************************************)
(* Who builds the packages and the factories, in what order, and who may   *)
(* have to wait: whatever the programs that build them do besides calling  *)
(* one another.                                                            *)
(***************************************************************************)
EXTENDS Packages, TLAPS

\* The program of a unit of the model.
ProgramOf(u) == Program(lang, packages, u)

(***************************************************************************)
(* The inductive invariant                                                 *)
(***************************************************************************)

\* The calls that have been made are of the model, and so are the programs.
TypesOK ==
  /\ model \in DOMAIN Models
  /\ DOMAIN code = Units /\ \A u \in Units : code[u] = ProgramOf(u)
  /\ once \in [Units -> {"idle", "running", "done"}]
  /\ pc \in [Units -> Nat]
  /\ stack \in [Threads -> Seq(Units)]
  /\ todo \in [Threads -> Seq(Units)]
  /\ got \in [Threads -> SUBSET Units]

\* A unit that is being built is in the stack of one thread, once.
OneBuilder ==
  /\ \A t \in Threads : \A i \in 1 .. Len(stack[t]) : once[stack[t][i]] = "running"
  /\ \A t, s \in Threads : \A i \in 1 .. Len(stack[t]), j \in 1 .. Len(stack[s]) :
       stack[t][i] = stack[s][j] => t = s /\ i = j
  /\ \A u \in Units : once[u] = "running" => \E t \in Threads : \E i \in 1 .. Len(stack[t]) : stack[t][i] = u

\* Below the top of a stack, each unit waits for the one above it.
Chained ==
  \A t \in Threads : \A i \in 1 .. (Len(stack[t]) - 1) :
    ~Ended(stack[t][i]) /\ Instruction(stack[t][i]).do = "call" /\ Instruction(stack[t][i]).unit = stack[t][i + 1]

\* A unit that is built has executed its program, one that nobody asked for nothing.
Executed ==
  \A u \in Units : /\ pc[u] <= Len(code[u])
                   /\ once[u] = "done" => Ended(u)

\* In Go, what was called is built.
CalledIsBuilt ==
  lang = "go" =>
    /\ \A t \in Threads : \A u \in got[t] : once[u] = "done"
    /\ \A u \in Units : \A i \in 1 .. pc[u] : code[u][i].do = "call" => once[code[u][i].unit] = "done"

\* In TypeScript, one call is executed at a time.
OneCaller == lang = "ts" => \A t, s \in Threads : Building(t) /\ Building(s) => t = s

IInv == TypesOK /\ OneBuilder /\ Chained /\ Executed /\ CalledIsBuilt /\ OneCaller

\* Programs have a length and call units of the model.
LEMMA LenNat == ASSUME TypesOK, NEW u \in Units
  PROVE /\ Len(code[u]) \in Nat
        /\ \A i \in 1 .. Len(code[u]) : code[u][i].do = "call" => code[u][i].unit \in Units
BY PackagesAssumption DEF TypesOK, ProgramOf, Units, packages, lang

\* A thread that builds has a unit at the top of its stack.
LEMMA Tops == ASSUME TypesOK, NEW t \in Threads, Building(t)
  PROVE /\ Len(stack[t]) \in Nat \ {0}
        /\ Current(t) = stack[t][Len(stack[t])]
        /\ Current(t) \in Units
        /\ stack[t] \in Seq(Units)
<1>1. stack[t] \in Seq(Units) /\ stack[t] # <<>>
  BY DEF TypesOK, Building
<1>2. Len(stack[t]) \in Nat /\ Len(stack[t]) # 0
  BY <1>1
<1> QED BY <1>1, <1>2 DEF Current

\* Nothing is being built at first.
LEMMA InitInv == ASSUME Init PROVE IInv
<1>1. TypesOK
  <2>1. \A r \in Requests : r \in Seq(Units)
    <3>1. \A u, v \in Units : <<u>> \in Seq(Units) /\ <<u, v>> \in Seq(Units)
      OBVIOUS
    <3>2. \A p \in DOMAIN packages : UnitOf("package", p) \in Units /\ UnitOf("factory", p) \in Units
      BY DEF Units, UnitsOf
    <3> QED BY <3>1, <3>2 DEF Requests
  <2> QED BY <2>1 DEF Init, TypesOK, ProgramOf
<1>2. \A t \in Threads : Len(stack[t]) = 0 /\ stack[t] = <<>>
  BY DEF Init
<1>3. \A u \in Units : once[u] = "idle" /\ pc[u] = 0
  BY DEF Init
<1>4. OneBuilder /\ Chained /\ OneCaller
  BY <1>2, <1>3 DEF OneBuilder, Chained, OneCaller, Building
<1>5. Executed
  BY <1>1, <1>3, LenNat DEF Executed
<1>6. CalledIsBuilt
  BY <1>3 DEF CalledIsBuilt, Init
<1> QED BY <1>1, <1>4, <1>5, <1>6 DEF IInv

\* The model and its code do not change.
Fixed == model' = model /\ code' = code

\* What is derived from the model does not change either.
LEMMA SameModel == ASSUME Fixed
  PROVE lang' = lang /\ packages' = packages /\ Units' = Units /\ \A u : ProgramOf(u)' = ProgramOf(u)
BY DEF Fixed, lang, packages, Units, ProgramOf

\* What holds when a thread starts to build a unit: nobody builds it, and it is
\* what the unit at the top of the stack calls, if there is one.
LEMMA StartKeeps ==
  ASSUME IInv, NEW t \in Threads, NEW u \in Units, Start(t, u),
         Building(t) => ~Ended(Current(t)) /\ Instruction(Current(t)).do = "call" /\ Instruction(Current(t)).unit = u,
         lang = "ts" => \A o \in Threads \ {t} : ~Building(o)
  PROVE  IInv'
<1> DEFINE n == Len(stack[t])
<1>1. once[u] = "idle" /\ once' = [once EXCEPT ![u] = "running"] /\ stack' = [stack EXCEPT ![t] = Append(@, u)]
      /\ Fixed /\ pc' = pc /\ todo' = todo /\ got' = got
  BY DEF Start, Fixed
<1>2. TypesOK /\ OneBuilder /\ Chained /\ Executed /\ CalledIsBuilt /\ OneCaller
  BY DEF IInv
<1>3. stack[t] \in Seq(Units) /\ n \in Nat
  BY <1>2 DEF TypesOK
<1>4. Len(stack'[t]) = n + 1 /\ stack'[t][n + 1] = u /\ \A i \in 1 .. n : stack'[t][i] = stack[t][i]
  BY <1>1, <1>2, <1>3 DEF TypesOK
<1>5. \A s \in Threads \ {t} : stack'[s] = stack[s]
  BY <1>1, <1>2 DEF TypesOK
<1>6. \A v \in Units : once'[v] = IF v = u THEN "running" ELSE once[v]
  BY <1>1, <1>2 DEF TypesOK
<1>7. TypesOK'
  <2>1. stack' \in [Threads -> Seq(Units)]
    BY <1>1, <1>2, <1>3 DEF TypesOK
  <2>2. once' \in [Units -> {"idle", "running", "done"}]
    BY <1>1, <1>2 DEF TypesOK
  <2> QED BY <1>1, <1>2, <2>1, <2>2, SameModel DEF TypesOK, Fixed
<1>8. \A s \in Threads : \A i \in 1 .. Len(stack[s]) : stack[s][i] \in Units /\ stack[s][i] # u
  BY <1>1, <1>2 DEF TypesOK, OneBuilder
<1>9. OneBuilder'
  <2>1. \A s \in Threads : \A i \in 1 .. Len(stack'[s]) :
          stack'[s][i] = u \/ (i \in 1 .. Len(stack[s]) /\ stack'[s][i] = stack[s][i])
    BY <1>3, <1>4, <1>5
  <2>2. \A s \in Threads : \A i \in 1 .. Len(stack'[s]) : once'[stack'[s][i]] = "running"
    <3>1. \A s \in Threads : \A i \in 1 .. Len(stack[s]) : once'[stack[s][i]] = "running"
      BY <1>2, <1>6, <1>8 DEF OneBuilder
    <3>2. once'[u] = "running"
      BY <1>6
    <3> QED BY <2>1, <3>1, <3>2
  <2>3. ASSUME NEW s \in Threads, NEW i \in 1 .. Len(stack'[s]), stack'[s][i] = u
        PROVE  s = t /\ i = n + 1
    <3>1. CASE s = t
      <4>1. i \in 1 .. (n + 1) /\ ~(i \in 1 .. n)
        BY <2>3, <3>1, <1>4, <1>8
      <4> HIDE DEF n
      <4> QED BY <3>1, <4>1, <1>3
    <3>2. CASE s # t
      BY <2>3, <3>2, <1>5, <1>8
    <3> QED BY <3>1, <3>2
  <2>4. ASSUME NEW r \in Threads, NEW s \in Threads, NEW i \in 1 .. Len(stack'[r]),
               NEW j \in 1 .. Len(stack'[s]),
               stack'[r][i] = stack'[s][j]
        PROVE  r = s /\ i = j
    BY <2>1, <2>3, <2>4, <1>2, <1>8 DEF OneBuilder
  <2>5. ASSUME NEW v \in Units, once'[v] = "running"
        PROVE  \E s \in Threads : \E i \in 1 .. Len(stack'[s]) : stack'[s][i] = v
    <3>1. CASE v = u
      BY <3>1, <1>3, <1>4
    <3>2. CASE v # u
      <4>1. PICK s \in Threads : \E i \in 1 .. Len(stack[s]) : stack[s][i] = v
        BY <3>2, <2>5, <1>2, <1>6 DEF OneBuilder
      <4>2. PICK i \in 1 .. Len(stack[s]) : stack[s][i] = v
        BY <4>1
      <4>3. i \in 1 .. Len(stack'[s]) /\ stack'[s][i] = v
        BY <4>2, <1>3, <1>4, <1>5
      <4> QED BY <4>3
    <3> QED BY <3>1, <3>2
  <2> QED BY <2>2, <2>4, <2>5, <1>1, SameModel DEF OneBuilder
<1>10. Chained'
  <2>1. \A v : Ended(v)' = Ended(v) /\ Instruction(v)' = Instruction(v)
    BY <1>1 DEF Ended, Instruction, Fixed
  <2>2. ASSUME NEW s \in Threads, NEW i \in 1 .. (Len(stack'[s]) - 1)
        PROVE  /\ ~Ended(stack'[s][i])
               /\ Instruction(stack'[s][i]).do = "call"
               /\ Instruction(stack'[s][i]).unit = stack'[s][i + 1]
    <3>1. CASE s # t
      BY <3>1, <1>2, <1>5 DEF Chained
    <3>2. CASE s = t /\ i < n
      BY <3>2, <1>2, <1>3, <1>4 DEF Chained
    <3>3. CASE s = t /\ i = n
      <4>1. Building(t) /\ Current(t) = stack[t][n]
        BY <3>3, <1>3 DEF Building, Current
      <4> QED BY <4>1, <3>3, <1>3, <1>4
    <3> QED BY <3>1, <3>2, <3>3, <1>3, <1>4
  <2> QED BY <2>1, <2>2 DEF Chained
<1>11. Executed'
  BY <1>1, <1>2, <1>6, SameModel DEF Executed, Ended, Fixed
<1>12. CalledIsBuilt'
  <2>1. \A v \in Units : once[v] = "done" => once'[v] = "done"
    BY <1>1, <1>6
  <2>2. \A v \in Units : pc[v] \in Nat /\ pc[v] <= Len(code[v])
    BY <1>2 DEF TypesOK, Executed
  <2>3. \A v \in Units : \A i \in 1 .. pc[v] : code[v][i].do = "call" => code[v][i].unit \in Units
    BY <1>2, <2>2, LenNat
  <2>4. \A s \in Threads : got[s] \subseteq Units
    BY <1>2 DEF TypesOK
  <2> QED BY <1>1, <1>2, <2>1, <2>3, <2>4, SameModel DEF CalledIsBuilt, Fixed
<1>13. OneCaller'
  BY <1>1, <1>5, SameModel DEF OneCaller, Building
<1> QED BY <1>7, <1>9, <1>10, <1>11, <1>12, <1>13 DEF IInv

\* A unit executes one instruction: a statement, or a call of what is available.
LEMMA AdvanceKeeps ==
  ASSUME IInv, NEW t \in Threads, Building(t), ~Ended(Current(t)),
         pc' = [pc EXCEPT ![Current(t)] = @ + 1],
         Fixed, once' = once, stack' = stack, todo' = todo, got' = got,
         Instruction(Current(t)).do = "call" /\ lang = "go" => once[Instruction(Current(t)).unit] = "done"
  PROVE  IInv'
<1> DEFINE n == Len(stack[t])
           c == Current(t)
<1>1. TypesOK /\ OneBuilder /\ Chained /\ Executed /\ CalledIsBuilt /\ OneCaller
  BY DEF IInv
<1>2. n \in Nat \ {0} /\ c = stack[t][n] /\ c \in Units
  BY <1>1, Tops
<1>3. pc[c] \in Nat /\ pc[c] < Len(code[c]) /\ Len(code[c]) \in Nat
  BY <1>1, <1>2, LenNat DEF TypesOK, Executed, Ended
<1>4. pc' \in [Units -> Nat] /\ \A v \in Units : pc'[v] = IF v = c THEN pc[c] + 1 ELSE pc[v]
  <2> HIDE DEF c
  <2> QED BY <1>1, <1>2, <1>3 DEF TypesOK, c
<1>5. TypesOK'
  BY <1>1, <1>4, SameModel DEF TypesOK, Fixed
<1>6. OneBuilder' /\ OneCaller'
  BY <1>1, SameModel DEF OneBuilder, OneCaller, Building
<1>7. Chained'
  <2>1. ASSUME NEW s \in Threads, NEW i \in 1 .. (Len(stack[s]) - 1)
        PROVE  stack[s][i] \in Units /\ stack[s][i] # c /\ i \in 1 .. Len(stack[s])
    <3>1. stack[s] \in Seq(Units) /\ Len(stack[s]) \in Nat
      BY <1>1 DEF TypesOK
    <3>2. i \in 1 .. Len(stack[s]) /\ n \in 1 .. n
      BY <3>1, <1>2
    <3>3. stack[s][i] = c => s = t /\ i = n
      BY <3>2, <1>1, <1>2 DEF OneBuilder
    <3>4. stack[s][i] # c
      BY <3>3, <3>1, <1>2
    <3> QED BY <3>1, <3>2, <3>4
  <2>2. \A v \in Units \ {c} : pc'[v] = pc[v]
    BY <1>4
  <2>3. ASSUME NEW s \in Threads, NEW i \in 1 .. (Len(stack[s]) - 1)
        PROVE  /\ ~Ended(stack[s][i])'
               /\ Instruction(stack[s][i]).do' = "call"
               /\ Instruction(stack[s][i]).unit' = stack[s][i + 1]
    <3>1. pc'[stack[s][i]] = pc[stack[s][i]]
      BY <2>1, <2>2
    <3>2. Ended(stack[s][i])' = Ended(stack[s][i]) /\ Instruction(stack[s][i])' = Instruction(stack[s][i])
      BY <3>1 DEF Ended, Instruction, Fixed
    <3> QED BY <3>2, <1>1 DEF Chained
  <2> QED BY <2>3 DEF Chained
<1>8. Executed'
  <2>1. once[c] = "running"
    BY <1>1, <1>2 DEF OneBuilder
  <2>2. ASSUME NEW v \in Units
        PROVE  pc'[v] <= Len(code[v]) /\ (once[v] = "done" => pc'[v] = Len(code[v]))
    <3> HIDE DEF c
    <3>1. CASE v = c
      BY <3>1, <2>1, <1>3, <1>4
    <3>2. CASE v # c
      BY <3>2, <1>1, <1>4 DEF Executed, Ended
    <3> QED BY <3>1, <3>2
  <2> QED BY <2>2, SameModel DEF Executed, Ended, Fixed
<1>9. CalledIsBuilt'
  <2>1. ASSUME lang = "go", NEW v \in Units, NEW i \in 1 .. pc'[v], code[v][i].do = "call"
        PROVE  once[code[v][i].unit] = "done"
    <3>1. CASE i \in 1 .. pc[v]
      BY <3>1, <2>1, <1>1 DEF CalledIsBuilt
    <3>2. CASE i \notin 1 .. pc[v]
      <4>1. v = c /\ i = pc[c] + 1
        <5> HIDE DEF c
        <5> QED BY <3>2, <1>3, <1>4
      <4> QED BY <4>1, <2>1 DEF Instruction
    <3> QED BY <3>1, <3>2
  <2> QED BY <2>1, <1>1, SameModel DEF CalledIsBuilt, Fixed
<1> QED BY <1>5, <1>6, <1>7, <1>8, <1>9 DEF IInv

\* A unit is built and leaves the stack.
LEMMA ReturnKeeps ==
  ASSUME IInv, NEW t \in Threads, Return(t)
  PROVE  IInv'
<1> DEFINE n == Len(stack[t])
           c == Current(t)
<1>1. TypesOK /\ OneBuilder /\ Chained /\ Executed /\ CalledIsBuilt /\ OneCaller
  BY DEF IInv
<1>2. Building(t) /\ Ended(c) /\ once' = [once EXCEPT ![c] = "done"]
      /\ stack' = [stack EXCEPT ![t] = SubSeq(@, 1, Len(@) - 1)]
      /\ Fixed /\ pc' = pc /\ todo' = todo /\ got' = got
  BY DEF Return, Fixed
<1>3. n \in Nat \ {0} /\ c = stack[t][n] /\ c \in Units /\ stack[t] \in Seq(Units)
  BY <1>1, <1>2, Tops
<1>4. stack'[t] = SubSeq(stack[t], 1, n - 1) /\ \A s \in Threads \ {t} : stack'[s] = stack[s]
  BY <1>1, <1>2 DEF TypesOK
<1>5. Len(stack'[t]) = n - 1 /\ stack'[t] \in Seq(Units) /\ \A i \in 1 .. (n - 1) : stack'[t][i] = stack[t][i]
  <2> HIDE DEF c
  <2> QED BY <1>3, <1>4
<1>6. \A v \in Units : once'[v] = IF v = c THEN "done" ELSE once[v]
  BY <1>1, <1>2 DEF TypesOK
<1>7. TypesOK'
  <2>1. stack' \in [Threads -> Seq(Units)]
    <3> HIDE DEF n, c
    <3> QED BY <1>1, <1>2, <1>5 DEF TypesOK
  <2>2. once' \in [Units -> {"idle", "running", "done"}]
    BY <1>1, <1>2 DEF TypesOK
  <2> QED BY <1>1, <1>2, <2>1, <2>2, SameModel DEF TypesOK, Fixed
<1>8. ASSUME NEW s \in Threads, NEW i \in 1 .. Len(stack'[s])
      PROVE  i \in 1 .. Len(stack[s]) /\ stack'[s][i] = stack[s][i] /\ stack[s][i] \in Units /\ stack[s][i] # c
  <2>1. stack[s] \in Seq(Units) /\ Len(stack[s]) \in Nat
    BY <1>1 DEF TypesOK
  <2>2. i \in 1 .. Len(stack[s]) /\ stack'[s][i] = stack[s][i] /\ (s = t => i # n)
    <3> HIDE DEF c
    <3>1. CASE s = t
      BY <3>1, <1>3, <1>5
    <3>2. CASE s # t
      BY <3>2, <1>4
    <3> QED BY <3>1, <3>2
  <2>3. stack[s][i] = c => s = t /\ i = n
    BY <2>2, <1>1, <1>3 DEF OneBuilder
  <2> QED BY <2>1, <2>2, <2>3
<1>9. OneBuilder'
  <2>1. \A s \in Threads : \A i \in 1 .. Len(stack'[s]) : once'[stack'[s][i]] = "running"
    BY <1>8, <1>1, <1>6 DEF OneBuilder
  <2>2. ASSUME NEW r \in Threads, NEW s \in Threads, NEW i \in 1 .. Len(stack'[r]),
               NEW j \in 1 .. Len(stack'[s]), stack'[r][i] = stack'[s][j]
        PROVE  r = s /\ i = j
    BY <2>2, <1>8, <1>1 DEF OneBuilder
  <2>3. ASSUME NEW v \in Units, once'[v] = "running"
        PROVE  \E s \in Threads : \E i \in 1 .. Len(stack'[s]) : stack'[s][i] = v
    <3>1. v # c /\ once[v] = "running"
      BY <2>3, <1>6
    <3>2. PICK s \in Threads : \E i \in 1 .. Len(stack[s]) : stack[s][i] = v
      BY <3>1, <1>1 DEF OneBuilder
    <3>3. PICK i \in 1 .. Len(stack[s]) : stack[s][i] = v
      BY <3>2
    <3>4. i \in 1 .. Len(stack'[s]) /\ stack'[s][i] = v
      <4>1. CASE s = t
        <5>1. i # n
          BY <4>1, <3>1, <3>3, <1>3
        <5>2. i \in 1 .. (n - 1)
          <6> HIDE DEF c
          <6> QED BY <5>1, <4>1, <1>3
        <5> QED BY <5>2, <4>1, <3>3, <1>5
      <4>2. CASE s # t
        BY <4>2, <3>3, <1>4
      <4> QED BY <4>1, <4>2
    <3> QED BY <3>4
  <2> QED BY <2>1, <2>2, <2>3, <1>2, SameModel DEF OneBuilder
<1>10. Chained'
  <2>1. \A v : Ended(v)' = Ended(v) /\ Instruction(v)' = Instruction(v)
    BY <1>2 DEF Ended, Instruction, Fixed
  <2>2. ASSUME NEW s \in Threads, NEW i \in 1 .. (Len(stack'[s]) - 1)
        PROVE  /\ ~Ended(stack'[s][i])
               /\ Instruction(stack'[s][i]).do = "call"
               /\ Instruction(stack'[s][i]).unit = stack'[s][i + 1]
    <3>1. CASE s # t
      BY <3>1, <1>1, <1>4 DEF Chained
    <3>2. CASE s = t
      <4>1. i \in 1 .. (n - 1) /\ i + 1 \in 1 .. (n - 1)
        <5> HIDE DEF c
        <5> QED BY <3>2, <1>3, <1>5
      <4> QED BY <4>1, <3>2, <1>1, <1>5 DEF Chained
    <3> QED BY <3>1, <3>2
  <2> QED BY <2>1, <2>2 DEF Chained
<1>11. Executed'
  BY <1>1, <1>2, <1>6, SameModel DEF Executed, Ended, Fixed
<1>12. CalledIsBuilt'
  <2>1. \A v \in Units : once[v] = "done" => once'[v] = "done"
    BY <1>6
  <2>2. \A v \in Units : pc[v] \in Nat /\ pc[v] <= Len(code[v])
    BY <1>1 DEF TypesOK, Executed
  <2>3. \A v \in Units : \A i \in 1 .. pc[v] : code[v][i].do = "call" => code[v][i].unit \in Units
    BY <1>1, <2>2, LenNat
  <2>4. \A s \in Threads : got[s] \subseteq Units
    BY <1>1 DEF TypesOK
  <2> QED BY <1>1, <1>2, <2>1, <2>3, <2>4, SameModel DEF CalledIsBuilt, Fixed
<1>13. OneCaller'
  <2>1. \A s \in Threads : Building(s)' => Building(s)
    <3>1. \A s \in Threads \ {t} : Building(s)' => Building(s)
      BY <1>4 DEF Building
    <3> QED BY <3>1, <1>2
  <2>2. lang' = lang
    BY <1>2, SameModel
  <2>3. ASSUME lang = "ts", NEW r \in Threads, NEW s \in Threads, Building(r)', Building(s)'
        PROVE  r = s
    BY <2>1, <2>3, <1>1 DEF OneCaller
  <2> QED BY <2>2, <2>3 DEF OneCaller
<1> QED BY <1>7, <1>9, <1>10, <1>11, <1>12, <1>13 DEF IInv

\* A caller is given its next unit.
LEMMA GivenKeeps ==
  ASSUME IInv, NEW t \in Threads, todo[t] # <<>>, Available(Head(todo[t])),
         todo' = [todo EXCEPT ![t] = Tail(@)], got' = [got EXCEPT ![t] = @ \cup {Head(todo[t])}],
         Fixed, once' = once, pc' = pc, stack' = stack
  PROVE  IInv'
<1>1. TypesOK /\ OneBuilder /\ Chained /\ Executed /\ CalledIsBuilt /\ OneCaller
  BY DEF IInv
<1>2. todo[t] \in Seq(Units) /\ Head(todo[t]) \in Units /\ Tail(todo[t]) \in Seq(Units)
  BY <1>1 DEF TypesOK
<1>3. TypesOK'
  BY <1>1, <1>2, SameModel DEF TypesOK, Fixed
<1>4. OneBuilder' /\ OneCaller' /\ Chained' /\ Executed'
  BY <1>1, SameModel DEF OneBuilder, OneCaller, Building, Chained, Executed, Ended, Instruction, Fixed
<1>5. CalledIsBuilt'
  <2>1. lang = "go" => once[Head(todo[t])] = "done"
    BY DEF Available
  <2>2. \A s \in Threads : \A u \in got'[s] : u \in got[s] \/ u = Head(todo[t])
    BY <1>1 DEF TypesOK
  <2> QED BY <1>1, <2>1, <2>2, SameModel DEF CalledIsBuilt, Fixed
<1> QED BY <1>3, <1>4, <1>5 DEF IInv

\* Every action of a thread is a start, an instruction, a return or a delivery.
LEMMA NextInv == ASSUME IInv, [Next]_vars PROVE IInv'
<1>1. CASE UNCHANGED vars
  <2>1. Fixed /\ once' = once /\ pc' = pc /\ stack' = stack /\ todo' = todo /\ got' = got
    BY <1>1 DEF vars, Fixed
  <2> QED BY <2>1, SameModel
          DEF IInv, TypesOK, OneBuilder, OneCaller, Building, Chained, Executed, CalledIsBuilt, Ended, Instruction, Fixed
<1>2. ASSUME NEW t \in Threads, Get(t)
      PROVE  IInv'
  <2> DEFINE u == Head(todo[t])
  <2>1. todo[t] # <<>> /\ ~Building(t) /\ MayRun(t)
    BY <1>2 DEF Get
  <2>2. u \in Units
    BY <2>1 DEF IInv, TypesOK
  <2>3. CASE Start(t, u)
    BY <2>1, <2>2, <2>3, StartKeeps DEF MayRun
  <2>4. CASE ~Start(t, u)
    <3>1. /\ Available(u)
          /\ todo' = [todo EXCEPT ![t] = Tail(@)]
          /\ got' = [got EXCEPT ![t] = @ \cup {u}]
          /\ UNCHANGED <<model, code, once, pc, stack, meta, lost>>
      BY <1>2, <2>4 DEF Get
    <3> QED BY <3>1, <2>1, GivenKeeps DEF Fixed
  <2> QED BY <2>3, <2>4
<1>3. ASSUME NEW t \in Threads, Call(t)
      PROVE  IInv'
  <2> DEFINE u == Instruction(Current(t)).unit
             c == Current(t)
  <2>1. Building(t) /\ ~Ended(c) /\ Instruction(c).do = "call"
    BY <1>3 DEF Call
  <2>2. u \in Units
    <3>1. TypesOK /\ Executed
      BY DEF IInv
    <3>2. c \in Units
      BY <2>1, <3>1, Tops
    <3>3. pc[c] \in Nat /\ pc[c] <= Len(code[c]) /\ pc[c] # Len(code[c])
      BY <3>1, <3>2, <2>1 DEF TypesOK, Executed, Ended
    <3>4. pc[c] + 1 \in 1 .. Len(code[c])
      <4>1. Len(code[c]) \in Nat
        BY <3>1, <3>2, LenNat
      <4> HIDE DEF c
      <4> QED BY <3>3, <4>1
    <3> QED BY <2>1, <3>1, <3>2, <3>4, LenNat DEF Instruction
  <2>3. CASE Start(t, u)
    <3>1. lang = "ts" => \A o \in Threads \ {t} : ~Building(o)
      BY <2>1 DEF IInv, OneCaller
    <3> QED BY <2>1, <2>2, <2>3, <3>1, StartKeeps
  <2>4. CASE ~Start(t, u)
    <3>1. /\ Available(u)
          /\ pc' = [pc EXCEPT ![Current(t)] = @ + 1]
          /\ UNCHANGED <<model, code, once, stack, todo, got, meta, lost>>
      BY <1>3, <2>4 DEF Call
    <3>2. lang = "go" => once[u] = "done"
      BY <3>1 DEF Available
    <3> QED BY <3>1, <3>2, <2>1, AdvanceKeeps DEF Fixed
  <2> QED BY <2>3, <2>4
<1>4. ASSUME NEW t \in Threads, Do(t)
      PROVE  IInv'
  BY <1>4, AdvanceKeeps DEF Do, Fixed
<1>5. ASSUME NEW t \in Threads, Return(t)
      PROVE  IInv'
  BY <1>5, ReturnKeeps
<1> QED BY <1>1, <1>2, <1>3, <1>4, <1>5 DEF Next, Step

\* GetPackage and GetFactory, of any number of callers and packages, keep the invariant.
THEOREM Invariance == Spec => []IInv
<1>1. Init => IInv
  BY InitInv
<1>2. IInv /\ [Next]_vars => IInv'
  BY NextInv
<1> QED BY <1>1, <1>2, PTL DEF Spec

(***************************************************************************)
(* What is served                                                          *)
(***************************************************************************)

\* In Go, what a goroutine holds is built, and a unit is built when its program
\* is executed and all that it called is built, and so on down.
BuiltBeforeServed ==
  lang = "go" =>
    /\ \A t \in Threads : \A u \in got[t] : once[u] = "done"
    /\ \A u \in Units : once[u] = "done" =>
         /\ Ended(u)
         /\ \A i \in 1 .. Len(code[u]) : code[u][i].do = "call" => once[code[u][i].unit] = "done"

(***************************************************************************)
(* GetPackage and GetFactory of Go (templates/package/instance.tmpl) give  *)
(* no instance, to a goroutine or to one another, before it and all that   *)
(* its initialization called are built.                                    *)
(***************************************************************************)
THEOREM NothingIsServedEarly == Spec => []BuiltBeforeServed
<1>1. IInv => BuiltBeforeServed
  <2> SUFFICES ASSUME IInv, lang = "go"
               PROVE  /\ \A t \in Threads : \A u \in got[t] : once[u] = "done"
                      /\ \A u \in Units : once[u] = "done" =>
                           /\ Ended(u)
                           /\ \A i \in 1 .. Len(code[u]) :
                                code[u][i].do = "call" => once[code[u][i].unit] = "done"
    BY DEF BuiltBeforeServed
  <2>1. \A u \in Units : once[u] = "done" => Ended(u) /\ pc[u] = Len(code[u])
    BY DEF IInv, Executed, Ended
  <2> QED BY <2>1 DEF IInv, CalledIsBuilt
<1> QED BY <1>1, Invariance, PTL

\* A model is acyclic when among any of its units there is one that calls none
\* of them.
Acyclic(name) ==
  LET m == Models[name].packages
  IN  \A R \in SUBSET UnitsOf(m) : R # {} =>
        \E u \in R :
          LET program == Program(Models[name].lang, m, u)
          IN  \A i \in 1 .. Len(program) : program[i].do = "call" => program[i].unit \notin R

\* A call of the unit would return or start to build it.
Free(u) == once[u] = "idle" \/ Available(u)

\* The thread has an instruction to execute, a unit to return or one to get.
CanStep(t) ==
  IF Building(t)
  THEN Ended(Current(t)) \/ Instruction(Current(t)).do # "call" \/ Free(Instruction(Current(t)).unit)
  ELSE todo[t] # <<>> /\ MayRun(t) /\ Free(Head(todo[t]))

\* As long as a thread has something to get, some thread can go on.
SomeoneGoesOn ==
  (~lost /\ \E t \in Threads : todo[t] # <<>>) => \E t \in Threads : CanStep(t)

\* Of the units being built, one that calls none of the others is at the top of
\* its stack.
LEMMA SomeoneRuns ==
  ASSUME IInv, Acyclic(model), NEW v \in Units, once[v] = "running"
  PROVE  \E t \in Threads : Building(t) /\ CanStep(t)
<1>1. TypesOK /\ OneBuilder /\ Chained /\ Executed
  BY DEF IInv
<1> DEFINE R == {u \in Units : once[u] = "running"}
<1>2. R \in SUBSET Units /\ R # {}
  OBVIOUS
<1>3. PICK u \in R : \A k \in 1 .. Len(code[u]) : code[u][k].do = "call" => code[u][k].unit \notin R
  <2> HIDE DEF R
  <2>1. \A Q \in SUBSET Units : Q # {} =>
          \E u \in Q : \A k \in 1 .. Len(ProgramOf(u)) :
            ProgramOf(u)[k].do = "call" => ProgramOf(u)[k].unit \notin Q
    BY DEF Acyclic, ProgramOf, Units, packages, lang
  <2>2. PICK u \in R : \A k \in 1 .. Len(ProgramOf(u)) :
          ProgramOf(u)[k].do = "call" => ProgramOf(u)[k].unit \notin R
    BY <1>2, <2>1
  <2>3. code[u] = ProgramOf(u)
    BY <1>1, <1>2, <2>2 DEF TypesOK
  <2> QED BY <2>2, <2>3
<1>4. PICK t \in Threads : \E i \in 1 .. Len(stack[t]) : stack[t][i] = u
  BY <1>1 DEF OneBuilder
<1>5. PICK i \in 1 .. Len(stack[t]) : stack[t][i] = u
  BY <1>4
<1>6. stack[t] \in Seq(Units) /\ Len(stack[t]) \in Nat /\ Len(stack[t]) # 0
  BY <1>1, <1>5 DEF TypesOK
<1>7. pc[u] \in Nat /\ Len(code[u]) \in Nat /\ pc[u] <= Len(code[u])
  BY <1>1, LenNat DEF TypesOK, Executed
<1>8. ASSUME ~Ended(u), Instruction(u).do = "call"
      PROVE  Instruction(u).unit \in Units \ R
  <2>1. pc[u] + 1 \in 1 .. Len(code[u])
    BY <1>7, <1>8 DEF Ended
  <2> QED BY <2>1, <1>1, <1>3, <1>8, LenNat DEF Instruction
<1>9. i = Len(stack[t])
  <2> SUFFICES ASSUME i # Len(stack[t])
               PROVE  FALSE
    OBVIOUS
  <2>1. i \in 1 .. (Len(stack[t]) - 1) /\ i + 1 \in 1 .. Len(stack[t])
    BY <1>6
  <2>2. ~Ended(u) /\ Instruction(u).do = "call" /\ Instruction(u).unit = stack[t][i + 1]
    BY <2>1, <1>1, <1>5 DEF Chained
  <2>3. stack[t][i + 1] \in Units /\ once[stack[t][i + 1]] = "running"
    BY <2>1, <1>1, <1>6 DEF OneBuilder
  <2> QED BY <2>2, <2>3, <1>8
<1>10. Building(t) /\ Current(t) = u
  BY <1>5, <1>6, <1>9 DEF Building, Current
<1>11. ~Ended(u) /\ Instruction(u).do = "call" => Free(Instruction(u).unit)
  BY <1>8, <1>1 DEF TypesOK, Free, Available
<1> QED BY <1>10, <1>11 DEF CanStep

(***************************************************************************)
(* No call of GetPackage or GetFactory waits for ever: in TypeScript,      *)
(* whatever the packages, and in Go when no unit needs itself, which the   *)
(* imports of Go forbid between packages.                                  *)
(***************************************************************************)
THEOREM NobodyWaitsForEver ==
  ASSUME \A name \in DOMAIN Models : Models[name].lang # "ts" => Acyclic(name)
  PROVE  Spec => []SomeoneGoesOn
<1>1. IInv => SomeoneGoesOn
  <2> SUFFICES ASSUME IInv, NEW t \in Threads, todo[t] # <<>>
               PROVE  \E s \in Threads : CanStep(s)
    BY DEF SomeoneGoesOn
  <2>1. TypesOK /\ OneBuilder
    BY DEF IInv
  <2>2. CASE \E s \in Threads : Building(s)
    <3>1. PICK s \in Threads : Building(s)
      BY <2>2
    <3>2. Current(s) \in Units /\ once[Current(s)] = "running"
      <4>1. Len(stack[s]) \in 1 .. Len(stack[s])
        BY <3>1, <2>1, Tops
      <4> QED BY <3>1, <4>1, <2>1, Tops DEF OneBuilder
    <3>3. CASE lang # "ts"
      <4>1. Acyclic(model)
        BY <3>3, <2>1 DEF TypesOK, lang
      <4> QED BY <3>2, <4>1, SomeoneRuns
    <3>4. CASE lang = "ts"
      <4>1. ~Ended(Current(s)) /\ Instruction(Current(s)).do = "call"
              => Instruction(Current(s)).unit \in Units
        <5>1. pc[Current(s)] \in Nat /\ pc[Current(s)] <= Len(code[Current(s)])
              /\ Len(code[Current(s)]) \in Nat
          BY <3>2, <2>1, LenNat DEF IInv, TypesOK, Executed
        <5>2. ~Ended(Current(s)) => pc[Current(s)] + 1 \in 1 .. Len(code[Current(s)])
          BY <5>1 DEF Ended
        <5> QED BY <5>2, <3>2, <2>1, LenNat DEF Instruction
      <4>2. \A u \in Units : Free(u)
        BY <3>4, <2>1 DEF Free, Available, TypesOK
      <4> QED BY <3>1, <4>1, <4>2 DEF CanStep
    <3> QED BY <3>3, <3>4
  <2>3. CASE \A s \in Threads : ~Building(s)
    <3>1. Head(todo[t]) \in Units
      BY <2>1 DEF TypesOK
    <3>2. \A s \in Threads : Len(stack[s]) = 0
      BY <2>3, <2>1 DEF Building, TypesOK
    <3>3. once[Head(todo[t])] # "running"
      BY <3>1, <3>2, <2>1 DEF OneBuilder
    <3>4. Free(Head(todo[t]))
      BY <3>1, <3>3, <2>1 DEF Free, Available, TypesOK
    <3>5. MayRun(t)
      BY <2>3 DEF MayRun
    <3> QED BY <3>4, <3>5, <2>3 DEF CanStep
  <2> QED BY <2>2, <2>3
<1> QED BY <1>1, Invariance, PTL

(***************************************************************************)
(* What was served does not change                                         *)
(***************************************************************************)

\* The meta objects of a package, whichever package its factory has.
MetaOf(p) == [meta[p] EXCEPT !.served = FALSE]

\* The package whose statements are executed is the one that is being built, or
\* its factory, which only takes the package.
BuiltIsFinal ==
  [][\A u \in Units : once[u] = "done" =>
       /\ once'[u] = "done"
       /\ u.fn = "package" => MetaOf(u.of)' = MetaOf(u.of)]_vars

\* Every package has meta objects.
MetaOK == DOMAIN meta = DOMAIN packages

\* No step adds or removes the meta objects of a package.
LEMMA MetaKeeps ==
  ASSUME MetaOK, [Next]_vars
  PROVE  MetaOK'
<1>1. \A e : \A p : DOMAIN [meta EXCEPT ![p] = e] = DOMAIN meta
  OBVIOUS
<1>2. CASE UNCHANGED vars
  BY <1>2 DEF vars, MetaOK, packages
<1>3. ASSUME NEW t \in Threads, Get(t) \/ Call(t) \/ Return(t)
      PROVE  MetaOK'
  <2>1. meta' = meta /\ model' = model
    BY <1>3 DEF Get, Call, Return, Start
  <2> QED BY <2>1 DEF MetaOK, packages
<1>4. ASSUME NEW t \in Threads, Do(t)
      PROVE  MetaOK'
  <2>1. model' = model /\ DOMAIN meta' = DOMAIN meta
    BY <1>1, <1>4 DEF Do
  <2> QED BY <2>1 DEF MetaOK, packages
<1> QED BY <1>2, <1>3, <1>4 DEF Next, Step

\* A statement of a unit leaves the packages that are built what they are.
LEMMA StatementKeeps ==
  ASSUME IInv, MetaOK, NEW t \in Threads, Do(t),
         NEW u \in Units, once[u] = "done", u.fn = "package"
  PROVE  MetaOf(u.of)' = MetaOf(u.of)
<1> DEFINE c == Current(t)
           s == Instruction(Current(t))
<1>1. TypesOK /\ OneBuilder /\ Executed
  BY DEF IInv
<1>2. Building(t) /\ ~Ended(c) /\ s.do # "call"
  BY DEF Do
<1>3. c \in Units /\ once[c] = "running"
  <2>1. Len(stack[t]) \in 1 .. Len(stack[t])
    BY <1>1, <1>2, Tops
  <2> QED BY <2>1, <1>1, <1>2, Tops DEF OneBuilder
<1>4. u.of \in DOMAIN meta
  BY DEF MetaOK, Units, UnitsOf, UnitOf
<1>5. CASE c.of # u.of
  <2>1. meta' = meta \/ meta' = [meta EXCEPT ![c.of] = Execute(meta[c.of], s)]
    BY DEF Do
  <2>2. meta'[u.of] = meta[u.of]
    <3> HIDE DEF c, s
    <3> QED BY <2>1, <1>4, <1>5
  <2> QED BY <2>2 DEF MetaOf
<1>6. CASE c.of = u.of
  <2>1. c.fn = "factory"
    <3>1. c # u
      BY <1>3
    <3> HIDE DEF c
    <3> QED BY <3>1, <1>3, <1>6 DEF Units, UnitsOf, UnitOf
  <2>2. code[c] = IF packages[c.of].shared THEN <<CallOf("package", c.of), [do |-> "share"]>> ELSE <<>>
    <3> HIDE DEF c
    <3>1. code[c] = Program(lang, packages, c)
      BY <1>1, <1>3 DEF TypesOK, ProgramOf
    <3> QED BY <3>1, <2>1 DEF Program
  <2>3. s.do = "share"
    <3>1. pc[c] \in Nat /\ pc[c] <= Len(code[c]) /\ pc[c] # Len(code[c])
      BY <1>1, <1>2, <1>3 DEF TypesOK, Executed, Ended
    <3>2. s = code[c][pc[c] + 1]
      BY DEF Instruction
    <3>3. CallOf("package", c.of).do = "call"
      BY DEF CallOf
    <3> HIDE DEF c, s
    <3> QED BY <1>2, <2>2, <3>1, <3>2, <3>3
  <2>4. meta' = meta \/ meta' = [meta EXCEPT ![u.of] = [@ EXCEPT !.served = TRUE]]
    <3>1. meta' = meta \/ meta' = [meta EXCEPT ![u.of] = Execute(@, s)]
      BY <1>6 DEF Do
    <3>2. Execute(meta[u.of], s) = [meta[u.of] EXCEPT !.served = TRUE]
      <4> HIDE DEF s
      <4> QED BY <2>3 DEF Execute
    <3> HIDE DEF s
    <3> QED BY <3>1, <3>2, <1>4
  <2>5. meta'[u.of] = meta[u.of] \/ meta'[u.of] = [meta[u.of] EXCEPT !.served = TRUE]
    BY <2>4, <1>4
  <2>6. [[meta[u.of] EXCEPT !.served = TRUE] EXCEPT !.served = FALSE] = [meta[u.of] EXCEPT !.served = FALSE]
    OBVIOUS
  <2> QED BY <2>5, <2>6 DEF MetaOf
<1> QED BY <1>5, <1>6

(***************************************************************************)
(* A package that is built stays so: whatever the others do meanwhile,     *)
(* nothing changes its meta objects after its GetPackage has returned.     *)
(***************************************************************************)
THEOREM WhatIsServedStays == Spec => BuiltIsFinal
<1>1. Init => MetaOK
  BY DEF Init, MetaOK
<1>2. ASSUME IInv, MetaOK, [Next]_vars, NEW u \in Units, once[u] = "done"
      PROVE  once'[u] = "done" /\ (u.fn = "package" => MetaOf(u.of)' = MetaOf(u.of))
  <2>1. once \in [Units -> {"idle", "running", "done"}]
    BY <1>2 DEF IInv, TypesOK
  <2>2. CASE UNCHANGED vars
    BY <1>2, <2>2 DEF vars, MetaOf
  <2>3. ASSUME NEW t \in Threads, Get(t) \/ Call(t)
        PROVE  once'[u] = "done" /\ MetaOf(u.of)' = MetaOf(u.of)
    <3>1. meta' = meta /\ (once' = once \/ \E v : once[v] = "idle" /\ once' = [once EXCEPT ![v] = "running"])
      BY <2>3 DEF Get, Call, Start
    <3> QED BY <3>1, <2>1, <1>2 DEF MetaOf
  <2>4. ASSUME NEW t \in Threads, Return(t)
        PROVE  once'[u] = "done" /\ MetaOf(u.of)' = MetaOf(u.of)
    <3>1. meta' = meta /\ once' = [once EXCEPT ![Current(t)] = "done"]
      BY <2>4 DEF Return
    <3> QED BY <3>1, <2>1, <1>2 DEF MetaOf
  <2>5. ASSUME NEW t \in Threads, Do(t)
        PROVE  once'[u] = "done" /\ (u.fn = "package" => MetaOf(u.of)' = MetaOf(u.of))
    BY <2>5, <1>2, StatementKeeps DEF Do
  <2> QED BY <1>2, <2>2, <2>3, <2>4, <2>5 DEF Next, Step
<1>3. IInv /\ MetaOK /\ [Next]_vars
        => [\A u \in Units : once[u] = "done" =>
              /\ once'[u] = "done"
              /\ u.fn = "package" => MetaOf(u.of)' = MetaOf(u.of)]_vars
  BY <1>2
<1>4. MetaOK /\ [Next]_vars => MetaOK'
  BY MetaKeeps
<1> QED BY <1>1, <1>3, <1>4, Invariance, PTL DEF Spec, BuiltIsFinal
=============================================================================
