--------------------- MODULE WeakestPrecondition_proofs ---------------------
(***************************************************************************)
(* The search of `lleq wp` is sound, for any arrays, any field and any     *)
(* programs: every counterexample of a program within the scope falsifies  *)
(* the condition the walk has reached, so unsat to the emitted query       *)
(* proves the members equal.  At the end, what it can prove: the programs  *)
(* it is made for, if the solvers answer.                                  *)
(***************************************************************************)
EXTENDS LoopNests_proofs, FunctionTheorems

(***************************************************************************)
(* The parts of a program.                                                 *)
(***************************************************************************)
Tuples == UNION {[1 .. d -> Indices] : d \in Nat}
AnyOperation == UNION {Operations(d) : d \in Nat}
AnyPlace == [dim : Nat, ix : Indices]

LEMMA TupleOf ==
  ASSUME NEW d \in Nat, NEW k \in [1 .. d -> Indices]
  PROVE  k \in Tuples
BY DEF Tuples

LEMMA PlacesGrow ==
  ASSUME NEW d \in Nat
  PROVE  Operations(d) \subseteq AnyOperation /\ Places(d) \subseteq AnyPlace
<1>1. 0 .. d \subseteq Nat
  OBVIOUS
<1>2. Places(d) \subseteq AnyPlace
  BY <1>1 DEF Places, AnyPlace
<1>3. Operations(d) \subseteq AnyOperation
  BY DEF AnyOperation
<1>4. QED
  BY <1>2, <1>3

LEMMA OperationParts ==
  ASSUME NEW d, NEW s \in Operations(d)
  PROVE  /\ s.op \in {"write", "eq", "writeLocal", "readLocal"} /\ s.op # "if" /\ s.op # "for"
         /\ s.val \in ValueTerms(d)
         /\ s.op \in {"write", "eq"} => s.member \in Members /\ s.at \in Places(d)
         /\ s.op \in {"writeLocal", "readLocal"} => s.val \in Scalars
<1>1. CASE s \in [op : {"write", "eq"}, member : Members, at : Places(d), val : ValueTerms(d)]
  BY <1>1
<1>2. CASE s \in [op : {"writeLocal", "readLocal"}, val : Scalars]
  BY <1>2 DEF ValueTerms
<1>3. QED
  BY <1>1, <1>2 DEF Operations

LEMMA StatementParts ==
  ASSUME NEW d, NEW s \in Statements(d)
  PROVE  /\ s.op # "for"
         /\ s.op # "if" => s \in Operations(d)
         /\ s.op = "if" => /\ s.cond \in Conditions(d)
                           /\ s.then \in Seq(Operations(d)) /\ s.else \in Seq(Operations(d))
<1>1. CASE s \in Operations(d)
  BY <1>1, OperationParts
<1>2. CASE s \in [op : {"if"}, cond : Conditions(d), then : Seq(Operations(d)), else : Seq(Operations(d))]
  BY <1>2
<1>3. QED
  BY <1>1, <1>2 DEF Statements

LEMMA ScalarParts ==
  ASSUME NEW v \in Scalars
  PROVE  v.from \in {"const", "input", "local"} /\ (v.from = "const" => v.is \in Values)
BY DEF Scalars

LEMMA ValueParts ==
  ASSUME NEW d, NEW v \in ValueTerms(d)
  PROVE  /\ v.from \in {"const", "input", "local", "member"}
         /\ v.from = "const" => v.is \in Values
         /\ v.from = "member" => v.member \in Members /\ v.at \in Places(d)
<1>1. CASE v \in Scalars
  BY <1>1, ScalarParts
<1>2. CASE v \in [from : {"member"}, member : Members, at : Places(d)]
  BY <1>2
<1>3. QED
  BY <1>1, <1>2 DEF ValueTerms

LEMMA IndexIsTyped ==
  ASSUME NEW d \in Nat, NEW at \in Places(d), NEW k \in [1 .. d -> Indices]
  PROVE  Index(at, k) \in Indices
BY DEF Places, Index

\* What a value is, of each kind.
LEMMA ValueCases ==
  ASSUME NEW v, NEW x, NEW side
  PROVE  /\ v.from = "const" => ValueOf(v, x, side) = v.is
         /\ v.from = "input" => ValueOf(v, x, side) = x.input
         /\ v.from = "local" => ValueOf(v, x, side) = x.local
         /\ v.from = "member" => ValueOf(v, x, side) = x[side][v.member][Index(v.at, x.k)]
BY DEF ValueOf

LEMMA ValueIsTyped ==
  ASSUME NEW d \in Nat, NEW v \in ValueTerms(d), NEW x, NEW side,
         x.k \in [1 .. d -> Indices], x[side] \in Memories, x.input \in Values, x.local \in Values
  PROVE  ValueOf(v, x, side) \in Values
<1>1. CASE v.from = "const"
  BY <1>1, ValueCases, ValueParts
<1>2. CASE v.from = "input"
  BY <1>2, ValueCases
<1>3. CASE v.from = "local"
  BY <1>3, ValueCases
<1>4. CASE v.from = "member"
  <2>1. v.member \in Members /\ v.at \in Places(d)
    BY <1>4, ValueParts
  <2>2. Index(v.at, x.k) \in Indices
    BY <2>1, IndexIsTyped
  <2>3. x[side][v.member][Index(v.at, x.k)] \in Values
    BY <2>1, <2>2 DEF Memories
  <2>4. QED
    BY <1>4, <2>3, ValueCases
<1>5. QED
  BY <1>1, <1>2, <1>3, <1>4, ValueParts

-----------------------------------------------------------------------------
(***************************************************************************)
(* Execution.  A state knows the equations of its past, and that something *)
(* read became stale, for good.                                            *)
(***************************************************************************)
Facts == [s : AnyOperation, k : Tuples, read : Values, value : Values]

States ==
  [w : Memories, local : Values, read : Values, input : Values, stale : BOOLEAN, done : SUBSET Facts]

Later(st, now) == now.input = st.input /\ st.done \subseteq now.done /\ (st.stale => now.stale)

LEMMA LaterLaws ==
  /\ \A st : Later(st, st)
  /\ \A st, now, out : Later(st, now) /\ Later(now, out) => Later(st, out)
BY DEF Later

\* What the next operation uses.
ValueAt(st, s, k) == ValueOf(s.val, [w |-> st.w, k |-> k, input |-> st.input, local |-> st.read], "w")
StaleAt(st, s) == st.stale \/ (s.val.from = "local" /\ st.read # st.local)
FactAt(st, s, k) == [s |-> s, k |-> k, read |-> st.read, value |-> ValueAt(st, s, k)]

LEMMA StepCases ==
  ASSUME NEW st \in States, NEW s, NEW k
  PROVE  /\ s.op = "write" =>
              Step(st, s, k) =
                [w |-> [st.w EXCEPT ![s.member][Index(s.at, k)] = ValueAt(st, s, k)], local |-> st.local,
                 read |-> st.read, input |-> st.input, stale |-> StaleAt(st, s),
                 done |-> st.done \cup {FactAt(st, s, k)}]
         /\ s.op = "eq" =>
              Step(st, s, k) =
                [w |-> st.w, local |-> st.local, read |-> st.read, input |-> st.input,
                 stale |-> StaleAt(st, s), done |-> st.done \cup {FactAt(st, s, k)}]
         /\ s.op = "writeLocal" =>
              Step(st, s, k) =
                [w |-> st.w, local |-> ValueAt(st, s, k), read |-> st.read, input |-> st.input,
                 stale |-> StaleAt(st, s), done |-> st.done]
         /\ s.op = "readLocal" =>
              Step(st, s, k) =
                [w |-> st.w, local |-> st.local, read |-> st.local, input |-> st.input,
                 stale |-> st.stale, done |-> st.done]
<1> DEFINE value == ValueAt(st, s, k)
           stale == StaleAt(st, s)
           done == st.done \cup {FactAt(st, s, k)}
<1>1. Step(st, s, k) =
        CASE s.op = "write"      -> [st EXCEPT !.w[s.member][Index(s.at, k)] = value, !.stale = stale, !.done = done]
          [] s.op = "eq"         -> [st EXCEPT !.stale = stale, !.done = done]
          [] s.op = "writeLocal" -> [st EXCEPT !.local = value, !.stale = stale]
          [] s.op = "readLocal"  -> [st EXCEPT !.read = st.local]
  BY DEF Step, ValueAt, StaleAt, FactAt
<1>2. st = [w |-> st.w, local |-> st.local, read |-> st.read, input |-> st.input, stale |-> st.stale, done |-> st.done]
  BY DEF States
<1> HIDE DEF value, stale, done
<1>3. CASE s.op = "write"
  <2>1. Step(st, s, k) = [st EXCEPT !.w[s.member][Index(s.at, k)] = value, !.stale = stale, !.done = done]
    BY <1>1, <1>3
  <2>2. QED
    BY <1>2, <1>3, <2>1 DEF value, stale, done
<1>4. CASE s.op = "eq"
  <2>1. Step(st, s, k) = [st EXCEPT !.stale = stale, !.done = done]
    BY <1>1, <1>4
  <2>2. QED
    BY <1>2, <1>4, <2>1 DEF value, stale, done
<1>5. CASE s.op = "writeLocal"
  <2>1. Step(st, s, k) = [st EXCEPT !.local = value, !.stale = stale]
    BY <1>1, <1>5
  <2>2. QED
    BY <1>2, <1>5, <2>1 DEF value, stale, done
<1>6. CASE s.op = "readLocal"
  <2>1. Step(st, s, k) = [st EXCEPT !.read = st.local]
    BY <1>1, <1>6
  <2>2. QED
    BY <1>2, <1>6, <2>1
<1>7. QED
  BY <1>3, <1>4, <1>5, <1>6

\* Each kind by itself.
LEMMA WriteStep ==
  ASSUME NEW st \in States, NEW s, NEW k, s.op = "write"
  PROVE  Step(st, s, k) =
           [w |-> [st.w EXCEPT ![s.member][Index(s.at, k)] = ValueAt(st, s, k)], local |-> st.local,
            read |-> st.read, input |-> st.input, stale |-> StaleAt(st, s), done |-> st.done \cup {FactAt(st, s, k)}]
BY StepCases

LEMMA EqStep ==
  ASSUME NEW st \in States, NEW s, NEW k, s.op = "eq"
  PROVE  Step(st, s, k) = [w |-> st.w, local |-> st.local, read |-> st.read, input |-> st.input,
                           stale |-> StaleAt(st, s), done |-> st.done \cup {FactAt(st, s, k)}]
BY StepCases

LEMMA WriteLocalStep ==
  ASSUME NEW st \in States, NEW s, NEW k, s.op = "writeLocal"
  PROVE  Step(st, s, k) = [w |-> st.w, local |-> ValueAt(st, s, k), read |-> st.read, input |-> st.input,
                           stale |-> StaleAt(st, s), done |-> st.done]
BY StepCases

LEMMA ReadLocalStep ==
  ASSUME NEW st \in States, NEW s, NEW k, s.op = "readLocal"
  PROVE  Step(st, s, k) = [w |-> st.w, local |-> st.local, read |-> st.local, input |-> st.input,
                           stale |-> st.stale, done |-> st.done]
BY StepCases

LEMMA StepIsTyped ==
  ASSUME NEW d \in Nat, NEW k \in [1 .. d -> Indices], NEW st \in States, NEW s \in Operations(d)
  PROVE  Step(st, s, k) \in States /\ Later(st, Step(st, s, k))
<1> DEFINE value == ValueAt(st, s, k)
           stale == StaleAt(st, s)
           fact == FactAt(st, s, k)
           now == Step(st, s, k)
<1>1. /\ st.w \in Memories /\ st.local \in Values /\ st.read \in Values /\ st.input \in Values
      /\ st.stale \in BOOLEAN /\ st.done \subseteq Facts
  BY DEF States
<1>2. value \in Values
  <2> DEFINE x == [w |-> st.w, k |-> k, input |-> st.input, local |-> st.read]
  <2>1. x.k \in [1 .. d -> Indices] /\ x["w"] \in Memories /\ x.input \in Values /\ x.local \in Values
    BY <1>1
  <2>2. s.val \in ValueTerms(d) /\ d \in Nat
    BY OperationParts
  <2> HIDE DEF x
  <2>3. ValueOf(s.val, x, "w") \in Values
    BY <2>1, <2>2, ValueIsTyped
  <2>4. QED
    BY <2>3 DEF x, ValueAt
<1>3. fact \in Facts
  <2>1. s \in AnyOperation /\ k \in Tuples
    BY PlacesGrow, TupleOf
  <2> HIDE DEF value
  <2>2. [s |-> s, k |-> k, read |-> st.read, value |-> value] \in Facts
    BY <1>1, <1>2, <2>1 DEF Facts
  <2>3. QED
    BY <2>2 DEF value, FactAt
<1>4. stale \in BOOLEAN /\ (st.stale => stale)
  BY <1>1 DEF StaleAt
<1>5. s.op \in {"write", "eq", "writeLocal", "readLocal"}
  BY OperationParts
<1> HIDE DEF value, stale, fact
<1>6. CASE s.op = "write"
  <2> DEFINE m == [st.w EXCEPT ![s.member][Index(s.at, k)] = value]
  <2>1. m \in Memories
    <3>1. s.member \in Members /\ s.at \in Places(d) /\ d \in Nat
      BY <1>6, OperationParts
    <3>2. Index(s.at, k) \in Indices
      BY <3>1, IndexIsTyped
    <3>3. QED
      BY <1>1, <1>2, <3>1, <3>2 DEF Memories
  <2> HIDE DEF m
  <2>2. now = [w |-> m, local |-> st.local, read |-> st.read, input |-> st.input,
               stale |-> stale, done |-> st.done \cup {fact}]
    BY <1>6, WriteStep DEF m, value, stale, fact
  <2> HIDE DEF now
  <2>3. now \in States
    BY <1>1, <1>3, <1>4, <2>1, <2>2 DEF States
  <2>4. Later(st, now)
    BY <1>4, <2>2 DEF Later
  <2>5. QED
    BY <2>3, <2>4 DEF now
<1>7. CASE s.op = "eq"
  <2>1. now = [w |-> st.w, local |-> st.local, read |-> st.read, input |-> st.input,
               stale |-> stale, done |-> st.done \cup {fact}]
    BY <1>7, EqStep DEF stale, fact
  <2> HIDE DEF now
  <2>2. now \in States
    BY <1>1, <1>3, <1>4, <2>1 DEF States
  <2>3. Later(st, now)
    BY <1>4, <2>1 DEF Later
  <2>4. QED
    BY <2>2, <2>3 DEF now
<1>8. CASE s.op = "writeLocal"
  <2>1. now = [w |-> st.w, local |-> value, read |-> st.read, input |-> st.input,
               stale |-> stale, done |-> st.done]
    BY <1>8, WriteLocalStep DEF stale, value
  <2> HIDE DEF now
  <2>2. now \in States
    BY <1>1, <1>2, <1>4, <2>1 DEF States
  <2>3. Later(st, now)
    BY <1>4, <2>1 DEF Later
  <2>4. QED
    BY <2>2, <2>3 DEF now
<1>9. CASE s.op = "readLocal"
  <2>1. now = [w |-> st.w, local |-> st.local, read |-> st.local, input |-> st.input,
               stale |-> st.stale, done |-> st.done]
    BY <1>9, ReadLocalStep
  <2> HIDE DEF now
  <2>2. now \in States
    BY <1>1, <2>1 DEF States
  <2>3. Later(st, now)
    BY <2>1 DEF Later
  <2>4. QED
    BY <2>2, <2>3 DEF now
<1>10. QED
  BY <1>5, <1>6, <1>7, <1>8, <1>9

\* Every state of a chain is earlier than its last one.
LEMMA ChainIsLater ==
  ASSUME NEW n \in Nat, NEW f, \A i \in 1 .. n : Later(f[i - 1], f[i])
  PROVE  \A i \in 0 .. n : Later(f[0], f[i]) /\ Later(f[i], f[n])
<1> DEFINE P == {i \in 0 .. n : Later(f[0], f[i])}
           Q == {i \in 0 .. n : Later(f[n - i], f[n])}
<1>1. \A i \in 0 .. n : i \in P
  <2>1. 0 \in P
    BY LaterLaws
  <2>2. ASSUME NEW i \in 0 .. n - 1, i \in P
        PROVE  i + 1 \in P
    <3>1. Later(f[0], f[i])
      BY <2>2
    <3>2. i + 1 \in 1 .. n /\ i + 1 \in 0 .. n /\ (i + 1) - 1 = i
      OBVIOUS
    <3>3. Later(f[i], f[i + 1])
      BY <3>2
    <3>4. Later(f[0], f[i + 1])
      BY <3>1, <3>3, LaterLaws
    <3>5. QED
      BY <3>2, <3>4
  <2> HIDE DEF P
  <2>3. QED
    BY <2>1, <2>2, UpToInduction
<1>2. \A i \in 0 .. n : i \in Q
  <2>1. 0 \in Q
    <3>1. n - 0 = n
      OBVIOUS
    <3>2. QED
      BY <3>1, LaterLaws
  <2>2. ASSUME NEW i \in 0 .. n - 1, i \in Q
        PROVE  i + 1 \in Q
    <3>1. Later(f[n - i], f[n])
      BY <2>2
    <3>2. n - i \in 1 .. n /\ i + 1 \in 0 .. n /\ (n - i) - 1 = n - (i + 1)
      OBVIOUS
    <3>3. Later(f[n - (i + 1)], f[n - i])
      BY <3>2
    <3>4. Later(f[n - (i + 1)], f[n])
      BY <3>1, <3>3, LaterLaws
    <3>5. QED
      BY <3>2, <3>4
  <2> HIDE DEF Q
  <2>3. QED
    BY <2>1, <2>2, UpToInduction
<1>3. ASSUME NEW i \in 0 .. n
      PROVE  Later(f[0], f[i]) /\ Later(f[i], f[n])
  <2>1. Later(f[0], f[i])
    BY <1>1
  <2>2. n - i \in 0 .. n /\ n - (n - i) = i
    OBVIOUS
  <2>3. Later(f[n - (n - i)], f[n])
    BY <1>2, <2>2
  <2>4. QED
    BY <2>1, <2>2, <2>3
<1>4. QED
  BY <1>3


\* The states a loop runs through.
Chain(f, n, st) ==
  /\ f \in [0 .. n -> States] /\ f[0] = st
  /\ \A i \in 1 .. n : Later(f[i - 1], f[i])

LEMMA ChainOf ==
  ASSUME NEW n \in Nat, NEW st \in States, NEW f, f = [i \in 0 .. n |-> f[i]], f[0] = st,
         \A i \in 1 .. n : f[i - 1] \in States => f[i] \in States /\ Later(f[i - 1], f[i])
  PROVE  Chain(f, n, st)
<1> DEFINE P == {i \in 0 .. n : f[i] \in States}
<1>1. 0 \in P
  OBVIOUS
<1>2. ASSUME NEW i \in 0 .. n - 1, i \in P
      PROVE  i + 1 \in P
  <2>1. i + 1 \in 1 .. n /\ i + 1 \in 0 .. n /\ (i + 1) - 1 = i
    OBVIOUS
  <2>2. f[i + 1] \in States
    BY <1>2, <2>1
  <2>3. QED
    BY <2>1, <2>2
<1> HIDE DEF P
<1>3. \A i \in 0 .. n : i \in P
  BY <1>1, <1>2, UpToInduction
<1>4. \A i \in 0 .. n : f[i] \in States
  BY <1>3 DEF P
<1>5. \A i \in 1 .. n : i - 1 \in 0 .. n
  OBVIOUS
<1>6. \A i \in 1 .. n : Later(f[i - 1], f[i])
  BY <1>4, <1>5
<1>7. f \in [0 .. n -> States]
  BY <1>4
<1>8. QED
  BY <1>6, <1>7 DEF Chain

LEMMA ChainEnds ==
  ASSUME NEW n \in Nat, NEW st, NEW f, Chain(f, n, st)
  PROVE  f[n] \in States /\ Later(st, f[n])
<1>1. f[n] \in States /\ f[0] = st
  BY DEF Chain
<1>2. \A i \in 1 .. n : Later(f[i - 1], f[i])
  BY DEF Chain
<1>3. n \in 0 .. n
  OBVIOUS
<1>4. Later(f[0], f[n])
  BY <1>2, <1>3, ChainIsLater
<1>5. QED
  BY <1>1, <1>4

\* The states of the loops of RunOps, RunBlock, RunLoop and Run.
OpsRun(f, ops, st, k) ==
  /\ Chain(f, Len(ops), st) /\ f[Len(ops)] = RunOps(ops, st, k)
  /\ \A i \in 1 .. Len(ops) : f[i] = Step(f[i - 1], ops[i], k)

LEMMA OpsRunExists ==
  ASSUME NEW d \in Nat, NEW k \in [1 .. d -> Indices], NEW st \in States, NEW ops \in Seq(Operations(d))
  PROVE  \E f : OpsRun(f, ops, st, k)
<1> DEFINE n == Len(ops)
           turn == [p \in States \X (1 .. n) |-> Step(p[1], ops[p[2]], k)]
<1>1. n \in Nat /\ \A i \in 1 .. n : ops[i] \in Operations(d)
  BY LenProperties, ElementOfSeq
<1> HIDE DEF n
<1>2. ASSUME NEW now \in States, NEW i \in 1 .. n
      PROVE  turn[<<now, i>>] = Step(now, ops[i], k) /\ Step(now, ops[i], k) \in States /\ Later(now, Step(now, ops[i], k))
  <2>1. turn[<<now, i>>] = Step(now, ops[i], k)
    OBVIOUS
  <2>2. QED
    BY <2>1, <1>1, StepIsTyped
<1>3. turn \in [States \X (1 .. n) -> States]
  BY <1>2
<1> HIDE DEF turn
<1>4. PICK f \in [0 .. n -> States] : f = [i \in 0 .. n |-> IF i = 0 THEN st ELSE turn[<<f[i - 1], i>>]]
  <2>1. \E f : TurnsOf(f, States, st, n, turn)
    BY <1>1, <1>3, TurnsExist
  <2>2. QED
    BY <2>1 DEF TurnsOf
<1>5. ASSUME NEW i \in 0 .. n
      PROVE  f[i] = IF i = 0 THEN st ELSE Step(f[i - 1], ops[i], k)
  <2>1. f[i] = IF i = 0 THEN st ELSE turn[<<f[i - 1], i>>]
    BY <1>4
  <2>2. i # 0 => f[i - 1] \in States /\ i \in 1 .. n
    BY <1>1
  <2>3. QED
    BY <2>1, <2>2, <1>2
<1>6. f = [i \in 0 .. n |-> IF i = 0 THEN st ELSE Step(f[i - 1], ops[i], k)]
  <2>1. f = [i \in 0 .. n |-> f[i]]
    OBVIOUS
  <2>2. QED
    BY <2>1, <1>5
<1> DEFINE acc[i \in 0 .. n] == IF i = 0 THEN st ELSE Step(acc[i - 1], ops[i], k)
<1>7. RunOps(ops, st, k) = acc[n]
  BY DEF RunOps, Turns, n
<1>8. acc = [i \in 0 .. n |-> IF i = 0 THEN st ELSE Step(acc[i - 1], ops[i], k)]
  <2>1. \E g : g = [i \in 0 .. n |-> IF i = 0 THEN st ELSE Step(g[i - 1], ops[i], k)]
    BY <1>6
  <2>2. QED
    BY <2>1 DEF acc
<1> HIDE DEF acc
<1>9. acc = [i \in 0 .. n |-> acc[i]] /\ acc[0] = st /\ \A i \in 1 .. n : acc[i] = Step(acc[i - 1], ops[i], k)
  <2> DEFINE body(i) == IF i = 0 THEN st ELSE Step(acc[i - 1], ops[i], k)
  <2>1. acc = [i \in 0 .. n |-> body(i)]
    BY <1>8
  <2>2. body(0) = st /\ \A i \in 1 .. n : body(i) = Step(acc[i - 1], ops[i], k)
    OBVIOUS
  <2> HIDE DEF body
  <2>3. \A i \in 0 .. n : acc[i] = body(i)
    BY <2>1
  <2>4. 0 \in 0 .. n /\ \A i \in 1 .. n : i \in 0 .. n
    BY <1>1
  <2>5. QED
    BY <2>1, <2>2, <2>3, <2>4
<1>10. Chain(acc, n, st)
  <2>1. \A i \in 1 .. n : acc[i - 1] \in States => acc[i] \in States /\ Later(acc[i - 1], acc[i])
    BY <1>2, <1>9
  <2>2. QED
    BY <1>1, <1>9, <2>1, ChainOf
<1>11. OpsRun(acc, ops, st, k)
  BY <1>7, <1>9, <1>10 DEF OpsRun, n
<1>12. QED
  BY <1>11

LEMMA OpsAreTyped ==
  ASSUME NEW d \in Nat, NEW k \in [1 .. d -> Indices], NEW st \in States, NEW ops \in Seq(Operations(d))
  PROVE  RunOps(ops, st, k) \in States /\ Later(st, RunOps(ops, st, k))
<1>1. PICK f : OpsRun(f, ops, st, k)
  BY OpsRunExists
<1>2. Len(ops) \in Nat
  BY LenProperties
<1>3. Chain(f, Len(ops), st) /\ f[Len(ops)] = RunOps(ops, st, k)
  BY <1>1 DEF OpsRun
<1>4. QED
  BY <1>2, <1>3, ChainEnds

LEMMA StatementIsTyped ==
  ASSUME NEW d \in Nat, NEW k \in [1 .. d -> Indices], NEW st \in States, NEW s \in Statements(d)
  PROVE  RunStatement(st, s, k) \in States /\ Later(st, RunStatement(st, s, k))
<1>1. CASE s.op # "if"
  <2>1. s \in Operations(d)
    BY <1>1, StatementParts
  <2>2. RunStatement(st, s, k) = Step(st, s, k)
    BY <1>1 DEF RunStatement
  <2>3. QED
    BY <2>1, <2>2, StepIsTyped
<1>2. CASE s.op = "if"
  <2>1. s.then \in Seq(Operations(d)) /\ s.else \in Seq(Operations(d))
    BY <1>2, StatementParts
  <2>2. \/ RunStatement(st, s, k) = RunOps(s.then, st, k)
        \/ RunStatement(st, s, k) = RunOps(s.else, st, k)
    BY <1>2 DEF RunStatement
  <2>3. QED
    BY <2>1, <2>2, OpsAreTyped
<1>3. QED
  BY <1>1, <1>2

BlockRun(f, block, st, k) ==
  /\ Chain(f, Len(block), st) /\ f[Len(block)] = RunBlock(block, st, k)
  /\ \A i \in 1 .. Len(block) : f[i] = RunStatement(f[i - 1], block[i], k)

LEMMA BlockRunExists ==
  ASSUME NEW d \in Nat, NEW k \in [1 .. d -> Indices], NEW st \in States, NEW block \in Seq(Statements(d))
  PROVE  \E f : BlockRun(f, block, st, k)
<1> DEFINE n == Len(block)
           turn == [p \in States \X (1 .. n) |-> RunStatement(p[1], block[p[2]], k)]
<1>1. n \in Nat /\ \A i \in 1 .. n : block[i] \in Statements(d)
  BY LenProperties, ElementOfSeq
<1> HIDE DEF n
<1>2. ASSUME NEW now \in States, NEW i \in 1 .. n
      PROVE  /\ turn[<<now, i>>] = RunStatement(now, block[i], k)
             /\ RunStatement(now, block[i], k) \in States /\ Later(now, RunStatement(now, block[i], k))
  <2>1. turn[<<now, i>>] = RunStatement(now, block[i], k)
    OBVIOUS
  <2>2. QED
    BY <2>1, <1>1, StatementIsTyped
<1>3. turn \in [States \X (1 .. n) -> States]
  BY <1>2
<1> HIDE DEF turn
<1>4. PICK f \in [0 .. n -> States] : f = [i \in 0 .. n |-> IF i = 0 THEN st ELSE turn[<<f[i - 1], i>>]]
  <2>1. \E f : TurnsOf(f, States, st, n, turn)
    BY <1>1, <1>3, TurnsExist
  <2>2. QED
    BY <2>1 DEF TurnsOf
<1>5. ASSUME NEW i \in 0 .. n
      PROVE  f[i] = IF i = 0 THEN st ELSE RunStatement(f[i - 1], block[i], k)
  <2>1. f[i] = IF i = 0 THEN st ELSE turn[<<f[i - 1], i>>]
    BY <1>4
  <2>2. i # 0 => f[i - 1] \in States /\ i \in 1 .. n
    BY <1>1
  <2>3. QED
    BY <2>1, <2>2, <1>2
<1>6. f = [i \in 0 .. n |-> IF i = 0 THEN st ELSE RunStatement(f[i - 1], block[i], k)]
  <2>1. f = [i \in 0 .. n |-> f[i]]
    OBVIOUS
  <2>2. QED
    BY <2>1, <1>5
<1> DEFINE acc[i \in 0 .. n] == IF i = 0 THEN st ELSE RunStatement(acc[i - 1], block[i], k)
<1>7. RunBlock(block, st, k) = acc[n]
  BY DEF RunBlock, Turns, n
<1>8. acc = [i \in 0 .. n |-> IF i = 0 THEN st ELSE RunStatement(acc[i - 1], block[i], k)]
  <2>1. \E g : g = [i \in 0 .. n |-> IF i = 0 THEN st ELSE RunStatement(g[i - 1], block[i], k)]
    BY <1>6
  <2>2. QED
    BY <2>1 DEF acc
<1> HIDE DEF acc
<1>9. acc = [i \in 0 .. n |-> acc[i]] /\ acc[0] = st /\ \A i \in 1 .. n : acc[i] = RunStatement(acc[i - 1], block[i], k)
  <2> DEFINE body(i) == IF i = 0 THEN st ELSE RunStatement(acc[i - 1], block[i], k)
  <2>1. acc = [i \in 0 .. n |-> body(i)]
    BY <1>8
  <2>2. body(0) = st /\ \A i \in 1 .. n : body(i) = RunStatement(acc[i - 1], block[i], k)
    OBVIOUS
  <2> HIDE DEF body
  <2>3. \A i \in 0 .. n : acc[i] = body(i)
    BY <2>1
  <2>4. 0 \in 0 .. n /\ \A i \in 1 .. n : i \in 0 .. n
    BY <1>1
  <2>5. QED
    BY <2>1, <2>2, <2>3, <2>4
<1>10. Chain(acc, n, st)
  <2>1. \A i \in 1 .. n : acc[i - 1] \in States => acc[i] \in States /\ Later(acc[i - 1], acc[i])
    BY <1>2, <1>9
  <2>2. QED
    BY <1>1, <1>9, <2>1, ChainOf
<1>11. BlockRun(acc, block, st, k)
  BY <1>7, <1>9, <1>10 DEF BlockRun, n
<1>12. QED
  BY <1>11

LEMMA BlockIsTyped ==
  ASSUME NEW d \in Nat, NEW k \in [1 .. d -> Indices], NEW st \in States, NEW block \in Seq(Statements(d))
  PROVE  RunBlock(block, st, k) \in States /\ Later(st, RunBlock(block, st, k))
<1>1. PICK f : BlockRun(f, block, st, k)
  BY BlockRunExists
<1>2. Len(block) \in Nat
  BY LenProperties
<1>3. Chain(f, Len(block), st) /\ f[Len(block)] = RunBlock(block, st, k)
  BY <1>1 DEF BlockRun
<1>4. QED
  BY <1>2, <1>3, ChainEnds

\* The tuples of a nest are indices of its dimensions.
LEMMA IterationsAreTuples ==
  ASSUME NEW rs \in Nests
  PROVE  /\ Len(rs) \in Nat /\ DOMAIN rs = 1 .. Len(rs) /\ Len(Iterations(rs)) \in Nat
         /\ \A i \in 1 .. Len(Iterations(rs)) : Iterations(rs)[i] \in [1 .. Len(rs) -> Indices]
<1>1. Len(rs) \in Nat /\ DOMAIN rs = 1 .. Len(rs)
  BY NestParts
<1>2. Len(Iterations(rs)) \in Nat /\ \A i \in 1 .. Len(Iterations(rs)) : InNest(Iterations(rs)[i], rs)
  BY NestsAreEnumerated DEF Enumerates
<1>3. \A i \in 1 .. Len(Iterations(rs)) : Iterations(rs)[i] \in [1 .. Len(rs) -> Indices]
  BY <1>1, <1>2, NestTuples
<1>4. QED
  BY <1>1, <1>2, <1>3

LoopRun(f, s, st) ==
  /\ Chain(f, Len(Iterations(s.ranges)), st) /\ f[Len(Iterations(s.ranges))] = RunLoop(s, st)
  /\ \A i \in 1 .. Len(Iterations(s.ranges)) : f[i] = RunBlock(s.body, f[i - 1], Iterations(s.ranges)[i])

LEMMA LoopRunExists ==
  ASSUME NEW st \in States, NEW s, IsLoop(s)
  PROVE  \E f : LoopRun(f, s, st)
<1> DEFINE n == Len(Iterations(s.ranges))
           turn == [p \in States \X (1 .. n) |-> RunBlock(s.body, p[1], Iterations(s.ranges)[p[2]])]
<1>1. /\ n \in Nat /\ \A i \in 1 .. n : Iterations(s.ranges)[i] \in [1 .. Len(s.ranges) -> Indices]
      /\ Len(s.ranges) \in Nat /\ s.body \in Seq(Statements(Len(s.ranges)))
  BY IterationsAreTuples DEF IsLoop
<1> HIDE DEF n
<1>2. ASSUME NEW now \in States, NEW i \in 1 .. n
      PROVE  /\ turn[<<now, i>>] = RunBlock(s.body, now, Iterations(s.ranges)[i])
             /\ RunBlock(s.body, now, Iterations(s.ranges)[i]) \in States /\ Later(now, RunBlock(s.body, now, Iterations(s.ranges)[i]))
  <2>1. turn[<<now, i>>] = RunBlock(s.body, now, Iterations(s.ranges)[i])
    OBVIOUS
  <2>2. QED
    BY <2>1, <1>1, BlockIsTyped
<1>3. turn \in [States \X (1 .. n) -> States]
  BY <1>2
<1> HIDE DEF turn
<1>4. PICK f \in [0 .. n -> States] : f = [i \in 0 .. n |-> IF i = 0 THEN st ELSE turn[<<f[i - 1], i>>]]
  <2>1. \E f : TurnsOf(f, States, st, n, turn)
    BY <1>1, <1>3, TurnsExist
  <2>2. QED
    BY <2>1 DEF TurnsOf
<1>5. ASSUME NEW i \in 0 .. n
      PROVE  f[i] = IF i = 0 THEN st ELSE RunBlock(s.body, f[i - 1], Iterations(s.ranges)[i])
  <2>1. f[i] = IF i = 0 THEN st ELSE turn[<<f[i - 1], i>>]
    BY <1>4
  <2>2. i # 0 => f[i - 1] \in States /\ i \in 1 .. n
    BY <1>1
  <2>3. QED
    BY <2>1, <2>2, <1>2
<1>6. f = [i \in 0 .. n |-> IF i = 0 THEN st ELSE RunBlock(s.body, f[i - 1], Iterations(s.ranges)[i])]
  <2>1. f = [i \in 0 .. n |-> f[i]]
    OBVIOUS
  <2>2. QED
    BY <2>1, <1>5
<1> DEFINE acc[i \in 0 .. n] == IF i = 0 THEN st ELSE RunBlock(s.body, acc[i - 1], Iterations(s.ranges)[i])
<1>7. RunLoop(s, st) = acc[n]
  BY DEF RunLoop, Turns, n
<1>8. acc = [i \in 0 .. n |-> IF i = 0 THEN st ELSE RunBlock(s.body, acc[i - 1], Iterations(s.ranges)[i])]
  <2>1. \E g : g = [i \in 0 .. n |-> IF i = 0 THEN st ELSE RunBlock(s.body, g[i - 1], Iterations(s.ranges)[i])]
    BY <1>6
  <2>2. QED
    BY <2>1 DEF acc
<1> HIDE DEF acc
<1>9. acc = [i \in 0 .. n |-> acc[i]] /\ acc[0] = st /\ \A i \in 1 .. n : acc[i] = RunBlock(s.body, acc[i - 1], Iterations(s.ranges)[i])
  <2> DEFINE body(i) == IF i = 0 THEN st ELSE RunBlock(s.body, acc[i - 1], Iterations(s.ranges)[i])
  <2>1. acc = [i \in 0 .. n |-> body(i)]
    BY <1>8
  <2>2. body(0) = st /\ \A i \in 1 .. n : body(i) = RunBlock(s.body, acc[i - 1], Iterations(s.ranges)[i])
    OBVIOUS
  <2> HIDE DEF body
  <2>3. \A i \in 0 .. n : acc[i] = body(i)
    BY <2>1
  <2>4. 0 \in 0 .. n /\ \A i \in 1 .. n : i \in 0 .. n
    BY <1>1
  <2>5. QED
    BY <2>1, <2>2, <2>3, <2>4
<1>10. Chain(acc, n, st)
  <2>1. \A i \in 1 .. n : acc[i - 1] \in States => acc[i] \in States /\ Later(acc[i - 1], acc[i])
    BY <1>2, <1>9
  <2>2. QED
    BY <1>1, <1>9, <2>1, ChainOf
<1>11. LoopRun(acc, s, st)
  BY <1>7, <1>9, <1>10 DEF LoopRun, n
<1>12. QED
  BY <1>11

LEMMA LoopIsTyped ==
  ASSUME NEW st \in States, NEW s, IsLoop(s)
  PROVE  RunLoop(s, st) \in States /\ Later(st, RunLoop(s, st))
<1>1. PICK f : LoopRun(f, s, st)
  BY LoopRunExists
<1>2. Len(Iterations(s.ranges)) \in Nat
  BY IterationsAreTuples DEF IsLoop
<1>3. Chain(f, Len(Iterations(s.ranges)), st) /\ f[Len(Iterations(s.ranges))] = RunLoop(s, st)
  BY <1>1 DEF LoopRun
<1>4. QED
  BY <1>2, <1>3, ChainEnds

\* What the walk takes as one statement.
Advance(st, s) == IF s.op = "for" THEN RunLoop(s, st) ELSE RunStatement(st, s, <<>>)

LEMMA AdvanceIsTyped ==
  ASSUME NEW st \in States, NEW s, s \in Statements(0) \/ IsLoop(s)
  PROVE  Advance(st, s) \in States /\ Later(st, Advance(st, s))
<1>1. CASE IsLoop(s)
  BY <1>1, LoopIsTyped DEF Advance, IsLoop
<1>2. CASE s \in Statements(0)
  <2>1. s.op # "for"
    BY <1>2, StatementParts
  <2>2. <<>> \in [1 .. 0 -> Indices] /\ 0 \in Nat
    OBVIOUS
  <2>3. RunStatement(st, s, <<>>) \in States /\ Later(st, RunStatement(st, s, <<>>))
    BY <1>2, <2>2, StatementIsTyped
  <2>4. QED
    BY <2>1, <2>3 DEF Advance
<1>3. QED
  BY <1>1, <1>2

ProgramRun(f, p, st) ==
  /\ Chain(f, Len(p), st) /\ f = Run(p, st)
  /\ \A i \in 1 .. Len(p) : f[i] = Advance(f[i - 1], p[i])

LEMMA ProgramRunExists ==
  ASSUME NEW st \in States, NEW p \in Programs
  PROVE  \E f : ProgramRun(f, p, st)
<1> DEFINE n == Len(p)
           turn == [q \in States \X (1 .. n) |-> Advance(q[1], p[q[2]])]
<1>1. n \in Nat /\ \A i \in 1 .. n : p[i] \in Statements(0) \/ IsLoop(p[i])
  BY ProgramsAreWellFormed
<1> HIDE DEF n
<1>2. ASSUME NEW now \in States, NEW i \in 1 .. n
      PROVE  /\ turn[<<now, i>>] = Advance(now, p[i])
             /\ Advance(now, p[i]) \in States /\ Later(now, Advance(now, p[i]))
  <2>1. turn[<<now, i>>] = Advance(now, p[i])
    OBVIOUS
  <2>2. QED
    BY <2>1, <1>1, AdvanceIsTyped
<1>3. turn \in [States \X (1 .. n) -> States]
  BY <1>2
<1> HIDE DEF turn
<1>4. PICK f \in [0 .. n -> States] : f = [i \in 0 .. n |-> IF i = 0 THEN st ELSE turn[<<f[i - 1], i>>]]
  <2>1. \E f : TurnsOf(f, States, st, n, turn)
    BY <1>1, <1>3, TurnsExist
  <2>2. QED
    BY <2>1 DEF TurnsOf
<1>5. ASSUME NEW i \in 0 .. n
      PROVE  f[i] = IF i = 0 THEN st ELSE Advance(f[i - 1], p[i])
  <2>1. f[i] = IF i = 0 THEN st ELSE turn[<<f[i - 1], i>>]
    BY <1>4
  <2>2. i # 0 => f[i - 1] \in States /\ i \in 1 .. n
    BY <1>1
  <2>3. QED
    BY <2>1, <2>2, <1>2
<1>6. f = [i \in 0 .. n |-> IF i = 0 THEN st ELSE Advance(f[i - 1], p[i])]
  <2>1. f = [i \in 0 .. n |-> f[i]]
    OBVIOUS
  <2>2. QED
    BY <2>1, <1>5
<1> DEFINE acc[i \in 0 .. n] == IF i = 0 THEN st ELSE Advance(acc[i - 1], p[i])
<1>7. Run(p, st) = acc
  BY DEF Run, Advance, Turns, n
<1>8. acc = [i \in 0 .. n |-> IF i = 0 THEN st ELSE Advance(acc[i - 1], p[i])]
  <2>1. \E g : g = [i \in 0 .. n |-> IF i = 0 THEN st ELSE Advance(g[i - 1], p[i])]
    BY <1>6
  <2>2. QED
    BY <2>1 DEF acc
<1> HIDE DEF acc
<1>9. acc = [i \in 0 .. n |-> acc[i]] /\ acc[0] = st /\ \A i \in 1 .. n : acc[i] = Advance(acc[i - 1], p[i])
  <2> DEFINE body(i) == IF i = 0 THEN st ELSE Advance(acc[i - 1], p[i])
  <2>1. acc = [i \in 0 .. n |-> body(i)]
    BY <1>8
  <2>2. body(0) = st /\ \A i \in 1 .. n : body(i) = Advance(acc[i - 1], p[i])
    OBVIOUS
  <2> HIDE DEF body
  <2>3. \A i \in 0 .. n : acc[i] = body(i)
    BY <2>1
  <2>4. 0 \in 0 .. n /\ \A i \in 1 .. n : i \in 0 .. n
    BY <1>1
  <2>5. QED
    BY <2>1, <2>2, <2>3, <2>4
<1>10. Chain(acc, n, st)
  <2>1. \A i \in 1 .. n : acc[i - 1] \in States => acc[i] \in States /\ Later(acc[i - 1], acc[i])
    BY <1>2, <1>9
  <2>2. QED
    BY <1>1, <1>9, <2>1, ChainOf
<1>11. ProgramRun(acc, p, st)
  BY <1>7, <1>9, <1>10 DEF ProgramRun, n
<1>12. QED
  BY <1>11

-----------------------------------------------------------------------------
(***************************************************************************)
(* Conditions.  What the walk assumes may speak of the tuple at hand and   *)
(* of the local array; what it concludes speaks of whole members.          *)
(***************************************************************************)
EqTerms(d) == [kind : {"eq"}, side : {"w", "c"}, member : Members, at : Places(d), val : ValueTerms(d)]
WhenTerms(d) == [kind : {"when"}, cond : Conditions(d), is : BOOLEAN]
Hypotheses(d) == EqTerms(d) \cup WhenTerms(d)

Regions == {"visited", "current", "loop", "outside"}
WholeRegions == {"loop", "outside"}
Conclusions(regions) ==
  [kind : {"member"}, member : Members]
    \cup [kind : {"all"}, member : Members, at : AnyPlace, where : regions, ranges : Nests]

Implications(d, regions) ==
  [antecedents : SUBSET Hypotheses(d), consequents : SUBSET Conclusions(regions), annotated : BOOLEAN]
Conjunctions(d, regions) == {conj \in Seq(Implications(d, regions)) : Len(conj) > 0}

Point(e, k, local) == [w |-> e.w, c |-> e.c, k |-> k, input |-> e.input, local |-> local]

LEMMA ConjunctionParts ==
  ASSUME NEW d, NEW regions, NEW conj \in Conjunctions(d, regions)
  PROVE  /\ Len(conj) \in Nat \ {0} /\ DOMAIN conj = 1 .. Len(conj)
         /\ \A i \in DOMAIN conj : conj[i] \in Implications(d, regions)
<1>1. conj \in Seq(Implications(d, regions)) /\ Len(conj) > 0
  BY DEF Conjunctions
<1> HIDE DEF Implications
<1>2. QED
  BY <1>1, LenProperties, ElementOfSeq

LEMMA HypothesisParts ==
  ASSUME NEW d, NEW t \in Hypotheses(d)
  PROVE  /\ t.kind \in {"eq", "when"}
         /\ t.kind = "eq" => t \in EqTerms(d)
         /\ t.kind = "when" => t \in WhenTerms(d)
<1>1. CASE t \in EqTerms(d)
  BY <1>1 DEF EqTerms
<1>2. CASE t \in WhenTerms(d)
  BY <1>2 DEF WhenTerms
<1>3. QED
  BY <1>1, <1>2 DEF Hypotheses

LEMMA EqParts ==
  ASSUME NEW d, NEW t \in EqTerms(d)
  PROVE  /\ t.kind = "eq" /\ t.side \in {"w", "c"} /\ t.member \in Members /\ t.at \in Places(d)
         /\ t.val \in ValueTerms(d)
         /\ t = [kind |-> "eq", side |-> t.side, member |-> t.member, at |-> t.at, val |-> t.val]
BY DEF EqTerms

LEMMA ConclusionParts ==
  ASSUME NEW regions, NEW t \in Conclusions(regions)
  PROVE  /\ t.kind \in {"member", "all"} /\ t.member \in Members
         /\ t.kind = "all" => t.at \in AnyPlace /\ t.where \in regions /\ t.ranges \in Nests
<1>1. CASE t \in [kind : {"member"}, member : Members]
  BY <1>1
<1>2. CASE t \in [kind : {"all"}, member : Members, at : AnyPlace, where : regions, ranges : Nests]
  BY <1>2
<1>3. QED
  BY <1>1, <1>2 DEF Conclusions

\* What a term says, of each kind.
LEMMA HoldsCases ==
  ASSUME NEW t, NEW x
  PROVE  /\ t.kind = "eq" => (Holds(t, x) <=> x[t.side][t.member][Index(t.at, x.k)] = ValueOf(t.val, x, t.side))
         /\ t.kind = "when" => (Holds(t, x) <=> (ConditionHolds(t.cond, x.input, x.k) = t.is))
         /\ t.kind = "member" => (Holds(t, x) <=> x.w[t.member] = x.c[t.member])
         /\ t.kind = "all" =>
              (Holds(t, x) <=> \A y \in Counters(t.ranges) :
                                 InRegion(y, t, x.k) => x.w[t.member][Index(t.at, y)] = x.c[t.member][Index(t.at, y)])
<1>1. ASSUME t.kind = "eq"
      PROVE  Holds(t, x) <=> x[t.side][t.member][Index(t.at, x.k)] = ValueOf(t.val, x, t.side)
  BY <1>1 DEF Holds
<1>2. ASSUME t.kind = "when"
      PROVE  Holds(t, x) <=> (ConditionHolds(t.cond, x.input, x.k) = t.is)
  BY <1>2 DEF Holds
<1>3. ASSUME t.kind = "member"
      PROVE  Holds(t, x) <=> x.w[t.member] = x.c[t.member]
  BY <1>3 DEF Holds
<1>4. ASSUME t.kind = "all"
      PROVE  Holds(t, x) <=> \A y \in Counters(t.ranges) :
                               InRegion(y, t, x.k) => x.w[t.member][Index(t.at, y)] = x.c[t.member][Index(t.at, y)]
  BY <1>4 DEF Holds
<1>5. QED
  BY <1>1, <1>2, <1>3, <1>4

\* A region of the whole nest is the same wherever one stands.
LEMMA RegionIsWhole ==
  ASSUME NEW t, t.where \in WholeRegions, NEW x, NEW k1, NEW k2
  PROVE  InRegion(x, t, k1) <=> InRegion(x, t, k2)
BY DEF InRegion, WholeRegions

LEMMA SameConclusion ==
  ASSUME NEW t \in Conclusions(Regions), NEW x, NEW y, x.w = y.w, x.c = y.c,
         x.k = y.k \/ t \in Conclusions(WholeRegions)
  PROVE  Holds(t, x) <=> Holds(t, y)
<1>1. CASE t.kind = "member"
  BY <1>1, HoldsCases
<1>2. CASE t.kind = "all"
  <2>1. ASSUME NEW z
        PROVE  InRegion(z, t, x.k) <=> InRegion(z, t, y.k)
    <3>1. CASE x.k = y.k
      BY <3>1
    <3>2. CASE t \in Conclusions(WholeRegions)
      <4>1. t.where \in WholeRegions
        BY <3>2, <1>2, ConclusionParts
      <4>2. QED
        BY <4>1, RegionIsWhole
    <3>3. QED
      BY <3>1, <3>2
  <2> DEFINE same(z, v) == v.w[t.member][Index(t.at, z)] = v.c[t.member][Index(t.at, z)]
  <2>2. Holds(t, x) <=> \A z \in Counters(t.ranges) : InRegion(z, t, x.k) => same(z, x)
    BY <1>2, HoldsCases
  <2>3. Holds(t, y) <=> \A z \in Counters(t.ranges) : InRegion(z, t, y.k) => same(z, y)
    BY <1>2, HoldsCases
  <2>4. \A z : same(z, x) <=> same(z, y)
    OBVIOUS
  <2> HIDE DEF same
  <2>5. QED
    BY <2>1, <2>2, <2>3, <2>4
<1>3. QED
  BY <1>1, <1>2, ConclusionParts

\* The meaning of one implication.
ImplicationHolds(i, x) == (\A t \in i.antecedents : Holds(t, x)) => \A t \in i.consequents : Holds(t, x)

LEMMA ConjunctionMeans ==
  ASSUME NEW conj, NEW x
  PROVE  ConjunctionHolds(conj, x) <=> \A i \in DOMAIN conj : ImplicationHolds(conj[i], x)
BY DEF ConjunctionHolds, ImplicationHolds

LEMMA ImplicationParts ==
  ASSUME NEW d, NEW regions, NEW imp \in Implications(d, regions)
  PROVE  /\ imp.antecedents \in SUBSET Hypotheses(d) /\ imp.consequents \in SUBSET Conclusions(regions)
         /\ imp.annotated \in BOOLEAN
         /\ imp = [antecedents |-> imp.antecedents, consequents |-> imp.consequents, annotated |-> imp.annotated]
BY DEF Implications

LEMMA ImplicationOf ==
  ASSUME NEW d, NEW regions, NEW a \in SUBSET Hypotheses(d), NEW c \in SUBSET Conclusions(regions),
         NEW n \in BOOLEAN
  PROVE  [antecedents |-> a, consequents |-> c, annotated |-> n] \in Implications(d, regions)
BY DEF Implications

LEMMA FunctionIsSequence ==
  ASSUME NEW n \in Nat, NEW S, NEW f \in [1 .. n -> S]
  PROVE  f \in Seq(S) /\ Len(f) = n
OBVIOUS

LEMMA AddedParts ==
  ASSUME NEW d, NEW regions, NEW conj \in Conjunctions(d, regions), NEW terms \in SUBSET Hypotheses(d)
  PROVE  /\ AddAntecedents(terms, conj) \in Conjunctions(d, regions)
         /\ Len(AddAntecedents(terms, conj)) = Len(conj)
         /\ \A i \in DOMAIN conj :
              AddAntecedents(terms, conj)[i] =
                [antecedents |-> conj[i].antecedents \cup terms, consequents |-> conj[i].consequents,
                 annotated |-> conj[i].annotated]
<1> DEFINE n == Len(conj)
           added == AddAntecedents(terms, conj)
           part(i) == [antecedents |-> conj[i].antecedents \cup terms, consequents |-> conj[i].consequents,
                       annotated |-> conj[i].annotated]
<1>1. n \in Nat \ {0} /\ DOMAIN conj = 1 .. n /\ \A i \in 1 .. n : conj[i] \in Implications(d, regions)
  BY ConjunctionParts
<1>2. ASSUME NEW i \in 1 .. n
      PROVE  /\ [conj[i] EXCEPT !.antecedents = @ \cup terms] = part(i)
             /\ part(i) \in Implications(d, regions)
  <2> DEFINE imp == conj[i]
  <2>1. imp \in Implications(d, regions)
    BY <1>1
  <2>2. part(i) = [antecedents |-> imp.antecedents \cup terms, consequents |-> imp.consequents, annotated |-> imp.annotated]
    OBVIOUS
  <2> HIDE DEF imp, part
  <2>3. /\ imp.antecedents \in SUBSET Hypotheses(d) /\ imp.consequents \in SUBSET Conclusions(regions)
        /\ imp.annotated \in BOOLEAN
        /\ imp = [antecedents |-> imp.antecedents, consequents |-> imp.consequents, annotated |-> imp.annotated]
    BY <2>1, ImplicationParts
  <2>4. [imp EXCEPT !.antecedents = @ \cup terms] = part(i)
    <3>1. imp \in [antecedents : SUBSET Hypotheses(d), consequents : SUBSET Conclusions(regions), annotated : BOOLEAN]
      BY <2>1 DEF Implications
    <3> DEFINE now == imp.antecedents \cup terms
    <3>2. /\ part(i) = [antecedents |-> now, consequents |-> imp.consequents, annotated |-> imp.annotated]
          /\ [imp EXCEPT !.antecedents = @ \cup terms] = [imp EXCEPT !.antecedents = now]
      BY <2>2
    <3> HIDE DEF now
    <3>3. [imp EXCEPT !.antecedents = now] = [antecedents |-> now, consequents |-> imp.consequents, annotated |-> imp.annotated]
      BY <3>1
    <3>4. QED
      BY <3>2, <3>3
  <2>5. imp.antecedents \cup terms \in SUBSET Hypotheses(d)
    BY <2>3
  <2>6. part(i) \in Implications(d, regions)
    BY <2>2, <2>3, <2>5, ImplicationOf
  <2>7. QED
    BY <2>4, <2>6 DEF imp
<1>3. added = [i \in 1 .. n |-> [conj[i] EXCEPT !.antecedents = @ \cup terms]]
  BY <1>1 DEF AddAntecedents
<1> HIDE DEF n, added, part
<1>4. added = [i \in 1 .. n |-> part(i)]
  BY <1>2, <1>3
<1>5. added \in Seq(Implications(d, regions)) /\ Len(added) = n
  <2>1. added \in [1 .. n -> Implications(d, regions)]
    BY <1>2, <1>4
  <2>2. QED
    BY <1>1, <2>1, FunctionIsSequence
<1>6. added \in Conjunctions(d, regions)
  BY <1>1, <1>5 DEF Conjunctions
<1>7. \A i \in DOMAIN conj : added[i] = part(i)
  BY <1>1, <1>4
<1>8. QED
  BY <1>5, <1>6, <1>7 DEF n, added, part

LEMMA AddedHold ==
  ASSUME NEW d, NEW regions, NEW conj \in Conjunctions(d, regions), NEW terms \in SUBSET Hypotheses(d), NEW x,
         \A t \in terms : Holds(t, x), ConjunctionHolds(AddAntecedents(terms, conj), x)
  PROVE  ConjunctionHolds(conj, x)
<1> DEFINE added == AddAntecedents(terms, conj)
<1>1. DOMAIN added = DOMAIN conj
  BY DEF AddAntecedents
<1>2. ASSUME NEW i \in DOMAIN conj
      PROVE  ImplicationHolds(conj[i], x)
  <2>1. ImplicationHolds(added[i], x)
    BY <1>1, ConjunctionMeans
  <2>2. added[i].antecedents = conj[i].antecedents \cup terms /\ added[i].consequents = conj[i].consequents
    <3>1. added[i] = [antecedents |-> conj[i].antecedents \cup terms, consequents |-> conj[i].consequents,
                      annotated |-> conj[i].annotated]
      BY AddedParts
    <3> HIDE DEF added
    <3>2. QED
      BY <3>1
  <2> HIDE DEF added
  <2>3. QED
    BY <2>1, <2>2 DEF ImplicationHolds
<1>3. QED
  BY <1>2, ConjunctionMeans

SubstituteTerm(t, val) == IF t.kind = "eq" /\ t.val.from = "local" THEN [t EXCEPT !.val = val] ELSE t

LEMMA SubstituteTermParts ==
  ASSUME NEW d, NEW t \in Hypotheses(d), NEW val \in Scalars
  PROVE  /\ SubstituteTerm(t, val) \in Hypotheses(d)
         /\ t.kind = "eq" /\ t.val.from = "local" =>
              SubstituteTerm(t, val) = [kind |-> "eq", side |-> t.side, member |-> t.member, at |-> t.at, val |-> val]
         /\ ~(t.kind = "eq" /\ t.val.from = "local") => SubstituteTerm(t, val) = t
<1>1. CASE t.kind = "eq" /\ t.val.from = "local"
  <2>1. t \in EqTerms(d)
    BY <1>1, HypothesisParts
  <2> DEFINE new == [kind |-> "eq", side |-> t.side, member |-> t.member, at |-> t.at, val |-> val]
  <2>2. [t EXCEPT !.val = val] = new
    BY <2>1, EqParts
  <2>3. new \in EqTerms(d)
    <3>1. val \in ValueTerms(d)
      BY DEF ValueTerms
    <3>2. t.side \in {"w", "c"} /\ t.member \in Members /\ t.at \in Places(d)
      BY <2>1, EqParts
    <3>3. QED
      BY <3>1, <3>2 DEF EqTerms
  <2>4. SubstituteTerm(t, val) = new
    BY <1>1, <2>2 DEF SubstituteTerm
  <2> HIDE DEF new
  <2>5. new \in Hypotheses(d)
    BY <2>3 DEF Hypotheses
  <2>6. QED
    BY <1>1, <2>4, <2>5 DEF new
<1>2. CASE ~(t.kind = "eq" /\ t.val.from = "local")
  <2>1. SubstituteTerm(t, val) = t
    BY <1>2 DEF SubstituteTerm
  <2>2. QED
    BY <1>2, <2>1
<1>3. QED
  BY <1>1, <1>2

LEMMA ConclusionsStay ==
  ASSUME NEW regions, NEW t \in Conclusions(regions), NEW val
  PROVE  SubstituteTerm(t, val) = t
<1>1. t.kind # "eq"
  BY ConclusionParts
<1>2. QED
  BY <1>1 DEF SubstituteTerm

LEMMA SubstitutedParts ==
  ASSUME NEW d, NEW regions, NEW conj \in Conjunctions(d, regions), NEW val \in Scalars
  PROVE  /\ Substitute(conj, val) \in Conjunctions(d, regions)
         /\ DOMAIN Substitute(conj, val) = DOMAIN conj
         /\ \A i \in DOMAIN conj :
              Substitute(conj, val)[i] =
                [antecedents |-> {SubstituteTerm(t, val) : t \in conj[i].antecedents},
                 consequents |-> conj[i].consequents, annotated |-> conj[i].annotated]
<1> DEFINE n == Len(conj)
           result == Substitute(conj, val)
           ants(i) == {SubstituteTerm(t, val) : t \in conj[i].antecedents}
           cons(i) == {SubstituteTerm(t, val) : t \in conj[i].consequents}
           part(i) == [antecedents |-> ants(i), consequents |-> conj[i].consequents, annotated |-> conj[i].annotated]
<1>1. n \in Nat \ {0} /\ DOMAIN conj = 1 .. n /\ \A i \in 1 .. n : conj[i] \in Implications(d, regions)
  BY ConjunctionParts
<1>2. result = [i \in 1 .. n |-> [antecedents |-> ants(i), consequents |-> cons(i), annotated |-> conj[i].annotated]]
  BY <1>1 DEF Substitute, SubstituteTerm, Implication
<1>3. ASSUME NEW i \in 1 .. n
      PROVE  cons(i) = conj[i].consequents /\ part(i) \in Implications(d, regions)
  <2> DEFINE imp == conj[i]
  <2>1. imp \in Implications(d, regions)
    BY <1>1
  <2> HIDE DEF imp
  <2>2. /\ imp.antecedents \in SUBSET Hypotheses(d) /\ imp.consequents \in SUBSET Conclusions(regions)
        /\ imp.annotated \in BOOLEAN
    BY <2>1, ImplicationParts
  <2>3. conj[i] = imp
    BY DEF imp
  <2>4. ants(i) \in SUBSET Hypotheses(d)
    BY <2>2, <2>3, SubstituteTermParts
  <2>5. cons(i) = imp.consequents
    <3>1. \A t \in imp.consequents : SubstituteTerm(t, val) = t
      BY <2>2, ConclusionsStay
    <3>2. QED
      BY <2>3, <3>1
  <2> HIDE DEF ants, cons
  <2>6. part(i) \in Implications(d, regions)
    BY <2>2, <2>3, <2>4, ImplicationOf
  <2>7. QED
    BY <2>3, <2>5, <2>6
<1>4. result = [i \in 1 .. n |-> part(i)]
  <2> HIDE DEF n, result, ants, cons
  <2>1. \A i \in 1 .. n :
          part(i) = [antecedents |-> ants(i), consequents |-> cons(i), annotated |-> conj[i].annotated]
    BY <1>3
  <2> HIDE DEF part
  <2>2. QED
    BY <1>2, <2>1
<1> HIDE DEF n, result, part, ants, cons
<1>5. result \in Seq(Implications(d, regions)) /\ Len(result) = n
  <2>1. result \in [1 .. n -> Implications(d, regions)]
    BY <1>3, <1>4
  <2>2. QED
    BY <1>1, <2>1, FunctionIsSequence
<1>6. result \in Conjunctions(d, regions)
  BY <1>1, <1>5 DEF Conjunctions
<1>7. DOMAIN result = DOMAIN conj /\ \A i \in DOMAIN conj : result[i] = part(i)
  BY <1>1, <1>4
<1>8. QED
  BY <1>6, <1>7 DEF result, part, ants

\* Two points that differ in what the local array holds.
SameButLocal(x, y) == x.w = y.w /\ x.c = y.c /\ x.k = y.k /\ x.input = y.input

LEMMA SubstitutedTermHolds ==
  ASSUME NEW d, NEW t \in Hypotheses(d), NEW val \in Scalars, NEW x, NEW y, SameButLocal(x, y),
         ValueOf(val, x, "w") = y.local
  PROVE  Holds(SubstituteTerm(t, val), x) <=> Holds(t, y)
<1> DEFINE new == SubstituteTerm(t, val)
<1>1. x.w = y.w /\ x.c = y.c /\ x.k = y.k /\ x.input = y.input
  BY DEF SameButLocal
<1>2. CASE t.kind = "when"
  <2>1. new = t
    BY <1>2, SubstituteTermParts
  <2>2. QED
    BY <1>1, <1>2, <2>1, HoldsCases
<1>3. CASE t.kind = "eq"
  <2>1. /\ t.side \in {"w", "c"} /\ t.val \in ValueTerms(d)
    BY <1>3, HypothesisParts, EqParts
  <2>2. x[t.side] = y[t.side]
    BY <1>1, <2>1
  <2>3. CASE t.val.from = "local"
    <3>1. new = [kind |-> "eq", side |-> t.side, member |-> t.member, at |-> t.at, val |-> val]
      BY <1>3, <2>3, SubstituteTermParts
    <3>2. new.kind = "eq" /\ new.side = t.side /\ new.member = t.member /\ new.at = t.at /\ new.val = val
      BY <3>1
    <3> HIDE DEF new
    <3>3. ValueOf(val, x, t.side) = y.local
      BY ValueCases, ScalarParts
    <3>4. ValueOf(t.val, y, t.side) = y.local
      BY <2>3, ValueCases
    <3>5. Holds(new, x) <=> x[t.side][t.member][Index(t.at, x.k)] = y.local
      BY <3>2, <3>3, HoldsCases
    <3>6. Holds(t, y) <=> y[t.side][t.member][Index(t.at, y.k)] = y.local
      BY <1>3, <3>4, HoldsCases
    <3>7. QED
      BY <1>1, <2>2, <3>5, <3>6 DEF new
  <2>4. CASE t.val.from # "local"
    <3>1. new = t
      BY <2>4, SubstituteTermParts
    <3> HIDE DEF new
    <3>2. ValueOf(t.val, x, t.side) = ValueOf(t.val, y, t.side)
      <4>1. t.val.from \in {"const", "input", "member"}
        BY <2>1, <2>4, ValueParts
      <4>2. QED
        BY <1>1, <2>2, <4>1, ValueCases
    <3>3. Holds(t, x) <=> x[t.side][t.member][Index(t.at, x.k)] = ValueOf(t.val, x, t.side)
      BY <1>3, HoldsCases
    <3>4. Holds(t, y) <=> y[t.side][t.member][Index(t.at, y.k)] = ValueOf(t.val, y, t.side)
      BY <1>3, HoldsCases
    <3>5. QED
      BY <1>1, <2>2, <3>1, <3>2, <3>3, <3>4 DEF new
  <2>5. QED
    BY <2>3, <2>4
<1>4. QED
  BY <1>2, <1>3, HypothesisParts

LEMMA SubstitutedHolds ==
  ASSUME NEW d, NEW conj \in Conjunctions(d, Regions), NEW val \in Scalars, NEW x, NEW y, SameButLocal(x, y),
         ValueOf(val, x, "w") = y.local, ConjunctionHolds(Substitute(conj, val), x)
  PROVE  ConjunctionHolds(conj, y)
<1> DEFINE new == Substitute(conj, val)
<1>1. DOMAIN new = DOMAIN conj /\ \A i \in DOMAIN new : ImplicationHolds(new[i], x)
  BY SubstitutedParts, ConjunctionMeans
<1>2. ASSUME NEW i \in DOMAIN conj
      PROVE  ImplicationHolds(conj[i], y)
  <2> DEFINE imp == conj[i]
             sub == new[i]
  <2>1. imp \in Implications(d, Regions)
    BY ConjunctionParts
  <2>2. imp.antecedents \in SUBSET Hypotheses(d) /\ imp.consequents \in SUBSET Conclusions(Regions)
    BY <2>1, ImplicationParts
  <2>3. sub = [antecedents |-> {SubstituteTerm(t, val) : t \in imp.antecedents},
               consequents |-> imp.consequents, annotated |-> imp.annotated]
    BY SubstitutedParts
  <2>4. ImplicationHolds(sub, x)
    BY <1>1
  <2> HIDE DEF imp, sub, new
  <2>5. sub.antecedents = {SubstituteTerm(t, val) : t \in imp.antecedents} /\ sub.consequents = imp.consequents
    BY <2>3
  <2>6. ASSUME \A t \in imp.antecedents : Holds(t, y), NEW t \in imp.consequents
        PROVE  Holds(t, y)
    <3>1. \A u \in sub.antecedents : Holds(u, x)
      <4>1. ASSUME NEW u \in imp.antecedents
            PROVE  Holds(SubstituteTerm(u, val), x)
        BY <2>2, <2>6, SubstitutedTermHolds
      <4>2. QED
        BY <2>5, <4>1
    <3>2. Holds(t, x)
      BY <2>4, <2>5, <3>1 DEF ImplicationHolds
    <3>3. QED
      BY <2>2, <3>2, SameConclusion DEF SameButLocal
  <2>7. ImplicationHolds(imp, y)
    BY <2>6 DEF ImplicationHolds
  <2>8. QED
    BY <2>7 DEF imp
<1>3. QED
  BY <1>2, ConjunctionMeans

-----------------------------------------------------------------------------
(***************************************************************************)
(* What the walk does with a statement is typed.                           *)
(***************************************************************************)
LEMMA OpWPIsTyped ==
  ASSUME NEW d, NEW regions, NEW s \in Operations(d), NEW cond \in Conjunctions(d, regions)
  PROVE  OpWP(s, cond) \in Conjunctions(d, regions)
<1>1. s.op \in {"write", "eq", "writeLocal", "readLocal"}
  BY OperationParts
<1>2. ASSUME s.op \in {"write", "eq"}, NEW side \in {"w", "c"}
      PROVE  {Equals(side, s)} \in SUBSET Hypotheses(d)
  <2>1. s.member \in Members /\ s.at \in Places(d) /\ s.val \in ValueTerms(d)
    BY <1>2, OperationParts
  <2>2. Equals(side, s) \in EqTerms(d)
    BY <2>1 DEF Equals, EqTerms
  <2>3. QED
    BY <2>2 DEF Hypotheses
<1>3. CASE s.op = "write"
  <2>1. OpWP(s, cond) = AddAntecedents({Equals("w", s)}, cond)
    BY <1>3 DEF OpWP
  <2>2. {Equals("w", s)} \in SUBSET Hypotheses(d)
    BY <1>2, <1>3
  <2>3. QED
    BY <2>1, <2>2, AddedParts
<1>4. CASE s.op = "eq"
  <2>1. OpWP(s, cond) = AddAntecedents({Equals("c", s)}, cond)
    BY <1>4 DEF OpWP
  <2>2. {Equals("c", s)} \in SUBSET Hypotheses(d)
    BY <1>2, <1>4
  <2>3. QED
    BY <2>1, <2>2, AddedParts
<1>5. CASE s.op = "writeLocal"
  <2>1. OpWP(s, cond) = Substitute(cond, s.val)
    BY <1>5 DEF OpWP
  <2>2. s.val \in Scalars
    BY <1>5, OperationParts
  <2>3. QED
    BY <2>1, <2>2, SubstitutedParts
<1>6. CASE s.op = "readLocal"
  BY <1>6 DEF OpWP
<1>7. QED
  BY <1>1, <1>3, <1>4, <1>5, <1>6

\* What every turn keeps holds for all of them.
LEMMA ValuesOf ==
  ASSUME NEW n \in Nat, NEW S, NEW f, f = [i \in 0 .. n |-> f[i]], f[0] \in S,
         \A i \in 1 .. n : f[i - 1] \in S => f[i] \in S
  PROVE  f \in [0 .. n -> S]
<1> DEFINE P == {i \in 0 .. n : f[i] \in S}
<1>1. 0 \in P
  OBVIOUS
<1>2. ASSUME NEW i \in 0 .. n - 1, i \in P
      PROVE  i + 1 \in P
  <2>1. i + 1 \in 1 .. n /\ i + 1 \in 0 .. n /\ (i + 1) - 1 = i
    OBVIOUS
  <2>2. f[i + 1] \in S
    BY <1>2, <2>1
  <2>3. QED
    BY <2>1, <2>2
<1> HIDE DEF P
<1>3. \A i \in 0 .. n : i \in P
  BY <1>1, <1>2, UpToInduction
<1>4. \A i \in 0 .. n : f[i] \in S
  BY <1>3 DEF P
<1>5. QED
  BY <1>4

OpsConds(f, ops, cond, d, regions) ==
  /\ f \in [0 .. Len(ops) -> Conjunctions(d, regions)] /\ f[0] = cond /\ f[Len(ops)] = OpsWP(ops, cond)
  /\ \A i \in 1 .. Len(ops) : f[i] = OpWP(ops[Len(ops) + 1 - i], f[i - 1])

LEMMA OpsCondsExist ==
  ASSUME NEW d, NEW regions, NEW cond \in Conjunctions(d, regions), NEW ops \in Seq(Operations(d))
  PROVE  \E f : OpsConds(f, ops, cond, d, regions)
<1> DEFINE S == Conjunctions(d, regions)
           n == Len(ops)
           turn == [p \in S \X (1 .. n) |-> OpWP(ops[n + 1 - p[2]], p[1])]
<1>1. n \in Nat /\ \A i \in 1 .. n : ops[n + 1 - i] \in Operations(d)
  <2>1. n \in Nat /\ \A i \in 1 .. n : ops[i] \in Operations(d)
    BY LenProperties, ElementOfSeq
  <2> HIDE DEF n
  <2>2. \A i \in 1 .. n : n + 1 - i \in 1 .. n
    BY <2>1
  <2>3. QED
    BY <2>1, <2>2
<1> HIDE DEF n
<1>2. ASSUME NEW now \in S, NEW i \in 1 .. n
      PROVE  turn[<<now, i>>] = OpWP(ops[n + 1 - i], now) /\ OpWP(ops[n + 1 - i], now) \in S
  <2>1. turn[<<now, i>>] = OpWP(ops[n + 1 - i], now)
    OBVIOUS
  <2>2. QED
    BY <2>1, <1>1, OpWPIsTyped
<1> HIDE DEF S
<1>3. turn \in [S \X (1 .. n) -> S]
  BY <1>2
<1> HIDE DEF turn
<1>4. cond \in S
  BY DEF S
<1>5. PICK f \in [0 .. n -> S] : f = [i \in 0 .. n |-> IF i = 0 THEN cond ELSE turn[<<f[i - 1], i>>]]
  <2>1. \E f : TurnsOf(f, S, cond, n, turn)
    BY <1>1, <1>3, <1>4, TurnsExist
  <2>2. QED
    BY <2>1 DEF TurnsOf
<1>6. ASSUME NEW i \in 0 .. n
      PROVE  f[i] = IF i = 0 THEN cond ELSE OpWP(ops[n + 1 - i], f[i - 1])
  <2>1. f[i] = IF i = 0 THEN cond ELSE turn[<<f[i - 1], i>>]
    BY <1>5
  <2>2. i # 0 => f[i - 1] \in S /\ i \in 1 .. n
    BY <1>1
  <2>3. QED
    BY <2>1, <2>2, <1>2
<1>7. f = [i \in 0 .. n |-> IF i = 0 THEN cond ELSE OpWP(ops[n + 1 - i], f[i - 1])]
  <2>1. f = [i \in 0 .. n |-> f[i]]
    OBVIOUS
  <2>2. QED
    BY <2>1, <1>6
<1> DEFINE acc[i \in 0 .. n] == IF i = 0 THEN cond ELSE OpWP(ops[n + 1 - i], acc[i - 1])
<1>8. OpsWP(ops, cond) = acc[n]
  BY DEF OpsWP, Turns, n
<1>9. acc = [i \in 0 .. n |-> IF i = 0 THEN cond ELSE OpWP(ops[n + 1 - i], acc[i - 1])]
  <2>1. \E g : g = [i \in 0 .. n |-> IF i = 0 THEN cond ELSE OpWP(ops[n + 1 - i], g[i - 1])]
    BY <1>7
  <2>2. QED
    BY <2>1 DEF acc
<1> HIDE DEF acc
<1>10. acc = [i \in 0 .. n |-> acc[i]] /\ acc[0] = cond /\ \A i \in 1 .. n : acc[i] = OpWP(ops[n + 1 - i], acc[i - 1])
  <2> DEFINE body(i) == IF i = 0 THEN cond ELSE OpWP(ops[n + 1 - i], acc[i - 1])
  <2>1. acc = [i \in 0 .. n |-> body(i)]
    BY <1>9
  <2>2. body(0) = cond /\ \A i \in 1 .. n : body(i) = OpWP(ops[n + 1 - i], acc[i - 1])
    OBVIOUS
  <2> HIDE DEF body
  <2>3. \A i \in 0 .. n : acc[i] = body(i)
    BY <2>1
  <2>4. 0 \in 0 .. n /\ \A i \in 1 .. n : i \in 0 .. n
    BY <1>1
  <2>5. QED
    BY <2>1, <2>2, <2>3, <2>4
<1>11. acc \in [0 .. n -> S]
  <2>1. \A i \in 1 .. n : acc[i - 1] \in S => acc[i] \in S
    BY <1>2, <1>10
  <2>2. QED
    BY <1>1, <1>4, <1>10, <2>1, ValuesOf
<1>12. OpsConds(acc, ops, cond, d, regions)
  BY <1>8, <1>10, <1>11 DEF OpsConds, n, S
<1>13. QED
  BY <1>12

LEMMA OpsWPIsTyped ==
  ASSUME NEW d, NEW regions, NEW cond \in Conjunctions(d, regions), NEW ops \in Seq(Operations(d))
  PROVE  OpsWP(ops, cond) \in Conjunctions(d, regions)
<1>1. PICK f : OpsConds(f, ops, cond, d, regions)
  BY OpsCondsExist
<1>2. Len(ops) \in 0 .. Len(ops)
  BY LenProperties
<1>3. QED
  BY <1>1, <1>2 DEF OpsConds

\* The two branches, and what the condition of each adds.
Branch(s, taken, cond) ==
  AddAntecedents({When(s.cond, taken)}, OpsWP(IF taken THEN s.then ELSE s.else, cond))

LEMMA BranchesJoin ==
  ASSUME NEW d, NEW regions, NEW cond \in Conjunctions(d, regions), NEW s \in Statements(d), s.op = "if"
  PROVE  /\ StatementWP(s, cond) = Branch(s, TRUE, cond) \o Branch(s, FALSE, cond)
         /\ \A taken \in BOOLEAN :
              /\ OpsWP(IF taken THEN s.then ELSE s.else, cond) \in Conjunctions(d, regions)
              /\ {When(s.cond, taken)} \in SUBSET Hypotheses(d)
              /\ Branch(s, taken, cond) \in Conjunctions(d, regions)
<1>1. /\ s.cond \in Conditions(d)
      /\ s.then \in Seq(Operations(d)) /\ s.else \in Seq(Operations(d))
  BY StatementParts
<1>2. ASSUME NEW taken \in BOOLEAN
      PROVE  /\ OpsWP(IF taken THEN s.then ELSE s.else, cond) \in Conjunctions(d, regions)
             /\ {When(s.cond, taken)} \in SUBSET Hypotheses(d)
             /\ Branch(s, taken, cond) \in Conjunctions(d, regions)
  <2>1. OpsWP(IF taken THEN s.then ELSE s.else, cond) \in Conjunctions(d, regions)
    BY <1>1, OpsWPIsTyped
  <2>2. When(s.cond, taken) \in WhenTerms(d)
    BY <1>1 DEF When, WhenTerms
  <2>3. {When(s.cond, taken)} \in SUBSET Hypotheses(d)
    BY <2>2 DEF Hypotheses
  <2>4. Branch(s, taken, cond) \in Conjunctions(d, regions)
    BY <2>1, <2>3, AddedParts DEF Branch
  <2>5. QED
    BY <2>1, <2>3, <2>4
<1>3. StatementWP(s, cond) = Branch(s, TRUE, cond) \o Branch(s, FALSE, cond)
  BY DEF StatementWP, Branch
<1>4. QED
  BY <1>2, <1>3

\* A concatenation holds where both parts hold.
LEMMA JoinedHold ==
  ASSUME NEW d, NEW regions, NEW a \in Conjunctions(d, regions), NEW b \in Conjunctions(d, regions), NEW x
  PROVE  /\ a \o b \in Conjunctions(d, regions)
         /\ ConjunctionHolds(a \o b, x) => ConjunctionHolds(a, x) /\ ConjunctionHolds(b, x)
<1>1. a \in Seq(Implications(d, regions)) /\ b \in Seq(Implications(d, regions)) /\ Len(a) > 0
  BY DEF Conjunctions
<1>2. Len(a) \in Nat /\ Len(b) \in Nat /\ DOMAIN a = 1 .. Len(a) /\ DOMAIN b = 1 .. Len(b)
  BY <1>1, LenProperties
<1>3. a \o b \in Seq(Implications(d, regions)) /\ Len(a \o b) = Len(a) + Len(b)
  BY <1>1, ConcatProperties
<1>4. \A i \in 1 .. Len(a) + Len(b) : (a \o b)[i] = IF i <= Len(a) THEN a[i] ELSE b[i - Len(a)]
  BY <1>1, ConcatProperties
<1>5. a \o b \in Conjunctions(d, regions)
  BY <1>1, <1>2, <1>3 DEF Conjunctions
<1>6. ASSUME ConjunctionHolds(a \o b, x)
      PROVE  ConjunctionHolds(a, x) /\ ConjunctionHolds(b, x)
  <2>1. DOMAIN (a \o b) = 1 .. Len(a) + Len(b)
    BY <1>3, LenProperties
  <2>2. \A i \in 1 .. Len(a) + Len(b) : ImplicationHolds((a \o b)[i], x)
    BY <1>6, <2>1, ConjunctionMeans
  <2>3. ASSUME NEW i \in DOMAIN a
        PROVE  ImplicationHolds(a[i], x)
    <3>1. i \in 1 .. Len(a) + Len(b) /\ (a \o b)[i] = a[i]
      BY <1>2, <1>4
    <3>2. QED
      BY <2>2, <3>1
  <2>4. ASSUME NEW i \in DOMAIN b
        PROVE  ImplicationHolds(b[i], x)
    <3>1. i + Len(a) \in 1 .. Len(a) + Len(b) /\ ~(i + Len(a) <= Len(a)) /\ (i + Len(a)) - Len(a) = i
      BY <1>2
    <3>2. (a \o b)[i + Len(a)] = b[i]
      BY <1>4, <3>1
    <3>3. QED
      BY <2>2, <3>1, <3>2
  <2>5. QED
    BY <2>3, <2>4, ConjunctionMeans
<1>7. QED
  BY <1>5, <1>6

LEMMA StatementWPIsTyped ==
  ASSUME NEW d, NEW regions, NEW s \in Statements(d), NEW cond \in Conjunctions(d, regions)
  PROVE  StatementWP(s, cond) \in Conjunctions(d, regions)
<1>1. CASE s.op # "if"
  <2>1. s \in Operations(d) /\ StatementWP(s, cond) = OpWP(s, cond)
    BY <1>1, StatementParts DEF StatementWP
  <2>2. QED
    BY <2>1, OpWPIsTyped
<1>2. CASE s.op = "if"
  <2> DEFINE a == Branch(s, TRUE, cond)
             b == Branch(s, FALSE, cond)
  <2>1. StatementWP(s, cond) = a \o b
    BY <1>2, BranchesJoin
  <2>2. a \in Conjunctions(d, regions) /\ b \in Conjunctions(d, regions)
    BY <1>2, BranchesJoin
  <2> HIDE DEF a, b
  <2>3. QED
    BY <2>1, <2>2, JoinedHold
<1>3. QED
  BY <1>1, <1>2

BlockConds(f, block, cond, d, regions) ==
  /\ f \in [0 .. Len(block) -> Conjunctions(d, regions)] /\ f[0] = cond /\ f[Len(block)] = BlockWP(block, cond)
  /\ \A i \in 1 .. Len(block) : f[i] = StatementWP(block[Len(block) + 1 - i], f[i - 1])

LEMMA BlockCondsExist ==
  ASSUME NEW d, NEW regions, NEW cond \in Conjunctions(d, regions), NEW block \in Seq(Statements(d))
  PROVE  \E f : BlockConds(f, block, cond, d, regions)
<1> DEFINE S == Conjunctions(d, regions)
           n == Len(block)
           turn == [p \in S \X (1 .. n) |-> StatementWP(block[n + 1 - p[2]], p[1])]
<1>1. n \in Nat /\ \A i \in 1 .. n : block[n + 1 - i] \in Statements(d)
  <2>1. n \in Nat /\ \A i \in 1 .. n : block[i] \in Statements(d)
    BY LenProperties, ElementOfSeq
  <2> HIDE DEF n
  <2>2. \A i \in 1 .. n : n + 1 - i \in 1 .. n
    BY <2>1
  <2>3. QED
    BY <2>1, <2>2
<1> HIDE DEF n
<1>2. ASSUME NEW now \in S, NEW i \in 1 .. n
      PROVE  turn[<<now, i>>] = StatementWP(block[n + 1 - i], now) /\ StatementWP(block[n + 1 - i], now) \in S
  <2>1. turn[<<now, i>>] = StatementWP(block[n + 1 - i], now)
    OBVIOUS
  <2>2. QED
    BY <2>1, <1>1, StatementWPIsTyped
<1> HIDE DEF S
<1>3. turn \in [S \X (1 .. n) -> S]
  BY <1>2
<1> HIDE DEF turn
<1>4. cond \in S
  BY DEF S
<1>5. PICK f \in [0 .. n -> S] : f = [i \in 0 .. n |-> IF i = 0 THEN cond ELSE turn[<<f[i - 1], i>>]]
  <2>1. \E f : TurnsOf(f, S, cond, n, turn)
    BY <1>1, <1>3, <1>4, TurnsExist
  <2>2. QED
    BY <2>1 DEF TurnsOf
<1>6. ASSUME NEW i \in 0 .. n
      PROVE  f[i] = IF i = 0 THEN cond ELSE StatementWP(block[n + 1 - i], f[i - 1])
  <2>1. f[i] = IF i = 0 THEN cond ELSE turn[<<f[i - 1], i>>]
    BY <1>5
  <2>2. i # 0 => f[i - 1] \in S /\ i \in 1 .. n
    BY <1>1
  <2>3. QED
    BY <2>1, <2>2, <1>2
<1>7. f = [i \in 0 .. n |-> IF i = 0 THEN cond ELSE StatementWP(block[n + 1 - i], f[i - 1])]
  <2>1. f = [i \in 0 .. n |-> f[i]]
    OBVIOUS
  <2>2. QED
    BY <2>1, <1>6
<1> DEFINE acc[i \in 0 .. n] == IF i = 0 THEN cond ELSE StatementWP(block[n + 1 - i], acc[i - 1])
<1>8. BlockWP(block, cond) = acc[n]
  BY DEF BlockWP, Turns, n
<1>9. acc = [i \in 0 .. n |-> IF i = 0 THEN cond ELSE StatementWP(block[n + 1 - i], acc[i - 1])]
  <2>1. \E g : g = [i \in 0 .. n |-> IF i = 0 THEN cond ELSE StatementWP(block[n + 1 - i], g[i - 1])]
    BY <1>7
  <2>2. QED
    BY <2>1 DEF acc
<1> HIDE DEF acc
<1>10. acc = [i \in 0 .. n |-> acc[i]] /\ acc[0] = cond /\ \A i \in 1 .. n : acc[i] = StatementWP(block[n + 1 - i], acc[i - 1])
  <2> DEFINE body(i) == IF i = 0 THEN cond ELSE StatementWP(block[n + 1 - i], acc[i - 1])
  <2>1. acc = [i \in 0 .. n |-> body(i)]
    BY <1>9
  <2>2. body(0) = cond /\ \A i \in 1 .. n : body(i) = StatementWP(block[n + 1 - i], acc[i - 1])
    OBVIOUS
  <2> HIDE DEF body
  <2>3. \A i \in 0 .. n : acc[i] = body(i)
    BY <2>1
  <2>4. 0 \in 0 .. n /\ \A i \in 1 .. n : i \in 0 .. n
    BY <1>1
  <2>5. QED
    BY <2>1, <2>2, <2>3, <2>4
<1>11. acc \in [0 .. n -> S]
  <2>1. \A i \in 1 .. n : acc[i - 1] \in S => acc[i] \in S
    BY <1>2, <1>10
  <2>2. QED
    BY <1>1, <1>4, <1>10, <2>1, ValuesOf
<1>12. BlockConds(acc, block, cond, d, regions)
  BY <1>8, <1>10, <1>11 DEF BlockConds, n, S
<1>13. QED
  BY <1>12

LEMMA BlockWPIsTyped ==
  ASSUME NEW d, NEW regions, NEW cond \in Conjunctions(d, regions), NEW block \in Seq(Statements(d))
  PROVE  BlockWP(block, cond) \in Conjunctions(d, regions)
<1>1. PICK f : BlockConds(f, block, cond, d, regions)
  BY BlockCondsExist
<1>2. Len(block) \in 0 .. Len(block)
  BY LenProperties
<1>3. QED
  BY <1>1, <1>2 DEF BlockConds

-----------------------------------------------------------------------------
(***************************************************************************)
(* What holds before a statement by what the walk makes of it holds after  *)
(* it, at every point whose members fit the equations of the run.          *)
(***************************************************************************)

\* The members of e meet every equation that the program wrote or constrained.
Agrees(e, done) ==
  \A f \in done : /\ f.s.op = "write" => FactHolds(f, e.w, e.input)
                  /\ f.s.op = "eq" => FactHolds(f, e.c, e.input)

\* e may be a point of a run that has come to now.
Fits(e, now) == now \in States /\ e.input = now.input /\ ~now.stale /\ Agrees(e, now.done)

LEMMA FitsBefore ==
  ASSUME NEW e, NEW st \in States, NEW now, Later(st, now), Fits(e, now)
  PROVE  Fits(e, st)
<1>1. st.stale \in BOOLEAN /\ now.stale \in BOOLEAN
  BY DEF States, Fits
<1>2. now.input = st.input /\ st.done \subseteq now.done /\ ~st.stale
  BY <1>1 DEF Later, Fits
<1>3. QED
  BY <1>2 DEF Fits, Agrees

\* An equation of the run holds at the point it was made at.
LEMMA EquationHolds ==
  ASSUME NEW d, NEW s \in Operations(d), s.op \in {"write", "eq"}, NEW e, NEW st \in States, NEW k, ~StaleAt(st, s),
         Agrees(e, {FactAt(st, s, k)}), e.input = st.input
  PROVE  Holds(Equals(IF s.op = "write" THEN "w" ELSE "c", s), Point(e, k, st.local))
<1> DEFINE f == FactAt(st, s, k)
           side == IF s.op = "write" THEN "w" ELSE "c"
           mem == IF s.op = "write" THEN e.w ELSE e.c
           t == Equals(side, s)
           x == Point(e, k, st.local)
           y == [w |-> mem, k |-> k, input |-> e.input, local |-> st.read]
<1>1. f.s = s /\ f.k = k /\ f.read = st.read
  BY DEF FactAt
<1>2. FactHolds(f, mem, e.input)
  BY <1>1 DEF Agrees
<1>3. mem[s.member][Index(s.at, k)] = ValueOf(s.val, y, "w")
  BY <1>1, <1>2 DEF FactHolds
<1>4. /\ t.kind = "eq" /\ t.side = side /\ t.member = s.member /\ t.at = s.at /\ t.val = s.val
  BY DEF Equals
<1>5. /\ x.w = e.w /\ x.c = e.c /\ x.k = k /\ x.input = e.input /\ x.local = st.local /\ x[side] = mem
  BY DEF Point
<1>6. y.k = k /\ y.input = e.input /\ y.local = st.read /\ y["w"] = mem
  OBVIOUS
<1>7. s.val.from = "local" => st.read = st.local
  BY DEF StaleAt
<1>8. s.val.from \in {"const", "input", "local", "member"}
  BY OperationParts, ValueParts
<1> HIDE DEF f, side, mem, t, x, y
<1>9. ValueOf(s.val, y, "w") = ValueOf(s.val, x, side)
  BY <1>5, <1>6, <1>7, <1>8, ValueCases
<1>10. Holds(t, x)
  <2>1. Holds(t, x) <=> x[side][s.member][Index(s.at, x.k)] = ValueOf(s.val, x, side)
    BY <1>4, HoldsCases
  <2>2. QED
    BY <1>3, <1>5, <1>9, <2>1
<1>11. QED
  BY <1>10 DEF t, x, side

LEMMA OpIsSound ==
  ASSUME NEW d \in Nat, NEW k \in [1 .. d -> Indices], NEW st \in States, NEW s \in Operations(d),
         NEW cond \in Conjunctions(d, Regions), NEW e, Fits(e, Step(st, s, k)),
         ConjunctionHolds(OpWP(s, cond), Point(e, k, st.local))
  PROVE  ConjunctionHolds(cond, Point(e, k, Step(st, s, k).local))
<1> DEFINE now == Step(st, s, k)
           x == Point(e, k, st.local)
           y == Point(e, k, now.local)
<1>1. s.op \in {"write", "eq", "writeLocal", "readLocal"}
  BY OperationParts
<1>2. Fits(e, st)
  BY StepIsTyped, FitsBefore
<1>3. e.input = st.input /\ ~now.stale /\ Agrees(e, now.done)
  BY <1>2 DEF Fits
<1>4. CASE s.op \in {"write", "eq"}
  <2> DEFINE side == IF s.op = "write" THEN "w" ELSE "c"
  <2>1. now.local = st.local /\ now.stale = StaleAt(st, s) /\ now.done = st.done \cup {FactAt(st, s, k)}
    <3>1. CASE s.op = "write"
      <4>1. now = [w |-> [st.w EXCEPT ![s.member][Index(s.at, k)] = ValueAt(st, s, k)], local |-> st.local,
                   read |-> st.read, input |-> st.input, stale |-> StaleAt(st, s),
                   done |-> st.done \cup {FactAt(st, s, k)}]
        BY <3>1, WriteStep
      <4> HIDE DEF now
      <4>2. QED
        BY <4>1
    <3>2. CASE s.op = "eq"
      <4>1. now = [w |-> st.w, local |-> st.local, read |-> st.read, input |-> st.input,
                   stale |-> StaleAt(st, s), done |-> st.done \cup {FactAt(st, s, k)}]
        BY <3>2, EqStep
      <4> HIDE DEF now
      <4>2. QED
        BY <4>1
    <3>3. QED
      BY <1>4, <3>1, <3>2
  <2> HIDE DEF now
  <2>2. ~StaleAt(st, s)
    BY <1>3, <2>1
  <2>3. Agrees(e, {FactAt(st, s, k)})
    BY <1>3, <2>1 DEF Agrees
  <2>4. Holds(Equals(side, s), x)
    BY <1>3, <1>4, <2>2, <2>3, EquationHolds
  <2>5. OpWP(s, cond) = AddAntecedents({Equals(side, s)}, cond)
    BY <1>4 DEF OpWP
  <2>6. {Equals(side, s)} \in SUBSET Hypotheses(d)
    <3>1. s.member \in Members /\ s.at \in Places(d) /\ s.val \in ValueTerms(d) /\ side \in {"w", "c"}
      BY <1>4, OperationParts
    <3> HIDE DEF side
    <3>2. Equals(side, s) \in EqTerms(d)
      BY <3>1 DEF Equals, EqTerms
    <3>3. QED
      BY <3>2 DEF Hypotheses
  <2>7. ConjunctionHolds(cond, x)
    <3> DEFINE terms == {Equals(side, s)}
    <3>1. ConjunctionHolds(AddAntecedents(terms, cond), x) /\ \A t \in terms : Holds(t, x)
      BY <2>4, <2>5
    <3>2. terms \in SUBSET Hypotheses(d)
      BY <2>6
    <3> HIDE DEF terms, x, side
    <3>3. QED
      BY <3>1, <3>2, AddedHold
  <2>8. QED
    BY <2>1, <2>7 DEF now
<1>5. CASE s.op = "writeLocal"
  <2>1. now = [w |-> st.w, local |-> ValueAt(st, s, k), read |-> st.read, input |-> st.input,
               stale |-> StaleAt(st, s), done |-> st.done]
    BY <1>5, WriteLocalStep
  <2>2. s.val \in Scalars /\ OpWP(s, cond) = Substitute(cond, s.val)
    BY <1>5, OperationParts DEF OpWP
  <2> HIDE DEF now
  <2>3. ~StaleAt(st, s) /\ now.local = ValueAt(st, s, k)
    BY <1>3, <2>1
  <2>4. SameButLocal(x, y)
    BY DEF SameButLocal, Point
  <2>5. ValueOf(s.val, x, "w") = y.local
    <3> DEFINE z == [w |-> st.w, k |-> k, input |-> st.input, local |-> st.read]
    <3>1. y.local = ValueOf(s.val, z, "w")
      BY <2>3 DEF ValueAt, Point
    <3>2. x.input = st.input /\ x.local = st.local /\ z.input = st.input /\ z.local = st.read
      BY <1>3 DEF Point
    <3>3. s.val.from = "local" => st.read = st.local
      BY <2>3 DEF StaleAt
    <3>4. s.val.from \in {"const", "input", "local"}
      BY <2>2, ScalarParts
    <3> HIDE DEF x, y, z
    <3>5. QED
      BY <3>1, <3>2, <3>3, <3>4, ValueCases
  <2> HIDE DEF x, y
  <2>6. ConjunctionHolds(Substitute(cond, s.val), x)
    BY <2>2 DEF x
  <2>7. ConjunctionHolds(cond, y)
    BY <2>2, <2>4, <2>5, <2>6, SubstitutedHolds
  <2>8. QED
    BY <2>7 DEF y, now
<1>6. CASE s.op = "readLocal"
  <2>1. now = [w |-> st.w, local |-> st.local, read |-> st.local, input |-> st.input,
               stale |-> st.stale, done |-> st.done]
    BY <1>6, ReadLocalStep
  <2>2. OpWP(s, cond) = cond
    BY <1>6 DEF OpWP
  <2> HIDE DEF now
  <2>3. now.local = st.local
    BY <2>1
  <2>4. QED
    BY <2>2, <2>3 DEF now
<1>7. QED
  BY <1>1, <1>4, <1>5, <1>6

LEMMA OpsAreSound ==
  ASSUME NEW d \in Nat, NEW k \in [1 .. d -> Indices], NEW st \in States, NEW ops \in Seq(Operations(d)),
         NEW cond \in Conjunctions(d, Regions), NEW e, Fits(e, RunOps(ops, st, k)),
         ConjunctionHolds(OpsWP(ops, cond), Point(e, k, st.local))
  PROVE  ConjunctionHolds(cond, Point(e, k, RunOps(ops, st, k).local))
<1> DEFINE n == Len(ops)
<1>1. n \in Nat /\ \A i \in 1 .. n : ops[i] \in Operations(d)
  BY LenProperties, ElementOfSeq
<1>2. PICK f : OpsRun(f, ops, st, k)
  BY OpsRunExists
<1>3. PICK g : OpsConds(g, ops, cond, d, Regions)
  BY OpsCondsExist
<1>4. /\ f[0] = st /\ f[n] = RunOps(ops, st, k) /\ f \in [0 .. n -> States]
      /\ \A i \in 1 .. n : f[i] = Step(f[i - 1], ops[i], k) /\ Later(f[i - 1], f[i])
  BY <1>2 DEF OpsRun, Chain
<1>5. /\ g[0] = cond /\ g[n] = OpsWP(ops, cond) /\ g \in [0 .. n -> Conjunctions(d, Regions)]
      /\ \A i \in 1 .. n : g[i] = OpWP(ops[n + 1 - i], g[i - 1])
  BY <1>3 DEF OpsConds
<1> DEFINE P == {i \in 0 .. n : ConjunctionHolds(g[n - i], Point(e, k, f[i].local))}
<1> HIDE DEF n
<1>6. 0 \in P
  <2>1. n - 0 = n /\ 0 \in 0 .. n
    BY <1>1
  <2>2. QED
    BY <1>4, <1>5, <2>1
<1>7. ASSUME NEW i \in 0 .. n - 1, i \in P
      PROVE  i + 1 \in P
  <2> DEFINE j == i + 1
             m == n - j
  <2>1. /\ j \in 1 .. n /\ j \in 0 .. n /\ j - 1 = i /\ i \in 0 .. n /\ m \in 0 .. n
        /\ m + 1 \in 1 .. n /\ (m + 1) - 1 = m /\ m + 1 = n - i /\ n + 1 - (m + 1) = j
    BY <1>1
  <2>2. f[i] \in States /\ f[j] = Step(f[i], ops[j], k) /\ ops[j] \in Operations(d)
    BY <1>1, <1>4, <2>1
  <2>3. g[m] \in Conjunctions(d, Regions) /\ g[n - i] = OpWP(ops[j], g[m])
    BY <1>5, <2>1
  <2>4. Fits(e, f[j])
    <3>1. Later(f[j], f[n])
      BY <1>1, <1>4, <2>1, ChainIsLater
    <3>2. QED
      BY <1>4, <2>1, <3>1, FitsBefore
  <2>5. ConjunctionHolds(OpWP(ops[j], g[m]), Point(e, k, f[i].local))
    BY <1>7, <2>3
  <2> HIDE DEF j, m
  <2>6. ConjunctionHolds(g[m], Point(e, k, f[j].local))
    BY <2>2, <2>3, <2>4, <2>5, OpIsSound
  <2>7. j \in P
    BY <2>1, <2>6 DEF m
  <2>8. QED
    BY <2>7 DEF j
<1>8. n \in P
  <2> HIDE DEF P
  <2>1. n \in 0 .. n
    BY <1>1
  <2>2. QED
    BY <1>1, <1>6, <1>7, <2>1, UpToInduction
<1>9. n - n = 0
  BY <1>1
<1>10. QED
  BY <1>4, <1>5, <1>8, <1>9

LEMMA StatementIsSound ==
  ASSUME NEW d \in Nat, NEW k \in [1 .. d -> Indices], NEW st \in States, NEW s \in Statements(d),
         NEW cond \in Conjunctions(d, Regions), NEW e, Fits(e, RunStatement(st, s, k)),
         ConjunctionHolds(StatementWP(s, cond), Point(e, k, st.local))
  PROVE  ConjunctionHolds(cond, Point(e, k, RunStatement(st, s, k).local))
<1> DEFINE x == Point(e, k, st.local)
<1>1. CASE s.op # "if"
  <2>1. s \in Operations(d) /\ RunStatement(st, s, k) = Step(st, s, k) /\ StatementWP(s, cond) = OpWP(s, cond)
    BY <1>1, StatementParts DEF RunStatement, StatementWP
  <2>2. QED
    BY <2>1, OpIsSound
<1>2. CASE s.op = "if"
  <2> DEFINE taken == ConditionHolds(s.cond, st.input, k)
             ops == IF taken THEN s.then ELSE s.else
             term == When(s.cond, taken)
  <2>1. s.cond \in Conditions(d) /\ ops \in Seq(Operations(d))
    BY <1>2, StatementParts
  <2>2. taken \in BOOLEAN
    BY <2>1 DEF ConditionHolds, Conditions
  <2>3. RunStatement(st, s, k) = RunOps(ops, st, k)
    BY <1>2 DEF RunStatement
  <2>4. Fits(e, st)
    BY StatementIsTyped, FitsBefore
  <2>5. Holds(term, x)
    <3>1. term.kind = "when" /\ term.cond = s.cond /\ term.is = taken
      BY DEF When
    <3>2. x.input = st.input /\ x.k = k
      BY <2>4 DEF Point, Fits
    <3>3. ConditionHolds(s.cond, x.input, x.k) = taken
      BY <3>2
    <3> HIDE DEF term, x, taken
    <3>4. QED
      BY <3>1, <3>3, HoldsCases
  <2>6. Branch(s, taken, cond) = AddAntecedents({term}, OpsWP(ops, cond))
    BY DEF Branch
  <2>7. OpsWP(ops, cond) \in Conjunctions(d, Regions) /\ {term} \in SUBSET Hypotheses(d)
    <3> HIDE DEF taken
    <3>1. QED
      BY <1>2, <2>2, BranchesJoin
  <2>8. ConjunctionHolds(Branch(s, taken, cond), x)
    <3>1. ConjunctionHolds(Branch(s, TRUE, cond) \o Branch(s, FALSE, cond), x)
      BY <1>2, BranchesJoin
    <3>2. /\ Branch(s, TRUE, cond) \in Conjunctions(d, Regions)
          /\ Branch(s, FALSE, cond) \in Conjunctions(d, Regions)
      BY <1>2, BranchesJoin
    <3>3. ConjunctionHolds(Branch(s, TRUE, cond), x) /\ ConjunctionHolds(Branch(s, FALSE, cond), x)
      BY <3>1, <3>2, JoinedHold
    <3>4. taken = TRUE \/ taken = FALSE
      BY <2>2
    <3> HIDE DEF taken
    <3>5. QED
      BY <3>3, <3>4
  <2>9. ConjunctionHolds(OpsWP(ops, cond), x)
    <3> HIDE DEF x, ops, term, taken
    <3>1. ConjunctionHolds(AddAntecedents({term}, OpsWP(ops, cond)), x)
      BY <2>6, <2>8
    <3>2. QED
      BY <2>5, <2>7, <3>1, AddedHold
  <2> HIDE DEF ops
  <2>10. QED
    BY <2>1, <2>3, <2>9, OpsAreSound
<1>3. QED
  BY <1>1, <1>2

LEMMA BlockIsSound ==
  ASSUME NEW d \in Nat, NEW k \in [1 .. d -> Indices], NEW st \in States, NEW block \in Seq(Statements(d)),
         NEW cond \in Conjunctions(d, Regions), NEW e, Fits(e, RunBlock(block, st, k)),
         ConjunctionHolds(BlockWP(block, cond), Point(e, k, st.local))
  PROVE  ConjunctionHolds(cond, Point(e, k, RunBlock(block, st, k).local))
<1> DEFINE n == Len(block)
<1>1. n \in Nat /\ \A i \in 1 .. n : block[i] \in Statements(d)
  BY LenProperties, ElementOfSeq
<1>2. PICK f : BlockRun(f, block, st, k)
  BY BlockRunExists
<1>3. PICK g : BlockConds(g, block, cond, d, Regions)
  BY BlockCondsExist
<1>4. /\ f[0] = st /\ f[n] = RunBlock(block, st, k) /\ f \in [0 .. n -> States]
      /\ \A i \in 1 .. n : f[i] = RunStatement(f[i - 1], block[i], k) /\ Later(f[i - 1], f[i])
  BY <1>2 DEF BlockRun, Chain
<1>5. /\ g[0] = cond /\ g[n] = BlockWP(block, cond) /\ g \in [0 .. n -> Conjunctions(d, Regions)]
      /\ \A i \in 1 .. n : g[i] = StatementWP(block[n + 1 - i], g[i - 1])
  BY <1>3 DEF BlockConds
<1> DEFINE P == {i \in 0 .. n : ConjunctionHolds(g[n - i], Point(e, k, f[i].local))}
<1> HIDE DEF n
<1>6. 0 \in P
  <2>1. n - 0 = n /\ 0 \in 0 .. n
    BY <1>1
  <2>2. QED
    BY <1>4, <1>5, <2>1
<1>7. ASSUME NEW i \in 0 .. n - 1, i \in P
      PROVE  i + 1 \in P
  <2> DEFINE j == i + 1
             m == n - j
  <2>1. /\ j \in 1 .. n /\ j \in 0 .. n /\ j - 1 = i /\ i \in 0 .. n /\ m \in 0 .. n
        /\ m + 1 \in 1 .. n /\ (m + 1) - 1 = m /\ m + 1 = n - i /\ n + 1 - (m + 1) = j
    BY <1>1
  <2>2. f[i] \in States /\ f[j] = RunStatement(f[i], block[j], k) /\ block[j] \in Statements(d)
    BY <1>1, <1>4, <2>1
  <2>3. g[m] \in Conjunctions(d, Regions) /\ g[n - i] = StatementWP(block[j], g[m])
    BY <1>5, <2>1
  <2>4. Fits(e, f[j])
    <3>1. Later(f[j], f[n])
      BY <1>1, <1>4, <2>1, ChainIsLater
    <3>2. QED
      BY <1>4, <2>1, <3>1, FitsBefore
  <2>5. ConjunctionHolds(StatementWP(block[j], g[m]), Point(e, k, f[i].local))
    BY <1>7, <2>3
  <2> HIDE DEF j, m
  <2>6. ConjunctionHolds(g[m], Point(e, k, f[j].local))
    BY <2>2, <2>3, <2>4, <2>5, StatementIsSound
  <2>7. j \in P
    BY <2>1, <2>6 DEF m
  <2>8. QED
    BY <2>7 DEF j
<1>8. n \in P
  <2> HIDE DEF P
  <2>1. n \in 0 .. n
    BY <1>1
  <2>2. QED
    BY <1>1, <1>6, <1>7, <2>1, UpToInduction
<1>9. n - n = 0
  BY <1>1
<1>10. QED
  BY <1>4, <1>5, <1>8, <1>9

-----------------------------------------------------------------------------
(***************************************************************************)
(* Loops: what their body keeps from the tuples visited to the current one *)
(* holds for every tuple of the nest.                                      *)
(***************************************************************************)
LEMMA PredicateParts ==
  ASSUME NEW s, IsLoop(s), NEW p \in PredicatesOf(s.body)
  PROVE  p.member \in Members /\ p.at \in AnyPlace
<1> DEFINE d == Len(s.ranges)
           body == s.body
<1>1. d \in Nat /\ body \in Seq(Statements(d))
  BY NestParts DEF IsLoop
<1> HIDE DEF d, body
<1>2. ASSUME NEW i \in DOMAIN body
      PROVE  (IF body[i].op = "if" THEN Range(body[i].then) \cup Range(body[i].else) ELSE {body[i]}) \subseteq Operations(d)
  <2> DEFINE t == body[i]
  <2>1. t \in Statements(d)
    BY <1>1, LenProperties, ElementOfSeq
  <2> HIDE DEF t
  <2>2. ASSUME NEW q \in Seq(Operations(d))
        PROVE  Range(q) \subseteq Operations(d)
    BY LenProperties, ElementOfSeq DEF Range
  <2>3. (IF t.op = "if" THEN Range(t.then) \cup Range(t.else) ELSE {t}) \subseteq Operations(d)
    BY <2>1, <2>2, StatementParts
  <2>4. QED
    BY <2>3 DEF t
<1>3. Walk(body) \subseteq Operations(d)
  <2>1. \A t \in Range(body) : \E i \in DOMAIN body : t = body[i]
    BY DEF Range
  <2>2. ASSUME NEW o \in Walk(body)
        PROVE  o \in Operations(d)
    <3>1. PICK t \in Range(body) : o \in IF t.op = "if" THEN Range(t.then) \cup Range(t.else) ELSE {t}
      BY DEF Walk
    <3>2. PICK i \in DOMAIN body : t = body[i]
      BY <2>1
    <3>3. QED
      BY <1>2, <3>1, <3>2
  <2>3. QED
    BY <2>2
<1>4. PICK o \in Walk(body) : o.op = "write" /\ p = [member |-> o.member, at |-> o.at]
  BY DEF PredicatesOf, body
<1>5. o \in Operations(d)
  BY <1>3
<1>6. o.member \in Members /\ o.at \in Places(d)
  BY <1>4, <1>5, OperationParts
<1>7. Places(d) \subseteq AnyPlace
  BY <1>1, PlacesGrow
<1>8. QED
  BY <1>4, <1>6, <1>7

LEMMA QuantifiedParts ==
  ASSUME NEW p, p.member \in Members, p.at \in AnyPlace, NEW rs \in Nests, NEW regions, NEW where \in regions
  PROVE  LET t == QuantifyPredicate(p, where, rs)
         IN /\ t \in Conclusions(regions)
            /\ t.kind = "all" /\ t.member = p.member /\ t.at = p.at /\ t.where = where /\ t.ranges = rs
<1> DEFINE t == QuantifyPredicate(p, where, rs)
<1>1. t = [kind |-> "all", member |-> p.member, at |-> p.at, where |-> where, ranges |-> rs]
  BY DEF QuantifyPredicate
<1> HIDE DEF t
<1>2. t \in [kind : {"all"}, member : Members, at : AnyPlace, where : regions, ranges : Nests]
  BY <1>1
<1>3. t \in Conclusions(regions)
  BY <1>2 DEF Conclusions
<1>4. QED
  BY <1>1, <1>3 DEF t

LEMMA OfIsTyped ==
  ASSUME NEW d, NEW regions, NEW terms \in SUBSET Conclusions(regions)
  PROVE  /\ Of(terms) \in Conjunctions(d, regions)
         /\ \A x : ConjunctionHolds(Of(terms), x) <=> \A t \in terms : Holds(t, x)
<1> DEFINE imp == Implication({}, terms, FALSE)
<1>1. imp = [antecedents |-> {}, consequents |-> terms, annotated |-> FALSE]
  BY DEF Implication
<1>2. imp \in Implications(d, regions)
  <2>1. {} \in SUBSET Hypotheses(d) /\ FALSE \in BOOLEAN
    OBVIOUS
  <2> HIDE DEF imp
  <2>2. QED
    BY <1>1, <2>1, ImplicationOf
<1>3. Of(terms) = <<imp>>
  BY DEF Of
<1> HIDE DEF imp
<1>4. imp.antecedents = {} /\ imp.consequents = terms
  BY <1>1
<1>5. <<imp>> \in Seq(Implications(d, regions)) /\ Len(<<imp>>) = 1
  BY <1>2
<1>6. Of(terms) \in Conjunctions(d, regions)
  BY <1>3, <1>5 DEF Conjunctions
<1>7. ASSUME NEW x
      PROVE  ConjunctionHolds(Of(terms), x) <=> \A t \in terms : Holds(t, x)
  <2>1. ConjunctionHolds(Of(terms), x) <=> ImplicationHolds(imp, x)
    <3>1. DOMAIN <<imp>> = {1} /\ <<imp>>[1] = imp
      OBVIOUS
    <3>2. QED
      BY <1>3, <3>1, ConjunctionMeans
  <2>2. QED
    BY <1>4, <2>1 DEF ImplicationHolds
<1>8. QED
  BY <1>6, <1>7

\* Both sides have the same element that p names at y.
Same(e, p, y) == e.w[p.member][Index(p.at, y)] = e.c[p.member][Index(p.at, y)]

LEMMA QuantifiedHolds ==
  ASSUME NEW p, NEW where, NEW rs, NEW e, NEW k, NEW local
  PROVE  Holds(QuantifyPredicate(p, where, rs), Point(e, k, local))
           <=> \A y \in Counters(rs) : InRegion(y, QuantifyPredicate(p, where, rs), k) => Same(e, p, y)
<1> DEFINE t == QuantifyPredicate(p, where, rs)
           x == Point(e, k, local)
<1>1. t.kind = "all" /\ t.member = p.member /\ t.at = p.at /\ t.ranges = rs
  BY DEF QuantifyPredicate
<1>2. x.w = e.w /\ x.c = e.c /\ x.k = k
  BY DEF Point
<1> HIDE DEF t, x
<1>3. Holds(t, x) <=> \A y \in Counters(t.ranges) :
                        InRegion(y, t, x.k) => x.w[t.member][Index(t.at, y)] = x.c[t.member][Index(t.at, y)]
  BY <1>1, HoldsCases
<1>4. QED
  BY <1>1, <1>2, <1>3 DEF Same, t, x

LEMMA RegionCases ==
  ASSUME NEW p, NEW rs, NEW y, NEW k
  PROVE  /\ InRegion(y, QuantifyPredicate(p, "visited", rs), k) <=> GetLoopAntecedent(y, k, rs, FALSE)
         /\ InRegion(y, QuantifyPredicate(p, "current", rs), k) <=> (y = k \/ GetLoopAntecedent(y, k, rs, FALSE))
         /\ InRegion(y, QuantifyPredicate(p, "loop", rs), k) <=> \A d \in DOMAIN rs : ValueInRange(y[d], rs[d])
<1>1. InRegion(y, QuantifyPredicate(p, "visited", rs), k) <=> GetLoopAntecedent(y, k, rs, FALSE)
  BY DEF InRegion, QuantifyPredicate
<1>2. InRegion(y, QuantifyPredicate(p, "current", rs), k) <=> (y = k \/ GetLoopAntecedent(y, k, rs, FALSE))
  BY DEF InRegion, QuantifyPredicate
<1>3. InRegion(y, QuantifyPredicate(p, "loop", rs), k) <=> \A d \in DOMAIN rs : ValueInRange(y[d], rs[d])
  BY DEF InRegion, QuantifyPredicate
<1>4. QED
  BY <1>1, <1>2, <1>3

\* The query of computeInvariant for p, of any loop.
CurrentOf(s, p) == BlockWP(s.body, Of({QuantifyPredicate(p, "current", s.ranges)}))

LEMMA LoopIsSound ==
  ASSUME NEW s, IsLoop(s), NEW st \in States, NEW e, Fits(e, RunLoop(s, st)), NEW ind \in SUBSET PredicatesOf(s.body),
         \A p \in ind : \A k \in [1 .. Len(s.ranges) -> Indices], local \in Values :
           (\A q \in ind : Holds(QuantifyPredicate(q, "visited", s.ranges), Point(e, k, local)))
             => ConjunctionHolds(CurrentOf(s, p), Point(e, k, local))
  PROVE  \A p \in ind : \A k, local : Holds(QuantifyPredicate(p, "loop", s.ranges), Point(e, k, local))
<1> DEFINE rs == s.ranges
           d == Len(rs)
           its == Iterations(rs)
           n == Len(its)
<1>1. /\ rs \in Nests /\ d \in Nat /\ DOMAIN rs = 1 .. d /\ n \in Nat /\ s.body \in Seq(Statements(d))
      /\ \A i \in 1 .. n : its[i] \in [1 .. d -> Indices]
  BY IterationsAreTuples DEF IsLoop
<1>2. /\ \A i \in 1 .. n : InNest(its[i], rs)
      /\ \A x : InNest(x, rs) => \E i \in 1 .. n : x = its[i]
  BY <1>1, NestsAreEnumerated DEF Enumerates
<1>3. PICK f : LoopRun(f, s, st)
  BY LoopRunExists
<1>4. /\ f[n] = RunLoop(s, st) /\ f \in [0 .. n -> States]
      /\ \A i \in 1 .. n : f[i] = RunBlock(s.body, f[i - 1], its[i]) /\ Later(f[i - 1], f[i])
  BY <1>3 DEF LoopRun, Chain
<1>5. \A p \in ind : p.member \in Members /\ p.at \in AnyPlace
  BY PredicateParts
<1> DEFINE P == {i \in 0 .. n : \A j \in 1 .. i : \A p \in ind : Same(e, p, its[j])}
<1> HIDE DEF rs, d, its, n
<1>6. 0 \in P
  BY <1>1
<1>7. ASSUME NEW i \in 0 .. n - 1, i \in P
      PROVE  i + 1 \in P
  <2> DEFINE m == i + 1
             k == its[m]
             local == f[i].local
             x == Point(e, k, local)
  <2>1. m \in 1 .. n /\ m \in 0 .. n /\ m - 1 = i /\ i \in 0 .. n
    BY <1>1
  <2>2. /\ f[i] \in States /\ f[m] = RunBlock(s.body, f[i], k) /\ k \in [1 .. d -> Indices]
        /\ local \in Values /\ k \in Counters(rs)
    <3>1. f[i] \in States /\ f[m] = RunBlock(s.body, f[i], k) /\ k \in [1 .. d -> Indices] /\ k \in Counters(rs)
      BY <1>1, <1>2, <1>4, <2>1 DEF InNest
    <3>2. QED
      BY <3>1 DEF States
  <2>3. Fits(e, f[m])
    <3>1. Later(f[m], f[n])
      BY <1>1, <1>4, <2>1, ChainIsLater
    <3>2. QED
      BY <1>4, <2>1, <3>1, FitsBefore DEF rs, its, n
  <2> HIDE DEF m, k, local
  <2>4. ASSUME NEW q \in ind
        PROVE  Holds(QuantifyPredicate(q, "visited", rs), x)
    <3>1. ASSUME NEW y \in Counters(rs), GetLoopAntecedent(y, k, rs, FALSE)
          PROVE  Same(e, q, y)
      <4>1. \E j \in 1 .. m - 1 : y = its[j]
        BY <1>1, <2>1, <3>1, AntecedentIsExecuted DEF its, n, k
      <4>2. QED
        BY <1>7, <2>1, <4>1
    <3> HIDE DEF x
    <3>2. QED
      BY <3>1, QuantifiedHolds, RegionCases DEF x
  <2>5. ASSUME NEW p \in ind
        PROVE  Same(e, p, k)
    <3> DEFINE t == QuantifyPredicate(p, "current", rs)
               y == Point(e, k, f[m].local)
    <3>1. ConjunctionHolds(CurrentOf(s, p), x)
      BY <2>2, <2>4 DEF rs, d
    <3>2. t \in Conclusions(Regions)
      BY <1>1, <1>5, QuantifiedParts DEF Regions
    <3> HIDE DEF t
    <3>3. Of({t}) \in Conjunctions(d, Regions)
      <4>1. {t} \in SUBSET Conclusions(Regions)
        BY <3>2
      <4>2. QED
        BY <4>1, OfIsTyped
    <3>4. CurrentOf(s, p) = BlockWP(s.body, Of({t}))
      BY DEF CurrentOf, t, rs
    <3>5. ConjunctionHolds(Of({t}), y)
      <4> DEFINE goal == Of({t})
                 st0 == f[i]
      <4>1. Fits(e, RunBlock(s.body, st0, k)) /\ st0 \in States /\ y = Point(e, k, RunBlock(s.body, st0, k).local)
        BY <2>2, <2>3
      <4>2. ConjunctionHolds(BlockWP(s.body, goal), Point(e, k, st0.local))
        BY <3>1, <3>4 DEF local
      <4>3. goal \in Conjunctions(d, Regions) /\ k \in [1 .. d -> Indices]
        BY <2>2, <3>3
      <4> HIDE DEF goal, st0, y
      <4>4. ConjunctionHolds(goal, Point(e, k, RunBlock(s.body, st0, k).local))
        BY <1>1, <4>1, <4>2, <4>3, BlockIsSound
      <4>5. QED
        BY <4>1, <4>4 DEF goal
    <3>6. Holds(t, y)
      <4>1. {t} \in SUBSET Conclusions(Regions)
        BY <3>2
      <4>2. \A u \in {t} : Holds(u, y)
        BY <3>5, <4>1, OfIsTyped
      <4>3. QED
        BY <4>2
    <3>7. \A z \in Counters(rs) : InRegion(z, t, k) => Same(e, p, z)
      BY <3>6, QuantifiedHolds DEF t
    <3>8. InRegion(k, t, k)
      BY RegionCases DEF t
    <3>9. QED
      BY <2>2, <3>7, <3>8
  <2>6. \A j \in 1 .. m : j = m \/ j \in 1 .. i
    BY <2>1
  <2>7. m \in P
    BY <1>7, <2>1, <2>5, <2>6 DEF k
  <2>8. QED
    BY <2>7 DEF m
<1>8. n \in P
  <2> HIDE DEF P
  <2>1. n \in 0 .. n
    BY <1>1
  <2>2. QED
    BY <1>1, <1>6, <1>7, <2>1, UpToInduction
<1>9. ASSUME NEW p \in ind, NEW k, NEW local
      PROVE  Holds(QuantifyPredicate(p, "loop", rs), Point(e, k, local))
  <2>1. ASSUME NEW y \in Counters(rs), \A i \in DOMAIN rs : ValueInRange(y[i], rs[i])
        PROVE  Same(e, p, y)
    <3>1. PICK i \in 1 .. n : y = its[i]
      BY <1>2, <2>1 DEF InNest
    <3>2. QED
      BY <1>8, <3>1
  <2>2. QED
    BY <2>1, QuantifiedHolds, RegionCases
<1>10. QED
  BY <1>9 DEF rs

-----------------------------------------------------------------------------
(***************************************************************************)
(* Executions of a program.                                                *)
(***************************************************************************)
LEMMA StartsAreStates == Starts \subseteq States
<1>1. ASSUME NEW input \in Values, NEW free \in Values
      PROVE  [w |-> [m \in Members |-> [i \in Indices |-> free]], local |-> free, read |-> free, input |-> input,
              stale |-> FALSE, done |-> {}] \in States
  <2> DEFINE m0 == [m \in Members |-> [i \in Indices |-> free]]
  <2>1. m0 \in Memories
    BY DEF Memories
  <2> HIDE DEF m0
  <2>2. [w |-> m0, local |-> free, read |-> free, input |-> input, stale |-> FALSE, done |-> {}] \in States
    BY <2>1 DEF States
  <2>3. QED
    BY <2>2 DEF m0
<1>2. QED
  BY <1>1 DEF Starts

\* e is an execution of p through the states of f.
ExecutionOf(e, f, p) ==
  /\ Chain(f, Len(p), f[0])
  /\ \A i \in 1 .. Len(p) : f[i] = Advance(f[i - 1], p[i])
  /\ e.w \in Memories /\ e.c \in Memories /\ e.input \in Values
  /\ \A i \in 0 .. Len(p) : e.locals[i + 1] = f[i].local
  /\ e.plain => Fits(e, f[Len(p)])

LEMMA ExecutionsAreRuns ==
  ASSUME NEW p \in Programs, NEW e \in Executions(p)
  PROVE  \E f : ExecutionOf(e, f, p)
<1> DEFINE n == Len(p)
<1>1. n \in Nat
  BY ProgramsAreWellFormed
<1>2. PICK start \in Starts :
        e \in {[w |-> Run(p, start)[n].w, c |-> c, input |-> Run(p, start)[n].input,
                locals |-> [i \in 1 .. n + 1 |-> Run(p, start)[i - 1].local],
                plain |-> WritesPersist(Run(p, start)[n]) /\ ~Run(p, start)[n].stale] :
               c \in {m \in Memories : Admits(Run(p, start)[n], m)}}
  BY DEF Executions
<1> DEFINE f == Run(p, start)
           out == f[n]
<1>3. PICK c \in Memories :
        /\ Admits(out, c)
        /\ e = [w |-> out.w, c |-> c, input |-> out.input, locals |-> [i \in 1 .. n + 1 |-> f[i - 1].local],
                plain |-> WritesPersist(out) /\ ~out.stale]
  BY <1>2
<1>4. start \in States
  BY StartsAreStates
<1>5. PICK g : ProgramRun(g, p, start)
  BY <1>4, ProgramRunExists
<1>6. /\ Chain(f, n, start) /\ \A i \in 1 .. n : f[i] = Advance(f[i - 1], p[i])
  BY <1>5 DEF ProgramRun
<1> HIDE DEF f, n, out
<1>7. f \in [0 .. n -> States] /\ f[0] = start
  BY <1>6 DEF Chain
<1>8. out \in States
  BY <1>1, <1>7 DEF out
<1>9. out.w \in Memories /\ out.input \in Values /\ out.stale \in BOOLEAN
  BY <1>8 DEF States
<1>10. e.w = out.w /\ e.c = c /\ e.input = out.input /\ e.locals = [i \in 1 .. n + 1 |-> f[i - 1].local]
  BY <1>3
<1>11. \A i \in 0 .. n : e.locals[i + 1] = f[i].local
  <2>1. ASSUME NEW i \in 0 .. n
        PROVE  e.locals[i + 1] = f[i].local
    <3>1. i + 1 \in 1 .. n + 1 /\ (i + 1) - 1 = i
      BY <1>1
    <3>2. QED
      BY <1>10, <3>1
  <2>2. QED
    BY <2>1
<1>12. ASSUME e.plain
       PROVE  Fits(e, out)
  <2>1. WritesPersist(out) /\ ~out.stale
    BY <1>3, <1>12
  <2>2. ASSUME NEW fact \in out.done
        PROVE  /\ fact.s.op = "write" => FactHolds(fact, e.w, e.input)
               /\ fact.s.op = "eq" => FactHolds(fact, e.c, e.input)
    <3>1. fact.s.op = "write" => FactHolds(fact, out.w, out.input)
      BY <2>1 DEF WritesPersist
    <3>2. fact.s.op = "eq" => FactHolds(fact, c, out.input)
      BY <1>3 DEF Admits
    <3>3. QED
      BY <1>10, <3>1, <3>2
  <2>3. Agrees(e, out.done)
    BY <2>2 DEF Agrees
  <2>4. QED
    BY <1>8, <1>10, <2>1, <2>3 DEF Fits
<1>13. ExecutionOf(e, f, p)
  BY <1>6, <1>7, <1>9, <1>10, <1>11, <1>12 DEF ExecutionOf, n, out
<1>14. QED
  BY <1>13

LEMMA ExecutionStep ==
  ASSUME NEW p \in Programs, NEW e, NEW f, ExecutionOf(e, f, p), e.plain, NEW i \in 1 .. Len(p)
  PROVE  /\ f[i - 1] \in States /\ f[i] = Advance(f[i - 1], p[i]) /\ Fits(e, f[i])
         /\ e.locals[i] = f[i - 1].local /\ e.locals[i + 1] = f[i].local /\ f[i].local \in Values
<1> DEFINE n == Len(p)
<1>1. n \in Nat
  BY ProgramsAreWellFormed
<1>2. /\ f \in [0 .. n -> States] /\ \A j \in 1 .. n : Later(f[j - 1], f[j])
      /\ f[i] = Advance(f[i - 1], p[i]) /\ Fits(e, f[n])
      /\ \A j \in 0 .. n : e.locals[j + 1] = f[j].local
  BY DEF ExecutionOf, Chain
<1> HIDE DEF n
<1>3. i \in 1 .. n /\ i \in 0 .. n /\ i - 1 \in 0 .. n /\ (i - 1) + 1 = i
  BY <1>1 DEF n
<1>4. f[i - 1] \in States /\ f[i] \in States
  BY <1>2, <1>3
<1>5. Later(f[i], f[n])
  BY <1>1, <1>2, <1>3, ChainIsLater
<1>6. Fits(e, f[i])
  BY <1>2, <1>4, <1>5, FitsBefore
<1>7. e.locals[(i - 1) + 1] = f[i - 1].local /\ e.locals[i + 1] = f[i].local
  BY <1>2, <1>3
<1>8. f[i].local \in Values
  BY <1>4 DEF States
<1>9. QED
  BY <1>2, <1>3, <1>4, <1>6, <1>7, <1>8

-----------------------------------------------------------------------------
(***************************************************************************)
(* Conditions between the statements of a program: no counter is in scope. *)
(***************************************************************************)
LEMMA RegionsGrow ==
  ASSUME NEW r1, NEW r2, r1 \subseteq r2, NEW d
  PROVE  Conclusions(r1) \subseteq Conclusions(r2) /\ Conjunctions(d, r1) \subseteq Conjunctions(d, r2)
<1>1. Conclusions(r1) \subseteq Conclusions(r2)
  BY DEF Conclusions
<1>2. ASSUME NEW imp \in Implications(d, r1)
      PROVE  imp \in Implications(d, r2)
  BY <1>1, <1>2 DEF Implications
<1>3. ASSUME NEW conj \in Conjunctions(d, r1)
      PROVE  conj \in Conjunctions(d, r2)
  <2>1. Len(conj) \in Nat \ {0} /\ DOMAIN conj = 1 .. Len(conj) /\ \A i \in DOMAIN conj : conj[i] \in Implications(d, r1)
    BY ConjunctionParts
  <2>2. conj \in Seq(Implications(d, r1))
    BY DEF Conjunctions
  <2>3. conj \in [1 .. Len(conj) -> Implications(d, r2)]
    <3>1. conj = [i \in 1 .. Len(conj) |-> conj[i]]
      BY <2>2
    <3>2. QED
      BY <1>2, <2>1, <3>1
  <2>4. conj \in Seq(Implications(d, r2))
    BY <2>1, <2>3, FunctionIsSequence
  <2>5. QED
    BY <2>1, <2>4 DEF Conjunctions
<1>4. QED
  BY <1>1, <1>3

LEMMA TopLevelTerm ==
  ASSUME NEW t \in Hypotheses(0), NEW e, NEW k1, NEW k2, NEW local
  PROVE  Holds(t, Point(e, k1, local)) <=> Holds(t, Point(e, k2, local))
<1> DEFINE x == Point(e, k1, local)
           y == Point(e, k2, local)
<1>1. x.w = y.w /\ x.c = y.c /\ x.input = y.input /\ x.local = y.local
  BY DEF Point
<1>2. ASSUME NEW at \in Places(0), NEW k
      PROVE  Index(at, k) = at.ix
  BY DEF Places, Index
<1> HIDE DEF x, y
<1>3. CASE t.kind = "when"
  <2>1. t.cond = "input"
    BY <1>3, HypothesisParts DEF WhenTerms, Conditions
  <2>2. ConditionHolds(t.cond, x.input, x.k) = ConditionHolds(t.cond, y.input, y.k)
    BY <1>1, <2>1 DEF ConditionHolds
  <2>3. Holds(t, x) <=> Holds(t, y)
    BY <1>3, <2>2, HoldsCases
  <2>4. QED
    BY <2>3 DEF x, y
<1>4. CASE t.kind = "eq"
  <2>1. /\ t.side \in {"w", "c"} /\ t.val \in ValueTerms(0) /\ t.at \in Places(0)
    BY <1>4, HypothesisParts, EqParts
  <2>2. x[t.side] = y[t.side] /\ Index(t.at, x.k) = Index(t.at, y.k)
    BY <1>1, <1>2, <2>1
  <2>3. ValueOf(t.val, x, t.side) = ValueOf(t.val, y, t.side)
    <3>1. CASE t.val.from = "member"
      <4>1. Index(t.val.at, x.k) = Index(t.val.at, y.k)
        BY <1>2, <2>1, <3>1, ValueParts
      <4>2. QED
        BY <2>2, <3>1, <4>1, ValueCases
    <3>2. CASE t.val.from \in {"const", "input", "local"}
      BY <1>1, <3>2, ValueCases
    <3>3. QED
      BY <2>1, <3>1, <3>2, ValueParts
  <2>4. Holds(t, x) <=> x[t.side][t.member][Index(t.at, x.k)] = ValueOf(t.val, x, t.side)
    BY <1>4, HoldsCases
  <2>5. Holds(t, y) <=> y[t.side][t.member][Index(t.at, y.k)] = ValueOf(t.val, y, t.side)
    BY <1>4, HoldsCases
  <2>6. QED
    BY <2>2, <2>3, <2>4, <2>5 DEF x, y
<1>5. QED
  BY <1>3, <1>4, HypothesisParts

\* Where one stands in a nest and what the local array holds do not matter for whole members.
LEMMA ConclusionAnywhere ==
  ASSUME NEW t \in Conclusions(WholeRegions), NEW e, NEW k1, NEW k2, NEW l1, NEW l2
  PROVE  Holds(t, Point(e, k1, l1)) <=> Holds(t, Point(e, k2, l2))
<1>1. t \in Conclusions(Regions)
  BY RegionsGrow DEF WholeRegions, Regions
<1>2. QED
  BY <1>1, SameConclusion DEF Point

LEMMA TopLevelAnywhere ==
  ASSUME NEW conj \in Conjunctions(0, WholeRegions), NEW e, NEW k1, NEW k2, NEW local,
         ConjunctionHolds(conj, Point(e, k1, local))
  PROVE  ConjunctionHolds(conj, Point(e, k2, local))
<1>1. ASSUME NEW i \in DOMAIN conj
      PROVE  ImplicationHolds(conj[i], Point(e, k2, local))
  <2>1. conj[i].antecedents \in SUBSET Hypotheses(0) /\ conj[i].consequents \in SUBSET Conclusions(WholeRegions)
    BY ConjunctionParts, ImplicationParts
  <2>2. ImplicationHolds(conj[i], Point(e, k1, local))
    BY ConjunctionMeans
  <2>3. QED
    BY <2>1, <2>2, TopLevelTerm, ConclusionAnywhere DEF ImplicationHolds
<1>2. QED
  BY <1>1, ConjunctionMeans

-----------------------------------------------------------------------------
(***************************************************************************)
(* The queries of a loop, of whatever statement and known members.         *)
(***************************************************************************)
PointsOf(kn, rs) ==
  {x \in [w : Memories, c : Memories, k : [DOMAIN rs -> Indices], input : Values, local : Values] :
     \A m \in kn : x.w[m] = x.c[m]}

ValidFor(kn, hyps, conj, rs) ==
  \A x \in PointsOf(kn, rs) : (\A t \in hyps : Holds(t, x)) => ConjunctionHolds(conj, x)

Quantified(ps, where, s) == {QuantifyPredicate(p, where, s.ranges) : p \in ps}
OutsideOf(s) == Quantified(PredicatesOf(s.body), "outside", s)
\* The predicates in ind follow from those in ps for the tuples before.
Kept(kn, s, ps, ind) == \A p \in ind : ValidFor(kn, Quantified(ps, "visited", s) \cup OutsideOf(s), CurrentOf(s, p), s.ranges)
GivenOf(s, ind) == Quantified(ind, "loop", s) \cup OutsideOf(s)

LEMMA QueriesAre ==
  /\ \A hyps, conj, rs : Valid(hyps, conj, rs) <=> ValidFor(known, hyps, conj, rs)
  /\ \A ps, where : AllOf(ps, where) = Quantified(ps, where, Loop)
  /\ Strengthenings = OutsideOf(Loop)
  /\ \A p : Current(p) = CurrentOf(Loop, p)
  /\ Given = GivenOf(Loop, inductive)
<1>1. \A hyps, conj, rs : Valid(hyps, conj, rs) <=> ValidFor(known, hyps, conj, rs)
  BY DEF Valid, ValidFor, Interpretations, PointsOf
<1>2. \A ps, where : AllOf(ps, where) = Quantified(ps, where, Loop)
  BY DEF AllOf, Quantified
<1>3. Strengthenings = OutsideOf(Loop)
  BY <1>2 DEF Strengthenings, OutsideOf, Predicates
<1>4. ASSUME NEW p
      PROVE  Current(p) = CurrentOf(Loop, p)
  <2>1. AllOf({p}, "current") = {QuantifyPredicate(p, "current", Loop.ranges)}
    BY DEF AllOf
  <2>2. QED
    BY <2>1 DEF Current, CurrentOf
<1>5. Given = GivenOf(Loop, inductive)
  BY <1>2, <1>3 DEF Given, GivenOf, InductiveInvariant
<1>6. QED
  BY <1>1, <1>2, <1>3, <1>4, <1>5

LEMMA QuantifiedAreConclusions ==
  ASSUME NEW s, IsLoop(s), NEW ps \in SUBSET PredicatesOf(s.body), NEW regions, NEW where \in regions
  PROVE  Quantified(ps, where, s) \in SUBSET Conclusions(regions)
<1>1. ASSUME NEW p \in ps
      PROVE  QuantifyPredicate(p, where, s.ranges) \in Conclusions(regions)
  <2>1. p.member \in Members /\ p.at \in AnyPlace /\ s.ranges \in Nests
    BY PredicateParts DEF IsLoop
  <2>2. QED
    BY <2>1, QuantifiedParts
<1>2. QED
  BY <1>1 DEF Quantified

\* The points of an execution in which the known members agree are points of every query.
LEMMA PointIsInterpretation ==
  ASSUME NEW e, e.w \in Memories, e.c \in Memories, e.input \in Values, NEW rs,
         NEW k \in [DOMAIN rs -> Indices], NEW local \in Values, NEW kn, \A m \in kn : e.w[m] = e.c[m]
  PROVE  Point(e, k, local) \in PointsOf(kn, rs)
BY DEF Point, PointsOf

\* post holds after a loop if what computeInvariant returns holds before it.
LEMMA LeavingIsSound ==
  ASSUME NEW p \in Programs, NEW e, NEW f, ExecutionOf(e, f, p), e.plain, NEW i \in 1 .. Len(p), IsLoop(p[i]),
         NEW kn, \A m \in kn : e.w[m] = e.c[m],
         NEW ind \in SUBSET PredicatesOf(p[i].body), Kept(kn, p[i], ind, ind),
         NEW terms \in SUBSET Conclusions(WholeRegions), OutsideOf(p[i]) \subseteq terms,
         \A t \in terms : Holds(t, Point(e, <<>>, e.locals[i])),
         NEW cond \in Conjunctions(0, WholeRegions),
         \A k \in [DOMAIN p[i].ranges -> Indices], local \in Values :
           (\A t \in GivenOf(p[i], ind) \cup terms : Holds(t, Point(e, k, local)))
             => ConjunctionHolds(cond, Point(e, k, local))
  PROVE  ConjunctionHolds(cond, Point(e, <<>>, e.locals[i + 1]))
<1> DEFINE s == p[i]
           rs == s.ranges
           st == f[i - 1]
<1>1. /\ st \in States /\ f[i] = Advance(st, s) /\ Fits(e, f[i]) /\ e.locals[i + 1] = f[i].local
      /\ f[i].local \in Values
  BY ExecutionStep
<1>2. IsLoop(s) /\ f[i] = RunLoop(s, st) /\ DOMAIN rs = 1 .. Len(rs)
  BY <1>1, IterationsAreTuples DEF Advance, IsLoop
<1>3. e.w \in Memories /\ e.c \in Memories /\ e.input \in Values
  BY DEF ExecutionOf
<1>4. ASSUME NEW t \in terms, NEW k, NEW local
      PROVE  Holds(t, Point(e, k, local))
  BY <1>4, ConclusionAnywhere
<1> HIDE DEF s, rs, st
<1>5. ASSUME NEW q \in ind, NEW k \in [1 .. Len(rs) -> Indices], NEW local \in Values,
             \A r \in ind : Holds(QuantifyPredicate(r, "visited", rs), Point(e, k, local))
      PROVE  ConjunctionHolds(CurrentOf(s, q), Point(e, k, local))
  <2>1. Point(e, k, local) \in PointsOf(kn, rs)
    BY <1>2, <1>3, PointIsInterpretation
  <2>2. \A t \in Quantified(ind, "visited", s) \cup OutsideOf(s) : Holds(t, Point(e, k, local))
    <3>1. \A t \in OutsideOf(s) : Holds(t, Point(e, k, local))
      BY <1>4 DEF s
    <3>2. QED
      BY <1>5, <3>1 DEF Quantified, rs
  <2>3. ValidFor(kn, Quantified(ind, "visited", s) \cup OutsideOf(s), CurrentOf(s, q), rs)
    BY DEF Kept, s, rs
  <2>4. QED
    BY <2>1, <2>2, <2>3 DEF ValidFor
<1>6. \A q \in ind : \A k, local : Holds(QuantifyPredicate(q, "loop", rs), Point(e, k, local))
  BY <1>1, <1>2, <1>5, LoopIsSound DEF s, rs
<1> DEFINE k0 == [d \in DOMAIN rs |-> 0]
           x == Point(e, k0, f[i].local)
<1>7. k0 \in [DOMAIN rs -> Indices]
  BY SizesAreFinite DEF Indices
<1>8. \A t \in GivenOf(s, ind) \cup terms : Holds(t, x)
  <2> HIDE DEF k0
  <2>1. \A t \in OutsideOf(s) : t \in terms
    BY DEF s
  <2>2. QED
    BY <1>4, <1>6, <2>1 DEF GivenOf, Quantified, rs
<1>9. ConjunctionHolds(cond, x)
  <2> HIDE DEF k0
  <2>1. QED
    BY <1>1, <1>7, <1>8 DEF s, rs
<1>10. ConjunctionHolds(cond, Point(e, <<>>, f[i].local))
  <2> HIDE DEF k0
  <2>1. QED
    BY <1>9, TopLevelAnywhere
<1>11. QED
  BY <1>1, <1>10

-----------------------------------------------------------------------------
(***************************************************************************)
(* The invariant.  What a walk has reached is falsified by every           *)
(* counterexample: to show it of what computeInvariant returns, one must   *)
(* know what its answers said.                                             *)
(***************************************************************************)

\* What the walk was given is true of the program.
RunInv ==
  pc # "start" =>
    /\ failures = {e \in Executions(prog) : e.w # e.c}
    /\ plain => \A e \in Executions(prog) : e.plain
    /\ \A e \in Executions(prog) : \A m \in known : e.w[m] = e.c[m]
    /\ post \in Conjunctions(0, WholeRegions)

WalkInv ==
  pc \in {"walk", "induct", "core"} /\ WithinScope =>
    \A e \in failures : ~ConjunctionHolds(post, Point(e, <<>>, e.locals[pos + 1]))

\* What was found inductive follows from all candidates.
LoopInv ==
  pc \in {"induct", "core"} =>
    /\ pos \in 1 .. Len(prog) /\ IsLoop(Loop)
    /\ Kept(known, Loop, Predicates, inductive)
    /\ core \subseteq Conclusions(WholeRegions)

\* A consequent that was tried is in the core or is implied, and so is, unless one was dropped,
\* everything that is not tried.
CoreInv ==
  pc = "core" =>
    /\ ~circular => Kept(known, Loop, inductive, inductive)
    /\ ~dropped => ValidFor(known, GivenOf(Loop, inductive), NotAnnotated(post), Loop.ranges)
    /\ todo \subseteq Pairs(post)
    /\ \A q \in Pairs(post) \ todo :
         \/ q.consequent \in core
         \/ ValidFor(known, GivenOf(Loop, inductive) \cup q.antecedents, Of({q.consequent}), Loop.ranges)

VerdictInv ==
  /\ verdict # "none" => pc = "done"
  /\ verdict = "unsat" /\ WithinScope => failures = {}

WPInv == TypeOK /\ RunInv /\ WalkInv /\ LoopInv /\ CoreInv /\ VerdictInv

LEMMA WholeConditions ==
  ASSUME NEW conj \in Conjunctions(0, WholeRegions)
  PROVE  Len(conj) > 0 /\ conj \in Conjunctions(0, Regions)
<1>1. Len(conj) > 0
  BY DEF Conjunctions
<1>2. QED
  BY <1>1, RegionsGrow DEF WholeRegions, Regions

LEMMA PostconditionMeans ==
  /\ GetPostcondition \in Conjunctions(0, WholeRegions)
  /\ \A e, k, local : ConjunctionHolds(GetPostcondition, Point(e, k, local)) <=> \A m \in Members : e.w[m] = e.c[m]
<1> DEFINE terms == {MemberEqual(m) : m \in Members}
           imp == Implication({}, terms, TRUE)
<1>1. imp = [antecedents |-> {}, consequents |-> terms, annotated |-> TRUE]
  BY DEF Implication
<1>2. terms \in SUBSET Conclusions(WholeRegions)
  BY DEF MemberEqual, Conclusions
<1>3. ASSUME NEW e, NEW k, NEW local
      PROVE  (\A t \in terms : Holds(t, Point(e, k, local))) <=> \A m \in Members : e.w[m] = e.c[m]
  <2>1. ASSUME NEW m \in Members
        PROVE  Holds(MemberEqual(m), Point(e, k, local)) <=> e.w[m] = e.c[m]
    <3> DEFINE t == MemberEqual(m)
               x == Point(e, k, local)
    <3>1. t.kind = "member" /\ t.member = m
      BY DEF MemberEqual
    <3>2. x.w = e.w /\ x.c = e.c
      BY DEF Point
    <3> HIDE DEF t, x
    <3>3. QED
      BY <3>1, <3>2, HoldsCases DEF t, x
  <2>2. QED
    BY <2>1
<1>4. GetPostcondition = <<imp>>
  BY DEF GetPostcondition
<1> HIDE DEF imp
<1>5. imp.antecedents = {} /\ imp.consequents = terms
  BY <1>1
<1>6. imp \in Implications(0, WholeRegions)
  <2>1. {} \in SUBSET Hypotheses(0) /\ TRUE \in BOOLEAN
    OBVIOUS
  <2> HIDE DEF terms
  <2>2. QED
    BY <1>1, <1>2, <2>1, ImplicationOf
<1>7. <<imp>> \in Seq(Implications(0, WholeRegions)) /\ Len(<<imp>>) = 1
  BY <1>6
<1>8. GetPostcondition \in Conjunctions(0, WholeRegions)
  BY <1>4, <1>7 DEF Conjunctions
<1> HIDE DEF terms
<1>9. \A x : ConjunctionHolds(GetPostcondition, x) <=> ImplicationHolds(imp, x)
  <2>1. DOMAIN <<imp>> = {1} /\ <<imp>>[1] = imp
    OBVIOUS
  <2>2. QED
    BY <1>4, <2>1, ConjunctionMeans
<1>10. QED
  BY <1>3, <1>5, <1>8, <1>9 DEF ImplicationHolds

LEMMA InitIsSafe ==
  ASSUME Init
  PROVE  WPInv
<1>1. Len(prog) \in Nat
  BY ProgramsAreWellFormed DEF Init
<1>2. TypeOK
  <2>1. prog \in Programs /\ known \subseteq Members /\ pos \in 0 .. Len(prog)
    BY <1>1 DEF Init
  <2>2. pc = "start" /\ dropped = FALSE /\ circular = FALSE /\ gaveUp = FALSE /\ verdict = "none"
    BY DEF Init
  <2>3. QED
    BY <2>1, <2>2 DEF TypeOK
<1>3. RunInv /\ WalkInv /\ LoopInv /\ CoreInv /\ VerdictInv
  BY DEF Init, RunInv, WalkInv, LoopInv, CoreInv, VerdictInv
<1>4. QED
  BY <1>2, <1>3 DEF WPInv

LEMMA GenerateIsSafe ==
  ASSUME WPInv, GenerateVerificationConditions
  PROVE  WPInv'
<1> DEFINE es == Executions(prog)
<1>1. /\ pc = "start" /\ pc' = "walk" /\ post' = GetPostcondition
      /\ failures' = {e \in es : e.w # e.c} /\ plain' = (\A e \in es : e.plain)
      /\ known' \in {{}, {m \in Members : \A e \in es : e.w[m] = e.c[m]}}
      /\ prog' = prog /\ pos' = pos /\ cand' = cand /\ inductive' = inductive /\ todo' = todo /\ core' = core
      /\ dropped' = dropped /\ circular' = circular /\ gaveUp' = gaveUp /\ verdict' = verdict
  BY DEF GenerateVerificationConditions, loopVars, marks
<1>2. TypeOK /\ VerdictInv
  BY DEF WPInv
<1>3. verdict = "none"
  BY <1>1, <1>2 DEF VerdictInv
<1>4. known' \subseteq Members /\ \A e \in es : \A m \in known' : e.w[m] = e.c[m]
  <2> HIDE DEF es
  <2>1. QED
    BY <1>1
<1>5. post' \in Conjunctions(0, WholeRegions)
  BY <1>1, PostconditionMeans
<1>6. TypeOK'
  <2>1. Len(post') > 0
    BY <1>5, WholeConditions
  <2>2. QED
    BY <1>1, <1>2, <1>4, <2>1 DEF TypeOK
<1>7. RunInv'
  <2>1. failures' = {e \in Executions(prog') : e.w # e.c} /\ (plain' => \A e \in Executions(prog') : e.plain)
    BY <1>1
  <2>2. \A e \in Executions(prog') : \A m \in known' : e.w[m] = e.c[m]
    BY <1>1, <1>4
  <2>3. QED
    BY <1>5, <2>1, <2>2 DEF RunInv
<1>8. WalkInv'
  <2>1. ASSUME NEW e \in failures'
        PROVE  ~ConjunctionHolds(post', Point(e, <<>>, e.locals[pos' + 1]))
    <3>1. e \in Executions(prog) /\ e.w # e.c
      BY <1>1
    <3>2. e.w \in Memories /\ e.c \in Memories
      BY <1>2, <3>1, ExecutionsAreRuns DEF TypeOK, ExecutionOf
    <3>3. \E m \in Members : e.w[m] # e.c[m]
      BY <3>1, <3>2 DEF Memories
    <3>4. QED
      BY <1>1, <3>3, PostconditionMeans
  <2>2. QED
    BY <2>1 DEF WalkInv
<1>9. LoopInv' /\ CoreInv' /\ VerdictInv'
  BY <1>1, <1>3 DEF LoopInv, CoreInv, VerdictInv
<1>10. QED
  BY <1>6, <1>7, <1>8, <1>9 DEF WPInv

\* What a step that does not look at the program or the facts about it keeps.
SameRun == prog' = prog /\ plain' = plain /\ failures' = failures /\ known' = known

LEMMA ScopeNarrows ==
  ASSUME SameRun, dropped => dropped', circular => circular', WithinScope'
  PROVE  WithinScope
BY DEF SameRun, WithinScope

\* The execution a counterexample belongs to.
LEMMA FailuresAreRuns ==
  ASSUME WPInv, pc # "start", WithinScope, NEW e \in failures
  PROVE  /\ e.plain /\ \A m \in known : e.w[m] = e.c[m]
         /\ \E f : ExecutionOf(e, f, prog)
<1>1. e \in Executions(prog) /\ e.plain /\ \A m \in known : e.w[m] = e.c[m]
  BY DEF WPInv, RunInv, WithinScope
<1>2. prog \in Programs
  BY DEF WPInv, TypeOK
<1>3. \E f : ExecutionOf(e, f, prog)
  BY <1>1, <1>2, ExecutionsAreRuns
<1>4. QED
  BY <1>1, <1>3

LEMMA WalkIsSafe ==
  ASSUME WPInv, WalkStatement
  PROVE  WPInv'
<1> DEFINE s == prog[pos]
<1>1. /\ pc = "walk" /\ pos > 0 /\ s.op # "for" /\ post' = StatementWP(s, post) /\ pos' = pos - 1
      /\ SameRun /\ pc' = pc /\ cand' = cand /\ inductive' = inductive /\ todo' = todo /\ core' = core
      /\ dropped' = dropped /\ circular' = circular /\ gaveUp' = gaveUp /\ verdict' = verdict
  BY DEF WalkStatement, Loop, programVars, loopVars, marks, SameRun
<1>2. prog' = prog /\ plain' = plain /\ failures' = failures /\ known' = known
  BY <1>1 DEF SameRun
<1>3. TypeOK /\ RunInv /\ WalkInv /\ VerdictInv
  BY DEF WPInv
<1>4. prog \in Programs /\ pos \in 1 .. Len(prog) /\ Len(prog) \in Nat /\ s \in Statements(0)
  <2>1. prog \in Programs /\ pos \in 0 .. Len(prog)
    BY <1>3 DEF TypeOK
  <2>2. Len(prog) \in Nat /\ \A i \in 1 .. Len(prog) : prog[i] \in Statements(0) \/ IsLoop(prog[i])
    BY <2>1, ProgramsAreWellFormed
  <2>3. pos \in 1 .. Len(prog)
    BY <1>1, <2>1, <2>2
  <2>4. s \in Statements(0)
    BY <1>1, <2>2, <2>3 DEF IsLoop
  <2>5. QED
    BY <2>1, <2>2, <2>3, <2>4
<1>5. post \in Conjunctions(0, WholeRegions)
  BY <1>1, <1>3 DEF RunInv
<1>6. post' \in Conjunctions(0, WholeRegions)
  BY <1>1, <1>4, <1>5, StatementWPIsTyped
<1> HIDE DEF s
<1>7. TypeOK'
  <2>1. Len(post') > 0
    BY <1>6, WholeConditions
  <2>2. pos' \in 0 .. Len(prog')
    BY <1>1, <1>2, <1>4
  <2>3. QED
    BY <1>1, <1>2, <1>3, <2>1, <2>2 DEF TypeOK
<1>8. RunInv'
  <2>1. /\ failures = {e \in Executions(prog) : e.w # e.c}
        /\ plain => \A e \in Executions(prog) : e.plain
        /\ \A e \in Executions(prog) : \A m \in known : e.w[m] = e.c[m]
    BY <1>1, <1>3 DEF RunInv
  <2>2. QED
    BY <1>2, <1>6, <2>1 DEF RunInv
<1>9. WalkInv'
  <2> SUFFICES ASSUME WithinScope', NEW e \in failures', ConjunctionHolds(post', Point(e, <<>>, e.locals[pos' + 1]))
               PROVE  FALSE
    BY DEF WalkInv
  <2>1. WithinScope /\ e \in failures
    BY <1>1, <1>2, ScopeNarrows
  <2>2. ~ConjunctionHolds(post, Point(e, <<>>, e.locals[pos + 1]))
    BY <1>1, <1>3, <2>1 DEF WalkInv
  <2>3. e.plain /\ \E f : ExecutionOf(e, f, prog)
    BY <1>1, <2>1, FailuresAreRuns
  <2>4. PICK f : ExecutionOf(e, f, prog)
    BY <2>3
  <2>5. /\ f[pos - 1] \in States /\ f[pos] = Advance(f[pos - 1], s) /\ Fits(e, f[pos])
        /\ e.locals[pos] = f[pos - 1].local /\ e.locals[pos + 1] = f[pos].local
    BY <1>4, <2>3, <2>4, ExecutionStep DEF s
  <2> DEFINE st == f[pos - 1]
             now == RunStatement(st, s, <<>>)
  <2>6. f[pos] = now
    BY <1>1, <2>5 DEF Advance
  <2>7. ConjunctionHolds(StatementWP(s, post), Point(e, <<>>, st.local))
    <3>1. pos' + 1 = pos
      BY <1>1, <1>4
    <3>2. QED
      BY <1>1, <2>5, <3>1
  <2>8. <<>> \in [1 .. 0 -> Indices] /\ 0 \in Nat /\ post \in Conjunctions(0, Regions)
    BY <1>5, WholeConditions
  <2>9. Fits(e, now) /\ st \in States
    BY <2>5, <2>6
  <2> HIDE DEF st
  <2>10. ConjunctionHolds(post, Point(e, <<>>, now.local))
    BY <1>4, <2>7, <2>8, <2>9, StatementIsSound
  <2>11. QED
    BY <2>2, <2>5, <2>6, <2>10
<1>10. LoopInv' /\ CoreInv' /\ VerdictInv'
  <2>1. VerdictInv'
    BY <1>1, <1>2, <1>3 DEF VerdictInv, WithinScope
  <2>2. QED
    BY <1>1, <2>1 DEF LoopInv, CoreInv
<1>11. QED
  BY <1>7, <1>8, <1>9, <1>10 DEF WPInv

\* A step of computeInvariant leaves the condition and the place in the walk alone.
LEMMA StayIsSafe ==
  ASSUME WPInv, SameRun, post' = post, pos' = pos, pc \in {"walk", "induct", "core"},
         dropped => dropped', circular => circular'
  PROVE  RunInv' /\ WalkInv'
<1>1. prog' = prog /\ plain' = plain /\ failures' = failures /\ known' = known
  BY DEF SameRun
<1>2. RunInv /\ WalkInv
  BY DEF WPInv
<1>3. RunInv'
  <2>1. /\ failures = {e \in Executions(prog) : e.w # e.c}
        /\ plain => \A e \in Executions(prog) : e.plain
        /\ \A e \in Executions(prog) : \A m \in known : e.w[m] = e.c[m]
        /\ post \in Conjunctions(0, WholeRegions)
    BY <1>2 DEF RunInv
  <2>2. QED
    BY <1>1, <2>1 DEF RunInv
<1>4. WalkInv'
  <2> SUFFICES ASSUME WithinScope', NEW e \in failures'
               PROVE  ~ConjunctionHolds(post', Point(e, <<>>, e.locals[pos' + 1]))
    BY DEF WalkInv
  <2>1. WithinScope
    BY ScopeNarrows
  <2>2. ~ConjunctionHolds(post, Point(e, <<>>, e.locals[pos + 1]))
    BY <1>1, <1>2, <2>1 DEF WalkInv
  <2>3. QED
    BY <2>2
<1>5. QED
  BY <1>3, <1>4

LEMMA EnterIsSafe ==
  ASSUME WPInv, EnterLoop
  PROVE  WPInv'
<1>1. /\ pc = "walk" /\ pos > 0 /\ Loop.op = "for" /\ pc' = "induct"
      /\ cand' = Predicates /\ inductive' = {} /\ todo' = {} /\ core' = {} /\ post' = post /\ pos' = pos
      /\ SameRun /\ dropped' = dropped /\ circular' = circular /\ gaveUp' = gaveUp /\ verdict' = verdict
  BY DEF EnterLoop, programVars, marks, SameRun
<1>2. prog' = prog /\ plain' = plain /\ failures' = failures /\ known' = known
  BY <1>1 DEF SameRun
<1>3. TypeOK /\ VerdictInv
  BY DEF WPInv
<1>4. RunInv' /\ WalkInv'
  BY <1>1, StayIsSafe
<1>5. Loop' = Loop /\ Predicates' = Predicates
  BY <1>1, <1>2 DEF Loop, Predicates
<1>6. pos \in 1 .. Len(prog) /\ IsLoop(Loop)
  <2>1. prog \in Programs /\ pos \in 0 .. Len(prog)
    BY <1>3 DEF TypeOK
  <2>2. Len(prog) \in Nat /\ \A i \in 1 .. Len(prog) : prog[i] \in Statements(0) \/ IsLoop(prog[i])
    BY <2>1, ProgramsAreWellFormed
  <2>3. pos \in 1 .. Len(prog)
    BY <1>1, <2>1, <2>2
  <2>4. IsLoop(Loop)
    BY <1>1, <2>2, <2>3, StatementParts DEF Loop
  <2>5. QED
    BY <2>3, <2>4
<1>7. TypeOK'
  BY <1>1, <1>2, <1>3, <1>5 DEF TypeOK
<1>8. LoopInv'
  <2>1. Kept(known', Loop', Predicates', inductive')
    BY <1>1 DEF Kept
  <2>2. QED
    BY <1>1, <1>2, <1>5, <1>6, <2>1 DEF LoopInv
<1>9. CoreInv' /\ VerdictInv'
  BY <1>1, <1>2, <1>3 DEF CoreInv, VerdictInv, WithinScope
<1>10. QED
  BY <1>4, <1>7, <1>8, <1>9 DEF WPInv

\* An answer "unsat" is only given to a query that is valid.
LEMMA UnsatIsValid ==
  ASSUME NEW hyps, NEW conj, NEW rs, NEW answer \in CheckUnsat(hyps, conj, rs)
  PROVE  /\ answer = "unsat" => ValidFor(known, hyps, conj, rs)
         /\ answer \in {"unsat", "unknown", "sat"}
<1>1. CASE Valid(hyps, conj, rs)
  <2>1. ValidFor(known, hyps, conj, rs)
    BY <1>1, QueriesAre
  <2>2. answer \in {"unsat", "unknown"}
    BY <1>1 DEF CheckUnsat
  <2>3. QED
    BY <2>1, <2>2
<1>2. CASE ~Valid(hyps, conj, rs)
  <2>1. answer = "sat"
    BY <1>2 DEF CheckUnsat
  <2>2. QED
    BY <2>1
<1>3. QED
  BY <1>1, <1>2

LEMMA InductIsSafe ==
  ASSUME WPInv, CheckInductive
  PROVE  WPInv'
<1>1. /\ pc = "induct" /\ cand # {} /\ pc' = pc /\ todo' = todo /\ core' = core /\ post' = post /\ pos' = pos
      /\ SameRun /\ dropped' = dropped /\ circular' = circular /\ verdict' = verdict
  BY DEF CheckInductive, programVars, marks, SameRun
<1> DEFINE p == CHOOSE p \in cand : TRUE
<1>2. PICK answer \in CheckUnsat(BodyPrecondition \cup Strengthenings, Current(p), Loop.ranges) :
        /\ inductive' = (IF answer = "unsat" THEN inductive \cup {p} ELSE inductive)
        /\ gaveUp' = (gaveUp \/ answer = "unknown")
        /\ cand' = cand \ {p}
  BY DEF CheckInductive, NoteAnswer
<1>3. p \in cand
  BY <1>1
<1> HIDE DEF p
<1>4. prog' = prog /\ plain' = plain /\ failures' = failures /\ known' = known
  BY <1>1 DEF SameRun
<1>5. TypeOK /\ LoopInv /\ VerdictInv
  BY DEF WPInv
<1>6. RunInv' /\ WalkInv'
  BY <1>1, StayIsSafe
<1>7. Loop' = Loop /\ Predicates' = Predicates
  BY <1>1, <1>4 DEF Loop, Predicates
<1>8. cand \subseteq Predicates /\ inductive \subseteq Predicates
  BY <1>1, <1>5 DEF TypeOK
<1>9. TypeOK'
  <2>1. cand' \subseteq Predicates /\ inductive' \subseteq Predicates
    BY <1>2, <1>3, <1>8
  <2>2. gaveUp' \in BOOLEAN
    BY <1>2, <1>5 DEF TypeOK
  <2>3. QED
    BY <1>1, <1>4, <1>5, <1>7, <2>1, <2>2 DEF TypeOK
<1>10. LoopInv'
  <2>1. /\ pos \in 1 .. Len(prog) /\ IsLoop(Loop) /\ Kept(known, Loop, Predicates, inductive)
        /\ core \subseteq Conclusions(WholeRegions)
    BY <1>1, <1>5 DEF LoopInv
  <2>2. answer = "unsat" => ValidFor(known, BodyPrecondition \cup Strengthenings, Current(p), Loop.ranges)
    BY UnsatIsValid
  <2>3. BodyPrecondition = Quantified(Predicates, "visited", Loop) /\ Strengthenings = OutsideOf(Loop)
        /\ Current(p) = CurrentOf(Loop, p)
    BY QueriesAre DEF BodyPrecondition
  <2>4. Kept(known, Loop, Predicates, inductive')
    <3>1. CASE answer = "unsat"
      <4>1. inductive' = inductive \cup {p}
        BY <1>2, <3>1
      <4>2. ValidFor(known, Quantified(Predicates, "visited", Loop) \cup OutsideOf(Loop), CurrentOf(Loop, p), Loop.ranges)
        BY <2>2, <2>3, <3>1
      <4>3. QED
        BY <2>1, <4>1, <4>2 DEF Kept
    <3>2. CASE answer # "unsat"
      BY <1>2, <2>1, <3>2
    <3>3. QED
      BY <3>1, <3>2
  <2>5. QED
    BY <1>1, <1>4, <1>7, <2>1, <2>4 DEF LoopInv
<1>11. CoreInv' /\ VerdictInv'
  BY <1>1, <1>4, <1>5 DEF CoreInv, VerdictInv, WithinScope
<1>12. QED
  BY <1>6, <1>9, <1>10, <1>11 DEF WPInv

\* What leaves a loop, if it implies the condition after it.
LEMMA LeaveIsSafe ==
  ASSUME WPInv, pc \in {"induct", "core"}, SameRun, NEW terms, LeaveLoop(terms),
         dropped => dropped', circular => circular',
         terms \subseteq Conclusions(WholeRegions), OutsideOf(Loop) \subseteq terms,
         WithinScope' => Kept(known, Loop, inductive, inductive),
         WithinScope' => \A x \in PointsOf(known, Loop.ranges) :
                           (\A t \in GivenOf(Loop, inductive) \cup terms : Holds(t, x)) => ConjunctionHolds(post, x)
  PROVE  /\ RunInv' /\ WalkInv'
         /\ prog' = prog /\ known' = known /\ pos' \in 0 .. Len(prog) /\ pc' = "walk" /\ Len(post') > 0
<1>1. prog' = prog /\ plain' = plain /\ failures' = failures /\ known' = known
  BY DEF SameRun
<1>2. post' = Of(terms) /\ pos' = pos - 1 /\ pc' = "walk"
  BY DEF LeaveLoop
<1>3. TypeOK /\ RunInv /\ WalkInv /\ LoopInv
  BY DEF WPInv
<1>4. pos \in 1 .. Len(prog) /\ IsLoop(Loop) /\ prog \in Programs /\ Len(prog) \in Nat
  BY <1>3, ProgramsAreWellFormed DEF LoopInv, TypeOK
<1>5. /\ failures = {e \in Executions(prog) : e.w # e.c}
      /\ plain => \A e \in Executions(prog) : e.plain
      /\ \A e \in Executions(prog) : \A m \in known : e.w[m] = e.c[m]
      /\ post \in Conjunctions(0, WholeRegions)
  BY <1>3 DEF RunInv
<1>6. terms \in SUBSET Conclusions(WholeRegions)
  OBVIOUS
<1>7. post' \in Conjunctions(0, WholeRegions)
  BY <1>2, <1>6, OfIsTyped
<1>8. RunInv'
  BY <1>1, <1>5, <1>7 DEF RunInv
<1>9. WalkInv'
  <2> SUFFICES ASSUME WithinScope', NEW e \in failures', ConjunctionHolds(post', Point(e, <<>>, e.locals[pos' + 1]))
               PROVE  FALSE
    BY DEF WalkInv
  <2>1. WithinScope /\ e \in failures
    BY <1>1, ScopeNarrows
  <2>2. ~ConjunctionHolds(post, Point(e, <<>>, e.locals[pos + 1]))
    BY <1>3, <2>1 DEF WalkInv
  <2>3. e.plain /\ (\A m \in known : e.w[m] = e.c[m]) /\ \E f : ExecutionOf(e, f, prog)
    BY <2>1, FailuresAreRuns
  <2>4. PICK f : ExecutionOf(e, f, prog)
    BY <2>3
  <2>5. \A t \in terms : Holds(t, Point(e, <<>>, e.locals[pos]))
    <3>1. pos' + 1 = pos
      BY <1>2, <1>4
    <3>2. ConjunctionHolds(Of(terms), Point(e, <<>>, e.locals[pos]))
      BY <1>2, <3>1
    <3>3. QED
      BY <1>6, <3>2, OfIsTyped
  <2> DEFINE s == prog[pos]
  <2>6. Loop = s
    BY DEF Loop
  <2>7. IsLoop(s) /\ inductive \in SUBSET PredicatesOf(s.body) /\ Kept(known, s, inductive, inductive)
    BY <1>3, <1>4, <2>6 DEF TypeOK, Predicates
  <2>8. e.w \in Memories /\ e.c \in Memories /\ e.input \in Values
    BY <2>4 DEF ExecutionOf
  <2>9. ASSUME NEW k \in [DOMAIN s.ranges -> Indices], NEW local \in Values,
               \A t \in GivenOf(s, inductive) \cup terms : Holds(t, Point(e, k, local))
        PROVE  ConjunctionHolds(post, Point(e, k, local))
    <3>1. Point(e, k, local) \in PointsOf(known, s.ranges)
      BY <2>3, <2>8, PointIsInterpretation
    <3>2. QED
      BY <2>6, <2>9, <3>1
  <2>10. OutsideOf(s) \subseteq terms
    BY <2>6
  <2> HIDE DEF s
  <2>11. ConjunctionHolds(post, Point(e, <<>>, e.locals[pos + 1]))
    BY <1>4, <1>5, <1>6, <2>3, <2>4, <2>5, <2>7, <2>9, <2>10, LeavingIsSound DEF s
  <2>12. QED
    BY <2>2, <2>11
<1>10. pos' \in 0 .. Len(prog) /\ Len(post') > 0
  BY <1>2, <1>4, <1>7, WholeConditions
<1>11. QED
  BY <1>1, <1>2, <1>8, <1>9, <1>10

\* Predicates that follow from all candidates follow from themselves, unless one rests on a rejected
\* candidate.
LEMMA RestNotIsKept ==
  ASSUME Kept(known, Loop, Predicates, inductive), ~RestsOnRejected
  PROVE  Kept(known, Loop, inductive, inductive)
<1> DEFINE isInductive(p, ps) == Valid(AllOf(ps, "visited") \cup Strengthenings, Current(p), Loop.ranges)
<1>1. ASSUME NEW p, NEW ps
      PROVE  isInductive(p, ps) <=>
               ValidFor(known, Quantified(ps, "visited", Loop) \cup OutsideOf(Loop), CurrentOf(Loop, p), Loop.ranges)
  <2>1. AllOf(ps, "visited") = Quantified(ps, "visited", Loop) /\ Strengthenings = OutsideOf(Loop)
        /\ Current(p) = CurrentOf(Loop, p)
    BY QueriesAre
  <2>2. QED
    BY <2>1, QueriesAre
<1>2. inductive = Predicates \/ \A p \in inductive : isInductive(p, inductive) \/ ~isInductive(p, Predicates)
  BY DEF RestsOnRejected
<1> HIDE DEF isInductive
<1>3. QED
  BY <1>1, <1>2 DEF Kept

LEMMA OutsideAreConclusions ==
  ASSUME IsLoop(Loop)
  PROVE  OutsideOf(Loop) \in SUBSET Conclusions(WholeRegions)
<1>1. "outside" \in WholeRegions
  BY DEF WholeRegions
<1>2. QED
  BY <1>1, QuantifiedAreConclusions DEF OutsideOf

LEMMA EntailsIsSafe ==
  ASSUME WPInv, CheckEntails
  PROVE  WPInv'
<1>1. PICK answer \in CheckUnsat(Given, post, Loop.ranges) :
        /\ gaveUp' = (gaveUp \/ answer = "unknown") /\ circular' = (circular \/ RestsOnRejected)
        /\ \/ answer = "unsat" /\ LeaveLoop(Strengthenings) /\ todo' = todo /\ dropped' = dropped
           \/ /\ answer # "unsat"
              /\ pc' = "core" /\ todo' = Pairs(post)
              /\ dropped' = (dropped \/ ~Valid(Given, NotAnnotated(post), Loop.ranges))
              /\ pos' = pos /\ post' = post
  BY DEF CheckEntails, NoteAnswer
<1>2. /\ pc = "induct" /\ cand = {} /\ SameRun
      /\ cand' = cand /\ inductive' = inductive /\ core' = core /\ verdict' = verdict
  BY DEF CheckEntails, programVars, SameRun
<1>3. prog' = prog /\ plain' = plain /\ failures' = failures /\ known' = known
  BY <1>2 DEF SameRun
<1>4. TypeOK /\ LoopInv /\ VerdictInv
  BY DEF WPInv
<1>5. /\ pos \in 1 .. Len(prog) /\ IsLoop(Loop) /\ Kept(known, Loop, Predicates, inductive)
      /\ core \subseteq Conclusions(WholeRegions)
  BY <1>2, <1>4 DEF LoopInv
<1>6. RestsOnRejected \in BOOLEAN
  BY DEF RestsOnRejected
<1>7. gaveUp' \in BOOLEAN /\ circular' \in BOOLEAN /\ dropped' \in BOOLEAN
      /\ (circular => circular') /\ (dropped => dropped')
  BY <1>1, <1>4, <1>6 DEF TypeOK
<1>8. ~circular' => Kept(known, Loop, inductive, inductive)
  BY <1>1, <1>5, RestNotIsKept
<1>9. answer = "unsat" => ValidFor(known, Given, post, Loop.ranges)
  BY UnsatIsValid
<1>10. Given = GivenOf(Loop, inductive) /\ Strengthenings = OutsideOf(Loop)
  BY QueriesAre
<1>11. VerdictInv'
  <2>1. WithinScope' => WithinScope
    BY <1>2, <1>7, ScopeNarrows
  <2>2. QED
    BY <1>2, <1>3, <1>4, <2>1 DEF VerdictInv
<1>12. CASE answer = "unsat" /\ LeaveLoop(Strengthenings) /\ todo' = todo /\ dropped' = dropped
  <2> DEFINE terms == Strengthenings
  <2>1. terms \subseteq Conclusions(WholeRegions) /\ OutsideOf(Loop) \subseteq terms
    BY <1>5, <1>10, OutsideAreConclusions
  <2>2. WithinScope' => Kept(known, Loop, inductive, inductive)
    BY <1>8 DEF WithinScope
  <2>3. \A x \in PointsOf(known, Loop.ranges) :
          (\A t \in GivenOf(Loop, inductive) \cup terms : Holds(t, x)) => ConjunctionHolds(post, x)
    BY <1>9, <1>10, <1>12 DEF ValidFor
  <2> HIDE DEF terms
  <2>4. LeaveLoop(terms)
    BY <1>12 DEF terms
  <2>5. /\ RunInv' /\ WalkInv'
        /\ prog' = prog /\ known' = known /\ pos' \in 0 .. Len(prog) /\ pc' = "walk" /\ Len(post') > 0
    BY <1>2, <1>7, <2>1, <2>2, <2>3, <2>4, LeaveIsSafe
  <2>6. TypeOK'
    BY <1>2, <1>3, <1>4, <1>7, <2>5 DEF TypeOK
  <2>7. LoopInv' /\ CoreInv'
    BY <2>5 DEF LoopInv, CoreInv
  <2>8. QED
    BY <1>11, <2>5, <2>6, <2>7 DEF WPInv
<1>13. CASE /\ answer # "unsat" /\ pc' = "core" /\ todo' = Pairs(post) /\ pos' = pos /\ post' = post
            /\ dropped' = (dropped \/ ~Valid(Given, NotAnnotated(post), Loop.ranges))
  <2>1. RunInv' /\ WalkInv'
    BY <1>2, <1>7, <1>13, StayIsSafe
  <2>2. Loop' = Loop /\ Predicates' = Predicates
    BY <1>3, <1>13 DEF Loop, Predicates
  <2>3. TypeOK'
    <3>1. Len(post) > 0 /\ pos \in 0 .. Len(prog) /\ Loop.op = "for" /\ cand \subseteq Predicates /\ inductive \subseteq Predicates
      BY <1>2, <1>4 DEF TypeOK
    <3>2. QED
      BY <1>2, <1>3, <1>4, <1>7, <1>13, <2>2, <3>1 DEF TypeOK
  <2>4. LoopInv'
    BY <1>2, <1>3, <1>5, <1>13, <2>2 DEF LoopInv
  <2>5. CoreInv'
    <3>1. ~circular' => Kept(known', Loop', inductive', inductive')
      BY <1>2, <1>3, <1>8, <2>2
    <3>2. ~dropped' => ValidFor(known', GivenOf(Loop', inductive'), NotAnnotated(post'), Loop'.ranges)
      <4>1. ~dropped' => Valid(Given, NotAnnotated(post), Loop.ranges)
        BY <1>13
      <4>2. ~dropped' => ValidFor(known, GivenOf(Loop, inductive), NotAnnotated(post), Loop.ranges)
        BY <1>10, <4>1, QueriesAre
      <4>3. QED
        BY <1>2, <1>3, <1>13, <2>2, <4>2
    <3>3. todo' \subseteq Pairs(post') /\ Pairs(post') \ todo' = {}
      BY <1>13
    <3>4. QED
      BY <3>1, <3>2, <3>3 DEF CoreInv
  <2>6. QED
    BY <1>11, <2>1, <2>3, <2>4, <2>5 DEF WPInv
<1>14. QED
  BY <1>1, <1>12, <1>13

LEMMA PairParts ==
  ASSUME NEW d, NEW conj \in Conjunctions(d, WholeRegions), NEW q \in Pairs(conj)
  PROVE  q.consequent \in Conclusions(WholeRegions)
<1>1. PICK i \in DOMAIN conj : q \in {[antecedents |-> conj[i].antecedents, consequent |-> t] : t \in conj[i].consequents}
  BY DEF Pairs
<1>2. conj[i].consequents \in SUBSET Conclusions(WholeRegions)
  BY ConjunctionParts, ImplicationParts
<1>3. QED
  BY <1>1, <1>2

LEMMA ConsequentIsSafe ==
  ASSUME WPInv, CheckConsequent
  PROVE  WPInv'
<1>1. /\ pc = "core" /\ todo # {} /\ pc' = pc /\ cand' = cand /\ inductive' = inductive /\ post' = post /\ pos' = pos
      /\ SameRun /\ dropped' = dropped /\ circular' = circular /\ verdict' = verdict
  BY DEF CheckConsequent, programVars, marks, SameRun
<1> DEFINE q == CHOOSE q \in todo : TRUE
<1>2. PICK answer \in CheckUnsat(Given \cup q.antecedents, Of({q.consequent}), Loop.ranges) :
        /\ core' = (IF answer = "unsat" THEN core ELSE core \cup {q.consequent})
        /\ gaveUp' = (gaveUp \/ answer = "unknown")
        /\ todo' = todo \ {q}
  BY DEF CheckConsequent, NoteAnswer
<1>3. q \in todo
  BY <1>1
<1> HIDE DEF q
<1>4. prog' = prog /\ plain' = plain /\ failures' = failures /\ known' = known
  BY <1>1 DEF SameRun
<1>5. TypeOK /\ RunInv /\ LoopInv /\ CoreInv /\ VerdictInv
  BY DEF WPInv
<1>6. RunInv' /\ WalkInv'
  BY <1>1, StayIsSafe
<1>7. Loop' = Loop /\ Predicates' = Predicates
  BY <1>1, <1>4 DEF Loop, Predicates
<1>8. TypeOK'
  <2>1. gaveUp' \in BOOLEAN
    BY <1>2, <1>5 DEF TypeOK
  <2>2. QED
    BY <1>1, <1>4, <1>5, <1>7, <2>1 DEF TypeOK
<1>9. todo \subseteq Pairs(post) /\ q \in Pairs(post) /\ q.consequent \in Conclusions(WholeRegions)
  <2>1. todo \subseteq Pairs(post)
    BY <1>1, <1>5 DEF CoreInv
  <2>2. post \in Conjunctions(0, WholeRegions)
    BY <1>1, <1>5 DEF RunInv
  <2>3. QED
    BY <1>3, <2>1, <2>2, PairParts
<1>10. LoopInv'
  <2>1. /\ pos \in 1 .. Len(prog) /\ IsLoop(Loop) /\ Kept(known, Loop, Predicates, inductive)
        /\ core \subseteq Conclusions(WholeRegions)
    BY <1>1, <1>5 DEF LoopInv
  <2>2. core' \subseteq Conclusions(WholeRegions)
    BY <1>2, <1>9, <2>1
  <2>3. QED
    BY <1>1, <1>4, <1>7, <2>1, <2>2 DEF LoopInv
<1>11. CoreInv'
  <2> DEFINE implied(r) == ValidFor(known, GivenOf(Loop, inductive) \cup r.antecedents, Of({r.consequent}), Loop.ranges)
  <2>1. /\ ~circular => Kept(known, Loop, inductive, inductive)
        /\ ~dropped => ValidFor(known, GivenOf(Loop, inductive), NotAnnotated(post), Loop.ranges)
        /\ \A r \in Pairs(post) \ todo : r.consequent \in core \/ implied(r)
    BY <1>1, <1>5 DEF CoreInv
  <2>2. q.consequent \in core' \/ implied(q)
    <3>1. CASE answer = "unsat"
      <4>1. ValidFor(known, Given \cup q.antecedents, Of({q.consequent}), Loop.ranges)
        BY <3>1, UnsatIsValid
      <4>2. QED
        BY <4>1, QueriesAre
    <3>2. CASE answer # "unsat"
      BY <1>2, <3>2
    <3>3. QED
      BY <3>1, <3>2
  <2>3. core \subseteq core'
    BY <1>2
  <2> HIDE DEF implied
  <2>4. \A r \in Pairs(post) \ todo' : r.consequent \in core' \/ implied(r)
    BY <1>2, <2>1, <2>2, <2>3
  <2>5. todo' \subseteq Pairs(post)
    BY <1>2, <1>9
  <2>6. /\ ~circular' => Kept(known', Loop', inductive', inductive')
        /\ ~dropped' => ValidFor(known', GivenOf(Loop', inductive'), NotAnnotated(post'), Loop'.ranges)
    BY <1>1, <1>4, <1>7, <2>1
  <2>7. \A r \in Pairs(post') \ todo' :
          \/ r.consequent \in core'
          \/ ValidFor(known', GivenOf(Loop', inductive') \cup r.antecedents, Of({r.consequent}), Loop'.ranges)
    BY <1>1, <1>4, <1>7, <2>4 DEF implied
  <2>8. todo' \subseteq Pairs(post')
    BY <1>1, <2>5
  <2>9. QED
    BY <2>6, <2>7, <2>8 DEF CoreInv
<1>12. VerdictInv'
  BY <1>1, <1>4, <1>5 DEF VerdictInv, WithinScope
<1>13. QED
  BY <1>6, <1>8, <1>10, <1>11, <1>12 DEF WPInv

\* The core and what it was tried under imply the condition after the loop.
LEMMA CoreImplies ==
  ASSUME NEW kn, NEW rs, NEW given, NEW found, NEW d, NEW conj \in Conjunctions(d, WholeRegions),
         ValidFor(kn, given, NotAnnotated(conj), rs),
         \A q \in Pairs(conj) : \/ q.consequent \in found
                                \/ ValidFor(kn, given \cup q.antecedents, Of({q.consequent}), rs),
         NEW x \in PointsOf(kn, rs), \A t \in given \cup found : Holds(t, x)
  PROVE  ConjunctionHolds(conj, x)
<1>1. ASSUME NEW i \in DOMAIN conj, \A t \in conj[i].antecedents : Holds(t, x), NEW t \in conj[i].consequents
      PROVE  Holds(t, x)
  <2>1. CASE ~conj[i].annotated
    <3>1. ConjunctionHolds(NotAnnotated(conj), x)
      BY DEF ValidFor
    <3>2. i \in DOMAIN NotAnnotated(conj) /\ NotAnnotated(conj)[i] = conj[i]
      BY <2>1 DEF NotAnnotated
    <3>3. ImplicationHolds(conj[i], x)
      BY <3>1, <3>2, ConjunctionMeans
    <3>4. QED
      BY <1>1, <3>3 DEF ImplicationHolds
  <2>2. CASE conj[i].annotated
    <3> DEFINE q == [antecedents |-> conj[i].antecedents, consequent |-> t]
    <3>1. q \in Pairs(conj) /\ q.antecedents = conj[i].antecedents /\ q.consequent = t
      BY <1>1, <2>2 DEF Pairs
    <3> HIDE DEF q
    <3>2. CASE t \in found
      BY <3>2
    <3>3. CASE ValidFor(kn, given \cup q.antecedents, Of({q.consequent}), rs)
      <4>1. \A u \in given \cup q.antecedents : Holds(u, x)
        BY <1>1, <3>1
      <4>2. ConjunctionHolds(Of({t}), x)
        BY <3>1, <3>3, <4>1 DEF ValidFor
      <4>3. {t} \in SUBSET Conclusions(WholeRegions)
        BY <1>1, ConjunctionParts, ImplicationParts
      <4>4. \A u \in {t} : Holds(u, x)
        BY <4>2, <4>3, OfIsTyped
      <4>5. QED
        BY <4>4
    <3>4. QED
      BY <3>1, <3>2, <3>3
  <2>3. conj[i].annotated \in BOOLEAN
    BY ConjunctionParts, ImplicationParts
  <2>4. QED
    BY <2>1, <2>2, <2>3
<1>2. QED
  BY <1>1 DEF ConjunctionHolds

LEMMA AssertIsSafe ==
  ASSUME WPInv, AssertCore
  PROVE  WPInv'
<1> DEFINE terms == Strengthenings \cup core
<1>1. /\ pc = "core" /\ todo = {} /\ LeaveLoop(terms)
      /\ SameRun /\ cand' = cand /\ inductive' = inductive /\ todo' = todo /\ core' = core
      /\ dropped' = dropped /\ circular' = circular /\ gaveUp' = gaveUp /\ verdict' = verdict
  BY DEF AssertCore, programVars, loopVars, marks, SameRun
<1>2. prog' = prog /\ plain' = plain /\ failures' = failures /\ known' = known
  BY <1>1 DEF SameRun
<1>3. TypeOK /\ RunInv /\ LoopInv /\ CoreInv /\ VerdictInv
  BY DEF WPInv
<1>4. IsLoop(Loop) /\ core \subseteq Conclusions(WholeRegions)
  BY <1>1, <1>3 DEF LoopInv
<1>5. Strengthenings = OutsideOf(Loop)
  BY QueriesAre
<1>6. terms \subseteq Conclusions(WholeRegions) /\ OutsideOf(Loop) \subseteq terms
  BY <1>4, <1>5, OutsideAreConclusions
<1>7. WithinScope' => Kept(known, Loop, inductive, inductive)
  BY <1>1, <1>3 DEF WithinScope, CoreInv
<1> HIDE DEF terms
<1>8. ASSUME WithinScope', NEW x \in PointsOf(known, Loop.ranges),
             \A t \in GivenOf(Loop, inductive) \cup terms : Holds(t, x)
      PROVE  ConjunctionHolds(post, x)
  <2> DEFINE given == GivenOf(Loop, inductive)
             rs == Loop.ranges
  <2>1. ValidFor(known, given, NotAnnotated(post), rs)
    BY <1>1, <1>3, <1>8 DEF WithinScope, CoreInv
  <2>2. \A q \in Pairs(post) : \/ q.consequent \in core
                               \/ ValidFor(known, given \cup q.antecedents, Of({q.consequent}), rs)
    BY <1>1, <1>3 DEF CoreInv
  <2>3. post \in Conjunctions(0, WholeRegions) /\ x \in PointsOf(known, rs)
    BY <1>1, <1>3 DEF RunInv
  <2>4. \A t \in given \cup core : Holds(t, x)
    BY <1>8 DEF terms
  <2> HIDE DEF given, rs
  <2>5. QED
    BY <2>1, <2>2, <2>3, <2>4, CoreImplies
<1>9. /\ RunInv' /\ WalkInv'
      /\ prog' = prog /\ known' = known /\ pos' \in 0 .. Len(prog) /\ pc' = "walk" /\ Len(post') > 0
  BY <1>1, <1>6, <1>7, <1>8, LeaveIsSafe
<1>10. TypeOK'
  BY <1>1, <1>3, <1>9 DEF TypeOK
<1>11. LoopInv' /\ CoreInv'
  BY <1>9 DEF LoopInv, CoreInv
<1>12. VerdictInv'
  <2>1. WithinScope' => WithinScope
    BY <1>1, ScopeNarrows
  <2>2. QED
    BY <1>1, <1>2, <1>3, <2>1 DEF VerdictInv
<1>13. QED
  BY <1>9, <1>10, <1>11, <1>12 DEF WPInv

LEMMA EmitIsSafe ==
  ASSUME WPInv, Emit
  PROVE  WPInv'
<1>1. /\ pc = "walk" /\ pos = 0 /\ pc' = "done" /\ SameRun /\ pos' = pos /\ post' = post
      /\ cand' = cand /\ inductive' = inductive /\ todo' = todo /\ core' = core
      /\ dropped' = dropped /\ circular' = circular
  BY DEF Emit, programVars, loopVars, marks, SameRun
<1>2. PICK answer \in CheckUnsat({}, post, <<>>) : verdict' = answer /\ gaveUp' = (gaveUp \/ answer = "unknown")
  BY DEF Emit, NoteAnswer
<1>3. prog' = prog /\ plain' = plain /\ failures' = failures /\ known' = known
  BY <1>1 DEF SameRun
<1>4. TypeOK /\ RunInv /\ WalkInv
  BY DEF WPInv
<1>5. answer \in {"unsat", "unknown", "sat"} /\ (answer = "unsat" => ValidFor(known, {}, post, <<>>))
  BY UnsatIsValid
<1>6. TypeOK'
  <2>1. gaveUp' \in BOOLEAN /\ verdict' \in {"none", "unsat", "sat", "unknown"}
    BY <1>2, <1>4, <1>5 DEF TypeOK
  <2>2. QED
    BY <1>1, <1>3, <1>4, <2>1 DEF TypeOK
<1>7. RunInv'
  <2>1. /\ failures = {e \in Executions(prog) : e.w # e.c}
        /\ plain => \A e \in Executions(prog) : e.plain
        /\ \A e \in Executions(prog) : \A m \in known : e.w[m] = e.c[m]
        /\ post \in Conjunctions(0, WholeRegions)
    BY <1>1, <1>4 DEF RunInv
  <2>2. QED
    BY <1>1, <1>3, <2>1 DEF RunInv
<1>8. WalkInv' /\ LoopInv' /\ CoreInv'
  BY <1>1 DEF WalkInv, LoopInv, CoreInv
<1>9. VerdictInv'
  <2> SUFFICES ASSUME verdict' = "unsat", WithinScope', NEW e \in failures'
               PROVE  FALSE
    BY <1>1 DEF VerdictInv
  <2>1. WithinScope /\ e \in failures
    BY <1>1, <1>3, ScopeNarrows
  <2> DEFINE local == e.locals[1]
             x == Point(e, <<>>, local)
  <2>2. ~ConjunctionHolds(post, x)
    <3>1. 0 + 1 = 1
      OBVIOUS
    <3>2. QED
      BY <1>1, <1>4, <2>1, <3>1 DEF WalkInv
  <2>3. (\A m \in known : e.w[m] = e.c[m]) /\ \E f : ExecutionOf(e, f, prog)
    BY <1>1, <2>1, FailuresAreRuns
  <2>4. PICK f : ExecutionOf(e, f, prog)
    BY <2>3
  <2>5. e.w \in Memories /\ e.c \in Memories /\ e.input \in Values
    BY <2>4 DEF ExecutionOf
  <2>6. local \in Values
    <3>1. Len(prog) \in Nat
      BY <1>4, ProgramsAreWellFormed DEF TypeOK
    <3>2. 0 \in 0 .. Len(prog) /\ 0 + 1 = 1
      BY <3>1
    <3>3. f[0] \in States
      BY <2>4, <3>2 DEF ExecutionOf, Chain
    <3>4. e.locals[0 + 1] = f[0].local
      BY <2>4, <3>2 DEF ExecutionOf
    <3>5. QED
      BY <3>2, <3>3, <3>4 DEF States
  <2> HIDE DEF local
  <2>7. x \in PointsOf(known, <<>>)
    <3>1. <<>> \in [DOMAIN <<>> -> Indices]
      OBVIOUS
    <3>2. QED
      BY <2>3, <2>5, <2>6, <3>1, PointIsInterpretation
  <2>8. ValidFor(known, {}, post, <<>>)
    BY <1>2, <1>5
  <2> HIDE DEF x
  <2>9. QED
    BY <2>2, <2>7, <2>8 DEF ValidFor
<1>10. QED
  BY <1>6, <1>7, <1>8, <1>9 DEF WPInv

-----------------------------------------------------------------------------
(***************************************************************************)
(* The theorems.                                                           *)
(***************************************************************************)
LEMMA StepIsSafe ==
  ASSUME WPInv, [Next]_vars
  PROVE  WPInv'
<1>1. CASE GenerateVerificationConditions
  BY <1>1, GenerateIsSafe
<1>2. CASE WalkStatement
  BY <1>2, WalkIsSafe
<1>3. CASE EnterLoop
  BY <1>3, EnterIsSafe
<1>4. CASE CheckInductive
  BY <1>4, InductIsSafe
<1>5. CASE CheckEntails
  BY <1>5, EntailsIsSafe
<1>6. CASE CheckConsequent
  BY <1>6, ConsequentIsSafe
<1>7. CASE AssertCore
  BY <1>7, AssertIsSafe
<1>8. CASE Emit
  BY <1>8, EmitIsSafe
<1>9. CASE UNCHANGED vars
  <2>1. /\ prog' = prog /\ plain' = plain /\ failures' = failures /\ known' = known /\ pos' = pos /\ post' = post
        /\ pc' = pc /\ cand' = cand /\ inductive' = inductive /\ todo' = todo /\ core' = core
        /\ dropped' = dropped /\ circular' = circular /\ gaveUp' = gaveUp /\ verdict' = verdict
    BY <1>9 DEF vars, programVars, loopVars, marks
  <2>2. TypeOK /\ RunInv /\ WalkInv /\ LoopInv /\ CoreInv /\ VerdictInv
    BY DEF WPInv
  <2>3. Loop' = Loop /\ Predicates' = Predicates
    BY <2>1 DEF Loop, Predicates
  <2>4. TypeOK'
    BY <2>1, <2>2, <2>3 DEF TypeOK
  <2>5. RunInv'
    BY <2>1, <2>2 DEF RunInv
  <2>6. WalkInv' /\ VerdictInv'
    BY <2>1, <2>2 DEF WalkInv, VerdictInv, WithinScope
  <2>7. LoopInv' /\ CoreInv'
    BY <2>1, <2>2, <2>3 DEF LoopInv, CoreInv
  <2>8. QED
    BY <2>4, <2>5, <2>6, <2>7 DEF WPInv
<1>10. QED
  BY <1>1, <1>2, <1>3, <1>4, <1>5, <1>6, <1>7, <1>8, <1>9 DEF Next

LEMMA InvariantHolds == Spec => []WPInv
<1>1. Init => WPInv
  BY InitIsSafe
<1>2. WPInv /\ [Next]_vars => WPInv'
  BY StepIsSafe
<1>3. QED
  BY <1>1, <1>2, PTL DEF Spec

\* The walk has the shape TypeOK says, for any programs: a search has a loop, and its candidates are
\* the writes of that loop.
THEOREM TypeCorrect == Spec => []TypeOK
<1>1. WPInv => TypeOK
  BY DEF WPInv
<1>2. QED
  BY <1>1, InvariantHolds, PTL

\* calculateWP and computeInvariant never lose a counterexample, of any program with any loops: an
\* execution that ends with two members different falsifies the condition at every statement reached.
THEOREM CounterexamplesSurviveHolds == Spec => []CounterexamplesSurvive
<1>1. WPInv => CounterexamplesSurvive
  BY DEF WPInv, WalkInv, CounterexamplesSurvive, Point
<1>2. QED
  BY <1>1, InvariantHolds, PTL

\* unsat to the query of `lleq wp` proves the members equal in every execution of the program that
\* meets the constraints, whatever the arrays, the field and the program within the scope.
THEOREM NoFalseProofHolds == Spec => []NoFalseProof
<1>1. WPInv => NoFalseProof
  BY DEF WPInv, VerdictInv, NoFalseProof
<1>2. QED
  BY <1>1, InvariantHolds, PTL

\* In every nest of loops, whatever their number, bounds and steps, getLoopAntecedent describes the
\* tuples that were executed before the one at hand.
THEOREM VisitedIsExecutedHolds == Spec => []VisitedIsExecuted
<1>1. ASSUME WPInv
      PROVE  VisitedIsExecuted
  <2> SUFFICES ASSUME pc = "induct"
               PROVE  VisitedIsExecuted
    BY DEF VisitedIsExecuted
  <2> DEFINE rs == Loop.ranges
             its == Iterations(rs)
             before(n) == {its[i] : i \in 1 .. n}
             says(k, stepIter) == {x \in Counters(rs) : GetLoopAntecedent(x, k, rs, stepIter)}
  <2>1. rs \in Nests
    BY <1>1 DEF WPInv, LoopInv, IsLoop
  <2>2. DOMAIN its = 1 .. Len(its) /\ Len(its) \in Nat /\ \A i \in 1 .. Len(its) : its[i] \in Counters(rs)
    BY <2>1, NestsAreEnumerated DEF Enumerates, InNest
  <2> HIDE DEF rs, its
  <2>3. ASSUME NEW n \in DOMAIN its
        PROVE  /\ says(its[n], FALSE) = before(n - 1)
               /\ n < Len(its) => says(its[n], TRUE) = before(n)
    <3>1. ASSUME NEW x \in Counters(rs)
          PROVE  /\ GetLoopAntecedent(x, its[n], rs, FALSE) <=> \E i \in 1 .. n - 1 : x = its[i]
                 /\ n < Len(its) => (GetLoopAntecedent(x, its[n], rs, TRUE) <=> \E i \in 1 .. n : x = its[i])
      BY <2>1, <2>2, AntecedentIsExecuted DEF its
    <3>2. n \in 1 .. Len(its) /\ n \in Nat
      BY <2>2
    <3>3. \A i \in 1 .. n : its[i] \in Counters(rs)
      BY <2>2, <3>2
    <3>4. \A i \in 1 .. n - 1 : its[i] \in Counters(rs)
      BY <2>2, <3>2
    <3>5. says(its[n], FALSE) = before(n - 1)
      BY <3>1, <3>4
    <3>6. n < Len(its) => says(its[n], TRUE) = before(n)
      BY <3>1, <3>3
    <3>7. QED
      BY <3>5, <3>6
  <2>4. QED
    BY <2>3 DEF VisitedIsExecuted, rs, its
<1>2. QED
  BY <1>1, InvariantHolds, PTL

-----------------------------------------------------------------------------
(***************************************************************************)
(* The search is complete for plain programs.  What the walk makes of a    *)
(* condition has no new consequents and keeps every antecedent that does   *)
(* not speak of the local array.                                           *)
(***************************************************************************)
Bounded(conj, cons, ants) ==
  \A i \in DOMAIN conj : conj[i].consequents \subseteq cons /\ ants \subseteq conj[i].antecedents

Lasting(ants) == \A t \in ants : t.kind = "eq" => t.val.from # "local"

LEMMA AddingKeeps ==
  ASSUME NEW d, NEW regions, NEW conj \in Conjunctions(d, regions), NEW terms \in SUBSET Hypotheses(d),
         NEW cons, NEW ants, Bounded(conj, cons, ants)
  PROVE  Bounded(AddAntecedents(terms, conj), cons, ants \cup terms)
<1> DEFINE new == AddAntecedents(terms, conj)
<1>1. DOMAIN new = DOMAIN conj
  BY DEF AddAntecedents
<1>2. ASSUME NEW i \in DOMAIN conj
      PROVE  new[i].consequents \subseteq cons /\ ants \cup terms \subseteq new[i].antecedents
  <2>1. new[i] = [antecedents |-> conj[i].antecedents \cup terms, consequents |-> conj[i].consequents,
                  annotated |-> conj[i].annotated]
    BY AddedParts
  <2> HIDE DEF new
  <2>2. new[i].antecedents = conj[i].antecedents \cup terms /\ new[i].consequents = conj[i].consequents
    BY <2>1
  <2>3. QED
    BY <2>2 DEF Bounded
<1> HIDE DEF new
<1>3. Bounded(new, cons, ants \cup terms)
  BY <1>1, <1>2 DEF Bounded
<1>4. QED
  BY <1>3 DEF new

LEMMA SubstitutingKeeps ==
  ASSUME NEW d, NEW regions, NEW conj \in Conjunctions(d, regions), NEW val \in Scalars,
         NEW cons, NEW ants, Lasting(ants), Bounded(conj, cons, ants)
  PROVE  Bounded(Substitute(conj, val), cons, ants)
<1> DEFINE new == Substitute(conj, val)
<1>1. DOMAIN new = DOMAIN conj
  BY SubstitutedParts
<1>2. ASSUME NEW i \in DOMAIN conj
      PROVE  new[i].consequents \subseteq cons /\ ants \subseteq new[i].antecedents
  <2>1. new[i] = [antecedents |-> {SubstituteTerm(t, val) : t \in conj[i].antecedents},
                  consequents |-> conj[i].consequents, annotated |-> conj[i].annotated]
    BY SubstitutedParts
  <2> HIDE DEF new
  <2>2. /\ new[i].antecedents = {SubstituteTerm(t, val) : t \in conj[i].antecedents}
        /\ new[i].consequents = conj[i].consequents
    BY <2>1
  <2>3. \A t \in ants : SubstituteTerm(t, val) = t /\ t \in conj[i].antecedents
    BY DEF SubstituteTerm, Lasting, Bounded
  <2>4. QED
    BY <2>2, <2>3 DEF Bounded
<1> HIDE DEF new
<1>3. Bounded(new, cons, ants)
  BY <1>1, <1>2 DEF Bounded
<1>4. QED
  BY <1>3 DEF new

\* The term a write or a constraint adds.
SideOf(s) == IF s.op = "write" THEN "w" ELSE "c"

LEMMA EquationIsHypothesis ==
  ASSUME NEW d, NEW s \in Operations(d), s.op \in {"write", "eq"}
  PROVE  {Equals(SideOf(s), s)} \in SUBSET Hypotheses(d)
<1>1. s.member \in Members /\ s.at \in Places(d) /\ s.val \in ValueTerms(d) /\ SideOf(s) \in {"w", "c"}
  BY OperationParts DEF SideOf
<1>2. Equals(SideOf(s), s) \in EqTerms(d)
  BY <1>1 DEF Equals, EqTerms
<1>3. QED
  BY <1>2 DEF Hypotheses

LEMMA OpAdds ==
  ASSUME NEW d, NEW regions, NEW s \in Operations(d), s.op \in {"write", "eq"}, NEW conj \in Conjunctions(d, regions),
         NEW cons, NEW ants, Bounded(conj, cons, ants)
  PROVE  Bounded(OpWP(s, conj), cons, ants \cup {Equals(SideOf(s), s)})
<1>1. OpWP(s, conj) = AddAntecedents({Equals(SideOf(s), s)}, conj)
  BY DEF OpWP, SideOf
<1>2. QED
  BY <1>1, EquationIsHypothesis, AddingKeeps

LEMMA OpKeeps ==
  ASSUME NEW d, NEW regions, NEW s \in Operations(d), NEW conj \in Conjunctions(d, regions),
         NEW cons, NEW ants, Lasting(ants), Bounded(conj, cons, ants)
  PROVE  Bounded(OpWP(s, conj), cons, ants)
<1>1. s.op \in {"write", "eq", "writeLocal", "readLocal"}
  BY OperationParts
<1>2. CASE s.op \in {"write", "eq"}
  <2>1. Bounded(OpWP(s, conj), cons, ants \cup {Equals(SideOf(s), s)})
    BY <1>2, OpAdds
  <2>2. QED
    BY <2>1 DEF Bounded
<1>3. CASE s.op = "writeLocal"
  <2>1. OpWP(s, conj) = Substitute(conj, s.val) /\ s.val \in Scalars
    BY <1>3, OperationParts DEF OpWP
  <2>2. QED
    BY <2>1, SubstitutingKeeps
<1>4. CASE s.op = "readLocal"
  BY <1>4 DEF OpWP
<1>5. QED
  BY <1>1, <1>2, <1>3, <1>4

LEMMA OpsKeep ==
  ASSUME NEW d, NEW regions, NEW ops \in Seq(Operations(d)), NEW conj \in Conjunctions(d, regions),
         NEW cons, NEW ants, Lasting(ants), Bounded(conj, cons, ants)
  PROVE  Bounded(OpsWP(ops, conj), cons, ants)
<1> DEFINE n == Len(ops)
<1>1. n \in Nat /\ \A i \in 1 .. n : ops[i] \in Operations(d)
  BY LenProperties, ElementOfSeq
<1>2. PICK f : OpsConds(f, ops, conj, d, regions)
  BY OpsCondsExist
<1>3. /\ f[0] = conj /\ f[n] = OpsWP(ops, conj) /\ f \in [0 .. n -> Conjunctions(d, regions)]
      /\ \A i \in 1 .. n : f[i] = OpWP(ops[n + 1 - i], f[i - 1])
  BY <1>2 DEF OpsConds
<1> DEFINE P == {i \in 0 .. n : Bounded(f[i], cons, ants)}
<1> HIDE DEF n
<1>4. 0 \in P
  BY <1>1, <1>3
<1>5. ASSUME NEW i \in 0 .. n - 1, i \in P
      PROVE  i + 1 \in P
  <2>1. i + 1 \in 1 .. n /\ i + 1 \in 0 .. n /\ (i + 1) - 1 = i /\ i \in 0 .. n /\ n + 1 - (i + 1) \in 1 .. n
    BY <1>1
  <2>2. f[i + 1] = OpWP(ops[n + 1 - (i + 1)], f[i]) /\ f[i] \in Conjunctions(d, regions)
    BY <1>3, <2>1
  <2>3. ops[n + 1 - (i + 1)] \in Operations(d) /\ Bounded(f[i], cons, ants)
    BY <1>1, <1>5, <2>1
  <2>4. Bounded(f[i + 1], cons, ants)
    BY <2>2, <2>3, OpKeeps
  <2>5. QED
    BY <2>1, <2>4
<1>6. n \in P
  <2> HIDE DEF P
  <2>1. n \in 0 .. n
    BY <1>1
  <2>2. QED
    BY <1>1, <1>4, <1>5, <2>1, UpToInduction
<1>7. QED
  BY <1>3, <1>6

LEMMA StatementKeeps ==
  ASSUME NEW d, NEW regions, NEW s \in Statements(d), NEW conj \in Conjunctions(d, regions),
         NEW cons, NEW ants, Lasting(ants), Bounded(conj, cons, ants)
  PROVE  Bounded(StatementWP(s, conj), cons, ants)
<1>1. CASE s.op # "if"
  <2>1. s \in Operations(d) /\ StatementWP(s, conj) = OpWP(s, conj)
    BY <1>1, StatementParts DEF StatementWP
  <2>2. QED
    BY <2>1, OpKeeps
<1>2. CASE s.op = "if"
  <2>1. ASSUME NEW taken \in BOOLEAN
        PROVE  Branch(s, taken, conj) \in Conjunctions(d, regions) /\ Bounded(Branch(s, taken, conj), cons, ants)
    <3> DEFINE ops == IF taken THEN s.then ELSE s.else
               terms == {When(s.cond, taken)}
    <3>1. /\ OpsWP(ops, conj) \in Conjunctions(d, regions) /\ terms \in SUBSET Hypotheses(d)
          /\ Branch(s, taken, conj) \in Conjunctions(d, regions)
      BY <1>2, BranchesJoin
    <3>2. ops \in Seq(Operations(d))
      BY <1>2, StatementParts
    <3>3. Branch(s, taken, conj) = AddAntecedents(terms, OpsWP(ops, conj))
      BY DEF Branch
    <3> HIDE DEF ops, terms
    <3>4. Bounded(OpsWP(ops, conj), cons, ants)
      BY <3>2, OpsKeep
    <3>5. Bounded(AddAntecedents(terms, OpsWP(ops, conj)), cons, ants \cup terms)
      BY <3>1, <3>4, AddingKeeps
    <3>6. QED
      BY <3>1, <3>3, <3>5 DEF Bounded
  <2> DEFINE a == Branch(s, TRUE, conj)
             b == Branch(s, FALSE, conj)
  <2>2. a \in Conjunctions(d, regions) /\ Bounded(a, cons, ants)
    BY <2>1
  <2>3. b \in Conjunctions(d, regions) /\ Bounded(b, cons, ants)
    BY <2>1
  <2>4. StatementWP(s, conj) = a \o b
    BY <1>2, BranchesJoin
  <2> HIDE DEF a, b
  <2>5. Bounded(a \o b, cons, ants)
    <3>1. /\ a \in Seq(Implications(d, regions)) /\ b \in Seq(Implications(d, regions))
      BY <2>2, <2>3 DEF Conjunctions
    <3>2. ASSUME NEW i \in DOMAIN (a \o b)
          PROVE  (\E j \in DOMAIN a : (a \o b)[i] = a[j]) \/ (\E j \in DOMAIN b : (a \o b)[i] = b[j])
      <4>1. /\ Len(a) \in Nat /\ Len(b) \in Nat /\ DOMAIN a = 1 .. Len(a) /\ DOMAIN b = 1 .. Len(b)
            /\ DOMAIN (a \o b) = 1 .. Len(a) + Len(b)
            /\ (a \o b)[i] = IF i <= Len(a) THEN a[i] ELSE b[i - Len(a)]
        <5>1. Len(a) \in Nat /\ Len(b) \in Nat /\ DOMAIN a = 1 .. Len(a) /\ DOMAIN b = 1 .. Len(b)
          BY <3>1, LenProperties
        <5>2. a \o b \in Seq(Implications(d, regions)) /\ Len(a \o b) = Len(a) + Len(b)
          BY <3>1, ConcatProperties
        <5>3. DOMAIN (a \o b) = 1 .. Len(a) + Len(b)
          BY <5>2, LenProperties
        <5>4. QED
          BY <3>1, <3>2, <5>1, <5>3, ConcatProperties
      <4>2. i \in 1 .. Len(a) + Len(b)
        BY <4>1
      <4>3. CASE i <= Len(a)
        BY <4>1, <4>2, <4>3
      <4>4. CASE ~(i <= Len(a))
        <5>1. i - Len(a) \in DOMAIN b
          BY <4>1, <4>2, <4>4
        <5>2. QED
          BY <4>1, <4>4, <5>1
      <4>5. QED
        BY <4>3, <4>4
    <3>3. QED
      BY <2>2, <2>3, <3>2 DEF Bounded
  <2>6. QED
    BY <2>4, <2>5
<1>3. QED
  BY <1>1, <1>2

\* A write or a constraint of the block is an antecedent of all that its walk leaves.
LEMMA BlockAdds ==
  ASSUME NEW d, NEW regions, NEW block \in Seq(Statements(d)), NEW conj \in Conjunctions(d, regions),
         NEW cons, Bounded(conj, cons, {}), NEW h \in DOMAIN block, block[h].op \in {"write", "eq"},
         block[h].val.from # "local"
  PROVE  Bounded(BlockWP(block, conj), cons, {Equals(SideOf(block[h]), block[h])})
<1> DEFINE n == Len(block)
           s == block[h]
           ants == {Equals(SideOf(s), s)}
           m == n + 1 - h
<1>1. n \in Nat /\ DOMAIN block = 1 .. n /\ \A i \in 1 .. n : block[i] \in Statements(d)
  BY LenProperties, ElementOfSeq
<1>2. PICK f : BlockConds(f, block, conj, d, regions)
  BY BlockCondsExist
<1>3. /\ f[0] = conj /\ f[n] = BlockWP(block, conj) /\ f \in [0 .. n -> Conjunctions(d, regions)]
      /\ \A i \in 1 .. n : f[i] = StatementWP(block[n + 1 - i], f[i - 1])
  BY <1>2 DEF BlockConds
<1>4. Lasting(ants) /\ Lasting({})
  BY DEF Lasting, Equals
<1>5. s \in Operations(d) /\ \A c : StatementWP(s, c) = OpWP(s, c)
  <2>1. s \in Statements(d) /\ s.op # "if"
    BY <1>1
  <2>2. QED
    BY <2>1, StatementParts DEF StatementWP
<1> DEFINE P == {i \in 0 .. n : Bounded(f[i], cons, {}) /\ (i >= m => Bounded(f[i], cons, ants))}
<1> HIDE DEF n, ants
<1>6. h \in 1 .. n /\ m \in 1 .. n /\ n + 1 - m = h
  BY <1>1
<1>7. 0 \in P
  BY <1>1, <1>3, <1>6
<1>8. ASSUME NEW i \in 0 .. n - 1, i \in P
      PROVE  i + 1 \in P
  <2> DEFINE j == i + 1
             t == block[n + 1 - j]
  <2>1. j \in 1 .. n /\ j \in 0 .. n /\ j - 1 = i /\ i \in 0 .. n /\ n + 1 - j \in 1 .. n
    BY <1>1
  <2>2. f[j] = StatementWP(t, f[i]) /\ f[i] \in Conjunctions(d, regions) /\ t \in Statements(d)
    BY <1>1, <1>3, <2>1
  <2>3. Bounded(f[i], cons, {}) /\ (i >= m => Bounded(f[i], cons, ants))
    BY <1>8
  <2>4. j = m => t = s
    BY <1>6
  <2> HIDE DEF t
  <2>5. Bounded(f[j], cons, {})
    BY <1>4, <2>2, <2>3, StatementKeeps
  <2>6. ASSUME j >= m
        PROVE  Bounded(f[j], cons, ants)
    <3>1. CASE j = m
      <4>1. f[j] = OpWP(s, f[i])
        BY <1>5, <2>2, <2>4, <3>1
      <4>2. Bounded(OpWP(s, f[i]), cons, {} \cup {Equals(SideOf(s), s)})
        BY <1>5, <2>2, <2>3, OpAdds
      <4>3. {} \cup {Equals(SideOf(s), s)} = ants
        BY DEF ants
      <4>4. QED
        BY <4>1, <4>2, <4>3
    <3>2. CASE j # m
      <4>1. i >= m
        BY <1>6, <2>1, <2>6, <3>2
      <4>2. QED
        BY <1>4, <2>2, <2>3, <4>1, StatementKeeps
    <3>3. QED
      BY <3>1, <3>2
  <2>7. QED
    BY <2>1, <2>5, <2>6
<1>9. n \in P
  <2> HIDE DEF P
  <2>1. n \in 0 .. n
    BY <1>1
  <2>2. QED
    BY <1>1, <1>7, <1>8, <2>1, UpToInduction
<1>10. n >= m
  BY <1>1, <1>6
<1>11. QED
  BY <1>3, <1>9, <1>10 DEF ants

-----------------------------------------------------------------------------
(***************************************************************************)
(* A loop that pins a member: both sides get the same value at the counter. *)
(***************************************************************************)
PinnedBy(p, n, m) == \E i \in 1 .. n : Pins(p[i], m)

\* q is the predicate of the write by which the loop s pins its member.
PinnedAs(s, q) ==
  /\ s.op = "for" /\ Len(s.ranges) = 1
  /\ \A i \in Indices : ValueInRange(i, s.ranges[1])
  /\ \E i, j \in DOMAIN s.body :
       /\ s.body[i].op = "write" /\ s.body[j].op = "eq"
       /\ s.body[i].val = s.body[j].val /\ s.body[i].val.from \in {"const", "input"}
       /\ \A h \in {i, j} : s.body[h].member = q.member /\ s.body[h].at.dim = 1
       /\ q = [member |-> s.body[i].member, at |-> s.body[i].at]

LEMMA PinIsPredicate ==
  ASSUME NEW s, IsLoop(s), NEW q, PinnedAs(s, q)
  PROVE  q \in PredicatesOf(s.body)
<1>1. PICK i \in DOMAIN s.body : s.body[i].op = "write" /\ q = [member |-> s.body[i].member, at |-> s.body[i].at]
  BY DEF PinnedAs
<1> DEFINE t == s.body[i]
<1>2. t \in Range(s.body) /\ t.op = "write"
  BY <1>1 DEF Range
<1> HIDE DEF t
<1>3. t \in Walk(s.body)
  BY <1>2 DEF Walk
<1>4. QED
  BY <1>1, <1>2, <1>3 DEF PredicatesOf, t

LEMMA PinIsFound ==
  ASSUME NEW s, IsLoop(s), NEW m, Pins(s, m)
  PROVE  \E q \in PredicatesOf(s.body) : q.member = m /\ PinnedAs(s, q)
<1>1. PICK i \in DOMAIN s.body, j \in DOMAIN s.body :
        /\ s.body[i].op = "write" /\ s.body[j].op = "eq"
        /\ s.body[i].val = s.body[j].val /\ s.body[i].val.from \in {"const", "input"}
        /\ \A h \in {i, j} : s.body[h].member = m /\ s.body[h].at.dim = 1
  BY DEF Pins
<1> DEFINE q == [member |-> s.body[i].member, at |-> s.body[i].at]
<1>2. q.member = m
  BY <1>1
<1>3. s.op = "for" /\ Len(s.ranges) = 1 /\ \A k \in Indices : ValueInRange(k, s.ranges[1])
  BY DEF Pins
<1>4. PinnedAs(s, q)
  <2>1. q = [member |-> s.body[i].member, at |-> s.body[i].at]
    OBVIOUS
  <2> HIDE DEF q
  <2>2. QED
    BY <1>1, <1>2, <1>3, <2>1 DEF PinnedAs
<1> HIDE DEF q
<1>5. QED
  BY <1>2, <1>4, PinIsPredicate

\* Where an equation of the body holds, its element has the value both sides share.
LEMMA EquationGives ==
  ASSUME NEW s, s.at.dim = 1, s.val.from \in {"const", "input"}, NEW x, NEW side, Holds(Equals(side, s), x)
  PROVE  x[side][s.member][x.k[1]] = ValueOf(s.val, x, "w")
<1> DEFINE t == Equals(side, s)
<1>1. t.kind = "eq" /\ t.side = side /\ t.member = s.member /\ t.at = s.at /\ t.val = s.val
  BY DEF Equals
<1> HIDE DEF t
<1>2. Holds(t, x)
  BY DEF t
<1>3. x[side][s.member][Index(s.at, x.k)] = ValueOf(s.val, x, side)
  BY <1>1, <1>2, HoldsCases
<1>4. ValueOf(s.val, x, side) = ValueOf(s.val, x, "w")
  BY ValueCases
<1>5. Index(s.at, x.k) = x.k[1]
  BY DEF Index
<1>6. QED
  BY <1>3, <1>4, <1>5

\* The query that asks whether the predicate is kept is valid.
LEMMA PinIsKept ==
  ASSUME NEW s, IsLoop(s), NEW q, PinnedAs(s, q), NEW kn, NEW hyps,
         QuantifyPredicate(q, "visited", s.ranges) \in hyps
  PROVE  ValidFor(kn, hyps, CurrentOf(s, q), s.ranges)
<1> DEFINE rs == s.ranges
           d == Len(rs)
           goal == QuantifyPredicate(q, "current", rs)
           conj == CurrentOf(s, q)
<1>1. rs \in Nests /\ d \in Nat /\ s.body \in Seq(Statements(d))
  BY NestParts DEF IsLoop
<1>2. q.member \in Members /\ q.at \in AnyPlace
  BY PinIsPredicate, PredicateParts
<1>3. PICK i \in DOMAIN s.body, j \in DOMAIN s.body :
        /\ s.body[i].op = "write" /\ s.body[j].op = "eq"
        /\ s.body[i].val = s.body[j].val /\ s.body[i].val.from \in {"const", "input"}
        /\ \A h \in {i, j} : s.body[h].member = q.member /\ s.body[h].at.dim = 1
        /\ q = [member |-> s.body[i].member, at |-> s.body[i].at]
  BY DEF PinnedAs
<1> DEFINE a == s.body[i]
           b == s.body[j]
<1>4. a.op = "write" /\ a.val.from \in {"const", "input"} /\ a.member = q.member /\ a.at.dim = 1 /\ q.at = a.at
  <2>1. [member |-> s.body[i].member, at |-> s.body[i].at].at = s.body[i].at
    OBVIOUS
  <2>2. QED
    BY <1>3, <2>1
<1>5. b.op = "eq" /\ b.val = a.val /\ b.member = q.member /\ b.at.dim = 1
  BY <1>3
<1>6. goal \in Conclusions(Regions)
  BY <1>1, <1>2, QuantifiedParts DEF Regions
<1> HIDE DEF goal
<1>7. Of({goal}) \in Conjunctions(d, Regions) /\ Bounded(Of({goal}), {goal}, {})
  <2>1. {goal} \in SUBSET Conclusions(Regions)
    BY <1>6
  <2>2. Of({goal}) \in Conjunctions(d, Regions)
    BY <2>1, OfIsTyped
  <2> DEFINE imp == Implication({}, {goal}, FALSE)
  <2>3. imp.consequents = {goal}
    BY DEF Implication
  <2> HIDE DEF imp
  <2>4. Of({goal}) = <<imp>>
    BY DEF Of, imp
  <2>5. DOMAIN <<imp>> = {1} /\ <<imp>>[1] = imp
    OBVIOUS
  <2>6. Bounded(<<imp>>, {goal}, {})
    BY <2>3, <2>5 DEF Bounded
  <2>7. QED
    BY <2>2, <2>4, <2>6
<1>8. conj = BlockWP(s.body, Of({goal}))
  BY DEF CurrentOf, goal
<1> HIDE DEF d, conj
<1>9. Bounded(conj, {goal}, {Equals("w", a)})
  <2>1. Bounded(BlockWP(s.body, Of({goal})), {goal}, {Equals(SideOf(s.body[i]), s.body[i])})
    BY <1>1, <1>3, <1>7, BlockAdds
  <2>2. SideOf(s.body[i]) = "w"
    BY <1>3 DEF SideOf
  <2>3. QED
    BY <1>8, <2>1, <2>2
<1>10. Bounded(conj, {goal}, {Equals("c", b)})
  <2>1. Bounded(BlockWP(s.body, Of({goal})), {goal}, {Equals(SideOf(s.body[j]), s.body[j])})
    BY <1>1, <1>3, <1>7, BlockAdds
  <2>2. SideOf(s.body[j]) = "c"
    BY <1>3 DEF SideOf
  <2>3. QED
    BY <1>8, <2>1, <2>2
<1> HIDE DEF a, b
<1>11. ASSUME NEW x \in PointsOf(kn, rs), \A t \in hyps : Holds(t, x),
              Holds(Equals("w", a), x), Holds(Equals("c", b), x)
       PROVE  Holds(goal, x)
  <2>1. x.w[q.member][x.k[1]] = x.c[q.member][x.k[1]]
    <3>1. x["w"][a.member][x.k[1]] = ValueOf(a.val, x, "w")
      BY <1>4, <1>11, EquationGives
    <3>2. x["c"][b.member][x.k[1]] = ValueOf(b.val, x, "w")
      BY <1>4, <1>5, <1>11, EquationGives
    <3>3. QED
      BY <1>4, <1>5, <3>1, <3>2
  <2>2. \A y : Index(q.at, y) = y[1]
    BY <1>4 DEF Index
  <2> DEFINE v == QuantifyPredicate(q, "visited", rs)
             same(y) == x.w[q.member][Index(q.at, y)] = x.c[q.member][Index(q.at, y)]
  <2>3. /\ v.kind = "all" /\ v.member = q.member /\ v.at = q.at /\ v.ranges = rs
        /\ goal.kind = "all" /\ goal.member = q.member /\ goal.at = q.at /\ goal.ranges = rs
    BY DEF QuantifyPredicate, goal
  <2>4. Holds(v, x)
    BY <1>11
  <2>5. \A y \in Counters(rs) : InRegion(y, v, x.k) => same(y)
    <3> HIDE DEF v
    <3>1. QED
      BY <2>3, <2>4, HoldsCases
  <2>6. same(x.k)
    BY <2>1, <2>2
  <2> HIDE DEF same
  <2>7. \A y \in Counters(rs) : InRegion(y, goal, x.k) => same(y)
    BY <2>5, <2>6, RegionCases DEF goal
  <2>8. QED
    BY <2>3, <2>7, HoldsCases DEF same
<1>12. ASSUME NEW x \in PointsOf(kn, rs), \A t \in hyps : Holds(t, x)
       PROVE  ConjunctionHolds(conj, x)
  BY <1>9, <1>10, <1>11, <1>12 DEF ConjunctionHolds, Bounded
<1>13. QED
  BY <1>12 DEF ValidFor, conj

\* After the loop both sides of a pinned member are the same, and so are all their elements.
LEMMA PinGives ==
  ASSUME NEW s, IsLoop(s), NEW q, PinnedAs(s, q), NEW x, x.w \in Memories, x.c \in Memories,
         Holds(QuantifyPredicate(q, "loop", s.ranges), x),
         NEW t \in Conclusions(WholeRegions), t.member = q.member
  PROVE  Holds(t, x)
<1> DEFINE rs == s.ranges
           u == QuantifyPredicate(q, "loop", rs)
<1>1. rs \in Nests /\ Len(rs) = 1 /\ DOMAIN rs = 1 .. 1 /\ \A i \in Indices : ValueInRange(i, rs[1])
  BY NestParts DEF IsLoop, PinnedAs
<1>2. q.member \in Members /\ q.at.dim = 1
  <2>1. q.member \in Members
    BY PinIsPredicate, PredicateParts
  <2>2. PICK i \in DOMAIN s.body : s.body[i].at.dim = 1 /\ q = [member |-> s.body[i].member, at |-> s.body[i].at]
    BY DEF PinnedAs
  <2>3. [member |-> s.body[i].member, at |-> s.body[i].at].at = s.body[i].at
    OBVIOUS
  <2>4. QED
    BY <2>1, <2>2, <2>3
<1>3. u.kind = "all" /\ u.member = q.member /\ u.at = q.at /\ u.ranges = rs
  BY DEF QuantifyPredicate
<1>4. \A y \in Counters(rs) :
        InRegion(y, u, x.k) => x.w[q.member][Index(q.at, y)] = x.c[q.member][Index(q.at, y)]
  <2> HIDE DEF u
  <2>1. Holds(u, x)
    BY DEF u
  <2>2. QED
    BY <1>3, <2>1, HoldsCases
<1>5. ASSUME NEW i \in Indices
      PROVE  x.w[q.member][i] = x.c[q.member][i]
  <2> DEFINE y == [d \in DOMAIN rs |-> i]
  <2>1. y \in Counters(rs) /\ y[1] = i
    BY <1>1, SizesAreFinite DEF Counters, Indices
  <2> HIDE DEF y
  <2>2. \A d \in DOMAIN rs : ValueInRange(y[d], rs[d])
    BY <1>1, <2>1
  <2>3. InRegion(y, u, x.k)
    BY <2>2, RegionCases
  <2>4. Index(q.at, y) = i
    BY <1>2, <2>1 DEF Index
  <2> HIDE DEF u
  <2>5. QED
    BY <1>4, <2>1, <2>3, <2>4
<1>6. x.w[t.member] = x.c[t.member]
  <2>1. x.w[q.member] \in [Indices -> Values] /\ x.c[q.member] \in [Indices -> Values]
    BY <1>2 DEF Memories
  <2>2. x.w[q.member] = x.c[q.member]
    BY <1>5, <2>1
  <2>3. QED
    BY <2>2
<1>7. CASE t.kind = "member"
  BY <1>6, <1>7, HoldsCases
<1>8. CASE t.kind = "all"
  <2>1. \A y : x.w[t.member][Index(t.at, y)] = x.c[t.member][Index(t.at, y)]
    BY <1>6
  <2>2. QED
    BY <1>8, <2>1, HoldsCases
<1>9. QED
  BY <1>7, <1>8, ConclusionParts

-----------------------------------------------------------------------------
(***************************************************************************)
(* What the conditions of a plain program are about.                       *)
(***************************************************************************)
PlainProgram(p) ==
  /\ \A m \in Members : PinnedBy(p, Len(p), m)
  /\ \A n \in {i \in DOMAIN p : p[i].op = "for"} :
       \A q \in PredicatesOf(p[n].body) : LeavesNone(p[n], q) \/ PinnedBy(p, n - 1, q.member)

\* What is still owed before statement n + 1 is left to the statements before it, if to any.
Owed(p, n, t) == (\A x : Holds(t, x)) \/ PinnedBy(p, n, t.member)

LEMMA OutsideIsOwed ==
  ASSUME NEW p, PlainProgram(p), NEW n \in DOMAIN p, IsLoop(p[n]), NEW t \in OutsideOf(p[n])
  PROVE  Owed(p, n - 1, t)
<1> DEFINE s == p[n]
<1>1. PICK q \in PredicatesOf(s.body) : t = QuantifyPredicate(q, "outside", s.ranges)
  BY DEF OutsideOf, Quantified
<1>2. LeavesNone(s, q) \/ PinnedBy(p, n - 1, q.member)
  BY DEF PlainProgram, IsLoop
<1> HIDE DEF s
<1>3. /\ t.kind = "all" /\ t.member = q.member /\ t.at = q.at /\ t.ranges = s.ranges /\ t.where = "outside"
  BY <1>1 DEF QuantifyPredicate
<1>4. CASE LeavesNone(s, q)
  <2>1. \A y \in Counters(s.ranges) : \A k : ~InRegion(y, t, k)
    BY <1>3, <1>4 DEF LeavesNone, InRegion
  <2>2. \A x : Holds(t, x)
    BY <1>3, <2>1, HoldsCases
  <2>3. QED
    BY <2>2 DEF Owed
<1>5. CASE PinnedBy(p, n - 1, q.member)
  BY <1>3, <1>5 DEF Owed
<1>6. QED
  BY <1>2, <1>4, <1>5

\* A statement that is no loop owes nothing of its own.
LEMMA OwedBefore ==
  ASSUME NEW p, NEW n \in Nat \ {0}, p[n].op # "for", NEW t, Owed(p, n, t)
  PROVE  Owed(p, n - 1, t)
<1>1. ~Pins(p[n], t.member)
  BY DEF Pins
<1>2. \A i \in 1 .. n : i = n \/ i \in 1 .. n - 1
  OBVIOUS
<1>3. PinnedBy(p, n, t.member) => PinnedBy(p, n - 1, t.member)
  BY <1>1, <1>2 DEF PinnedBy
<1>4. QED
  BY <1>3 DEF Owed

\* What the loop pays is implied by its invariant; the rest is owed before it.
LEMMA OwedIsImplied ==
  ASSUME NEW p, NEW n \in Nat \ {0}, IsLoop(p[n]), NEW ind, \A q : PinnedAs(p[n], q) => q \in ind,
         NEW t \in Conclusions(WholeRegions), Owed(p, n, t), NEW kn, NEW hyps, GivenOf(p[n], ind) \subseteq hyps,
         ~ValidFor(kn, hyps, Of({t}), p[n].ranges)
  PROVE  Owed(p, n - 1, t)
<1> DEFINE s == p[n]
<1>1. \A x : ConjunctionHolds(Of({t}), x) <=> Holds(t, x)
  <2>1. {t} \in SUBSET Conclusions(WholeRegions)
    OBVIOUS
  <2>2. \A x : ConjunctionHolds(Of({t}), x) <=> \A u \in {t} : Holds(u, x)
    BY <2>1, OfIsTyped
  <2>3. QED
    BY <2>2
<1>2. PICK x \in PointsOf(kn, s.ranges) : (\A u \in hyps : Holds(u, x)) /\ ~Holds(t, x)
  BY <1>1 DEF ValidFor
<1>3. PinnedBy(p, n, t.member)
  BY <1>2 DEF Owed
<1>4. ~Pins(s, t.member)
  <2> SUFFICES ASSUME Pins(s, t.member)
               PROVE  FALSE
    OBVIOUS
  <2>1. PICK q \in PredicatesOf(s.body) : q.member = t.member /\ PinnedAs(s, q)
    BY PinIsFound
  <2>2. QuantifyPredicate(q, "loop", s.ranges) \in hyps
    BY <2>1 DEF GivenOf, Quantified
  <2>3. x.w \in Memories /\ x.c \in Memories
    BY DEF PointsOf
  <2>4. Holds(QuantifyPredicate(q, "loop", s.ranges), x)
    BY <1>2, <2>2
  <2> HIDE DEF s
  <2>5. IsLoop(s)
    BY DEF s
  <2>6. Holds(t, x)
    BY <2>1, <2>3, <2>4, <2>5, PinGives
  <2>7. QED
    BY <1>2, <2>6
<1>5. \A i \in 1 .. n : i = n \/ i \in 1 .. n - 1
  OBVIOUS
<1>6. PinnedBy(p, n - 1, t.member)
  BY <1>3, <1>4, <1>5 DEF PinnedBy
<1>7. QED
  BY <1>6 DEF Owed

\* A query that is valid is answered with "unsat", or not at all.
LEMMA ValidIsUnsat ==
  ASSUME NEW hyps, NEW conj, NEW rs, ValidFor(known, hyps, conj, rs), NEW answer \in CheckUnsat(hyps, conj, rs),
         answer # "unknown"
  PROVE  answer = "unsat"
<1>1. Valid(hyps, conj, rs)
  BY QueriesAre
<1>2. QED
  BY <1>1 DEF CheckUnsat

-----------------------------------------------------------------------------
(***************************************************************************)
(* The invariant of a walk through a plain program whose solvers answer.   *)
(***************************************************************************)

\* The walk of a condition leaves only what the statements before it pay.
OwedInv ==
  /\ pc = "start" => pos = Len(prog)
  /\ pc \in {"walk", "induct"} => \A i \in DOMAIN post : \A t \in post[i].consequents : Owed(prog, pos, t)

\* No predicate of a pinned member is lost, and the core has nothing the loop would pay.
PinInv ==
  /\ pc \in {"induct", "core"} => \A q : PinnedAs(Loop, q) => q \in cand \cup inductive
  /\ pc = "induct" => core = {}
  /\ pc = "core" =>
       /\ cand = {}
       /\ \A q \in todo : Owed(prog, pos, q.consequent)
       /\ \A t \in core : Owed(prog, pos - 1, t)

PlainInv == PlainProgram(prog) /\ ~gaveUp => OwedInv /\ PinInv /\ (pc = "done" => verdict = "unsat")

LEMMA PlainStart ==
  ASSUME Init
  PROVE  PlainInv
<1>1. pc = "start" /\ pos = Len(prog)
  BY DEF Init
<1>2. OwedInv /\ PinInv
  BY <1>1 DEF OwedInv, PinInv
<1>3. QED
  BY <1>1, <1>2 DEF PlainInv

LEMMA PlainGenerate ==
  ASSUME WPInv, PlainInv, GenerateVerificationConditions
  PROVE  PlainInv'
<1>1. pc = "start" /\ pc' = "walk" /\ prog' = prog /\ pos' = pos /\ post' = GetPostcondition /\ gaveUp' = gaveUp
  BY DEF GenerateVerificationConditions
<1> SUFFICES ASSUME PlainProgram(prog), ~gaveUp
             PROVE  OwedInv' /\ PinInv'
  BY <1>1 DEF PlainInv
<1>2. pos = Len(prog)
  BY <1>1 DEF PlainInv, OwedInv
<1>3. ASSUME NEW i \in DOMAIN GetPostcondition, NEW t \in GetPostcondition[i].consequents
      PROVE  Owed(prog, pos, t)
  <2> DEFINE terms == {MemberEqual(m) : m \in Members}
             imp == Implication({}, terms, TRUE)
  <2>1. imp.consequents = terms
    BY DEF Implication
  <2>2. GetPostcondition = <<imp>>
    BY DEF GetPostcondition
  <2> HIDE DEF imp
  <2>3. GetPostcondition[i] = imp
    BY <2>2
  <2>4. PICK m \in Members : t = MemberEqual(m)
    BY <2>1, <2>3
  <2>5. t.member = m
    BY <2>4 DEF MemberEqual
  <2>6. PinnedBy(prog, pos, t.member)
    BY <1>2, <2>5 DEF PlainProgram
  <2>7. QED
    BY <2>6 DEF Owed
<1>4. OwedInv'
  BY <1>1, <1>3 DEF OwedInv
<1>5. PinInv'
  BY <1>1 DEF PinInv
<1>6. QED
  BY <1>4, <1>5

LEMMA PlainWalk ==
  ASSUME WPInv, PlainInv, WalkStatement
  PROVE  PlainInv'
<1> DEFINE s == prog[pos]
<1>1. /\ pc = "walk" /\ pos > 0 /\ s.op # "for" /\ post' = StatementWP(s, post) /\ pos' = pos - 1
      /\ prog' = prog /\ pc' = pc /\ gaveUp' = gaveUp
  BY DEF WalkStatement, Loop, programVars
<1> SUFFICES ASSUME PlainProgram(prog), ~gaveUp
             PROVE  OwedInv' /\ PinInv'
  BY <1>1 DEF PlainInv
<1>2. TypeOK /\ RunInv
  BY DEF WPInv
<1>3. pos \in Nat \ {0} /\ s \in Statements(0)
  <2>1. prog \in Programs /\ pos \in 0 .. Len(prog)
    BY <1>2 DEF TypeOK
  <2>2. Len(prog) \in Nat /\ \A i \in 1 .. Len(prog) : prog[i] \in Statements(0) \/ IsLoop(prog[i])
    BY <2>1, ProgramsAreWellFormed
  <2>3. pos \in 1 .. Len(prog)
    BY <1>1, <2>1, <2>2
  <2>4. QED
    BY <1>1, <2>2, <2>3 DEF IsLoop
<1>4. post \in Conjunctions(0, WholeRegions)
  BY <1>1, <1>2 DEF RunInv
<1>5. \A i \in DOMAIN post : \A t \in post[i].consequents : Owed(prog, pos, t)
  BY <1>1 DEF PlainInv, OwedInv
<1> HIDE DEF s
<1>6. ASSUME NEW i \in DOMAIN post', NEW t \in post'[i].consequents
      PROVE  Owed(prog, pos - 1, t)
  <2> DEFINE cons == UNION {post[j].consequents : j \in DOMAIN post}
  <2>1. Bounded(post, cons, {}) /\ Lasting({})
    BY DEF Bounded, Lasting
  <2>2. \A u \in cons : Owed(prog, pos, u)
    BY <1>5
  <2> HIDE DEF cons
  <2>3. Bounded(StatementWP(s, post), cons, {})
    BY <1>3, <1>4, <2>1, StatementKeeps
  <2>4. Owed(prog, pos, t)
    BY <1>1, <1>6, <2>2, <2>3 DEF Bounded
  <2>5. QED
    BY <1>1, <1>3, <2>4, OwedBefore DEF s
<1>7. OwedInv'
  BY <1>1, <1>6 DEF OwedInv
<1>8. PinInv'
  BY <1>1 DEF PinInv
<1>9. QED
  BY <1>7, <1>8

LEMMA PlainEnter ==
  ASSUME WPInv, PlainInv, EnterLoop
  PROVE  PlainInv'
<1>1. /\ pc = "walk" /\ Loop.op = "for" /\ pc' = "induct" /\ cand' = Predicates /\ core' = {}
      /\ post' = post /\ pos' = pos /\ prog' = prog /\ gaveUp' = gaveUp
  BY DEF EnterLoop, programVars
<1> SUFFICES ASSUME PlainProgram(prog), ~gaveUp
             PROVE  OwedInv' /\ PinInv'
  BY <1>1 DEF PlainInv
<1>2. WPInv'
  BY EnterIsSafe
<1>3. Loop' = Loop /\ IsLoop(Loop)
  <2>1. LoopInv'
    BY <1>2 DEF WPInv
  <2>2. Loop' = Loop
    BY <1>1 DEF Loop
  <2>3. QED
    BY <1>1, <2>1, <2>2 DEF LoopInv
<1>4. OwedInv
  BY DEF PlainInv
<1>5. OwedInv'
  BY <1>1, <1>4 DEF OwedInv
<1>6. PinInv'
  <2>1. \A q : PinnedAs(Loop, q) => q \in Predicates
    BY <1>3, PinIsPredicate DEF Predicates
  <2>2. QED
    BY <1>1, <1>3, <2>1 DEF PinInv
<1>7. QED
  BY <1>5, <1>6

LEMMA PlainInduct ==
  ASSUME WPInv, PlainInv, CheckInductive
  PROVE  PlainInv'
<1>1. /\ pc = "induct" /\ cand # {} /\ pc' = pc /\ core' = core /\ post' = post /\ pos' = pos /\ prog' = prog
  BY DEF CheckInductive, programVars
<1> DEFINE p == CHOOSE p \in cand : TRUE
<1>2. PICK answer \in CheckUnsat(BodyPrecondition \cup Strengthenings, Current(p), Loop.ranges) :
        /\ inductive' = (IF answer = "unsat" THEN inductive \cup {p} ELSE inductive)
        /\ gaveUp' = (gaveUp \/ answer = "unknown")
        /\ cand' = cand \ {p}
  BY DEF CheckInductive, NoteAnswer
<1> HIDE DEF p
<1> SUFFICES ASSUME PlainProgram(prog), ~gaveUp'
             PROVE  OwedInv' /\ PinInv'
  BY <1>1 DEF PlainInv
<1>3. ~gaveUp /\ answer # "unknown"
  BY <1>2
<1>4. OwedInv /\ PinInv
  BY <1>3 DEF PlainInv
<1>5. Loop' = Loop
  BY <1>1 DEF Loop
<1>6. IsLoop(Loop)
  BY <1>1 DEF WPInv, LoopInv
<1>7. OwedInv'
  BY <1>1, <1>4 DEF OwedInv
<1>8. ASSUME NEW q, PinnedAs(Loop, q)
      PROVE  q \in cand' \cup inductive'
  <2>1. q \in cand \cup inductive
    BY <1>1, <1>4, <1>8 DEF PinInv
  <2>2. CASE q = p
    <3> DEFINE hyps == BodyPrecondition \cup Strengthenings
    <3>1. QuantifyPredicate(q, "visited", Loop.ranges) \in hyps
      BY <1>6, <1>8, PinIsPredicate DEF BodyPrecondition, AllOf, Predicates
    <3>2. Current(p) = CurrentOf(Loop, q)
      BY <2>2, QueriesAre
    <3> HIDE DEF hyps
    <3>3. ValidFor(known, hyps, CurrentOf(Loop, q), Loop.ranges)
      BY <1>6, <1>8, <3>1, PinIsKept
    <3>4. answer \in CheckUnsat(hyps, CurrentOf(Loop, q), Loop.ranges)
      BY <1>2, <3>2 DEF hyps
    <3>5. answer = "unsat"
      BY <1>3, <3>3, <3>4, ValidIsUnsat
    <3>6. QED
      BY <1>2, <2>2, <3>5
  <2>3. CASE q # p
    BY <1>2, <2>1, <2>3
  <2>4. QED
    BY <2>2, <2>3
<1>9. PinInv'
  <2>1. core' = {}
    BY <1>1, <1>4 DEF PinInv
  <2>2. QED
    BY <1>1, <1>5, <1>8, <2>1 DEF PinInv
<1>10. QED
  BY <1>7, <1>9

\* What leaves a loop is owed to the statements before it.
LEMMA PlainLeave ==
  ASSUME WPInv, pc \in {"induct", "core"}, PlainProgram(prog), NEW terms, LeaveLoop(terms), prog' = prog,
         \A t \in terms : t \in OutsideOf(Loop) \/ Owed(prog, pos - 1, t)
  PROVE  OwedInv' /\ PinInv' /\ pc' = "walk"
<1>1. post' = Of(terms) /\ pos' = pos - 1 /\ pc' = "walk"
  BY DEF LeaveLoop
<1>2. IsLoop(Loop) /\ pos \in DOMAIN prog
  <2>1. pos \in 1 .. Len(prog) /\ IsLoop(Loop) /\ prog \in Programs
    BY DEF WPInv, LoopInv, TypeOK
  <2>2. QED
    BY <2>1, ProgramsAreWellFormed
<1>3. ASSUME NEW t \in terms
      PROVE  Owed(prog, pos - 1, t)
  BY <1>2, <1>3, OutsideIsOwed DEF Loop
<1>4. ASSUME NEW i \in DOMAIN Of(terms)
      PROVE  Of(terms)[i].consequents = terms
  BY DEF Of, Implication
<1>5. OwedInv'
  BY <1>1, <1>3, <1>4 DEF OwedInv
<1>6. PinInv'
  BY <1>1 DEF PinInv
<1>7. QED
  BY <1>1, <1>5, <1>6

LEMMA PlainEntails ==
  ASSUME WPInv, PlainInv, CheckEntails
  PROVE  PlainInv'
<1>1. /\ pc = "induct" /\ cand = {} /\ prog' = prog /\ cand' = cand /\ inductive' = inductive /\ core' = core
  BY DEF CheckEntails, programVars
<1>2. /\ gaveUp => gaveUp'
      /\ \/ LeaveLoop(Strengthenings)
         \/ pc' = "core" /\ todo' = Pairs(post) /\ post' = post /\ pos' = pos
  BY DEF CheckEntails, NoteAnswer
<1> SUFFICES ASSUME PlainProgram(prog), ~gaveUp'
             PROVE  OwedInv' /\ PinInv' /\ pc' # "done"
  BY <1>1 DEF PlainInv
<1>3. OwedInv /\ PinInv
  BY <1>2 DEF PlainInv
<1>4. CASE LeaveLoop(Strengthenings)
  <2>1. \A t \in Strengthenings : t \in OutsideOf(Loop)
    BY QueriesAre
  <2>2. QED
    BY <1>1, <1>4, <2>1, PlainLeave
<1>5. CASE pc' = "core" /\ todo' = Pairs(post) /\ post' = post /\ pos' = pos
  <2>1. Loop' = Loop
    BY <1>1, <1>5 DEF Loop
  <2>2. core = {} /\ \A q : PinnedAs(Loop, q) => q \in cand \cup inductive
    BY <1>1, <1>3 DEF PinInv
  <2>3. ASSUME NEW q \in Pairs(post)
        PROVE  Owed(prog, pos, q.consequent)
    <3>1. PICK i \in DOMAIN post : q \in {[antecedents |-> post[i].antecedents, consequent |-> t] : t \in post[i].consequents}
      BY DEF Pairs
    <3>2. q.consequent \in post[i].consequents
      BY <3>1
    <3>3. QED
      BY <1>1, <1>3, <3>2 DEF OwedInv
  <2>4. OwedInv'
    BY <1>5 DEF OwedInv
  <2>5. PinInv'
    BY <1>1, <1>5, <2>1, <2>2, <2>3 DEF PinInv
  <2>6. QED
    BY <1>5, <2>4, <2>5
<1>6. QED
  BY <1>2, <1>4, <1>5

LEMMA PlainConsequent ==
  ASSUME WPInv, PlainInv, CheckConsequent
  PROVE  PlainInv'
<1>1. /\ pc = "core" /\ todo # {} /\ pc' = pc /\ cand' = cand /\ inductive' = inductive /\ post' = post /\ pos' = pos
      /\ prog' = prog
  BY DEF CheckConsequent, programVars
<1> DEFINE q == CHOOSE q \in todo : TRUE
<1>2. PICK answer \in CheckUnsat(Given \cup q.antecedents, Of({q.consequent}), Loop.ranges) :
        /\ core' = (IF answer = "unsat" THEN core ELSE core \cup {q.consequent})
        /\ gaveUp' = (gaveUp \/ answer = "unknown")
        /\ todo' = todo \ {q}
  BY DEF CheckConsequent, NoteAnswer
<1>3. q \in todo
  BY <1>1
<1> HIDE DEF q
<1> SUFFICES ASSUME PlainProgram(prog), ~gaveUp'
             PROVE  OwedInv' /\ PinInv'
  BY <1>1 DEF PlainInv
<1>4. ~gaveUp /\ answer # "unknown"
  BY <1>2
<1>5. PinInv
  BY <1>4 DEF PlainInv
<1>6. Loop' = Loop
  BY <1>1 DEF Loop
<1>7. /\ \A r : PinnedAs(Loop, r) => r \in inductive
      /\ cand = {} /\ (\A r \in todo : Owed(prog, pos, r.consequent)) /\ \A t \in core : Owed(prog, pos - 1, t)
  BY <1>1, <1>5 DEF PinInv
<1>8. answer = "unsat" \/ Owed(prog, pos - 1, q.consequent)
  <2> DEFINE hyps == Given \cup q.antecedents
             t == q.consequent
  <2>1. pos \in 1 .. Len(prog) /\ IsLoop(prog[pos])
    BY <1>1 DEF WPInv, LoopInv, Loop
  <2>2. t \in Conclusions(WholeRegions)
    <3>1. post \in Conjunctions(0, WholeRegions) /\ todo \subseteq Pairs(post)
      BY <1>1 DEF WPInv, RunInv, CoreInv
    <3>2. QED
      BY <1>3, <3>1, PairParts
  <2>3. GivenOf(prog[pos], inductive) \subseteq hyps
    BY QueriesAre DEF Loop
  <2>4. Owed(prog, pos, t)
    BY <1>3, <1>7
  <2>5. answer \in CheckUnsat(hyps, Of({t}), Loop.ranges)
    BY <1>2
  <2>6. pos \in Nat \ {0} /\ \A r : PinnedAs(prog[pos], r) => r \in inductive
    <3>1. Len(prog) \in Nat
      BY ProgramsAreWellFormed DEF WPInv, TypeOK
    <3>2. QED
      BY <1>7, <2>1, <3>1 DEF Loop
  <2> HIDE DEF hyps, t
  <2>7. CASE ValidFor(known, hyps, Of({t}), Loop.ranges)
    BY <1>4, <2>5, <2>7, ValidIsUnsat
  <2>8. CASE ~ValidFor(known, hyps, Of({t}), Loop.ranges)
    <3>1. ~ValidFor(known, hyps, Of({t}), prog[pos].ranges)
      BY <2>8 DEF Loop
    <3>2. Owed(prog, pos - 1, t)
      BY <2>1, <2>2, <2>3, <2>4, <2>6, <3>1, OwedIsImplied
    <3>3. QED
      BY <3>2 DEF t
  <2>9. QED
    BY <2>7, <2>8
<1>9. OwedInv'
  BY <1>1 DEF OwedInv
<1>10. PinInv'
  <2>1. \A t \in core' : Owed(prog, pos - 1, t)
    BY <1>2, <1>7, <1>8
  <2>2. \A r \in todo' : Owed(prog, pos, r.consequent)
    BY <1>2, <1>7
  <2>3. QED
    BY <1>1, <1>6, <1>7, <2>1, <2>2 DEF PinInv
<1>11. QED
  BY <1>9, <1>10

LEMMA PlainAssert ==
  ASSUME WPInv, PlainInv, AssertCore
  PROVE  PlainInv'
<1>1. pc = "core" /\ LeaveLoop(Strengthenings \cup core) /\ prog' = prog /\ gaveUp' = gaveUp
  BY DEF AssertCore, programVars
<1> SUFFICES ASSUME PlainProgram(prog), ~gaveUp
             PROVE  OwedInv' /\ PinInv' /\ pc' # "done"
  BY <1>1 DEF PlainInv
<1>2. \A t \in core : Owed(prog, pos - 1, t)
  BY <1>1 DEF PlainInv, PinInv
<1>3. \A t \in Strengthenings : t \in OutsideOf(Loop)
  BY QueriesAre
<1>4. \A t \in Strengthenings \cup core : t \in OutsideOf(Loop) \/ Owed(prog, pos - 1, t)
  BY <1>2, <1>3
<1> DEFINE terms == Strengthenings \cup core
<1> HIDE DEF terms
<1>5. LeaveLoop(terms) /\ \A t \in terms : t \in OutsideOf(Loop) \/ Owed(prog, pos - 1, t)
  BY <1>1, <1>4 DEF terms
<1>6. QED
  BY <1>1, <1>5, PlainLeave

LEMMA PlainEmit ==
  ASSUME WPInv, PlainInv, Emit
  PROVE  PlainInv'
<1>1. pc = "walk" /\ pos = 0 /\ pc' = "done" /\ prog' = prog /\ pos' = pos /\ post' = post
  BY DEF Emit, programVars
<1>2. PICK answer \in CheckUnsat({}, post, <<>>) : verdict' = answer /\ gaveUp' = (gaveUp \/ answer = "unknown")
  BY DEF Emit, NoteAnswer
<1> SUFFICES ASSUME PlainProgram(prog), ~gaveUp'
             PROVE  OwedInv' /\ PinInv' /\ verdict' = "unsat"
  BY <1>1 DEF PlainInv
<1>3. ~gaveUp /\ answer # "unknown"
  BY <1>2
<1>4. \A i \in DOMAIN post : \A t \in post[i].consequents : Owed(prog, 0, t)
  BY <1>1, <1>3 DEF PlainInv, OwedInv
<1>5. \A m : ~PinnedBy(prog, 0, m)
  BY DEF PinnedBy
<1>6. \A i \in DOMAIN post : \A t \in post[i].consequents : \A x : Holds(t, x)
  BY <1>4, <1>5 DEF Owed
<1>7. ValidFor(known, {}, post, <<>>)
  BY <1>6 DEF ValidFor, ConjunctionHolds
<1>8. verdict' = "unsat"
  BY <1>2, <1>3, <1>7, ValidIsUnsat
<1>9. OwedInv' /\ PinInv'
  BY <1>1 DEF OwedInv, PinInv
<1>10. QED
  BY <1>8, <1>9

LEMMA PlainStep ==
  ASSUME WPInv, PlainInv, [Next]_vars
  PROVE  PlainInv'
<1>1. CASE GenerateVerificationConditions
  BY <1>1, PlainGenerate
<1>2. CASE WalkStatement
  BY <1>2, PlainWalk
<1>3. CASE EnterLoop
  BY <1>3, PlainEnter
<1>4. CASE CheckInductive
  BY <1>4, PlainInduct
<1>5. CASE CheckEntails
  BY <1>5, PlainEntails
<1>6. CASE CheckConsequent
  BY <1>6, PlainConsequent
<1>7. CASE AssertCore
  BY <1>7, PlainAssert
<1>8. CASE Emit
  BY <1>8, PlainEmit
<1>9. CASE UNCHANGED vars
  <2>1. /\ prog' = prog /\ pos' = pos /\ post' = post /\ pc' = pc /\ cand' = cand /\ inductive' = inductive
        /\ todo' = todo /\ core' = core /\ gaveUp' = gaveUp /\ verdict' = verdict
    BY <1>9 DEF vars, programVars, loopVars
  <2>2. Loop' = Loop
    BY <2>1 DEF Loop
  <2>3. (OwedInv => OwedInv') /\ (PinInv => PinInv')
    BY <2>1, <2>2 DEF OwedInv, PinInv
  <2>4. QED
    BY <2>1, <2>3 DEF PlainInv
<1>10. QED
  BY <1>1, <1>2, <1>3, <1>4, <1>5, <1>6, <1>7, <1>8, <1>9 DEF Next

\* `lleq wp` proves what it is made for: if every member is written and constrained to the same
\* value at the counter of a loop over the whole array, and what the loops take for granted outside
\* their range is nothing or about a member of a loop before, then solvers that answer every query
\* lead to unsat, whatever else the program does, with any arrays and any field.
THEOREM PlainLoopsAreProvedHolds == Spec => []PlainLoopsAreProved
<1>1. Init => WPInv /\ PlainInv
  BY InitIsSafe, PlainStart
<1>2. WPInv /\ PlainInv /\ [Next]_vars => WPInv' /\ PlainInv'
  BY StepIsSafe, PlainStep
<1>3. PlainInv => PlainLoopsAreProved
  BY DEF PlainInv, PlainLoopsAreProved, PlainProgram, PinnedUpTo, PinnedBy
<1>4. QED
  BY <1>1, <1>2, <1>3, PTL DEF Spec

\* What computeInvariant hands to the statements before the loop is enough: with the invariant it
\* implies what was asked of the loop, whichever way it was computed and whatever queries were left
\* unanswered, unless a consequent was dropped.  ReturnedEntails, which has no such condition, fails.
THEOREM LeftLoopsEntailHolds == Spec => LeftLoopsEntail
<1>1. ASSUME WPInv, Next, pc \in {"induct", "core"}, pc' = "walk", ~dropped,
             NEW x \in Interpretations(Loop.ranges), \A t \in InductiveInvariant : Holds(t, x),
             ConjunctionHolds(post', x)
      PROVE  ConjunctionHolds(post, x)
  <2>1. CheckEntails \/ AssertCore
    BY <1>1 DEF Next, GenerateVerificationConditions, WalkStatement, EnterLoop, CheckInductive, CheckConsequent, Emit
  <2>2. /\ x \in PointsOf(known, Loop.ranges)
        /\ Given = InductiveInvariant \cup Strengthenings /\ Given = GivenOf(Loop, inductive)
    BY QueriesAre DEF Interpretations, PointsOf, Given
  <2>3. IsLoop(Loop) /\ core \subseteq Conclusions(WholeRegions) /\ post \in Conjunctions(0, WholeRegions)
    BY <1>1 DEF WPInv, LoopInv, RunInv
  <2>4. Strengthenings \in SUBSET Conclusions(WholeRegions)
    BY <2>3, QueriesAre, OutsideAreConclusions
  <2>5. ASSUME NEW terms \in SUBSET Conclusions(WholeRegions), LeaveLoop(terms), NEW t \in terms
        PROVE  Holds(t, x)
    <3>1. post' = Of(terms)
      BY <2>5 DEF LeaveLoop
    <3>2. \A u \in terms : Holds(u, x)
      BY <1>1, <3>1, OfIsTyped
    <3>3. QED
      BY <3>2
  <2>6. CASE CheckEntails
    <3>1. PICK answer \in CheckUnsat(Given, post, Loop.ranges) :
            \/ answer = "unsat" /\ LeaveLoop(Strengthenings)
            \/ pc' = "core"
      BY <2>6 DEF CheckEntails
    <3>2. answer = "unsat" /\ LeaveLoop(Strengthenings)
      BY <1>1, <3>1
    <3>3. ValidFor(known, Given, post, Loop.ranges)
      BY <3>1, <3>2, UnsatIsValid
    <3>4. \A t \in Given : Holds(t, x)
      BY <1>1, <2>2, <2>4, <2>5, <3>2
    <3>5. QED
      BY <2>2, <3>3, <3>4 DEF ValidFor
  <2>7. CASE AssertCore
    <3> DEFINE given == GivenOf(Loop, inductive)
               rs == Loop.ranges
    <3>1. pc = "core" /\ todo = {} /\ LeaveLoop(Strengthenings \cup core)
      BY <2>7 DEF AssertCore
    <3>2. ValidFor(known, given, NotAnnotated(post), rs)
      BY <1>1, <3>1 DEF WPInv, CoreInv
    <3>3. \A q \in Pairs(post) : \/ q.consequent \in core
                                 \/ ValidFor(known, given \cup q.antecedents, Of({q.consequent}), rs)
      BY <1>1, <3>1 DEF WPInv, CoreInv
    <3>4. \A t \in Strengthenings \cup core : Holds(t, x)
      <4>1. Strengthenings \cup core \in SUBSET Conclusions(WholeRegions)
        BY <2>3, <2>4
      <4>2. QED
        BY <2>5, <3>1, <4>1
    <3>5. \A t \in given \cup core : Holds(t, x)
      BY <1>1, <2>2, <3>4
    <3>6. x \in PointsOf(known, rs)
      BY <2>2
    <3> HIDE DEF given, rs
    <3>7. QED
      BY <2>3, <3>2, <3>3, <3>5, <3>6, CoreImplies
  <2>8. QED
    BY <2>1, <2>6, <2>7
<1>2. WPInv /\ [Next]_vars =>
        [pc' = "walk" /\ pc \in {"induct", "core"} /\ ~dropped =>
           \A x \in Interpretations(Loop.ranges) :
             (\A t \in InductiveInvariant : Holds(t, x)) /\ ConjunctionHolds(post', x)
               => ConjunctionHolds(post, x)]_vars
  BY <1>1
<1>3. QED
  BY <1>2, InvariantHolds, PTL DEF Spec, LeftLoopsEntail
==============================================================================
