-------------------------- MODULE CppEngineProofs --------------------------
(***************************************************************************)
(* Proofs about CppEngine, for any number of threads, any commands and any *)
(* size of the buffer: no string runs out of the buffer, and a call that   *)
(* wrote alone copies its own text.                                        *)
(***************************************************************************)
EXTENDS CppEngine, TLAPS

\* What is stored leaves room for the final NUL.
LEMMA StoredFits ==
  ASSUME NEW c \in Commands
  PROVE  Stored(c) \in 0..(Size - 1)
BY CppEngineAssumption DEF CppEngineAssumption, Stored

\* The command of a call is a command.
LEMMA CalledType ==
  ASSUME TypeOK, NEW t \in Threads
  PROVE  Called(t) \in Commands /\ Called(t) # NUL
BY CppEngineAssumption DEF CppEngineAssumption, TypeOK, Called

\* The initial state.
LEMMA InitInv == Init => BufferInv /\ AloneInv
<1> SUFFICES ASSUME Init
             PROVE  BufferInv /\ AloneInv
  OBVIOUS
<1>1. Size \in Nat \ {0} /\ Root \in Commands
  BY CppEngineAssumption DEF CppEngineAssumption
<1>2. TypeOK
  BY <1>1 DEF Init, TypeOK, PCs
<1> QED BY <1>1, <1>2 DEF Init, BufferInv, AloneInv, Alone

\* Every step of a thread keeps what it needs of the buffer.
LEMMA NextBufferInv == BufferInv /\ [Next]_vars => BufferInv'
<1> SUFFICES ASSUME BufferInv, [Next]_vars
             PROVE  BufferInv'
  OBVIOUS
<1>0. Size \in Nat \ {0} /\ Root \in Commands /\ NUL \notin Commands
  BY CppEngineAssumption DEF CppEngineAssumption
<1>1. ASSUME NEW t \in Threads, NEW c \in Commands, Begin(t, c)
      PROVE  BufferInv'
  <2>1. pc' \in [Threads -> PCs] /\ cmd' \in [Threads -> Commands]
    BY <1>1 DEF Begin, BufferInv, TypeOK, PCs
  <2>2. nth' \in [Threads -> {1, 2}]
    BY <1>1 DEF Begin, BufferInv, TypeOK
  <2>3. audit' \in [Threads -> Seq(Commands \cup {NUL}) \cup Feature]
    BY <1>1 DEF Begin, BufferInv, TypeOK
  <2>4. TypeOK'
    BY <1>1, <2>1, <2>2, <2>3 DEF Begin, BufferInv, TypeOK
  <2>5. \A u \in Threads : pc'[u] = "fill" => u # t /\ pc[u] = "fill" /\ Called(u)' = Called(u)
    BY <1>1 DEF Begin, BufferInv, TypeOK, Called
  <2>6. \A u \in Threads : pc'[u] = "copy" => pc[u] = "copy"
    BY <1>1 DEF Begin, BufferInv, TypeOK
  <2> QED BY <1>1, <2>4, <2>5, <2>6 DEF Begin, BufferInv, Stored
<1>2. ASSUME NEW t \in Threads, Literal(t)
      PROVE  BufferInv'
  <2>1. pc' \in [Threads -> PCs]
    BY <1>2 DEF Literal, BufferInv, TypeOK, PCs
  <2>2. Route(Called(t)) \in Feature \cup {"formatted"}
    BY DEF Route, Feature
  <2>3. audit' \in [Threads -> Seq(Commands \cup {NUL}) \cup Feature]
    BY <1>2, <2>2 DEF Literal, BufferInv, TypeOK
  <2>4. TypeOK'
    BY <1>2, <2>1, <2>3 DEF Literal, BufferInv, TypeOK
  <2>5. \A u \in Threads : pc'[u] \in {"fill", "copy"} => pc[u] = pc'[u]
    BY <1>2 DEF Literal, BufferInv, TypeOK
  <2> QED BY <1>2, <2>4, <2>5 DEF Literal, BufferInv, Stored, Called
<1>3. ASSUME NEW t \in Threads, Format(t)
      PROVE  BufferInv'
  <2>1. pc' \in [Threads -> PCs] /\ pos' \in [Threads -> 1..Size]
    BY <1>0, <1>3 DEF Format, BufferInv, TypeOK, PCs
  <2>2. buf' \in [1..Size -> Commands \cup {NUL}] /\ buf'[Size] = NUL
    BY <1>0, <1>3 DEF Format, BufferInv, TypeOK
  <2>3. TypeOK'
    BY <1>3, <2>1, <2>2 DEF Format, BufferInv, TypeOK
  <2>4. \A u \in Threads : Called(u)' = Called(u)
    BY <1>3 DEF Format, Called
  <2>5. \A u \in Threads : pc'[u] = "fill" => pos'[u] <= Stored(Called(u)) + 1
    <3> SUFFICES ASSUME NEW u \in Threads, pc'[u] = "fill"
                 PROVE  pos'[u] <= Stored(Called(u)) + 1
      OBVIOUS
    <3>1. CASE u = t
      <4>1. Stored(Called(u)) \in Nat
        BY StoredFits, CalledType, <1>0 DEF BufferInv
      <4>2. pos'[u] = 1
        BY <1>3, <3>1 DEF Format, BufferInv, TypeOK
      <4> QED BY <4>1, <4>2
    <3>2. CASE u # t
      BY <1>3, <3>2 DEF Format, BufferInv, TypeOK
    <3> QED BY <3>1, <3>2
  <2>6. \A u \in Threads : pc'[u] = "copy" => pc[u] = "copy"
    BY <1>3 DEF Format, BufferInv, TypeOK
  <2> QED BY <1>3, <2>2, <2>3, <2>4, <2>5, <2>6 DEF Format, BufferInv, Stored
<1>4. ASSUME NEW t \in Threads, Fill(t)
      PROVE  BufferInv'
  <2>1. Stored(Called(t)) \in 0..(Size - 1) /\ Called(t) \in Commands
    BY StoredFits, CalledType DEF BufferInv
  <2>2. pos[t] \in 1..(Size - 1) /\ pos' = [pos EXCEPT ![t] = pos[t] + 1]
    BY <1>0, <1>4, <2>1 DEF Fill, BufferInv, TypeOK
  <2>3. pos' \in [Threads -> 1..Size]
    BY <1>0, <2>2 DEF BufferInv, TypeOK
  <2>4. buf' \in [1..Size -> Commands \cup {NUL}] /\ buf'[Size] = NUL
    BY <1>0, <1>4, <2>1, <2>2 DEF Fill, BufferInv, TypeOK
  <2>5. TypeOK'
    BY <1>4, <2>3, <2>4 DEF Fill, BufferInv, TypeOK
  <2>6. \A u \in Threads : Called(u)' = Called(u)
    BY <1>4 DEF Fill, Called
  <2>7. \A u \in Threads : pc'[u] = "fill" => pos'[u] <= Stored(Called(u)) + 1
    BY <1>0, <1>4, <2>1, <2>2 DEF Fill, BufferInv, TypeOK
  <2> QED BY <1>4, <2>4, <2>5, <2>6, <2>7 DEF Fill, BufferInv, Stored
<1>5. ASSUME NEW t \in Threads, Terminate(t)
      PROVE  BufferInv'
  <2>1. pos[t] \in 1..Size
    BY DEF BufferInv, TypeOK
  <2>2. pos' \in [Threads -> 1..Size] /\ pc' \in [Threads -> PCs]
    BY <1>0, <1>5 DEF Terminate, BufferInv, TypeOK, PCs
  <2>3. buf' \in [1..Size -> Commands \cup {NUL}] /\ buf'[Size] = NUL
    BY <1>0, <1>5, <2>1 DEF Terminate, BufferInv, TypeOK
  <2>4. TypeOK'
    BY <1>5, <2>2, <2>3 DEF Terminate, BufferInv, TypeOK
  <2>5. \A u \in Threads : Called(u)' = Called(u)
    BY <1>5 DEF Terminate, Called
  <2>6. \A u \in Threads : pc'[u] = "fill" => pc[u] = "fill" /\ pos'[u] = pos[u]
    BY <1>5 DEF Terminate, BufferInv, TypeOK
  <2>7. \A u \in Threads : pc'[u] = "copy" => pc[u] = "copy"
    BY <1>5 DEF Terminate, BufferInv, TypeOK
  <2> QED BY <1>5, <2>3, <2>4, <2>5, <2>6, <2>7 DEF Terminate, BufferInv, Stored
<1>6. ASSUME NEW t \in Threads, Scan(t)
      PROVE  BufferInv'
  <2>1. \A u \in Threads : Called(u)' = Called(u)
    BY <1>6 DEF Scan, Called
  <2>2. CASE buf[pos[t]] # NUL
    <3>1. pos[t] \in 1..(Size - 1)
      BY <1>0, <2>2 DEF BufferInv, TypeOK
    <3>5. pos' = [pos EXCEPT ![t] = pos[t] + 1]
      BY <1>6, <2>2 DEF Scan
    <3>6. pos[t] + 1 \in 1..Size
      BY <1>0, <3>1
    <3>2. pos' \in [Threads -> 1..Size]
      BY <3>5, <3>6 DEF BufferInv, TypeOK
    <3>3. TypeOK'
      BY <1>6, <2>2, <3>2 DEF Scan, BufferInv, TypeOK
    <3>4. \A u \in Threads : pc'[u] = "fill" => pc[u] = "fill" /\ pos'[u] = pos[u]
      BY <1>6, <2>2 DEF Scan, BufferInv, TypeOK
    <3> QED BY <1>6, <2>1, <2>2, <3>3, <3>4 DEF Scan, BufferInv, Stored
  <2>3. CASE buf[pos[t]] = NUL
    <3>1. pos[t] - 1 \in 0..(Size - 1)
      BY <1>0 DEF BufferInv, TypeOK
    <3>2. pc' \in [Threads -> PCs]
      <4>1. pc' = [pc EXCEPT ![t] = "copy"] /\ "copy" \in PCs
        BY <1>6, <2>3 DEF Scan, PCs
      <4>2. pc \in [Threads -> PCs]
        BY <1>0 DEF BufferInv, TypeOK
      <4> QED BY <4>1, <4>2
    <3>8. len' = [len EXCEPT ![t] = pos[t] - 1] /\ out' = [out EXCEPT ![t] = <<>>]
      BY <1>6, <2>3 DEF Scan
    <3>3. len' \in [Threads -> 0..(Size - 1)]
      BY <3>1, <3>8 DEF BufferInv, TypeOK
    <3>4. out' \in [Threads -> Seq(Commands \cup {NUL})]
      <4>1. <<>> \in Seq(Commands \cup {NUL})
        OBVIOUS
      <4> QED BY <3>8, <4>1 DEF BufferInv, TypeOK
    <3>5. TypeOK'
      BY <1>6, <2>3, <3>2, <3>3, <3>4 DEF Scan, BufferInv, TypeOK
    <3>6. \A u \in Threads : pc'[u] = "fill" => pc[u] = "fill"
      BY <1>6, <2>3 DEF Scan, BufferInv, TypeOK
    <3>7. ASSUME NEW u \in Threads, pc'[u] = "copy"
          PROVE  Len(out'[u]) <= len'[u]
      <4>1. CASE u = t
        <5>1. out'[u] = <<>> /\ len'[u] \in 0..(Size - 1)
          BY <3>3, <3>8, <4>1 DEF BufferInv, TypeOK
        <5> QED BY <5>1
      <4>2. CASE u # t
        <5>1. pc[u] = "copy" /\ out'[u] = out[u] /\ len'[u] = len[u]
          BY <1>6, <2>3, <3>7, <3>8, <4>2 DEF Scan, BufferInv, TypeOK
        <5> QED BY <5>1 DEF BufferInv
      <4> QED BY <4>1, <4>2
    <3> QED BY <1>6, <2>1, <2>3, <3>5, <3>6, <3>7 DEF Scan, BufferInv, Stored
  <2> QED BY <2>2, <2>3
<1>7. ASSUME NEW t \in Threads, Copy(t)
      PROVE  BufferInv'
  <2>1. out[t] \in Seq(Commands \cup {NUL}) /\ len[t] \in 0..(Size - 1) /\ Len(out[t]) < len[t]
    BY <1>7 DEF Copy, BufferInv, TypeOK
  <2>2. Len(out[t]) + 1 \in 1..Size
    BY <1>0, <2>1
  <2>3. buf[Len(out[t]) + 1] \in Commands \cup {NUL}
    BY <2>2 DEF BufferInv, TypeOK
  <2>4. out' = [out EXCEPT ![t] = Append(out[t], buf[Len(out[t]) + 1])]
    BY <1>7 DEF Copy
  <2>5. out' \in [Threads -> Seq(Commands \cup {NUL})]
    BY <2>1, <2>3, <2>4 DEF BufferInv, TypeOK
  <2>6. TypeOK'
    BY <1>7, <2>5 DEF Copy, BufferInv, TypeOK
  <2>7. \A u \in Threads : pc'[u] = "copy" => Len(out'[u]) <= len'[u]
    BY <1>7, <2>1, <2>3, <2>4 DEF Copy, BufferInv, TypeOK
  <2> QED BY <1>7, <2>6, <2>7 DEF Copy, BufferInv, Stored, Called
<1>8. ASSUME NEW t \in Threads, Return(t)
      PROVE  BufferInv'
  <2>1. pc' \in [Threads -> PCs] /\ nth' \in [Threads -> {1, 2}]
    BY <1>8 DEF Return, BufferInv, TypeOK, PCs
  <2>2. audit' \in [Threads -> Seq(Commands \cup {NUL}) \cup Feature]
    BY <1>8 DEF Return, BufferInv, TypeOK
  <2>3. TypeOK'
    BY <1>8, <2>1, <2>2 DEF Return, BufferInv, TypeOK
  <2>4. \A u \in Threads : pc'[u] \in {"fill", "copy"} => u # t /\ pc[u] = pc'[u]
    BY <1>8 DEF Return, BufferInv, TypeOK
  <2>5. \A u \in Threads : u # t => Called(u)' = Called(u)
    BY <1>8 DEF Return, BufferInv, TypeOK, Called
  <2> QED BY <1>8, <2>3, <2>4, <2>5 DEF Return, BufferInv, Stored
<1>9. CASE UNCHANGED vars
  BY <1>9 DEF vars, BufferInv, TypeOK, Stored, Called
<1> QED BY <1>1, <1>2, <1>3, <1>4, <1>5, <1>6, <1>7, <1>8, <1>9 DEF Next, Step

\* BufferInv is an invariant of the engine.
LEMMA SpecBufferInv == Spec => []BufferInv
<1>1. Init => BufferInv
  BY InitInv
<1> QED BY <1>1, NextBufferInv, PTL DEF Spec

\* The types of the engine's state (the buffer, the scans and the copies).
THEOREM EngineTypeCorrect == Spec => []TypeOK
<1>1. BufferInv => TypeOK
  BY DEF BufferInv
<1> QED BY <1>1, SpecBufferInv, PTL

\* No scan and no copy of the static buffer leaves it.
THEOREM InBoundsHolds == Spec => []InBounds
<1>1. BufferInv => InBounds
  BY CppEngineAssumption DEF CppEngineAssumption, BufferInv, InBounds, TypeOK
<1> QED BY <1>1, SpecBufferInv, PTL

-----------------------------------------------------------------------------
\* A step that leaves the buffer and a thread in a call as they are, and lets
\* nobody begin to write.
LEMMA Untouched ==
  ASSUME NEW s \in Threads, Alone(s),
         buf' = buf, pc'[s] = pc[s], Called(s)' = Called(s),
         pos'[s] = pos[s], len'[s] = len[s], out'[s] = out[s],
         \A u \in Threads : pc'[u] = "fill" => pc[u] = "fill"
  PROVE  Alone(s)'
BY DEF Alone, Stored

\* Every step keeps what a thread that writes alone knows of the buffer.
LEMMA NextAloneInv == BufferInv /\ AloneInv /\ [Next]_vars => AloneInv'
<1> SUFFICES ASSUME BufferInv, AloneInv, [Next]_vars,
                    NEW s \in alone', InCall(s)'
             PROVE  Alone(s)'
  BY DEF AloneInv
<1>0. Size \in Nat \ {0} /\ Root \in Commands /\ NUL \notin Commands
  BY CppEngineAssumption DEF CppEngineAssumption
<1>a. s \in Threads
  <2>1. BufferInv'
    BY NextBufferInv
  <2> QED BY <2>1 DEF BufferInv, TypeOK
<1>b. Stored(Called(s)) \in 0..(Size - 1) /\ Called(s) \in Commands /\ Called(s) # NUL
  BY <1>a, <1>0, StoredFits, CalledType DEF BufferInv
<1>c. s \in alone /\ InCall(s) => Alone(s)
  BY DEF AloneInv
<1>1. ASSUME NEW t \in Threads, NEW c \in Commands, Begin(t, c)
      PROVE  Alone(s)'
  <2>1. s # t /\ pc'[s] = pc[s] /\ s \in alone
    BY <1>1, <1>a DEF Begin, InCall, BufferInv, TypeOK
  <2>2. InCall(s) /\ Called(s)' = Called(s)
    BY <1>1, <2>1, <1>a DEF Begin, InCall, Called, BufferInv, TypeOK
  <2>3. \A u \in Threads : pc'[u] = "fill" => pc[u] = "fill"
    BY <1>1 DEF Begin, BufferInv, TypeOK
  <2> QED BY <1>1, <1>a, <1>c, <2>1, <2>2, <2>3, Untouched DEF Begin
<1>2. ASSUME NEW t \in Threads, Literal(t)
      PROVE  Alone(s)'
  <2>1. s # t /\ pc'[s] = pc[s] /\ s \in alone
    BY <1>2, <1>a DEF Literal, InCall, BufferInv, TypeOK
  <2>2. InCall(s) /\ Called(s)' = Called(s)
    BY <1>2, <2>1 DEF Literal, InCall, Called
  <2>3. \A u \in Threads : pc'[u] = "fill" => pc[u] = "fill"
    BY <1>2 DEF Literal, BufferInv, TypeOK
  <2> QED BY <1>2, <1>a, <1>c, <2>1, <2>2, <2>3, Untouched DEF Literal
<1>3. ASSUME NEW t \in Threads, Format(t)
      PROVE  Alone(s)'
  <2>1. s = t
    <3>1. s # t => pc'[s] = pc[s] /\ ~InCall(s)
      BY <1>3, <1>a DEF Format, BufferInv, TypeOK
    <3> QED BY <3>1 DEF InCall
  <2>2. pc'[s] = "fill" /\ pos'[s] = 1
    BY <1>3, <2>1 DEF Format, BufferInv, TypeOK
  <2>3. \A u \in Threads \ {s} : pc'[u] # "fill"
    BY <1>3, <2>1 DEF Format, BufferInv, TypeOK
  <2>4. Called(s)' = Called(s)
    BY <1>3 DEF Format, Called
  <2> QED BY <1>b, <2>2, <2>3, <2>4 DEF Alone, Stored
<1>4. ASSUME NEW t \in Threads, Fill(t)
      PROVE  Alone(s)'
  <2>1. s \in alone /\ pc' = pc /\ Called(s)' = Called(s)
    BY <1>4 DEF Fill, Called
  <2>2. Alone(s)
    BY <1>c, <2>1 DEF InCall
  <2>3. s = t
    BY <1>4, <2>2 DEF Fill, Alone
  <2>4. /\ pc[s] = "fill" /\ pos[s] \in 1..Size
        /\ pos'[s] = pos[s] + 1
        /\ buf' = [buf EXCEPT ![pos[s]] = Called(s)]
        /\ buf \in [1..Size -> Commands \cup {NUL}]
    BY <1>4, <1>a, <2>3 DEF Fill, BufferInv, TypeOK
  <2>5. \A i \in 1..Stored(Called(s)) : i < pos[s] + 1 => buf'[i] = Called(s)
    BY <1>0, <1>b, <2>2, <2>4 DEF Alone
  <2> QED BY <2>1, <2>2, <2>4, <2>5 DEF Alone, Stored
<1>5. ASSUME NEW t \in Threads, Terminate(t)
      PROVE  Alone(s)'
  <2>1. s \in alone /\ Called(s)' = Called(s) /\ pc' = [pc EXCEPT ![t] = "scan"]
    BY <1>5 DEF Terminate, Called
  <2>2. Alone(s)
    BY <1>5, <1>c, <1>a, <2>1 DEF InCall, Terminate, BufferInv, TypeOK
  <2>3. s = t
    BY <1>5, <2>2 DEF Terminate, Alone
  <2>4. /\ pc[s] = "fill" /\ pc'[s] = "scan" /\ pos'[s] = 1
        /\ pos[s] = Stored(Called(s)) + 1
        /\ buf' = [buf EXCEPT ![pos[s]] = NUL]
        /\ buf \in [1..Size -> Commands \cup {NUL}]
    BY <1>5, <1>a, <1>b, <1>0, <2>3 DEF Terminate, BufferInv, TypeOK
  <2>5. \A i \in 1..Stored(Called(s)) : buf'[i] = Called(s)
    BY <1>0, <1>b, <2>2, <2>4 DEF Alone
  <2>6. buf'[Stored(Called(s)) + 1] = NUL
    BY <1>0, <1>b, <2>4
  <2>7. \A u \in Threads \ {s} : pc'[u] # "fill"
    BY <2>1, <2>2, <2>3 DEF Alone, BufferInv, TypeOK
  <2> QED BY <1>b, <2>1, <2>4, <2>5, <2>6, <2>7 DEF Alone, Stored
<1>6. ASSUME NEW t \in Threads, Scan(t)
      PROVE  Alone(s)'
  <2>1. s \in alone /\ Called(s)' = Called(s) /\ buf' = buf
    BY <1>6 DEF Scan, Called
  <2>2. \A u \in Threads : pc'[u] = "fill" => pc[u] = "fill"
    BY <1>6 DEF Scan, BufferInv, TypeOK
  <2>3. CASE s # t
    <3>1. pc'[s] = pc[s] /\ pos'[s] = pos[s] /\ len'[s] = len[s] /\ out'[s] = out[s]
      BY <1>6, <1>a, <2>3 DEF Scan, BufferInv, TypeOK
    <3>2. Alone(s)
      BY <1>c, <2>1, <3>1 DEF InCall
    <3> QED BY <1>a, <2>1, <2>2, <3>1, <3>2, Untouched
  <2>4. CASE s = t
    <3>1. pc[s] = "scan" /\ pos[s] \in 1..Size
      BY <1>6, <2>4 DEF Scan, BufferInv, TypeOK
    <3>2. Alone(s)
      BY <1>c, <2>1, <3>1 DEF InCall
    <3>3. CASE buf[pos[s]] # NUL
      <4>1. pos'[s] = pos[s] + 1 /\ pc' = pc
        BY <1>6, <2>4, <3>3 DEF Scan, BufferInv, TypeOK
      <4>2. pos[s] + 1 <= Stored(Called(s)) + 1
        BY <1>b, <3>1, <3>2, <3>3 DEF Alone
      <4> QED BY <2>1, <3>1, <3>2, <4>1, <4>2 DEF Alone, Stored
    <3>4. CASE buf[pos[s]] = NUL
      <4>1. /\ pc' = [pc EXCEPT ![s] = "copy"]
            /\ len' = [len EXCEPT ![s] = pos[s] - 1]
            /\ out' = [out EXCEPT ![s] = <<>>]
        BY <1>6, <2>4, <3>4 DEF Scan
      <4>2. pc'[s] = "copy" /\ len'[s] = pos[s] - 1 /\ out'[s] = <<>>
        BY <1>a, <4>1 DEF BufferInv, TypeOK
      <4>3. pos[s] = Stored(Called(s)) + 1
        BY <1>b, <3>1, <3>2, <3>4 DEF Alone
      <4>4. len'[s] = Stored(Called(s))
        BY <1>b, <4>2, <4>3
      <4>5. Len(out'[s]) = 0
        BY <4>2
      <4> QED BY <1>b, <2>1, <2>2, <3>1, <3>2, <4>2, <4>4, <4>5 DEF Alone, Stored
    <3> QED BY <3>3, <3>4
  <2> QED BY <2>3, <2>4
<1>7. ASSUME NEW t \in Threads, Copy(t)
      PROVE  Alone(s)'
  <2>1. /\ s \in alone /\ Called(s)' = Called(s) /\ buf' = buf
        /\ pc' = pc /\ len' = len /\ pos' = pos
    BY <1>7 DEF Copy, Called
  <2>2. Alone(s)
    BY <1>c, <2>1 DEF InCall
  <2>3. CASE s # t
    <3>1. out'[s] = out[s]
      BY <1>7, <1>a, <2>3 DEF Copy, BufferInv, TypeOK
    <3> QED BY <1>a, <2>1, <2>2, <3>1, Untouched
  <2>4. CASE s = t
    <3>1. /\ pc[s] = "copy" /\ Len(out[s]) < len[s] /\ len[s] = Stored(Called(s))
          /\ out[s] \in Seq(Commands \cup {NUL})
      BY <1>7, <2>2, <2>4 DEF Copy, Alone, BufferInv, TypeOK
    <3>2. buf[Len(out[s]) + 1] = Called(s)
      BY <1>b, <2>2, <3>1 DEF Alone
    <3>3. out'[s] = Append(out[s], Called(s))
      BY <1>7, <1>a, <2>4, <3>2 DEF Copy, BufferInv, TypeOK
    <3>4. \A i \in 1..Len(out'[s]) : out'[s][i] = Called(s)
      BY <1>b, <2>2, <3>1, <3>3 DEF Alone
    <3> QED BY <2>1, <2>2, <3>1, <3>4 DEF Alone, Stored
  <2> QED BY <2>3, <2>4
<1>8. ASSUME NEW t \in Threads, Return(t)
      PROVE  Alone(s)'
  <2>1. s # t /\ pc'[s] = pc[s] /\ s \in alone
    BY <1>8, <1>a DEF Return, InCall, BufferInv, TypeOK
  <2>2. InCall(s) /\ Called(s)' = Called(s)
    BY <1>8, <2>1, <1>a DEF Return, InCall, Called, BufferInv, TypeOK
  <2>3. \A u \in Threads : pc'[u] = "fill" => pc[u] = "fill"
    BY <1>8 DEF Return, BufferInv, TypeOK
  <2> QED BY <1>8, <1>a, <1>c, <2>1, <2>2, <2>3, Untouched DEF Return
<1>9. CASE UNCHANGED vars
  <2>1. Called(s)' = Called(s) /\ InCall(s) /\ s \in alone
    BY <1>9 DEF vars, Called, InCall
  <2> QED BY <1>9, <1>a, <1>c, <2>1, Untouched DEF vars
<1> QED BY <1>1, <1>2, <1>3, <1>4, <1>5, <1>6, <1>7, <1>8, <1>9 DEF Next, Step

\* A call that shares the buffer with no other writer copies its own text.
THEOREM AloneExactHolds == Spec => []AloneExact
<1>1. Init => BufferInv /\ AloneInv
  BY InitInv
<1>2. BufferInv /\ AloneInv /\ [Next]_vars => BufferInv' /\ AloneInv'
  BY NextBufferInv, NextAloneInv
<1>3. BufferInv /\ AloneInv => AloneExact
  <2> SUFFICES ASSUME BufferInv, AloneInv, NEW t \in alone,
                      pc[t] = "copy", Len(out[t]) = len[t]
               PROVE  out[t] = Text(Called(t))
    BY DEF AloneExact
  <2>1. t \in Threads /\ out[t] \in Seq(Commands \cup {NUL})
    BY DEF BufferInv, TypeOK
  <2>2. Alone(t)
    BY DEF AloneInv, InCall
  <2>3. Len(out[t]) = Stored(Called(t)) /\ \A i \in 1..Len(out[t]) : out[t][i] = Called(t)
    BY <2>2 DEF Alone
  <2> QED BY <2>1, <2>3 DEF Text
<1> QED BY <1>1, <1>2, <1>3, PTL DEF Spec
=============================================================================
