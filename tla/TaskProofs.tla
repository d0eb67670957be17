----------------------------- MODULE TaskProofs -----------------------------
(***************************************************************************)
(* Proofs about Task for every set of callers and timers and every bound   *)
(* on the number of starts.                                                *)
(***************************************************************************)
EXTENDS Task, FiniteSetTheorems, TLAPS

\* The mutex is held by exactly the goroutine that is between the second lock
\* of checkedExecute and its return.
HolderInv == \A g \in Goroutines : pc[g] \in Holding <=> access = g

USE TaskAssumption DEF Goroutines

\* Initially and after every step the variables have their types.
THEOREM TypeCorrect == Spec => []TypeOK
<1>1. Init => TypeOK
  <2> SUFFICES ASSUME Init PROVE TypeOK
    OBVIOUS
  <2>1. first \in [Goroutines -> BOOLEAN]
    BY Zenon DEF Init
  <2>2. starts \in 0..MaxStarts
    BY DEF Init
  <2>3. /\ pc \in [Goroutines -> {"idle", "unused"}]
        /\ \A c \in Callers : pc[c] = "idle"
        /\ \A i \in Timers : pc[i] = "unused"
    BY DEF Init, Rest, CallerRest, TimerRest
  <2>4. running \in BOOLEAN /\ timer \in Timers \cup {NoTimer} /\ access \in Goroutines \cup {NoOne}
    BY DEF Init
  <2> QED
    BY <2>1, <2>2, <2>3, <2>4 DEF TypeOK
<1>2. TypeOK /\ [Next]_vars => TypeOK'
  <2> SUFFICES ASSUME TypeOK, [Next]_vars PROVE TypeOK'
    OBVIOUS
  <2> USE DEF TypeOK, Goto, Rest, CallerRest, TimerRest, InChecked
  <2>1. ASSUME NEW c \in Callers, Call(c) PROVE TypeOK'
    <3>1. ASSUME NEW f \in BOOLEAN, CallStart(c, f) PROVE TypeOK'
      BY <3>1 DEF CallStart
    <3>2. CASE Start(c)
      BY <3>2 DEF Start
    <3>3. CASE StartFailed(c)
      BY <3>3 DEF StartFailed
    <3>4. CASE CallClose(c)
      BY <3>4 DEF CallClose
    <3>5. CASE Close(c)
      BY <3>5 DEF Close
    <3> QED
      BY <2>1, <3>1, <3>2, <3>3, <3>4, <3>5 DEF Call
  <2>2. ASSUME NEW g \in Goroutines, CheckedExecute(g) PROVE TypeOK'
    <3>1. CASE HasClosed(g)
      BY <3>1 DEF HasClosed
    <3>2. CASE Lock(g)
      BY <3>2 DEF Lock
    <3>3. CASE ExecuteOk(g)
      BY <3>3 DEF ExecuteOk
    <3>4. CASE ExecuteFails(g)
      BY <3>4 DEF ExecuteFails
    <3>5. CASE ExecuteCloses(g)
      BY <3>5 DEF ExecuteCloses
    <3>6. CASE Arm(g)
      <4>1. CASE running
        <5>1. PICK i \in Timers : timer' = i /\ pc' = [pc EXCEPT ![g] = Rest(g), ![i] = "armed"]
                                  /\ first' = [first EXCEPT ![i] = TRUE]
          BY <3>6, <4>1 DEF Arm
        <5> QED
          BY <3>6, <5>1 DEF Arm
      <4>2. CASE ~running
        BY <3>6, <4>2 DEF Arm
      <4> QED
        BY <4>1, <4>2
    <3> QED
      BY <2>2, <3>1, <3>2, <3>3, <3>4, <3>5, <3>6 DEF CheckedExecute
  <2>3. ASSUME NEW i \in Timers, Fire(i) PROVE TypeOK'
    BY <2>3 DEF Fire
  <2>4. CASE UNCHANGED vars
    BY <2>4 DEF vars
  <2> QED
    BY <2>1, <2>2, <2>3, <2>4 DEF Next
<1> QED
  BY <1>1, <1>2, PTL DEF Spec

-----------------------------------------------------------------------------
\* The mutex invariant is inductive: only Lock takes the mutex, only its
\* holder gives it back, and no other action enters or leaves a locked label.
LEMMA HolderStep == TypeOK /\ HolderInv /\ [Next]_vars => HolderInv'
<1> SUFFICES ASSUME TypeOK, HolderInv, [Next]_vars PROVE HolderInv'
  OBVIOUS
<1> USE DEF TypeOK, HolderInv, Goto, Rest, CallerRest, TimerRest, Holding, InChecked
<1>1. ASSUME NEW c \in Callers, Call(c) PROVE HolderInv'
  <2>1. ASSUME NEW f \in BOOLEAN, CallStart(c, f) PROVE HolderInv'
    BY <2>1 DEF CallStart
  <2>2. CASE Start(c)
    BY <2>2 DEF Start
  <2>3. CASE StartFailed(c)
    BY <2>3 DEF StartFailed
  <2>4. CASE CallClose(c)
    BY <2>4 DEF CallClose
  <2>5. CASE Close(c)
    BY <2>5 DEF Close
  <2> QED
    BY <1>1, <2>1, <2>2, <2>3, <2>4, <2>5 DEF Call
<1>2. ASSUME NEW g \in Goroutines, CheckedExecute(g) PROVE HolderInv'
  <2>1. CASE HasClosed(g)
    BY <2>1 DEF HasClosed
  <2>2. CASE Lock(g)
    BY <2>2 DEF Lock
  <2>3. CASE ExecuteOk(g)
    BY <2>3 DEF ExecuteOk
  <2>4. CASE ExecuteFails(g)
    BY <2>4 DEF ExecuteFails
  <2>5. CASE ExecuteCloses(g)
    BY <2>5 DEF ExecuteCloses
  <2>6. CASE Arm(g)
    BY <2>6 DEF Arm
  <2> QED
    BY <1>2, <2>1, <2>2, <2>3, <2>4, <2>5, <2>6 DEF CheckedExecute
<1>3. ASSUME NEW i \in Timers, Fire(i) PROVE HolderInv'
  BY <1>3 DEF Fire
<1>4. CASE UNCHANGED vars
  BY <1>4 DEF vars
<1> QED
  BY <1>1, <1>2, <1>3, <1>4 DEF Next

\* Two runs of Execute never overlap, for every number of callers, timers and
\* restarts: both would hold the mutex of checkedExecute.
THEOREM ExecuteIsExclusive == Spec => []MutualExclusion
<1>1. Init => HolderInv
  BY DEF Init, HolderInv, Rest, CallerRest, TimerRest, Holding
<1>2. TypeOK /\ HolderInv => MutualExclusion
  BY DEF TypeOK, HolderInv, MutualExclusion, Executing, Holding
<1> QED
  BY <1>1, <1>2, HolderStep, TypeCorrect, PTL DEF Spec

-----------------------------------------------------------------------------
\* A step of a chain that leaves the task running leaves a chain: each step
\* of checkedExecute stays in it, arms a timer, or finds or leaves the task
\* closed; Close and a failed Start leave it closed.
LEMMA ChainStep == TypeOK /\ RunningHasChain /\ [Next]_vars => RunningHasChain'
<1> SUFFICES ASSUME TypeOK, RunningHasChain, [Next]_vars PROVE RunningHasChain'
  OBVIOUS
<1> USE DEF TypeOK, RunningHasChain, Chains, Armed, Goto, Rest, CallerRest, TimerRest, InChecked
<1>1. ASSUME NEW c \in Callers, Call(c) PROVE RunningHasChain'
  <2>1. ASSUME NEW f \in BOOLEAN, CallStart(c, f) PROVE RunningHasChain'
    BY <2>1 DEF CallStart
  <2>2. CASE Start(c)
    BY <2>2 DEF Start
  <2>3. CASE StartFailed(c)
    BY <2>3 DEF StartFailed
  <2>4. CASE CallClose(c)
    BY <2>4 DEF CallClose
  <2>5. CASE Close(c)
    BY <2>5 DEF Close
  <2> QED
    BY <1>1, <2>1, <2>2, <2>3, <2>4, <2>5 DEF Call
<1>2. ASSUME NEW g \in Goroutines, CheckedExecute(g) PROVE RunningHasChain'
  <2>1. CASE HasClosed(g)
    BY <2>1 DEF HasClosed
  <2>2. CASE Lock(g)
    BY <2>2 DEF Lock
  <2>3. CASE ExecuteOk(g)
    BY <2>3 DEF ExecuteOk
  <2>4. CASE ExecuteFails(g)
    BY <2>4 DEF ExecuteFails
  <2>5. CASE ExecuteCloses(g)
    BY <2>5 DEF ExecuteCloses
  <2>6. CASE Arm(g)
    BY <2>6 DEF Arm
  <2> QED
    BY <1>2, <2>1, <2>2, <2>3, <2>4, <2>5, <2>6 DEF CheckedExecute
<1>3. ASSUME NEW i \in Timers, Fire(i) PROVE RunningHasChain'
  BY <1>3 DEF Fire
<1>4. CASE UNCHANGED vars
  BY <1>4 DEF vars
<1> QED
  BY <1>1, <1>2, <1>3, <1>4 DEF Next

\* A running task always has a timer armed or a goroutine on its way, however
\* Start, Close, firing timers and failing runs interleave.
THEOREM RunningIsNeverStranded == Spec => []RunningHasChain
<1>1. Init => RunningHasChain
  BY DEF Init, RunningHasChain
<1> QED
  BY <1>1, ChainStep, TypeCorrect, PTL DEF Spec

-----------------------------------------------------------------------------
\* What will lead to a run of Execute: the chains, and a caller that has
\* entered Start and not yet set running.
Tokens == Chains \cup {c \in Callers : pc[c] = "start"}

\* No more tokens than calls of Start.
TokensInv == IsFiniteSet(Tokens) /\ Cardinality(Tokens) <= starts

\* What a step does to the tokens: a call of Start adds one, a goroutine that
\* arms a timer hands its token on to it, every other step keeps or ends some.
LEMMA TokensMove ==
    ASSUME TypeOK, [Next]_vars
    PROVE  \/ starts' = starts /\ Tokens' \subseteq Tokens
           \/ starts' = starts + 1 /\ \E c \in Callers : Tokens' = Tokens \cup {c}
           \/ starts' = starts /\ \E g \in Tokens : \E i \in Timers :
                                    Tokens' = (Tokens \ {g}) \cup {i}
<1> USE DEF TypeOK, Tokens, Chains, Armed, Goto, Rest, CallerRest, TimerRest, InChecked
<1> DEFINE Ends == starts' = starts /\ Tokens' \subseteq Tokens
<1>1. ASSUME NEW c \in Callers, NEW f \in BOOLEAN, CallStart(c, f)
      PROVE  starts' = starts + 1 /\ Tokens' = Tokens \cup {c}
  BY <1>1 DEF CallStart
<1>2. ASSUME NEW c \in Callers, Call(c), ~ \E f \in BOOLEAN : CallStart(c, f)
      PROVE  Ends
  BY <1>2 DEF Call, Start, StartFailed, CallClose, Close
<1>3. ASSUME NEW g \in Goroutines, CheckedExecute(g), ~ Arm(g)
      PROVE  Ends
  BY <1>3 DEF CheckedExecute, HasClosed, Lock, ExecuteOk, ExecuteFails, ExecuteCloses
<1>4. ASSUME NEW g \in Goroutines, Arm(g), ~ running
      PROVE  Ends
  BY <1>4 DEF Arm
<1>5. ASSUME NEW g \in Goroutines, Arm(g), running
      PROVE  /\ starts' = starts
             /\ g \in Tokens
             /\ \E i \in Timers : Tokens' = (Tokens \ {g}) \cup {i}
  <2>1. starts' = starts /\ g \in Tokens
    BY <1>5 DEF Arm
  <2>2. PICK i \in Timers :
          pc[i] = "unused" /\ pc' = [pc EXCEPT ![g] = Rest(g), ![i] = "armed"]
    BY <1>5 DEF Arm
  <2>3. pc'[g] = Rest(g) /\ pc'[i] = "armed" /\ g # i
    BY <1>5, <2>2 DEF Arm
  <2>4. \A h \in Goroutines \ {g, i} : pc'[h] = pc[h]
    BY <2>2
  <2> QED
    BY <2>1, <2>3, <2>4
<1>6. ASSUME NEW i \in Timers, Fire(i)
      PROVE  Ends
  BY <1>6 DEF Fire
<1>7. CASE UNCHANGED vars
  BY <1>7 DEF vars
<1> HIDE DEF TypeOK, Tokens
<1>8. CASE \E c \in Callers : Call(c)
  BY <1>1, <1>2, <1>8
<1>9. CASE \E g \in Goroutines : CheckedExecute(g)
  BY <1>3, <1>4, <1>5, <1>9
<1> QED
  BY <1>6, <1>7, <1>8, <1>9 DEF Next

\* Every chain stems from a Start of its own, whoever closes and restarts the
\* task and when: no step splits a chain in two.
THEOREM ChainsComeFromStarts == Spec => []OneChainPerStart
<1>1. Init => TokensInv
  <2> SUFFICES ASSUME Init PROVE TokensInv
    OBVIOUS
  <2>1. Tokens = {} /\ starts = 0
    BY DEF Init, Tokens, Chains, Armed, Rest, CallerRest, TimerRest, InChecked
  <2> QED
    BY <2>1, FS_EmptySet DEF TokensInv
<1>2. TypeOK /\ TokensInv /\ [Next]_vars => TokensInv'
  <2> SUFFICES ASSUME TypeOK, TokensInv, [Next]_vars PROVE TokensInv'
    OBVIOUS
  <2>1. starts \in Nat /\ Cardinality(Tokens) \in Nat
    BY FS_CardinalityType DEF TypeOK, TokensInv
  <2>2. CASE starts' = starts /\ Tokens' \subseteq Tokens
    BY <2>1, <2>2, FS_Subset, FS_CardinalityType DEF TokensInv
  <2>3. ASSUME NEW c \in Callers, starts' = starts + 1, Tokens' = Tokens \cup {c}
        PROVE  TokensInv'
    <3>1. /\ IsFiniteSet(Tokens \cup {c})
          /\ \/ Cardinality(Tokens \cup {c}) = Cardinality(Tokens)
             \/ Cardinality(Tokens \cup {c}) = Cardinality(Tokens) + 1
      BY FS_AddElement DEF TokensInv
    <3> QED
      BY <2>1, <2>3, <3>1 DEF TokensInv
  <2>4. ASSUME NEW g \in Tokens, NEW i \in Timers, starts' = starts,
               Tokens' = (Tokens \ {g}) \cup {i}
        PROVE  TokensInv'
    <3>1. IsFiniteSet(Tokens \ {g}) /\ Cardinality(Tokens \ {g}) = Cardinality(Tokens) - 1
      BY FS_RemoveElement DEF TokensInv
    <3>2. /\ IsFiniteSet((Tokens \ {g}) \cup {i})
          /\ \/ Cardinality((Tokens \ {g}) \cup {i}) = Cardinality(Tokens) - 1
             \/ Cardinality((Tokens \ {g}) \cup {i}) = Cardinality(Tokens)
      BY <2>1, <3>1, FS_AddElement
    <3> QED
      BY <2>1, <2>4, <3>2 DEF TokensInv
  <2> QED
    BY <2>2, <2>3, <2>4, TokensMove
<1>3. TypeOK /\ TokensInv => OneChainPerStart
  <2> SUFFICES ASSUME TypeOK, TokensInv PROVE OneChainPerStart
    OBVIOUS
  <2>1. Chains \in SUBSET Tokens
    BY DEF Tokens
  <2>2. starts \in Nat /\ Cardinality(Tokens) \in Nat /\ Cardinality(Chains) \in Nat
    BY <2>1, FS_CardinalityType, FS_Subset DEF TypeOK, TokensInv
  <2> QED
    BY <2>1, <2>2, FS_Subset DEF TokensInv, OneChainPerStart
<1> QED
  BY <1>1, <1>2, <1>3, TypeCorrect, PTL DEF Spec

-----------------------------------------------------------------------------
\* As long as Start was called at most once there is at most one token, from
\* the call on, and the timer it has armed is the one t.timer points to.
OneStartInv ==
    /\ starts = 0 => Tokens = {}
    /\ starts <= 1 => \A g, h \in Tokens : g = h
    /\ StoppableTimers

\* Every step moves the one token or ends it: the goroutine that arms a timer
\* leaves the chain to it, and Close finds the armed timer in t.timer.
LEMMA OneStartStep == TypeOK /\ OneStartInv /\ [Next]_vars => OneStartInv'
<1> SUFFICES ASSUME TypeOK, OneStartInv, [Next]_vars PROVE OneStartInv'
  OBVIOUS
<1> USE DEF TypeOK, OneStartInv, StoppableTimers, Tokens, Chains, Armed, Goto, Rest,
            CallerRest, TimerRest, InChecked
<1>1. ASSUME NEW c \in Callers, Call(c) PROVE OneStartInv'
  <2>1. ASSUME NEW f \in BOOLEAN, CallStart(c, f) PROVE OneStartInv'
    <3>1. starts' = starts + 1 /\ starts \in Nat
      BY <2>1 DEF CallStart
    <3>2. CASE starts = 0
      <4>1. Tokens' = {c} /\ Armed' = {}
        BY <2>1, <3>2 DEF CallStart
      <4> QED
        BY <3>1, <3>2, <4>1
    <3>3. CASE starts # 0
      BY <3>1, <3>3
    <3> QED
      BY <3>2, <3>3
  <2>2. CASE Start(c)
    BY <2>2 DEF Start
  <2>3. CASE StartFailed(c)
    BY <2>3 DEF StartFailed
  <2>4. CASE CallClose(c)
    BY <2>4 DEF CallClose
  <2>5. CASE Close(c)
    BY <2>5 DEF Close
  <2> QED
    BY <1>1, <2>1, <2>2, <2>3, <2>4, <2>5 DEF Call
<1>2. ASSUME NEW g \in Goroutines, CheckedExecute(g) PROVE OneStartInv'
  <2>1. CASE HasClosed(g)
    BY <2>1 DEF HasClosed
  <2>2. CASE Lock(g)
    BY <2>2 DEF Lock
  <2>3. CASE ExecuteOk(g)
    BY <2>3 DEF ExecuteOk
  <2>4. CASE ExecuteFails(g)
    BY <2>4 DEF ExecuteFails
  <2>5. CASE ExecuteCloses(g)
    BY <2>5 DEF ExecuteCloses
  <2>6. CASE Arm(g)
    <3>1. g \in Tokens /\ starts # 0
      BY <2>6 DEF Arm
    <3>2. CASE ~running
      BY <2>6, <3>1, <3>2 DEF Arm
    <3>4. CASE starts > 1
      BY <2>6, <3>4 DEF Arm
    <3>3. CASE running /\ starts <= 1
      <4>1. PICK i \in Timers :
              /\ pc[i] = "unused"
              /\ timer' = i
              /\ pc' = [pc EXCEPT ![g] = Rest(g), ![i] = "armed"]
        BY <2>6, <3>3 DEF Arm
      <4>2. \A h \in Goroutines \ {g, i} : pc'[h] = pc[h] /\ h \notin Tokens
        BY <3>1, <3>3, <4>1
      <4>3. pc'[g] = Rest(g) /\ pc'[i] = "armed" /\ g # i
        BY <2>6, <4>1 DEF Arm
      <4>4. Tokens' = {i} /\ Armed' = {i}
        BY <4>2, <4>3
      <4>5. starts' = starts
        BY <2>6 DEF Arm
      <4> QED
        BY <3>1, <4>1, <4>4, <4>5
    <3> QED
      BY <3>2, <3>3, <3>4
  <2> QED
    BY <1>2, <2>1, <2>2, <2>3, <2>4, <2>5, <2>6 DEF CheckedExecute
<1>3. ASSUME NEW i \in Timers, Fire(i) PROVE OneStartInv'
  BY <1>3 DEF Fire
<1>4. CASE UNCHANGED vars
  BY <1>4 DEF vars
<1> QED
  BY <1>1, <1>2, <1>3, <1>4 DEF Next

\* Close finds the timer of a task that is started once, as every job but the
\* restarted ones is: there is then no other chain whose timer it would miss.
THEOREM CloseFindsTheTimer == Spec => []StoppableTimers
<1>1. Init => OneStartInv
  BY DEF Init, OneStartInv, StoppableTimers, Tokens, Chains, Armed, Rest,
         CallerRest, TimerRest, InChecked
<1>2. OneStartInv => StoppableTimers
  BY DEF OneStartInv
<1> QED
  BY <1>1, <1>2, OneStartStep, TypeCorrect, PTL DEF Spec

-----------------------------------------------------------------------------
\* No step arms a timer of a closed task: only Arm arms one, and it reads
\* running again under the mutex after Execute.
THEOREM ClosedTaskArmsNothing == Spec => NoArmWhileClosed
<1>1. TypeOK /\ [Next]_vars => [~running => Armed' \subseteq Armed]_vars
  <2> SUFFICES ASSUME TypeOK, Next, ~running PROVE Armed' \subseteq Armed
    OBVIOUS
  <2> USE DEF TypeOK, Armed, Goto, Rest, CallerRest, TimerRest, InChecked
  <2>1. ASSUME NEW c \in Callers, Call(c) PROVE Armed' \subseteq Armed
    BY <2>1 DEF Call, CallStart, Start, StartFailed, CallClose, Close
  <2>2. ASSUME NEW g \in Goroutines, CheckedExecute(g) PROVE Armed' \subseteq Armed
    BY <2>2 DEF CheckedExecute, HasClosed, Lock, ExecuteOk, ExecuteFails, ExecuteCloses, Arm
  <2>3. ASSUME NEW i \in Timers, Fire(i) PROVE Armed' \subseteq Armed
    BY <2>3 DEF Fire
  <2> QED
    BY <2>1, <2>2, <2>3 DEF Next
<1> QED
  BY <1>1, TypeCorrect, PTL DEF Spec, NoArmWhileClosed
=============================================================================
