----------------------------- MODULE ProcmProofs ----------------------------
(***************************************************************************)
(* Safety of the process manager for any number of slots, and the step     *)
(* simulation of the abstract scheduler.                                   *)
(***************************************************************************)
EXTENDS Procm, FiniteSetTheorems, TLAPS

LEMMA SlotsFinite == IsFiniteSet(Slots)
  BY ProcmAssumption, FS_Interval DEF Slots

LEMMA SlotsNat ==
    ASSUME NEW s \in Slots
    PROVE  s \in Nat /\ s + 1 \in Nat
  BY ProcmAssumption DEF Slots

LEMMA SlotZero == 0 \in Slots
  BY ProcmAssumption DEF Slots

\* What g_proc_count counts is a finite set of slots.
LEMMA OccupiedFinite ==
    IsFiniteSet(Occupied) /\ Cardinality(Occupied) \in Nat
  <1>1. Occupied \in SUBSET Slots
    BY DEF Occupied
  <1>2. IsFiniteSet(Occupied)
    BY <1>1, SlotsFinite, FS_Subset
  <1>3. QED
    BY <1>2, FS_CardinalityType

LEMMA InitTypeOK == Init => TypeOK
  BY SlotZero DEF Init, TypeOK, States, Modes

LEMMA NextTypeOK == TypeOK /\ [Next]_vars => TypeOK'
  <1> SUFFICES ASSUME TypeOK, [Next]_vars PROVE TypeOK'
    OBVIOUS
  <1>0. count + 1 \in Int /\ count - 1 \in Int /\ size + AllocStep \in Nat \ {0}
    BY ProcmAssumption DEF TypeOK
  <1> USE DEF TypeOK, States, Modes
  <1>1. ASSUME NEW k \in Slots, Spawn(k) PROVE TypeOK'
    <2>1. k \in Nat /\ k + 1 \in Nat
      BY SlotsNat
    <2>2. QED
      BY <1>0, <1>1, <2>1 DEF Spawn
  <1>2. ASSUME NEW k \in Slots, SpawnNoPool(k) PROVE TypeOK'
    <2>1. k \in Nat /\ k + 1 \in Nat
      BY SlotsNat
    <2>2. QED
      BY <1>2, <2>1 DEF SpawnNoPool
  <1>3. ASSUME NEW k \in Slots, SpawnAssertFails(k) PROVE TypeOK'
    <2>1. k \in Nat /\ k + 1 \in Nat
      BY SlotsNat
    <2>2. QED
      BY <1>3, <2>1 DEF SpawnAssertFails
  <1>4. CASE Yield
    BY <1>4 DEF Yield
  <1>5. CASE Exit
    BY <1>5 DEF Exit
  <1>6. ASSUME NEW j \in Slots, YieldFinds(j) PROVE TypeOK'
    BY <1>6 DEF YieldFinds
  <1>7. ASSUME NEW j \in Slots, YieldReaps(j) PROVE TypeOK'
    <2>1. j \in Nat
      BY SlotsNat
    <2>2. QED
      BY <1>0, <1>7, <2>1 DEF YieldReaps
  <1>8. ASSUME NEW j \in Slots, YieldMeetsSelf(j) PROVE TypeOK'
    BY <1>8 DEF YieldMeetsSelf
  <1>9. CASE Switch
    <2>1. CASE SwitchEnters
      BY <2>1 DEF SwitchEnters
    <2>2. CASE SwitchResumes
      BY <2>2 DEF SwitchResumes
    <2>3. QED
      BY <1>9, <2>1, <2>2 DEF Switch
  <1>10. CASE UNCHANGED vars
    BY <1>10 DEF vars
  <1>11. QED
    BY <1>1, <1>2, <1>3, <1>4, <1>5, <1>6, <1>7, <1>8, <1>9, <1>10
    DEF Next, Switch, Halted

\* Every variable keeps its type.
THEOREM TypeCorrect == SafetySpec => []TypeOK
  BY InitTypeOK, NextTypeOK, PTL DEF SafetySpec

-----------------------------------------------------------------------------
\* Conjuncts of ProcmInv that do not count.
ShapeInv ==
    /\ StackInUseIsAllocated
    /\ CurrentIsRunning
    /\ RunningIsOnCpu
    /\ mode \in {"yield", "switch", "pid 1 returned"} => acting = cpu
    /\ mode = "switch" => idx \in Alive
    /\ mode = "pid 1 returned" => zombie[cpu] /\ count = 1
    /\ \A s \in Slots : zombie[s] => s \in Occupied
    /\ \A s \in Occupied : s < size

LEMMA ProcmInvParts == ProcmInv <=> ShapeInv /\ CountIsExact
  BY DEF ProcmInv, ShapeInv

\* procm_available_pid finds a slot nobody has.
LEMMA AvailableIsFree ==
    ASSUME TypeOK, ShapeInv, NEW k \in Slots, IsAvailable(k)
    PROVE  k \notin Occupied
  <1>1. CASE k >= size
    <2>1. k \in Nat /\ size \in Nat
      BY SlotsNat DEF TypeOK
    <2>2. ~ (k < size)
      BY <1>1, <2>1
    <2>3. QED
      BY <2>2 DEF ShapeInv
  <1>2. CASE st[k] = "free"
    BY <1>2 DEF Occupied
  <1>3. QED
    BY <1>1, <1>2 DEF IsAvailable

\* How each kind of step changes the set of occupied slots.
LEMMA SpawnOccupies ==
    ASSUME TypeOK, NEW k \in Slots, st' = [st EXCEPT ![k] = "never ran"]
    PROVE  Occupied' = Occupied \cup {k}
  BY DEF TypeOK, Occupied, States

LEMMA YieldOccupies ==
    ASSUME TypeOK, idx \in Occupied, st' = [st EXCEPT ![idx] = "yielded"]
    PROVE  Occupied' = Occupied
  BY DEF TypeOK, Occupied, States

LEMMA ReapVacates ==
    ASSUME TypeOK, NEW j \in Slots, st' = [st EXCEPT ![j] = "free"]
    PROVE  Occupied' = Occupied \ {j}
  BY DEF TypeOK, Occupied, States

LEMMA SwitchOccupies ==
    ASSUME TypeOK, Switch
    PROVE  Occupied' = Occupied
  <1>1. CASE SwitchEnters
    BY <1>1 DEF SwitchEnters, Occupied, TypeOK, States
  <1>2. CASE SwitchResumes
    BY <1>2 DEF SwitchResumes, Occupied
  <1>3. QED
    BY <1>1, <1>2 DEF Switch

LEMMA InitProcmInv == Init => ProcmInv
  <1> SUFFICES ASSUME Init PROVE ProcmInv
    OBVIOUS
  <1>1. Occupied = {0}
    BY SlotZero DEF Init, Occupied
  <1>2. CountIsExact
    BY <1>1, FS_Singleton DEF Init, CountIsExact
  <1>3. ShapeInv
    BY <1>1, SlotZero DEF Init, ShapeInv, StackInUseIsAllocated, CurrentIsRunning,
       RunningIsOnCpu, Alive
  <1>4. QED
    BY <1>2, <1>3, ProcmInvParts

\* g_proc_count stays exact.
LEMMA NextCount ==
    ASSUME TypeOK, ProcmInv, [Next]_vars
    PROVE  CountIsExact'
  <1>0. count = Cardinality(Occupied) /\ IsFiniteSet(Occupied) /\ ShapeInv
    BY ProcmInvParts, OccupiedFinite DEF CountIsExact
  <1>1. ASSUME NEW k \in Slots, Spawn(k) PROVE CountIsExact'
    <2>1. k \notin Occupied
      BY <1>0, <1>1, AvailableIsFree DEF Spawn
    <2>2. Occupied' = Occupied \cup {k} /\ count' = count + 1
      BY <1>1, SpawnOccupies DEF Spawn
    <2>3. Cardinality(Occupied \cup {k}) = Cardinality(Occupied) + 1
      BY <1>0, <2>1, FS_AddElement
    <2>4. QED
      BY <1>0, <2>2, <2>3 DEF CountIsExact
  <1>2. ASSUME NEW k \in Slots, SpawnNoPool(k) \/ SpawnAssertFails(k)
        PROVE  CountIsExact'
    BY <1>0, <1>2 DEF SpawnNoPool, SpawnAssertFails, CountIsExact, Occupied
  <1>3. CASE Yield \/ Exit
    <2>1. idx \in Occupied
      BY <1>0, <1>3 DEF ShapeInv, CurrentIsRunning, Alive, Yield, Exit
    <2>2. Occupied' = Occupied /\ count' = count
      BY <1>3, <2>1, YieldOccupies DEF Yield, Exit
    <2>3. QED
      BY <1>0, <2>2 DEF CountIsExact
  <1>4. ASSUME NEW j \in Slots, YieldFinds(j) \/ YieldMeetsSelf(j)
        PROVE  CountIsExact'
    BY <1>0, <1>4 DEF YieldFinds, YieldMeetsSelf, CountIsExact, Occupied
  <1>5. ASSUME NEW j \in Slots, YieldReaps(j) PROVE CountIsExact'
    <2>1. j \in Occupied
      BY <1>0, <1>5 DEF YieldReaps, ShapeInv
    <2>2. Occupied' = Occupied \ {j} /\ count' = count - 1
      BY <1>5, ReapVacates DEF YieldReaps
    <2>3. Cardinality(Occupied \ {j}) = Cardinality(Occupied) - 1
      BY <1>0, <2>1, FS_RemoveElement
    <2>4. QED
      BY <1>0, <2>2, <2>3 DEF CountIsExact
  <1>6. CASE Switch
    <2>1. Occupied' = Occupied /\ count' = count
      BY <1>6, SwitchOccupies DEF Switch, SwitchEnters, SwitchResumes
    <2>2. QED
      BY <1>0, <2>1 DEF CountIsExact
  <1>7. CASE UNCHANGED vars
    BY <1>0, <1>7 DEF vars, CountIsExact, Occupied
  <1>8. QED
    BY <1>1, <1>2, <1>3, <1>4, <1>5, <1>6, <1>7 DEF Next, Switch, Halted

\* How the state hangs together is preserved.
LEMMA NextShape ==
    ASSUME TypeOK, TypeOK', ProcmInv, [Next]_vars
    PROVE  ShapeInv'
  <1>0. ShapeInv
    BY ProcmInvParts
  <1> USE DEF StackInUseIsAllocated, CurrentIsRunning, RunningIsOnCpu, Alive
  <1>1. ASSUME NEW k \in Slots, Spawn(k) PROVE ShapeInv'
    <2>1. k \notin Occupied
      BY <1>0, <1>1, AvailableIsFree DEF Spawn
    <2>2. Occupied' = Occupied \cup {k}
      BY <1>1, SpawnOccupies DEF Spawn
    <2>3. \A s \in Occupied' : s < size'
      <3>1. k \in Nat /\ size \in Nat /\ AllocStep \in Nat \ {0}
        BY SlotsNat, ProcmAssumption DEF TypeOK
      <3>2. k < size' /\ size <= size'
        <4>1. k <= size /\ size' = IF k = size THEN size + AllocStep ELSE size
          BY <1>1 DEF Spawn
        <4>2. QED
          BY <3>1, <4>1
      <3>3. \A s \in Occupied : s \in Nat /\ s < size
        BY <1>0, SlotsNat DEF ShapeInv, Occupied
      <3>4. size' \in Nat
        BY DEF TypeOK
      <3>5. QED
        BY <2>2, <3>1, <3>2, <3>3, <3>4
    <2>4. st'[k] = "never ran" /\ zombie'[k] = FALSE
      BY <1>1 DEF Spawn, TypeOK
    <2>5. \A s \in Slots \ {k} : st'[s] = st[s] /\ zombie'[s] = zombie[s]
      BY <1>1 DEF Spawn, TypeOK
    <2>6. k # cpu /\ cpu \in Slots
      BY <1>0, <2>1 DEF ShapeInv, TypeOK
    <2>7. mode' = mode /\ mode = "user" /\ cpu' = cpu /\ idx' = idx
      BY <1>1 DEF Spawn
    <2>8. QED
      BY <1>0, <2>2, <2>3, <2>4, <2>5, <2>6, <2>7 DEF ShapeInv
  <1>2. ASSUME NEW k \in Slots, SpawnNoPool(k) \/ SpawnAssertFails(k)
        PROVE  ShapeInv'
    BY <1>0, <1>2 DEF SpawnNoPool, SpawnAssertFails, ShapeInv, Occupied
  <1>3. CASE Yield \/ Exit
    <2>1. idx \in Occupied /\ idx = cpu /\ mode = "user"
      BY <1>0, <1>3 DEF ShapeInv, Yield, Exit
    <2>2. Occupied' = Occupied /\ size' = size
      BY <1>3, <2>1, YieldOccupies DEF Yield, Exit
    <2>3. mode' = "yield" /\ cpu' = cpu /\ idx' = idx /\ acting' = idx
      BY <1>3 DEF Yield, Exit
    <2>4. \A s \in Slots : st'[s] # "running"
      BY <1>0, <1>3, <2>1 DEF Yield, Exit, TypeOK, ShapeInv
    <2>5. \A s \in Slots \ {idx} : zombie'[s] = zombie[s]
      BY <1>3 DEF Yield, Exit, TypeOK
    <2>6. QED
      BY <1>0, <2>1, <2>2, <2>3, <2>4, <2>5 DEF ShapeInv
  <1>4. ASSUME NEW j \in Slots, YieldFinds(j) PROVE ShapeInv'
    BY <1>0, <1>4 DEF YieldFinds, IsNext, ShapeInv, Occupied
  <1>5. ASSUME NEW j \in Slots, YieldReaps(j) PROVE ShapeInv'
    <2>1. Occupied' = Occupied \ {j} /\ size' = size
      BY <1>5, ReapVacates DEF YieldReaps
    <2>2. mode' = "yield" /\ mode = "yield" /\ cpu' = cpu /\ acting' = acting
          /\ j # acting
      BY <1>5 DEF YieldReaps
    <2>3. \A s \in Slots : st'[s] # "running"
      BY <1>0, <1>5 DEF YieldReaps, TypeOK, ShapeInv
    <2>4. \A s \in Slots : zombie'[s] => s # j /\ zombie[s]
      BY <1>5 DEF YieldReaps, TypeOK
    <2>5. QED
      BY <1>0, <2>1, <2>2, <2>3, <2>4 DEF ShapeInv
  <1>6. ASSUME NEW j \in Slots, YieldMeetsSelf(j) PROVE ShapeInv'
    BY <1>0, <1>6 DEF YieldMeetsSelf, ShapeInv, Occupied
  <1>7. CASE Switch
    <2>1. Occupied' = Occupied
      BY <1>7, SwitchOccupies
    <2>2. idx \in Occupied /\ ~zombie[idx] /\ idx \in Slots
      BY <1>0, <1>7 DEF ShapeInv, Switch, SwitchEnters, SwitchResumes, TypeOK
    <2>3. \A s \in Slots : st[s] # "running"
      BY <1>0, <1>7 DEF ShapeInv, Switch, SwitchEnters, SwitchResumes
    <2>4. idx' = idx /\ zombie' = zombie /\ size' = size
      BY <1>7 DEF Switch, SwitchEnters, SwitchResumes
    <2>5. CASE SwitchEnters
      <3>1. mode' = "user" /\ cpu' = idx
        BY <2>5 DEF SwitchEnters
      <3>2. \A s \in Slots : st'[s] = "running" => s = idx
        BY <2>2, <2>3, <2>5 DEF SwitchEnters, TypeOK
      <3>3. QED
        BY <1>0, <2>1, <2>2, <2>4, <3>1, <3>2 DEF ShapeInv
    <2>6. CASE SwitchResumes
      <3>1. \A s \in Slots : st'[s] # "running"
        BY <2>3, <2>6 DEF SwitchResumes
      <3>2. (mode' = "user" /\ cpu' = idx) \/ (mode' = "context lost" /\ cpu' = cpu)
        BY <2>2, <2>3, <2>6 DEF SwitchResumes
      <3>3. QED
        BY <1>0, <2>1, <2>2, <2>4, <3>1, <3>2 DEF ShapeInv
    <2>7. QED
      BY <1>7, <2>5, <2>6 DEF Switch
  <1>8. CASE UNCHANGED vars
    BY <1>0, <1>8 DEF vars, ShapeInv, Occupied
  <1>9. QED
    BY <1>1, <1>2, <1>3, <1>4, <1>5, <1>6, <1>7, <1>8 DEF Next, Switch, Halted

\* The inductive invariant holds.
THEOREM ProcmInvariant == SafetySpec => [](TypeOK /\ ProcmInv)
  <1>1. TypeOK /\ ProcmInv /\ TypeOK' /\ [Next]_vars => ProcmInv'
    <2> SUFFICES ASSUME TypeOK, ProcmInv, TypeOK', [Next]_vars PROVE ProcmInv'
      OBVIOUS
    <2>1. ShapeInv' /\ CountIsExact'
      BY NextShape, NextCount
    <2>2. QED
      BY <2>1 DEF ProcmInv, ShapeInv
  <1>2. QED
    BY <1>1, InitTypeOK, NextTypeOK, InitProcmInv, PTL DEF SafetySpec

\* The kernel never frees the kernel stack it runs on, through every exit, yield
\* and reaping (the hazard procm.c:305 describes).
THEOREM StackStaysAllocated == SafetySpec => []StackInUseIsAllocated
  <1>1. TypeOK /\ ProcmInv => StackInUseIsAllocated
    BY DEF ProcmInv
  <1>2. QED
    BY <1>1, ProcmInvariant, PTL

\* ASSERT(nextproc->state != PROC_RUNNING) of proc_switch never fails, and no
\* two processes are marked running.
THEOREM RunningMarkIsRight == SafetySpec => []RunningIsOnCpu
  <1>1. TypeOK /\ ProcmInv => RunningIsOnCpu
    BY DEF ProcmInv
  <1>2. QED
    BY <1>1, ProcmInvariant, PTL

\* procm_try_kill_proc panics only when nothing is left to run.
THEOREM PanicsOnlyWhenEmpty == SafetySpec => []GivesUpOnlyWhenEmpty
  <1>1. TypeOK /\ ProcmInv => GivesUpOnlyWhenEmpty
    <2> SUFFICES ASSUME TypeOK, ProcmInv, mode = "pid 1 returned"
                 PROVE  Alive = {} /\ Occupied = {cpu}
      BY DEF GivesUpOnlyWhenEmpty
    <2>1. cpu \in Occupied /\ zombie[cpu] /\ Cardinality(Occupied) = 1
      BY DEF ProcmInv, StackInUseIsAllocated, CountIsExact
    <2>2. \E x : Occupied = {x}
      BY <2>1, OccupiedFinite, FS_Singleton
    <2>3. Occupied = {cpu}
      BY <2>1, <2>2
    <2>4. QED
      BY <2>1, <2>3 DEF Alive
  <1>2. QED
    BY <1>1, ProcmInvariant, PTL

-----------------------------------------------------------------------------
LEMMA NobodyIsNoSlot == Nobody \notin Slots
  BY ProcmAssumption DEF Slots

LEMMA InitSched == Init => AbstractSched!Init
  <1> SUFFICES ASSUME Init PROVE AbstractSched!Init
    OBVIOUS
  <1>1. Alive = {0}
    BY SlotZero DEF Init, Alive, Occupied
  <1>2. mode = "user" /\ cpu = 0
    BY DEF Init
  <1>3. QED
    BY <1>1, <1>2, SlotZero DEF AbstractSched!Init

\* Every step of the process manager is a step of the abstract scheduler, or
\* invisible to it.
LEMMA NextSched ==
    ASSUME TypeOK, ProcmInv, [Next]_vars
    PROVE  [AbstractSched!Next]_(AbstractSched!vars)
  <1>0. ShapeInv
    BY ProcmInvParts
  <1>1. ASSUME NEW k \in Slots, Spawn(k) PROVE AbstractSched!Next
    <2>1. k \notin Occupied
      BY <1>0, <1>1, AvailableIsFree DEF Spawn
    <2>2. Occupied' = Occupied \cup {k}
      BY <1>1, SpawnOccupies DEF Spawn
    <2>3. \A s \in Slots : zombie'[s] = IF s = k THEN FALSE ELSE zombie[s]
      BY <1>1 DEF Spawn, TypeOK
    <2>4. Alive' = Alive \cup {k} /\ k \notin Alive
      BY <2>1, <2>2, <2>3 DEF Alive, Occupied
    <2>5. mode = "user" /\ mode' = "user" /\ cpu' = cpu /\ cpu # Nobody
      BY <1>1, NobodyIsNoSlot DEF Spawn, TypeOK
    <2>6. AbstractSched!Spawn(k)
      BY <2>4, <2>5 DEF AbstractSched!Spawn
    <2>7. QED
      BY <2>6 DEF AbstractSched!Next
  <1>2. ASSUME NEW k \in Slots, SpawnNoPool(k) PROVE UNCHANGED AbstractSched!vars
    BY <1>2 DEF SpawnNoPool, AbstractSched!vars, Alive, Occupied
  <1>3. ASSUME NEW k \in Slots, SpawnAssertFails(k) PROVE AbstractSched!Next
    <2>1. mode = "user" /\ mode' # "user" /\ cpu # Nobody
      BY <1>3, NobodyIsNoSlot DEF SpawnAssertFails, TypeOK
    <2>2. Alive' = Alive
      BY <1>3 DEF SpawnAssertFails, Alive, Occupied
    <2>3. AbstractSched!Yield
      BY <2>1, <2>2 DEF AbstractSched!Yield
    <2>4. QED
      BY <2>3 DEF AbstractSched!Next
  <1>4. CASE Yield \/ Exit
    <2>1. idx \in Occupied /\ idx = cpu /\ cpu \in Slots /\ mode = "user"
          /\ mode' # "user" /\ cpu # Nobody
      BY <1>0, <1>4, NobodyIsNoSlot
      DEF ShapeInv, CurrentIsRunning, Alive, Yield, Exit, TypeOK
    <2>2. Occupied' = Occupied
      BY <1>4, <2>1, YieldOccupies DEF Yield, Exit
    <2>3. CASE Yield
      <3>1. Alive' = Alive
        BY <2>2, <2>3 DEF Yield, Alive
      <3>2. AbstractSched!Yield
        BY <2>1, <3>1 DEF AbstractSched!Yield
      <3>3. QED
        BY <3>2 DEF AbstractSched!Next
    <2>4. CASE Exit
      <3>1. \A s \in Slots : zombie'[s] = IF s = cpu THEN TRUE ELSE zombie[s]
        BY <2>1, <2>4 DEF Exit, TypeOK
      <3>2. Alive' = Alive \ {cpu}
        BY <2>2, <3>1 DEF Alive, Occupied
      <3>3. AbstractSched!Exit
        BY <2>1, <3>2 DEF AbstractSched!Exit
      <3>4. QED
        BY <3>3 DEF AbstractSched!Next
    <2>5. QED
      BY <1>4, <2>3, <2>4
  <1>5. ASSUME NEW j \in Slots, YieldFinds(j) \/ YieldMeetsSelf(j)
        PROVE  UNCHANGED AbstractSched!vars
    <2>1. mode # "user" /\ mode' # "user"
      BY <1>5 DEF YieldFinds, YieldMeetsSelf
    <2>2. Alive' = Alive
      BY <1>5 DEF YieldFinds, YieldMeetsSelf, Alive, Occupied
    <2>3. QED
      BY <2>1, <2>2 DEF AbstractSched!vars
  <1>6. ASSUME NEW j \in Slots, YieldReaps(j) PROVE UNCHANGED AbstractSched!vars
    <2>1. mode # "user" /\ mode' # "user"
      BY <1>6 DEF YieldReaps
    <2>2. Occupied' = Occupied \ {j}
      BY <1>6, ReapVacates DEF YieldReaps
    <2>3. zombie[j] /\ \A s \in Slots \ {j} : zombie'[s] = zombie[s]
      BY <1>6 DEF YieldReaps, TypeOK
    <2>4. Alive' = Alive
      BY <2>2, <2>3 DEF Alive, Occupied
    <2>5. QED
      BY <2>1, <2>4 DEF AbstractSched!vars
  <1>7. CASE Switch
    <2>1. Alive' = Alive
      BY <1>7, SwitchOccupies DEF Switch, SwitchEnters, SwitchResumes, Alive
    <2>2. mode # "user" /\ idx \in Alive /\ idx \in Slots
      BY <1>0, <1>7 DEF ShapeInv, Switch, SwitchEnters, SwitchResumes, TypeOK
    <2>3. mode' = "user" => cpu' = idx
      BY <1>7 DEF Switch, SwitchEnters, SwitchResumes
    <2>4. CASE mode' # "user"
      BY <2>1, <2>2, <2>4 DEF AbstractSched!vars
    <2>5. CASE mode' = "user"
      <3>1. AbstractSched!Dispatch(idx)
        BY <2>1, <2>2, <2>3, <2>5 DEF AbstractSched!Dispatch
      <3>2. QED
        BY <2>2, <3>1 DEF AbstractSched!Next
    <2>6. QED
      BY <2>4, <2>5
  <1>8. CASE UNCHANGED vars
    BY <1>8 DEF vars, AbstractSched!vars, Alive, Occupied
  <1>9. QED
    BY <1>1, <1>2, <1>3, <1>4, <1>5, <1>6, <1>7, <1>8 DEF Next, Switch, Halted

\* The process manager and the ring scheduler implement the abstract scheduler:
\* one process that has not exited runs at a time, whatever is reaped meanwhile;
\* it was entered for the first time or resumed with the context it gave up.
THEOREM SchedRefinement == SafetySpec => ImplementsSched
  BY InitSched, NextSched, ProcmInvariant, PTL
  DEF SafetySpec, ImplementsSched, AbstractSched!Spec
=============================================================================
