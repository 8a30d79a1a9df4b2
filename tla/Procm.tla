------------------------------- MODULE Procm --------------------------------
(***************************************************************************)
(* The process manager (kernel/proc/procm.c, kernel/proc/proc.c) with the  *)
(* ring scheduler (drivers/schedulers/ringsched/ringsched.c).              *)
(*                                                                         *)
(* A process is named by its slot in g_procs, its pid less one.  Between   *)
(* system calls the process whose slot is cpu runs; in a system call the   *)
(* kernel runs on that process's kernel stack until task_switch leaves it. *)
(* Nothing preempts the kernel, so a spawn is one step; the loop of        *)
(* procm_sched_yield is one step an iteration.                             *)
(***************************************************************************)
EXTENDS Integers, FiniteSets

CONSTANTS
    AllocStep,  \* g_procs grows by this many slots (16)
    MaxSlots,   \* bound on the size of g_procs
    PoolOom,    \* whether enlarging g_procs may run out of memory
    Nobody

ASSUME ProcmAssumption ==
    /\ AllocStep \in Nat \ {0}
    /\ MaxSlots \in Nat \ {0}
    /\ PoolOom \in BOOLEAN
    /\ Nobody \notin 0 .. MaxSlots - 1

Slots == 0 .. MaxSlots - 1

VARIABLES
    size,       \* g_proc_size
    st,         \* Process.state by slot, "free" for a NULL slot
    zombie,     \* Process.zombie
    free,       \* g_last_free_proc_idx
    count,      \* g_proc_count
    idx,        \* g_current_proc_idx of the ring scheduler
    cpu,        \* the process whose kernel stack (or user code) is running
    acting,     \* current_proc of procm_sched_yield
    saved,      \* whether Process.task_ctx holds the context last given up
    mode        \* "user"; "yield", in the loop; "switch", after it; or the end

vars == <<size, st, zombie, free, count, idx, cpu, acting, saved, mode>>

Occupied == {s \in Slots : st[s] # "free"}
Alive    == {s \in Occupied : ~zombie[s]}

-----------------------------------------------------------------------------
\* procm_init, procm_spawn_init and procm_sched_start: pid 1 entered, alone.
Init ==
    /\ size = 1
    /\ st = [s \in Slots |-> IF s = 0 THEN "running" ELSE "free"]
    /\ zombie = [s \in Slots |-> FALSE]
    /\ free = 1
    /\ count = 1
    /\ idx = 0
    /\ cpu = 0
    /\ acting = 0
    /\ saved = [s \in Slots |-> FALSE]
    /\ mode = "user"

\* procm_available_pid: the first free slot from g_last_free_proc_idx on, or
\* the one where the search leaves the array.
IsAvailable(k) ==
    /\ k >= free
    /\ k >= size \/ st[k] = "free"
    /\ \A j \in Slots : free <= j /\ j < k => j < size /\ st[j] # "free"

\* procm_spawn_proc.  When it fails before a pid is taken proc_free undoes
\* everything and nothing has changed.
Spawn(k) ==
    /\ mode = "user"
    /\ IsAvailable(k)
    /\ k <= size
    /\ size' = IF k = size THEN size + AllocStep ELSE size
    /\ st' = [st EXCEPT ![k] = "never ran"]
    /\ zombie' = [zombie EXCEPT ![k] = FALSE]
    /\ saved' = [saved EXCEPT ![k] = FALSE]
    /\ free' = k + 1
    /\ count' = count + 1
    /\ UNCHANGED <<idx, cpu, acting, mode>>

\* procm_add_proc_to_pool cannot enlarge g_procs: -ENOMEM, with the search
\* position already past the end.
SpawnNoPool(k) ==
    /\ PoolOom
    /\ mode = "user"
    /\ IsAvailable(k)
    /\ k = size
    /\ free' = k + 1
    /\ UNCHANGED <<size, st, zombie, count, idx, cpu, acting, saved, mode>>

\* ASSERT(pid_idx <= g_proc_size) of procm_add_proc_to_pool fails.
SpawnAssertFails(k) ==
    /\ mode = "user"
    /\ IsAvailable(k)
    /\ k > size
    /\ mode' = "pid out of range"
    /\ free' = k + 1
    /\ UNCHANGED <<size, st, zombie, count, idx, cpu, acting, saved>>

\* procm_sched_yield up to its loop.
Yield ==
    /\ mode = "user"
    /\ acting' = idx
    /\ st' = [st EXCEPT ![idx] = "yielded"]
    /\ mode' = "yield"
    /\ UNCHANGED <<size, zombie, free, count, idx, cpu, saved>>

\* sys_exit: procm_mark_dead, then procm_sched_yield up to its loop.
Exit ==
    /\ mode = "user"
    /\ zombie' = [zombie EXCEPT ![idx] = TRUE]
    /\ acting' = idx
    /\ st' = [st EXCEPT ![idx] = "yielded"]
    /\ mode' = "yield"
    /\ UNCHANGED <<size, free, count, idx, cpu, saved>>

\* Wrong variant: the search always starts at slot 0.
IsNext_FromZero(j) ==
    /\ j \in Slots /\ j < size /\ st[j] # "free"
    /\ \A i \in Slots : i < size /\ st[i] # "free" => j <= i

\* ringsched_next_proc: the first occupied slot after g_current_proc_idx,
\* round the ring of g_proc_size slots.
Distance(j) == (j - idx - 1) % size
IsNext(j) ==
    /\ j \in Slots /\ j < size /\ st[j] # "free"
    /\ \A i \in Slots : i < size /\ st[i] # "free" => Distance(j) <= Distance(i)

\* Wrong variant: the zombie flag is not looked at.
YieldFinds_Zombie(j) ==
    /\ mode = "yield"
    /\ IsNext(j)
    /\ idx' = j
    /\ mode' = "switch"
    /\ UNCHANGED <<size, st, zombie, free, count, cpu, acting, saved>>

\* One round of the loop finds a process that has not exited.
YieldFinds(j) ==
    /\ mode = "yield"
    /\ IsNext(j)
    /\ ~zombie[j]
    /\ idx' = j
    /\ mode' = "switch"
    /\ UNCHANGED <<size, st, zombie, free, count, cpu, acting, saved>>

\* Wrong variant: a zombie is passed over.
YieldReaps_PassesOver(j) ==
    /\ mode = "yield" /\ IsNext(j) /\ zombie[j] /\ j # acting
    /\ idx' = j
    /\ UNCHANGED <<size, st, zombie, free, count, cpu, acting, saved, mode>>

\* One round finds a zombie, not the acting process: procm_kill frees it.
YieldReaps(j) ==
    /\ mode = "yield"
    /\ IsNext(j)
    /\ zombie[j]
    /\ j # acting
    /\ idx' = j
    /\ st' = [st EXCEPT ![j] = "free"]
    /\ zombie' = [zombie EXCEPT ![j] = FALSE]
    /\ free' = j
    /\ count' = count - 1
    /\ UNCHANGED <<size, cpu, acting, saved, mode>>

\* Wrong variants: the acting process is freed like any other; the last process
\* is not noticed.
YieldMeetsSelf_Frees(j) ==
    /\ mode = "yield" /\ IsNext(j) /\ zombie[j] /\ j = acting
    /\ idx' = j
    /\ st' = [st EXCEPT ![j] = "free"]
    /\ zombie' = [zombie EXCEPT ![j] = FALSE]
    /\ free' = j
    /\ count' = count - 1
    /\ UNCHANGED <<size, cpu, acting, saved, mode>>
YieldMeetsSelf_NeverPanics(j) ==
    /\ mode = "yield" /\ IsNext(j) /\ zombie[j] /\ j = acting
    /\ idx' = j
    /\ UNCHANGED <<size, st, zombie, free, count, cpu, acting, saved, mode>>

\* One round comes back to the acting process, which has exited: panic if it
\* is the last one, else go on.
YieldMeetsSelf(j) ==
    /\ mode = "yield"
    /\ IsNext(j)
    /\ zombie[j]
    /\ j = acting
    /\ idx' = j
    /\ mode' = IF count = 1 THEN "pid 1 returned" ELSE "yield"
    /\ UNCHANGED <<size, st, zombie, free, count, cpu, acting, saved>>

\* proc_switch to a process that never ran: proc_enter_initial does not return,
\* so task_switch, which would save the context of the acting process, is not
\* reached.
SwitchEnters ==
    /\ mode = "switch"
    /\ st[idx] = "never ran"
    /\ st' = [st EXCEPT ![idx] = "running"]
    /\ cpu' = idx
    /\ mode' = "user"
    /\ UNCHANGED <<size, zombie, free, count, idx, acting, saved>>

\* proc_switch to any other: after ASSERT(nextproc->state != PROC_RUNNING),
\* task_switch saves the context of the acting process and pops that of the
\* next.  If the next one gave up the CPU to a process that had never run, its
\* stack pointer is an old one or none at all, and the return goes anywhere.
SwitchResumes ==
    /\ mode = "switch"
    /\ st[idx] # "never ran"
    /\ LET pushed == [saved EXCEPT ![acting] = TRUE] IN
       /\ mode' = IF st[idx] = "running" THEN "switch to running"
                  ELSE IF pushed[idx] THEN "user" ELSE "context lost"
       /\ cpu' = IF mode' = "user" THEN idx ELSE cpu
       /\ saved' = IF mode' = "user" THEN [pushed EXCEPT ![idx] = FALSE] ELSE pushed
    /\ UNCHANGED <<size, st, zombie, free, count, idx, acting>>

Switch == SwitchEnters \/ SwitchResumes

YieldRound(j) == YieldFinds(j) \/ YieldReaps(j) \/ YieldMeetsSelf(j)

\* A panic, or a return to nowhere, after which nothing is said.
Stopped ==
    mode \in {"pid out of range", "pid 1 returned", "switch to running",
              "context lost"}

Halted == Stopped /\ UNCHANGED vars

Next ==
    \/ \E k \in Slots : Spawn(k)
    \/ \E k \in Slots : SpawnNoPool(k)
    \/ \E k \in Slots : SpawnAssertFails(k)
    \/ Yield
    \/ Exit
    \/ \E j \in Slots : YieldFinds(j)
    \/ \E j \in Slots : YieldReaps(j)
    \/ \E j \in Slots : YieldMeetsSelf(j)
    \/ SwitchEnters
    \/ SwitchResumes
    \/ Halted

SafetySpec == Init /\ [][Next]_vars

\* The kernel does not stop inside procm_sched_yield; whether a process ever
\* yields is its own business.
Spec ==
    /\ SafetySpec
    /\ WF_vars(\E j \in Slots : YieldRound(j))
    /\ WF_vars(Switch)

-----------------------------------------------------------------------------
States == {"free", "never ran", "running", "yielded"}
Modes  == {"user", "yield", "switch", "pid out of range", "pid 1 returned",
           "switch to running", "context lost"}

\* The type invariant.
TypeOK ==
    /\ size \in Nat \ {0}
    /\ st \in [Slots -> States]
    /\ zombie \in [Slots -> BOOLEAN]
    /\ free \in Nat
    /\ count \in Int
    /\ idx \in Slots /\ cpu \in Slots /\ acting \in Slots
    /\ saved \in [Slots -> BOOLEAN]
    /\ mode \in Modes

\* The kernel never frees the kernel stack it is running on: the reason
\* sys_exit leaves a zombie instead of freeing the process (procm.c:305).
StackInUseIsAllocated == cpu \in Occupied

\* g_current_proc_idx, which system calls take the calling process from, names
\* the process that is really running, and that process has not exited.
CurrentIsRunning == mode = "user" => idx = cpu /\ cpu \in Alive

\* At most one process is marked running, only while it runs, so the assertion
\* of proc_switch never fails although no switch back marks a process running.
RunningIsOnCpu ==
    /\ \A s \in Slots : st[s] = "running" => s = cpu /\ mode \notin {"yield", "switch"}
    /\ mode # "switch to running"

\* The kernel gives up ("PID 1 returned") only when every process has exited;
\* the test g_proc_count == 1 is right because zombies met on the way round
\* the ring have been freed and counted off.
GivesUpOnlyWhenEmpty == mode = "pid 1 returned" => Alive = {} /\ Occupied = {cpu}

\* g_proc_count is the number of slots in use, zombies included.
CountIsExact == count = Cardinality(Occupied)

\* The loop of procm_sched_yield ends: the kernel comes back to a process, or
\* stops.
YieldReturns == mode = "yield" ~> mode = "user" \/ Stopped

\* Nobody starves while processes keep yielding: one that is alive gets the
\* CPU, unless the kernel stops (which it does when it comes back to a process
\* that yielded to one that had never run).
NoStarvation ==
    []<>(mode = "yield") =>
        \A s \in Slots : s \in Alive ~> (mode = "user" /\ cpu = s) \/ Stopped

\* While processes keep yielding a process that has exited is freed.
ZombiesReaped ==
    []<>(mode = "yield") =>
        \A s \in Slots : zombie[s] ~> ~zombie[s] \/ Stopped

\* Abstractly: one of the processes that have not exited runs at a time.
AbstractSched == INSTANCE Sched WITH
    alive <- Alive,
    running <- IF mode = "user" THEN cpu ELSE Nobody

\* The process manager implements the abstract scheduler: whoever the CPU is given
\* to has not exited, and a system call is made for nobody but the process that
\* runs.  A lost context gives the CPU to nobody.
ImplementsSched == AbstractSched!Spec

\* The inductive invariant: how the process manager's state hangs together.
\* In the kernel the acting process is the one whose stack is in use; the
\* array covers the occupied slots; only occupied slots are marked zombie.
ProcmInv ==
    /\ StackInUseIsAllocated
    /\ CurrentIsRunning
    /\ RunningIsOnCpu
    /\ CountIsExact
    /\ mode \in {"yield", "switch", "pid 1 returned"} => acting = cpu
    /\ mode = "switch" => idx \in Alive
    /\ mode = "pid 1 returned" => zombie[cpu] /\ count = 1
    /\ \A s \in Slots : zombie[s] => s \in Occupied
    /\ \A s \in Occupied : s < size

-----------------------------------------------------------------------------
\* procm.c:54, ASSERT(pid_idx <= g_proc_size).
\* The code does not keep this.
PidInRange == mode # "pid out of range"

\* task.c:25-33, "The task we are switching to should have already ran this code
\* before": a process that yielded is resumed with the context it gave up.  The
\* code does not keep this.
ContextSaved == mode # "context lost"
=============================================================================
