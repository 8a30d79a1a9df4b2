--------------------------------- MODULE Boot ---------------------------------
(***************************************************************************)
(* Two parts of the boot (kernel/kinit_stage2.c): the stages in which      *)
(* built-in modules are initialised (kernel/module.c), and the table of    *)
(* kernel symbols (kernel/ksyms.c), loaded between the second stage and    *)
(* the third and searched by back traces at any time.                      *)
(***************************************************************************)
EXTENDS Integers, Sequences, SequencesExt, FiniteSetsExt

CONSTANTS
    Modules,    \* the modules in link order: name, stage, and the names of
                \* those its main depends on
    Tables,     \* the symbols' addresses, in the order of the section
    Addresses,  \* what back traces ask for
    WordSize    \* 2^32

Index == DOMAIN Modules

ASSUME BootAssumption ==
    /\ WordSize \in Nat \ {0} /\ Addresses \subseteq 0 .. WordSize - 1
    /\ \A t \in Tables : t \in Seq(0 .. WordSize - 1) /\ t # <<>>
    /\ \A t \in Tables : \A i \in 1 .. Len(t) - 1 : t[i] <= t[i + 1]
    /\ Modules \in Seq([name : STRING, stage : 1 .. 3, needs : Seq(STRING)])
    /\ \A i, j \in Index : Modules[i].name = Modules[j].name => i = j

VARIABLES
    stage,       \* the stage being loaded: 1, 2, 3, or 4 when all are
    cursor,      \* the module mod_builtin_init_stage looks at
    stack,       \* the mains that are running, innermost last, each with how
                 \* many of its dependencies it has asked for
    initialized, \* _initialized
    refcount,    \* _refcount
    successes,   \* how often each main has returned success
    seen,        \* the modules whose main has been called
    table,       \* g_ksyms_table when g_ksyms_available, or <<>>
    answer       \* the last lookup: address, symbol and offset

bootVars == <<stage, cursor, stack, initialized, refcount, successes, seen, table, answer>>

NoAnswer == [addr |-> 0, sym |-> 0, offset |-> 0]

BootInit ==
    /\ stage = 1 /\ cursor = 1 /\ stack = <<>>
    /\ initialized = {} /\ seen = {}
    /\ refcount = [i \in Index |-> 0] /\ successes = [i \in Index |-> 0]
    /\ table = <<>> /\ answer = NoAnswer

-----------------------------------------------------------------------------
\* Wrong variant: a module another one depended on is initialised again.
MustInit_Again(i) == TRUE

\* mod_builtin_init does nothing for a module that is initialised.
MustInit(i) == i \notin initialized

Call(frames, i) == Append(frames, [mod |-> i, asked |-> 0])

\* mod_builtin_init_stage looks at the next module.
LookAtModule ==
    /\ stage \in 1 .. 3 /\ stack = <<>> /\ cursor \in Index
    /\ IF Modules[cursor].stage = stage /\ MustInit(cursor)
       THEN stack' = Call(stack, cursor) /\ seen' = seen \cup {cursor}
       ELSE UNCHANGED <<stack, seen>>
    /\ cursor' = cursor + 1
    /\ UNCHANGED <<stage, initialized, refcount, successes, table, answer>>

EndStage ==
    /\ stage \in 1 .. 3 /\ stack = <<>> /\ cursor \notin Index
    /\ stage' = stage + 1 /\ cursor' = 1
    /\ UNCHANGED <<stack, initialized, refcount, successes, seen, table, answer>>

Top   == stack[Len(stack)]
Named(name) == {i \in Index : Modules[i].name = name}
Needs == Modules[Top.mod].needs

\* A main asks for its next dependency: mod_builtin_depends_on finds it,
\* initialises it unless it is, and counts the reference.
DependsOn ==
    /\ stack # <<>> /\ Top.asked < Len(Needs)
    /\ \E i \in Named(Needs[Top.asked + 1]) :
        IF MustInit(i)
        THEN /\ stack' = Call(stack, i) /\ seen' = seen \cup {i}
             /\ UNCHANGED refcount
        ELSE /\ refcount' = [refcount EXCEPT ![i] = @ + 1]
             /\ stack' = [stack EXCEPT ![Len(stack)].asked = @ + 1]
             /\ UNCHANGED seen
    /\ UNCHANGED <<stage, cursor, initialized, successes, table, answer>>

\* The innermost main returns success.  If another module depends on it, that
\* one's main goes on.
MainSucceeds ==
    LET below == Front(stack)
        caller == Len(below)
    IN  /\ stack # <<>> /\ Top.asked = Len(Needs)
        /\ initialized' = initialized \cup {Top.mod}
        /\ successes' = [successes EXCEPT ![Top.mod] = @ + 1]
        /\ IF below = <<>> THEN stack' = below /\ UNCHANGED refcount
           ELSE /\ stack' = [below EXCEPT ![caller].asked = @ + 1]
                /\ refcount' = [refcount EXCEPT ![Top.mod] = @ + 1]
        /\ UNCHANGED <<stage, cursor, seen, table, answer>>

\* The innermost main fails, and with it those that depend on it; or it
\* depends on a module that is not built in.
MainFails ==
    /\ stack # <<>>
    /\ Top.asked < Len(Needs) => Named(Needs[Top.asked + 1]) = {}
    /\ stack' = <<>>
    /\ UNCHANGED <<stage, cursor, initialized, refcount, successes, seen, table, answer>>

-----------------------------------------------------------------------------
\* ksyms_load, once the second stage is over.  It may find no table, or not
\* read it.
KsymsLoad ==
    /\ stage = 3 /\ cursor = 1 /\ stack = <<>> /\ table = <<>>
    /\ table' \in Tables
    /\ UNCHANGED <<stage, cursor, stack, initialized, refcount, successes, seen, answer>>

\* The last entry the binary search of ksyms_get_symbol_name looks at between
\* l and r, and what the step after the search makes of it.
LastProbed(addr) ==
    LET n == Len(table)
        Probe[w \in (0 .. n - 1) \X (0 .. n - 1)] ==
            LET l == w[1]
                r == w[2]
                m == (l + r) \div 2
                a == table[m + 1]
            IN  CASE a < addr /\ m + 1 <= r -> Probe[<<m + 1, r>>]
                  [] a > addr /\ l <= m - 1 -> Probe[<<l, m - 1>>]
                  [] OTHER -> m
    IN  Probe[<<0, n - 1>>]

\* Wrong variant: the entry looked at last is the answer.
SymbolOf_Probed(addr) == LastProbed(addr)

SymbolOf(addr) ==
    LET m == LastProbed(addr)
    IN  IF table[m + 1] > addr /\ m > 0 THEN m - 1 ELSE m

\* ksyms_get_symbol_name.
GetSymbolName(addr) ==
    /\ answer' = IF table = <<>> THEN NoAnswer
                 ELSE [addr |-> addr, sym |-> SymbolOf(addr) + 1,
                       offset |-> (addr - table[SymbolOf(addr) + 1]) % WordSize]
    /\ UNCHANGED <<stage, cursor, stack, initialized, refcount, successes, seen, table>>

BootNext ==
    \/ LookAtModule \/ EndStage \/ DependsOn \/ MainSucceeds \/ MainFails
    \/ KsymsLoad \/ \E addr \in Addresses : GetSymbolName(addr)

-----------------------------------------------------------------------------
\* No module is initialised twice, although a module may be reached both by
\* its stage and by one that depends on it; a module is initialised only
\* after those it depends on, which is referenced; and once a stage is over
\* every module of that stage has been tried.
ModulesOnce ==
    /\ \A i \in Index : successes[i] = (IF i \in initialized THEN 1 ELSE 0)
    /\ \A i \in initialized : \A k \in DOMAIN Modules[i].needs :
            \E j \in initialized : Modules[j].name = Modules[i].needs[k] /\ refcount[j] > 0
    /\ \A i \in Index : Modules[i].stage < stage => i \in seen

\* A symbol is the one that holds the address: the last whose address is not
\* above it, or the first one of all when the address is below the table.
KsymsExact ==
    answer.sym # 0 =>
        LET below == {i \in DOMAIN table : table[i] <= answer.addr}
        IN  IF below = {} THEN answer.sym = 1
            ELSE /\ table[answer.sym] = table[Max(below)]
                 /\ answer.offset = answer.addr - table[answer.sym]
=============================================================================
