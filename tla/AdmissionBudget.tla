---------------------------- MODULE AdmissionBudget ----------------------------
(***************************************************************************)
(* What an index pass may use of the machine                               *)
(* (crates/weave-graph-cli/src/resource_budget.rs, admission_budget of     *)
(* index.rs): worker threads, files per parse chunk, rows per transaction. *)
(*                                                                         *)
(* A machine may be resized between passes; every pass looks at it anew.   *)
(* Memory limits are counted in units of 4 MiB, so that the quarter of one *)
(* is that many MiB; the floating-point scale is exact for such values.    *)
(***************************************************************************)
EXTENDS Integers

CONSTANTS Machines   \* [v2, v1, host: memory limits, cpu2, cpu1: [quota, period], cores,
                     \*  override: WEAVE_INDEX_THREADS]; Absent is a file that is missing,
                     \*  does not parse or says "max"

Absent == -1
Size == Nat \cup {Absent}

ASSUME MachinesAssumption ==
    Machines \subseteq [v2 : Size, v1 : Size, host : Size, cpu2 : [quota : Size, period : Nat],
                        cpu1 : [quota : Int, period : Nat], cores : Nat, override : Size]

VARIABLES box, admitted
admissionVars == <<box, admitted>>

NoQuota == [quota |-> Absent, period |-> 1]
AtLeast(a, b) == IF a < b THEN b ELSE a
AtMost(a, b) == IF a > b THEN b ELSE a
Clamp(n, lo, hi) == AtMost(AtLeast(n, lo), hi)

PARSE_CHUNK == 32
STAGED_WRITE_ROWS == 10000
MIN_PARSE_CHUNK == 4
MIN_STAGED_WRITE_ROWS == 500
CHUNK_FILES_PER_THREAD == 4
REFERENCE_BUDGET == 512            \* MiB
V1Unlimited == 262144              \* 1 TiB

\* detect_memory_ceiling: cgroup v2, v1 unless it says "no limit", the host.
Ceiling(m) ==
    IF m.v2 # Absent THEN [size |-> m.v2, source |-> "cgroup v2"]
    ELSE IF m.v1 \in 0..V1Unlimited THEN [size |-> m.v1, source |-> "cgroup v1"]
    ELSE IF m.host # Absent THEN [size |-> m.host, source |-> "host"]
    ELSE [size |-> Absent, source |-> "unknown"]

\* read_cgroup_v2_cpu_threads, and v1 where a quota of 0 or -1 is none.
QuotaThreads(q) == AtLeast(q.quota \div AtLeast(q.period, 1), 1)

\* detect_cpu_threads.
CpuThreads(m) ==
    IF m.cpu2.quota # Absent THEN AtLeast(AtMost(QuotaThreads(m.cpu2), m.cores), 1)
    ELSE IF m.cpu1.quota > 0 THEN AtLeast(AtMost(QuotaThreads(m.cpu1), m.cores), 1)
    ELSE AtLeast(m.cores, 1)

\* threads_override_env and the clamp of detect_admission_budget.
WorkerThreads(m) == IF m.override >= 1 THEN Clamp(m.override, 1, CpuThreads(m)) ELSE CpuThreads(m)

ThreadScaledChunk(threads) == AtLeast(PARSE_CHUNK, threads * CHUNK_FILES_PER_THREAD)

\* n scaled by the share of the reference budget, rounded half up.
ScaledTo(n, reserved) == (2 * n * reserved + REFERENCE_BUDGET) \div (2 * REFERENCE_BUDGET)

\* Mutant form: no memory at all counts as not known.
ComputeAdmissionBudgetZero(size, threads) ==
    LET baseline == ThreadScaledChunk(threads)
    IN IF size # Absent /\ size > 0 /\ size < REFERENCE_BUDGET
       THEN [chunk |-> Clamp(ScaledTo(baseline, size), MIN_PARSE_CHUNK, baseline),
             rows |-> Clamp(ScaledTo(STAGED_WRITE_ROWS, size), MIN_STAGED_WRITE_ROWS, STAGED_WRITE_ROWS)]
       ELSE [chunk |-> baseline, rows |-> STAGED_WRITE_ROWS]

\* compute_admission_budget: a quarter of the ceiling, against the reference.
ComputeAdmissionBudget(size, threads) ==
    LET baseline == ThreadScaledChunk(threads)
    IN IF size # Absent /\ size < REFERENCE_BUDGET
       THEN [chunk |-> Clamp(ScaledTo(baseline, size), MIN_PARSE_CHUNK, baseline),
             rows |-> Clamp(ScaledTo(STAGED_WRITE_ROWS, size), MIN_STAGED_WRITE_ROWS, STAGED_WRITE_ROWS)]
       ELSE [chunk |-> baseline, rows |-> STAGED_WRITE_ROWS]

\* AdmissionBudget::explain says something.
Explains(chunk, threads) == chunk # ThreadScaledChunk(threads)

BudgetOf(m) ==
    LET threads == WorkerThreads(m)
        sizes == ComputeAdmissionBudget(Ceiling(m).size, threads)
    IN [threads |-> threads, chunk |-> sizes.chunk, rows |-> sizes.rows,
        explained |-> Explains(sizes.chunk, threads), source |-> Ceiling(m).source]

AdmissionInit == box \in Machines /\ admitted = BudgetOf(box)

\* A pass on the machine as it is now: admission_budget.
Admit(m) == box' = m /\ admitted' = BudgetOf(m)
AdmissionNext == \E m \in Machines : Admit(m)
AdmissionSpec == AdmissionInit /\ [][AdmissionNext]_admissionVars

-----------------------------------------------------------------------------
(* What the budget promises.                                               *)

\* A machine that loses memory, with its limit read from the same place, never gets
\* larger batches for it (resource_budget.rs:177-184).
LessMemoryAdmitsNoMore ==
    [][LET before == Ceiling(box)
           after == Ceiling(box')
       IN /\ before.source = after.source /\ after.size <= before.size
          /\ admitted'.threads = admitted.threads
          => admitted'.chunk <= admitted.chunk /\ admitted'.rows <= admitted.rows]_admissionVars
=============================================================================
