---------------------------- MODULE TaskAllocator ----------------------------
(***************************************************************************)
(* Levels 1 to 3 of allocator.c: the raw-pointer allocator (mem_init,      *)
(* mem_alloc, mem_free) and the task sandbox that meters it (task_spawn).  *)
(*                                                                         *)
(* The program is sequential: a call of the API is one step.  task_spawn   *)
(* is two, because it runs its callback fn() in between, and fn() may call *)
(* anything, task_spawn included; the spawns that have not returned form a *)
(* stack.  Nothing ties the task_id argument of a call to the task that is *)
(* running, so the callers here pass any of ClientIds.                     *)
(***************************************************************************)
EXTENDS Heap, Sequences

CONSTANTS
  MAX_TASKS,    \* entries of tasks[] (256 in the source)
  ClientIds,    \* task_id arguments of mem_alloc
  SpawnIds,     \* task_id arguments of task_spawn: in range of tasks[]
  Quotas,       \* quota_bytes arguments of task_spawn
  Requests,     \* n_bytes arguments of mem_alloc
  Strategies,   \* strategy arguments of mem_alloc
  MaxNesting    \* bound: task_spawn calls under way at once

ASSUME TaskAssumption ==
  /\ MAX_TASKS \in Nat \ {0}
  /\ MAX_TASKS <= TASK_ID_RANGE
  /\ ClientIds \subseteq Int
  /\ SpawnIds \subseteq 0 .. MAX_TASKS - 1
  /\ Quotas \subseteq Int
  /\ Requests \subseteq Int
  /\ Strategies \subseteq Int
  /\ MaxNesting \in Nat

VARIABLES
  heap,     \* ram[], see Heap
  tasks,    \* tasks[]
  stack     \* the task_spawn calls under way, innermost first

vars == <<heap, tasks, stack>>

TaskTable == 0 .. MAX_TASKS - 1

\* TaskStatus with its TaskReport; report.task_id repeats the index.
TaskStatus == [quota_bytes : Int,
               bytes_allocated : Int,
               quota_exceeded : BOOLEAN,
               current_alloc : Int,
               active : BOOLEAN]

\* tasks[] is static: all zero.
UnusedTask == [quota_bytes |-> 0,
               bytes_allocated |-> 0,
               quota_exceeded |-> FALSE,
               current_alloc |-> 0,
               active |-> FALSE]

\* The mem_init call every program starts with is part of the initial state.
Init ==
  /\ heap = InitialHeap
  /\ tasks = [t \in TaskTable |-> UnusedTask]
  /\ stack = << >>

-----------------------------------------------------------------------------
(***************************************************************************)
(* mem_alloc                                                               *)
(***************************************************************************)

\* Task 0 and ids outside tasks[] are never metered.
TaskIsActive(ts, t) == t > 0 /\ t < MAX_TASKS /\ ts[t].active

ValidRequest(n) == n >= MIN_ALLOC /\ n <= MAX_ALLOC

\* The check before the search: the aligned request alone is over the quota.
OverQuota(ts, t, need) ==
  /\ TaskIsActive(ts, t)
  /\ ts[t].current_alloc + need + HEADER_SIZE > ts[t].quota_bytes

\* Variant: the second check leaves the header out.
ReachesQuotaPayload(ts, t, given) ==
  /\ TaskIsActive(ts, t)
  /\ ts[t].current_alloc + given >= ts[t].quota_bytes

\* The check after the search: the block found reaches the quota.
ReachesQuota(ts, t, given) ==
  /\ TaskIsActive(ts, t)
  /\ ts[t].current_alloc + given + HEADER_SIZE >= ts[t].quota_bytes

Flag(ts, t) == [ts EXCEPT ![t].quota_exceeded = TRUE]

Charge(ts, t, given) ==
  IF ~ TaskIsActive(ts, t) THEN ts
  ELSE LET current == ts[t].current_alloc + given + HEADER_SIZE
       IN  [ts EXCEPT ![t].current_alloc = current,
                      ![t].bytes_allocated = IF current > @ THEN current ELSE @]

\* The call's result and what it leaves in ram[] and tasks[], one arm per return.
MemAllocResult(h, ts, n, t, strategy) ==
  LET need == AlignBytes(n)
      o == FindFreeBlock(h, need, strategy)
      given == GivenSize(h[o].size, need)
      Refuse(table) == [ptr |-> None, heap |-> h, tasks |-> table]
  IN  IF ~ ValidRequest(n) THEN Refuse(ts)
      ELSE IF OverQuota(ts, t, need) THEN Refuse(Flag(ts, t))
      ELSE IF o = None THEN Refuse(ts)
      ELSE IF ReachesQuota(ts, t, given) THEN Refuse(Flag(ts, t))
      ELSE [ptr |-> o + HEADER_SIZE,
            heap |-> Occupy(h, o, need, t),
            tasks |-> Charge(ts, t, given)]

MemAlloc(n, t, strategy) ==
  LET result == MemAllocResult(heap, tasks, n, t, strategy)
  IN  /\ heap' = result.heap
      /\ tasks' = result.tasks
      /\ UNCHANGED stack

(***************************************************************************)
(* mem_free                                                                *)
(***************************************************************************)

\* Variant: the owner is refunded whether it is active or not.
RefundAnyOwner(h, ts, o) ==
  LET owner == h[o].task_id
  IN  IF owner \in TaskTable
      THEN [ts EXCEPT ![owner].current_alloc = @ - (h[o].size + HEADER_SIZE)]
      ELSE ts

\* Only an active owner gets its bytes back.
Refund(h, ts, o) ==
  LET owner == h[o].task_id
  IN  IF TaskIsActive(ts, owner)
      THEN [ts EXCEPT ![owner].current_alloc = @ - (h[o].size + HEADER_SIZE)]
      ELSE ts

\* Variant: an owner that is not metered ends the call before the sweep.
MemFreeUnswept(ptr) ==
  LET o == ptr - HEADER_SIZE
  IN  /\ Freeable(heap, ptr)
      /\ heap' = IF TaskIsActive(tasks, heap[o].task_id) THEN Release(heap, o)
                 ELSE [heap EXCEPT ![o] = Header(@.size, STATUS_FREE, @.task_id)]
      /\ tasks' = Refund(heap, tasks, o)
      /\ UNCHANGED stack

\* A refused call returns false and changes nothing: the step that frees a FREE
\* block again is a stuttering step.
MemFree(ptr) ==
  /\ Freeable(heap, ptr)
  /\ heap' = Release(heap, ptr - HEADER_SIZE)
  /\ tasks' = Refund(heap, tasks, ptr - HEADER_SIZE)
  /\ UNCHANGED stack

\* mem_init clears ram[] and nothing else.
MemInit ==
  /\ heap' = InitialHeap
  /\ UNCHANGED <<tasks, stack>>

(***************************************************************************)
(* task_spawn                                                              *)
(***************************************************************************)

\* A spawn overwrites the whole entry, whatever blocks the id still owns.
SpawnedTask(quota) == [quota_bytes |-> quota,
                       bytes_allocated |-> 0,
                       quota_exceeded |-> FALSE,
                       current_alloc |-> 0,
                       active |-> TRUE]

\* Variant: the counters of the entry are not reset.
TaskSpawnKeepingCounters(t, quota) ==
  /\ tasks' = [tasks EXCEPT ![t].quota_bytes = quota, ![t].active = TRUE]
  /\ stack' = <<t>> \o stack
  /\ UNCHANGED heap

TaskSpawn(t, quota) ==
  /\ tasks' = [tasks EXCEPT ![t] = SpawnedTask(quota)]
  /\ stack' = <<t>> \o stack
  /\ UNCHANGED heap

\* fn() has returned.
TaskReturn ==
  /\ stack # << >>
  /\ tasks' = [tasks EXCEPT ![Head(stack)].active = FALSE]
  /\ stack' = Tail(stack)
  /\ UNCHANGED heap

\* Callers free pointers of blocks, and reset the heap between tasks, never from
\* inside one (the phases of test_allocator.c).
Next ==
  \/ \E n \in Requests, t \in ClientIds, s \in Strategies : MemAlloc(n, t, s)
  \/ \E o \in DOMAIN heap : MemFree(o + HEADER_SIZE)
  \/ stack = << >> /\ MemInit
  \/ \E t \in SpawnIds, q \in Quotas : Len(stack) < MaxNesting /\ TaskSpawn(t, q)
  \/ TaskReturn

Spec == Init /\ [][Next]_vars

=============================================================================
