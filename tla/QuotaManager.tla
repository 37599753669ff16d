------------------------------ MODULE QuotaManager ------------------------------
(***************************************************************************)
(* The quota manager of security/quota_manager.go for one tenant: the      *)
(* quotas table, a cache of pointers to objects copied from its rows, the  *)
(* check before a request, the increment after it, the worker that resets  *)
(* expired quotas, and the administrator who sets or resets one.           *)
(*                                                                         *)
(* A table statement and a cache operation are separate steps: no lock is  *)
(* held across both.  Objects are shared by pointer, so they live in a     *)
(* heap, a pool per quota.  task[u] is the operation goroutine u is in:    *)
(*   op    check, increment, tick, reset or set                            *)
(*   pc    list -> query -> store -> visit -> write -> touch, then end;    *)
(*         set: find -> seek -> keep -> update or create -> touch          *)
(*   todo  the objects getQuotasForTenant, or the query, returned          *)
(*   rows  those of them that are not in the cache yet                     *)
(*   cur   the object in hand                                              *)
(*   next  the reset time computed before the row is reset                 *)
(*   ok    what the check answers                                          *)
(***************************************************************************)
EXTENDS Tenancy, Integers, FiniteSets

CONSTANTS Users,        \* goroutines that use the manager
          QuotaIds,     \* the quotas the tenant may have
          Days,         \* Days[q]: the length of q's period
          Estimate,     \* Estimate[q]: what the check adds for one request
          Increment,    \* Increment[q]: what one served request adds
          Pool,         \* identities of the objects of one quota
          MaxDay,       \* bound of the calendar
          MaxDbFaults   \* bound of failing statements

VARIABLES day,        \* the date
          table,      \* table[q]: the row [limit, usage, resetAt], or None
          objects,    \* objects[<<q, i>>]: a copy of the row of q, or None
          cached,     \* cached[q]: the object under q's key, or None
          task,       \* task[u], see above
          admitted,   \* admitted[q]: requests let through since q's period began
          full,       \* full[q]: q's row has had no room for a request in this period
          mixed,      \* a reset and another operation have overlapped
          dbFaults    \* statements that failed

quotaVars == <<day, table, objects, cached, task, admitted, full, mixed, dbFaults>>

NoTask == [op |-> "none", pc |-> "end", todo |-> {}, rows |-> {}, cur |-> None,
           next |-> 0, ok |-> TRUE]

\* Midnight at the end of the period of q that contains today.
calculateNextReset(q) == ((day \div Days[q]) + 1) * Days[q]

Expired(o) == day >= objects[o].resetAt

Exceeds(o, used) == used + Estimate[o[1]] > objects[o].limit

Rows == {q \in QuotaIds : table[q] # None}

\* Copies of the rows of Q in fresh objects, and the heap with them.  Objects
\* neither the cache nor an operation refers to are collected.
FreshObj(q) == <<q, CHOOSE i \in Pool : objects[<<q, i>>] = None>>
Copied(Q) == {FreshObj(q) : q \in Q}

Kept(objs, cache, tasks) ==
  [o \in DOMAIN objs |->
     IF \/ cache[o[1]] = o
        \/ \E u \in Users : o \in tasks[u].todo \/ o \in tasks[u].rows \/ o = tasks[u].cur
     THEN objs[o] ELSE None]

\* A row is written.
HasNoRoom(row, q) == row # None /\ row.resetAt > day /\ row.usage + Estimate[q] > row.limit
Write(rows) ==
  /\ table' = rows
  /\ full' = [q \in QuotaIds |-> full[q] \/ HasNoRoom(rows[q], q)]

\* A reset is under way, be it an administrator's, the worker's or that of a
\* check which found its quota expired, and somebody else is at work.
Overlap(tasks) ==
  \E u, v \in Users :
    /\ u # v /\ tasks[v].pc # "end"
    /\ \/ tasks[u].op \in {"reset", "tick"} /\ tasks[u].pc # "end"
       \/ tasks[u].op = "check" /\ tasks[u].pc \in {"write", "touch"}

\* One step of u: the new task, the cache, the objects written in it.
Step(u, t, cache, objs) ==
  /\ task' = [task EXCEPT ![u] = t]
  /\ mixed' = (mixed \/ Overlap(task'))
  /\ cached' = cache
  /\ objects' = Kept(objs, cache, task')

\* A check that ends well lets a request through.  One that reset a quota just
\* before midnight and compares with it just after belongs to the old period.
Counts(t) ==
  IF t.op = "check" /\ t.pc = "end" /\ t.ok /\ (t.next = 0 \/ day < t.next)
  THEN [q \in QuotaIds |-> admitted[q] + Increment[q]] ELSE admitted

Local(u, t) == /\ Step(u, t, cached, objects)
               /\ admitted' = Counts(t)
               /\ UNCHANGED <<day, table, full, dbFaults>>

Ended(t) == [t EXCEPT !.pc = "end", !.todo = {}, !.rows = {}, !.cur = None]

\* The loop goes on with the next object, or is over.
Onward(t, o) ==
  IF t.todo \ {o} = {} THEN Ended(t)
  ELSE [t EXCEPT !.pc = "visit", !.todo = @ \ {o}, !.cur = None]

-----------------------------------------------------------------------------
(* Operations begin *)

Begin(u, op, pc) ==
  /\ task[u].pc = "end"
  /\ Local(u, [NoTask EXCEPT !.op = op, !.pc = pc])

CheckQuota(u)     == Begin(u, "check", "list")
IncrementUsage(u) == Begin(u, "increment", "list")
ResetQuota(u)     == Begin(u, "reset", "list")
quotaResetTick(u) == Begin(u, "tick", "query")

-----------------------------------------------------------------------------
(* getQuotasForTenant: whatever is cached, or else the rows *)

ListCached(u) ==
  LET found == {cached[q] : q \in QuotaIds} \ {None}
  IN /\ task[u].pc = "list"
     /\ Local(u, IF found = {} THEN [task[u] EXCEPT !.pc = "query"]
                 ELSE [task[u] EXCEPT !.pc = "visit", !.todo = found])

QueryRows(u) ==
  LET t     == task[u]
      rows  == IF t.op = "tick" THEN {q \in Rows : table[q].resetAt <= day} ELSE Rows
      fresh == Copied(rows)
      objs  == [o \in DOMAIN objects |-> IF o \in fresh THEN table[o[1]] ELSE objects[o]]
      left  == IF rows = {} THEN Ended(t)
               ELSE IF t.op = "tick" THEN [t EXCEPT !.pc = "visit", !.todo = fresh]
               ELSE [t EXCEPT !.pc = "store", !.todo = fresh, !.rows = fresh]
  IN /\ t.pc = "query"
     /\ Step(u, left, cached, objs)
     /\ admitted' = Counts(left)
     /\ UNCHANGED <<day, table, full, dbFaults>>

StoreRow(u) ==
  \E o \in task[u].rows :
    LET left == task[u].rows \ {o}
    IN /\ task[u].pc = "store"
       /\ Step(u, [task[u] EXCEPT !.rows = left, !.pc = IF left = {} THEN "visit" ELSE "store"],
               [cached EXCEPT ![o[1]] = o], objects)
       /\ UNCHANGED <<day, table, full, admitted, dbFaults>>

-----------------------------------------------------------------------------
(* The loops over the quotas found *)

\* CheckQuota's decision about one quota.
Decided(t, o, used) ==
  IF Exceeds(o, used) THEN [Ended(t) EXCEPT !.ok = FALSE] ELSE Onward(t, o)

Visit(u) ==
  \E o \in task[u].todo :
    LET t == task[u]
        write == [t EXCEPT !.pc = "write", !.cur = o]
    IN /\ t.pc = "visit"
       /\ Local(u, CASE t.op = "check"     -> IF Expired(o) THEN write
                                              ELSE Decided(t, o, objects[o].usage)
                     [] t.op = "increment" -> IF Increment[o[1]] > 0 THEN write ELSE Onward(t, o)
                     [] OTHER              -> write)

\* (mutant) the cached object is left as it was
InvalidateForgotten(u) ==
  LET t == task[u]
  IN /\ t.pc = "touch" /\ t.op = "increment"
     /\ Step(u, Onward(t, t.cur), cached, objects)
     /\ UNCHANGED <<day, table, full, admitted, dbFaults>>

\* incrementQuotaUsage: the row, then the cache.
WriteIncrement(u) ==
  LET t == task[u]
      q == t.cur[1]
  IN /\ t.pc = "write" /\ t.op = "increment"
     /\ Write([table EXCEPT ![q].usage = @ + Increment[q]])
     /\ Step(u, [t EXCEPT !.pc = "touch"], cached, objects)
     /\ UNCHANGED <<day, admitted, dbFaults>>

Invalidate(u) ==
  LET t == task[u]
  IN /\ t.pc = "touch" /\ t.op = "increment"
     /\ Step(u, Onward(t, t.cur), [cached EXCEPT ![t.cur[1]] = None], objects)
     /\ UNCHANGED <<day, table, full, admitted, dbFaults>>

\* (mutant) the object keeps its usage, only its period moves on
TouchPeriod(u) ==
  LET t == task[u]
      o == t.cur
      left == IF t.op = "check" THEN Decided(t, o, 0) ELSE Onward(t, o)
  IN /\ t.pc = "touch" /\ t.op \in {"check", "tick", "reset"}
     /\ Step(u, left, [cached EXCEPT ![o[1]] = o], [objects EXCEPT ![o].resetAt = t.next])
     /\ admitted' = Counts(left)
     /\ UNCHANGED <<day, table, full, dbFaults>>

\* resetQuotaInternal: the row, then the object in place and the cache.
WriteReset(u) ==
  LET t == task[u]
      q == t.cur[1]
  IN /\ t.pc = "write" /\ t.op \in {"check", "tick", "reset"}
     /\ Write([table EXCEPT ![q].usage = 0, ![q].resetAt = calculateNextReset(q)])
     /\ admitted' = IF t.op = "reset" THEN [admitted EXCEPT ![q] = 0] ELSE admitted
     /\ Step(u, [t EXCEPT !.pc = "touch", !.next = calculateNextReset(q)], cached, objects)
     /\ UNCHANGED <<day, dbFaults>>

TouchReset(u) ==
  LET t == task[u]
      o == t.cur
      reset == [objects EXCEPT ![o].usage = 0, ![o].resetAt = t.next]
      left  == IF t.op = "check" THEN Decided(t, o, 0) ELSE Onward(t, o)
  IN /\ t.pc = "touch" /\ t.op \in {"check", "tick", "reset"}
     /\ Step(u, left, [cached EXCEPT ![o[1]] = o], reset)
     /\ admitted' = Counts(left)
     /\ UNCHANGED <<day, table, full, dbFaults>>

-----------------------------------------------------------------------------
(* SetQuota of the administrator.  An existing quota keeps its usage, but   *)
(* its row takes the reset time of the request, which has none             *)

SetQuota(u, q, limit) ==
  LET o == FreshObj(q)
  IN /\ task[u].pc = "end"
     /\ Step(u, [NoTask EXCEPT !.op = "set", !.pc = "find", !.cur = o], cached,
             [objects EXCEPT ![o] = [limit |-> limit, usage |-> 0, resetAt |-> 0]])
     /\ UNCHANGED <<day, table, full, admitted, dbFaults>>

\* getQuotaByTypeAndPeriod: the cached object, or else a copy of the row, which
\* is cached.
FindExisting(u) ==
  LET t == task[u]
      p == cached[t.cur[1]]
  IN /\ t.pc = "find"
     /\ IF p = None THEN Step(u, [t EXCEPT !.pc = "seek"], cached, objects)
        ELSE Step(u, [t EXCEPT !.pc = "update"], cached,
                  [objects EXCEPT ![t.cur].usage = objects[p].usage])
     /\ UNCHANGED <<day, table, full, admitted, dbFaults>>

SeekRow(u) ==
  LET t == task[u]
      q == t.cur[1]
      p == FreshObj(q)
  IN /\ t.pc = "seek"
     /\ IF table[q] = None
        THEN Step(u, [t EXCEPT !.pc = "create"], cached,
                  [objects EXCEPT ![t.cur].resetAt = calculateNextReset(q)])
        ELSE Step(u, [t EXCEPT !.pc = "keep", !.rows = {p}], cached,
                  [objects EXCEPT ![p] = table[q]])
     /\ UNCHANGED <<day, table, full, admitted, dbFaults>>

KeepRow(u) ==
  \E p \in task[u].rows :
    LET t == task[u]
    IN /\ t.pc = "keep"
       /\ Step(u, [t EXCEPT !.pc = "update", !.rows = {}], [cached EXCEPT ![p[1]] = p],
               [objects EXCEPT ![t.cur].usage = objects[p].usage])
       /\ UNCHANGED <<day, table, full, admitted, dbFaults>>

\* updateQuota and createQuota: the row first.
WriteSet(u) ==
  LET t == task[u]
      o == objects[t.cur]
  IN /\ t.pc \in {"update", "create"}
     /\ Write([table EXCEPT ![t.cur[1]] =
                  IF t.pc = "create" THEN o
                  ELSE [@ EXCEPT !.limit = o.limit, !.resetAt = o.resetAt]])
     /\ Step(u, [t EXCEPT !.pc = "touch"], cached, objects)
     /\ UNCHANGED <<day, admitted, dbFaults>>

TouchSet(u) ==
  LET t == task[u]
  IN /\ t.pc = "touch" /\ t.op = "set"
     /\ Step(u, Ended(t), [cached EXCEPT ![t.cur[1]] = t.cur], objects)
     /\ UNCHANGED <<day, table, full, admitted, dbFaults>>

-----------------------------------------------------------------------------

\* A statement fails: the operation is given up -- the worker goes on with the
\* next quota -- and a check that cannot tell lets the request through.
StatementFails(u) ==
  LET t == task[u]
      left == IF t.op = "tick" /\ t.pc = "write" THEN Onward(t, t.cur) ELSE Ended(t)
  IN /\ dbFaults < MaxDbFaults
     /\ t.pc \in {"query", "write", "seek", "update", "create"}
     /\ dbFaults' = dbFaults + 1
     /\ Step(u, left, cached, objects)
     /\ admitted' = Counts(left)
     /\ UNCHANGED <<day, table, full>>

\* Midnight.
NextDay ==
  /\ day < MaxDay
  /\ day' = day + 1
  /\ admitted' = [q \in QuotaIds |-> IF day' % Days[q] = 0 THEN 0 ELSE admitted[q]]
  /\ full' = [q \in QuotaIds |-> day' % Days[q] # 0 /\ full[q]]
  /\ UNCHANGED <<table, objects, cached, task, mixed, dbFaults>>

QuotaInit(limits) ==
  /\ day = 0
  /\ table = [q \in QuotaIds |-> IF q \in DOMAIN limits
                                 THEN [limit |-> limits[q], usage |-> 0, resetAt |-> Days[q]]
                                 ELSE None]
  /\ objects = [o \in QuotaIds \X Pool |-> None]
  /\ cached = [q \in QuotaIds |-> None]
  /\ task = [u \in Users |-> NoTask]
  /\ admitted = [q \in QuotaIds |-> 0]
  /\ full = [q \in QuotaIds |-> HasNoRoom(table[q], q)]
  /\ mixed = FALSE
  /\ dbFaults = 0

QuotaStep(u) ==
  \/ ListCached(u) \/ QueryRows(u) \/ StoreRow(u) \/ Visit(u)
  \/ WriteIncrement(u) \/ Invalidate(u) \/ WriteReset(u) \/ TouchReset(u)
  \/ FindExisting(u) \/ SeekRow(u) \/ KeepRow(u) \/ WriteSet(u) \/ TouchSet(u)
=============================================================================
