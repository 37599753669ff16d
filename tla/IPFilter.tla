-------------------------------- MODULE IPFilter --------------------------------
(***************************************************************************)
(* The IP rules of security/ip_filter.go: rows of the ip_rules table and   *)
(* the parsed copies in memory that decide.  Adding a rule writes the row  *)
(* and then appends to the copies; removing one deletes the row, reads the *)
(* whole table and then replaces the copies.                               *)
(***************************************************************************)
EXTENDS Tenancy, FiniteSets, Naturals

CONSTANTS Admins,        \* administrators at work at the same time
          Rules,         \* the rules they may add: [id, type, scope, ips]
          MaxIpFaults    \* bound of failing statements

VARIABLES ipTable,   \* the rows
          ipRules,   \* the four lists in memory, as one set of rules
          ipTask,    \* ipTask[a]: the operation of administrator a
          firm,      \* rules added by an operation no other one overlapped
          gone,      \* rules removed by such an operation
          ipFaults

ipVars == <<ipTable, ipRules, ipTask, firm, gone, ipFaults>>

NoIpTask == [pc |-> "idle", rule |-> None, rows |-> {}, alone |-> TRUE]

Busy(a) == ipTask[a].pc # "idle"

\* An operation begins: it and those in progress are no longer alone.
Begins(a, pc, rule) ==
  LET others == \E b \in Admins : Busy(b)
  IN ipTask' = [b \in Admins |->
       IF b = a THEN [NoIpTask EXCEPT !.pc = pc, !.rule = rule, !.alone = ~others]
       ELSE [ipTask[b] EXCEPT !.alone = FALSE]]

-----------------------------------------------------------------------------
(* CheckIP *)

Applies(r, tenant) == r.scope = "global" \/ (tenant # None /\ r.scope = tenant)

CheckIP(rules, ip, tenant) ==
  LET matching(t) == {r \in rules : r.type = t /\ Applies(r, tenant) /\ ip \in r.ips}
      whitelisted == {r \in rules : r.type = "whitelist" /\ Applies(r, tenant)}
  IN matching("blacklist") = {} /\ (whitelisted = {} \/ matching("whitelist") # {})

-----------------------------------------------------------------------------
(* addRule, RemoveRule, ReloadRules *)

InsertRule(a, r) ==
  /\ ~Busy(a)
  /\ r \notin ipTable \union ipRules \union gone
  /\ \A b \in Admins : ipTask[b].rule # r
  /\ ipTable' = ipTable \union {r}
  /\ Begins(a, "append", r)
  /\ UNCHANGED <<ipRules, firm, gone, ipFaults>>

AppendRule(a) ==
  LET t == ipTask[a]
  IN /\ t.pc = "append"
     /\ ipRules' = ipRules \union {t.rule}
     /\ firm' = IF t.alone THEN firm \union {t.rule} ELSE firm
     /\ ipTask' = [ipTask EXCEPT ![a] = NoIpTask]
     /\ UNCHANGED <<ipTable, gone, ipFaults>>

\* (mutant) the rules are read before the row is deleted
QueryBeforeDelete(a) ==
  /\ ipTask[a].pc = "query"
  /\ ipTask' = [ipTask EXCEPT ![a].pc = "swap", ![a].rows = ipTable \union {ipTask[a].rule}]
  /\ UNCHANGED <<ipTable, ipRules, firm, gone, ipFaults>>

DeleteRule(a, r) ==
  /\ ~Busy(a)
  /\ r \in ipTable
  /\ ipTable' = ipTable \ {r}
  /\ Begins(a, "query", r)
  /\ firm' = firm \ {r}
  /\ UNCHANGED <<ipRules, gone, ipFaults>>

QueryRules(a) ==
  /\ ipTask[a].pc = "query"
  /\ ipTask' = [ipTask EXCEPT ![a].pc = "swap", ![a].rows = ipTable]
  /\ UNCHANGED <<ipTable, ipRules, firm, gone, ipFaults>>

SwapRules(a) ==
  LET t == ipTask[a]
  IN /\ t.pc = "swap"
     /\ ipRules' = t.rows
     /\ gone' = IF t.alone THEN gone \union {t.rule} ELSE gone
     /\ ipTask' = [ipTask EXCEPT ![a] = NoIpTask]
     /\ UNCHANGED <<ipTable, firm, ipFaults>>

\* The reload fails after the row is gone: the rule stays in force, and a
\* second RemoveRule finds no row to delete.
ReloadFails(a) ==
  /\ ipTask[a].pc = "query"
  /\ ipFaults < MaxIpFaults
  /\ ipFaults' = ipFaults + 1
  /\ ipTask' = [ipTask EXCEPT ![a] = NoIpTask]
  /\ UNCHANGED <<ipTable, ipRules, firm, gone>>

IpInit(rows) ==
  /\ ipTable = rows
  /\ ipRules = rows
  /\ ipTask = [a \in Admins |-> NoIpTask]
  /\ firm = rows
  /\ gone = {}
  /\ ipFaults = 0

IpStep(a) ==
  \/ \E r \in Rules : InsertRule(a, r) \/ DeleteRule(a, r)
  \/ AppendRule(a) \/ QueryRules(a) \/ SwapRules(a) \/ ReloadFails(a)

-----------------------------------------------------------------------------
(* Properties *)

\* A rule that was added while no other administrator was at work stays in
\* force until someone begins to remove it, whatever reloads go on meanwhile,
\* and a rule removed in the same way never comes back.
RulesInForce == firm \subseteq ipRules /\ gone \cap ipRules = {}
=============================================================================
