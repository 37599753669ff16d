--------------------------- MODULE Admission_proofs ---------------------------
(***************************************************************************)
(* Theorems about Admission, for any requests, administrators, rules,      *)
(* keys, limits and setups: the rules, the keys and the limits a request   *)
(* is judged by.                                                           *)
(***************************************************************************)
EXTENDS Admission, WellFoundedInduction, SequenceTheorems, TLAPS

-----------------------------------------------------------------------------
(* The rules                                                               *)

IpTasks == [pc : {"idle", "append", "query", "swap"}, rule : Rules \union {None},
            rows : SUBSET Rules, alone : BOOLEAN]

IpTypes ==
  /\ ipTable \subseteq Rules /\ ipRules \subseteq Rules
  /\ firm \subseteq Rules /\ gone \subseteq Rules
  /\ ipTask \in [Admins -> IpTasks]

\* An operation that is still alone runs by itself.
Alone ==
  \A a \in Admins : Busy(a) /\ ipTask[a].alone => \A b \in Admins \ {a} : ~Busy(b)

\* A rule about to be appended has not been removed, and nobody else has
\* touched the row of an operation that is alone.
RowsOfTasks ==
  \A a \in Admins :
    /\ ipTask[a].pc = "append" =>
          /\ ipTask[a].rule \in Rules \ gone
          /\ ipTask[a].alone => ipTask[a].rule \in ipTable
    /\ ipTask[a].pc \in {"query", "swap"} =>
          /\ ipTask[a].rule \in Rules
          /\ ipTask[a].alone => ipTask[a].rule \notin ipTable
    /\ ipTask[a].pc = "swap" =>
          /\ firm \subseteq ipTask[a].rows /\ gone \intersect ipTask[a].rows = {}
          /\ ipTask[a].alone => ipTask[a].rule \notin ipTask[a].rows

\* What the table says of the rules that are settled, and the copies with it.
IpInv ==
  /\ IpTypes /\ Alone /\ RowsOfTasks
  /\ firm \subseteq ipTable /\ gone \intersect ipTable = {}
  /\ RulesInForce

LEMMA IpStart == Init => IpInv
<1>. SUFFICES ASSUME Init PROVE IpInv
  OBVIOUS
<1>1. setup.rules \subseteq Rules
  BY SetupAssumption DEF Init
<1>2. NoIpTask \in IpTasks
  BY DEF NoIpTask, IpTasks
<1>. QED
  BY <1>1, <1>2 DEF Init, IpInit, IpInv, IpTypes, Alone, RowsOfTasks, RulesInForce, Busy,
     NoIpTask

\* What a step of one administrator leaves of the tasks of the others.
LEMMA IpBegins ==
  ASSUME IpInv, NEW a \in Admins, NEW label \in {"append", "query"}, NEW r \in Rules,
         ~Busy(a), Begins(a, label, r)
  PROVE  /\ ipTask' \in [Admins -> IpTasks]
         /\ Alone'
         /\ ipTask'[a].pc = label /\ ipTask'[a].rule = r
         /\ \A b \in Admins \ {a} :
              /\ ipTask'[b].pc = ipTask[b].pc /\ ipTask'[b].rule = ipTask[b].rule
              /\ ipTask'[b].rows = ipTask[b].rows /\ ~ipTask'[b].alone
<1>. DEFINE others == \E b \in Admins : Busy(b)
<1>1. ipTask' = [b \in Admins |->
         IF b = a THEN [NoIpTask EXCEPT !.pc = label, !.rule = r, !.alone = ~others]
         ELSE [ipTask[b] EXCEPT !.alone = FALSE]]
  BY DEF Begins
<1>2. others \in BOOLEAN
  OBVIOUS
<1>. HIDE DEF others
<1>3. ipTask'[a] = [NoIpTask EXCEPT !.pc = label, !.rule = r, !.alone = ~others]
  BY <1>1
<1>4. \A b \in Admins : ipTask[b] \in IpTasks
  BY DEF IpInv, IpTypes
<1>5. \A b \in Admins : [ipTask[b] EXCEPT !.alone = FALSE] \in IpTasks
  BY <1>4 DEF IpTasks
<1>6. [NoIpTask EXCEPT !.pc = label, !.rule = r, !.alone = ~others] \in IpTasks
  BY <1>2 DEF IpTasks, NoIpTask
<1>7. ipTask' \in [Admins -> IpTasks]
  BY <1>1, <1>5, <1>6
<1>8. ipTask'[a].pc = label /\ ipTask'[a].rule = r /\ ipTask'[a].alone = ~others
  BY <1>3 DEF NoIpTask
<1>9. \A b \in Admins \ {a} :
         /\ ipTask'[b].pc = ipTask[b].pc /\ ipTask'[b].rule = ipTask[b].rule
         /\ ipTask'[b].rows = ipTask[b].rows /\ ~ipTask'[b].alone
  BY <1>1, <1>4 DEF IpTasks
<1>10. Alone'
  <2>1. ipTask'[a].alone => \A b \in Admins : ~Busy(b)
    <3>1. ipTask'[a].alone = ~others
      BY <1>8
    <3>. QED BY <3>1, Zenon DEF others
  <2>. QED BY <2>1, <1>9 DEF Alone, Busy
<1>. QED BY <1>7, <1>8, <1>9, <1>10

LEMMA IpStepKeeps == ASSUME IpInv, NEW a \in Admins, IpStep(a) PROVE IpInv'
<1>. USE DEF IpInv, RulesInForce
<1>1. \A b \in Admins : ipTask[b] \in IpTasks
  BY DEF IpTypes
<1>2. ASSUME NEW r \in Rules, InsertRule(a, r) PROVE IpInv'
  <2>1. /\ ~Busy(a) /\ Begins(a, "append", r) /\ r \notin gone
        /\ ipTable' = ipTable \union {r}
        /\ ipRules' = ipRules /\ firm' = firm /\ gone' = gone
    BY <1>2 DEF InsertRule
  <2>2. /\ ipTask' \in [Admins -> IpTasks] /\ Alone'
        /\ ipTask'[a].pc = "append" /\ ipTask'[a].rule = r
        /\ \A b \in Admins \ {a} :
             /\ ipTask'[b].pc = ipTask[b].pc /\ ipTask'[b].rule = ipTask[b].rule
             /\ ipTask'[b].rows = ipTask[b].rows /\ ~ipTask'[b].alone
    BY <2>1, IpBegins
  <2>3. RowsOfTasks'
    BY <2>1, <2>2 DEF RowsOfTasks
  <2>. QED BY <2>1, <2>2, <2>3 DEF IpTypes
<1>3. ASSUME NEW r \in Rules, DeleteRule(a, r) PROVE IpInv'
  <2>1. /\ ~Busy(a) /\ Begins(a, "query", r)
        /\ ipTable' = ipTable \ {r} /\ firm' = firm \ {r}
        /\ ipRules' = ipRules /\ gone' = gone
    BY <1>3 DEF DeleteRule
  <2>2. /\ ipTask' \in [Admins -> IpTasks] /\ Alone'
        /\ ipTask'[a].pc = "query" /\ ipTask'[a].rule = r
        /\ \A b \in Admins \ {a} :
             /\ ipTask'[b].pc = ipTask[b].pc /\ ipTask'[b].rule = ipTask[b].rule
             /\ ipTask'[b].rows = ipTask[b].rows /\ ~ipTask'[b].alone
    BY <2>1, IpBegins
  <2>3. RowsOfTasks'
    BY <2>1, <2>2 DEF RowsOfTasks
  <2>. QED BY <2>1, <2>2, <2>3 DEF IpTypes
<1>4. CASE AppendRule(a)
  <2>1. /\ ipTask[a].pc = "append"
        /\ ipRules' = ipRules \union {ipTask[a].rule}
        /\ firm' = IF ipTask[a].alone THEN firm \union {ipTask[a].rule} ELSE firm
        /\ ipTask' = [ipTask EXCEPT ![a] = NoIpTask]
        /\ ipTable' = ipTable /\ gone' = gone
    BY <1>4 DEF AppendRule
  <2>2. ipTask' \in [Admins -> IpTasks] /\ ~Busy(a)'
    BY <2>1 DEF IpTypes, IpTasks, NoIpTask, Busy
  <2>3. \A b \in Admins \ {a} : ipTask'[b] = ipTask[b]
    BY <2>1 DEF IpTypes
  <2>4. Alone'
    BY <2>2, <2>3 DEF Alone, Busy
  <2>5. ipTask[a].alone => \A b \in Admins : ipTask'[b].pc = "idle"
    BY <2>1, <2>2, <2>3 DEF Alone, Busy
  <2>6. RowsOfTasks'
    BY <2>1, <2>2, <2>3, <2>5 DEF RowsOfTasks, Busy
  <2>7. ipTask[a].rule \in Rules \ gone /\ (ipTask[a].alone => ipTask[a].rule \in ipTable)
    BY <2>1 DEF RowsOfTasks
  <2>. QED BY <2>1, <2>2, <2>4, <2>6, <2>7 DEF IpTypes
<1>5. CASE QueryRules(a)
  <2>1. /\ ipTask[a].pc = "query"
        /\ ipTask' = [ipTask EXCEPT ![a].pc = "swap", ![a].rows = ipTable]
        /\ ipTable' = ipTable /\ ipRules' = ipRules /\ firm' = firm /\ gone' = gone
    BY <1>5 DEF QueryRules
  <2>2. /\ ipTask'[a].pc = "swap" /\ ipTask'[a].rows = ipTable
        /\ ipTask'[a].rule = ipTask[a].rule /\ ipTask'[a].alone = ipTask[a].alone
        /\ ipTask' \in [Admins -> IpTasks]
    <3>1. PICK new : new = [ipTask[a] EXCEPT !.pc = "swap", !.rows = ipTable]
      OBVIOUS
    <3>2. ipTask[a] \in IpTasks /\ ipTable \in SUBSET Rules
      BY DEF IpTypes
    <3>3. /\ new.pc = "swap" /\ new.rows = ipTable /\ new \in IpTasks
          /\ new.rule = ipTask[a].rule /\ new.alone = ipTask[a].alone
      BY <3>1, <3>2 DEF IpTasks
    <3>4. ipTask' = [ipTask EXCEPT ![a] = new]
      BY <2>1, <3>1
    <3>. QED BY <3>3, <3>4 DEF IpTypes
  <2>3. \A b \in Admins \ {a} : ipTask'[b] = ipTask[b]
    BY <2>1 DEF IpTypes
  <2>4. Alone'
    BY <2>1, <2>2, <2>3 DEF Alone, Busy
  <2>5. RowsOfTasks'
    BY <2>1, <2>2, <2>3 DEF RowsOfTasks
  <2>. QED BY <2>1, <2>2, <2>4, <2>5 DEF IpTypes
<1>6. CASE SwapRules(a)
  <2>1. /\ ipTask[a].pc = "swap"
        /\ ipRules' = ipTask[a].rows
        /\ gone' = IF ipTask[a].alone THEN gone \union {ipTask[a].rule} ELSE gone
        /\ ipTask' = [ipTask EXCEPT ![a] = NoIpTask]
        /\ ipTable' = ipTable /\ firm' = firm
    BY <1>6 DEF SwapRules
  <2>2. ipTask' \in [Admins -> IpTasks] /\ ~Busy(a)'
    BY <2>1 DEF IpTypes, IpTasks, NoIpTask, Busy
  <2>3. \A b \in Admins \ {a} : ipTask'[b] = ipTask[b]
    BY <2>1 DEF IpTypes
  <2>4. Alone'
    BY <2>2, <2>3 DEF Alone, Busy
  <2>5. ipTask[a].alone => \A b \in Admins : ipTask'[b].pc = "idle"
    BY <2>1, <2>2, <2>3 DEF Alone, Busy
  <2>6. RowsOfTasks'
    BY <2>1, <2>2, <2>3, <2>5 DEF RowsOfTasks, Busy
  <2>7. /\ firm \subseteq ipTask[a].rows /\ gone \intersect ipTask[a].rows = {}
        /\ ipTask[a].rule \in Rules /\ ipTask[a].rows \subseteq Rules
        /\ ipTask[a].alone => ipTask[a].rule \notin ipTask[a].rows \union ipTable
    BY <2>1, <1>1 DEF RowsOfTasks, IpTasks
  <2>8. firm \cap gone' = {}
    BY <2>1, <2>7
  <2>. QED BY <2>1, <2>2, <2>4, <2>6, <2>7 DEF IpTypes
<1>7. CASE ReloadFails(a)
  <2>1. /\ ipTask[a].pc = "query" /\ ipTask' = [ipTask EXCEPT ![a] = NoIpTask]
        /\ ipTable' = ipTable /\ ipRules' = ipRules /\ firm' = firm /\ gone' = gone
    BY <1>7 DEF ReloadFails
  <2>2. ipTask' \in [Admins -> IpTasks] /\ ~Busy(a)'
    BY <2>1 DEF IpTypes, IpTasks, NoIpTask, Busy
  <2>3. \A b \in Admins \ {a} : ipTask'[b] = ipTask[b]
    BY <2>1 DEF IpTypes
  <2>4. Alone' /\ RowsOfTasks'
    BY <2>1, <2>2, <2>3 DEF Alone, RowsOfTasks, Busy
  <2>. QED BY <2>1, <2>2, <2>4 DEF IpTypes
<1>. QED BY <1>2, <1>3, <1>4, <1>5, <1>6, <1>7 DEF IpStep

\* Nothing but an administrator of the rules changes them.
LEMMA OnlyIpSteps == [Next]_vars => UNCHANGED ipVars \/ \E a \in Admins : IpStep(a)
<1>. SUFFICES ASSUME [Next]_vars PROVE UNCHANGED ipVars \/ \E a \in Admins : IpStep(a)
  OBVIOUS
<1>1. ASSUME NEW r \in Requests, Chain(r) PROVE UNCHANGED ipVars
  BY <1>1, Zenon DEF Chain, Arrive, ReadKeys, Authenticate, FilterIP, RateLimit, SkipLimits, LeaveRate,
     EnterQuota, LeaveQuota, Serve, ServeUncounted, Tracked
<1>2. Limiter \/ Quotas \/ KeyAdministration => UNCHANGED ipVars
  BY Zenon DEF Limiter, Quotas, KeyAdministration
<1>3. IpAdministration => \E a \in Admins : IpStep(a)
  BY Zenon DEF IpAdministration
<1>4. UNCHANGED vars => UNCHANGED ipVars
  BY Zenon DEF vars
<1>. QED BY <1>1, <1>2, <1>3, <1>4, Zenon DEF Next

\* However many administrators are at work, a rule added while no other was
\* stays in force until it is removed, and one removed so stays away.
THEOREM RulesStayAsSet == Spec => []RulesInForce
<1>1. IpInv /\ [Next]_vars => IpInv'
  <2>. SUFFICES ASSUME IpInv, [Next]_vars PROVE IpInv'
    OBVIOUS
  <2>1. CASE UNCHANGED ipVars
    BY <2>1 DEF ipVars, IpInv, IpTypes, Alone, RowsOfTasks, RulesInForce, Busy
  <2>. QED BY <2>1, OnlyIpSteps, IpStepKeeps
<1>2. IpInv => RulesInForce
  BY DEF IpInv
<1>. QED BY IpStart, <1>1, <1>2, PTL DEF Spec

-----------------------------------------------------------------------------
(* The keys                                                                *)

KeyRows == [status : {"active", "revoked"}, expires : Int \union {Never}]

KeyTypes ==
  /\ keys \in [KeyIds -> KeyRows \union {None}]
  /\ keyClock \in Int /\ keyFaults \in Nat
  /\ rotation \in [pc : {"idle", "expire", "create"}, old : KeyIds \union {None},
                   expires : Int \union {Never}]

\* A rotation knows the row of the key it replaces: until that is given its
\* grace period the rotation holds its expiry, and then the period has not
\* run out before the new key exists.
RotationKnows ==
  /\ rotation.pc # "idle" => rotation.old \in KeyIds /\ keys[rotation.old] # None
  /\ rotation.pc = "expire" => rotation.expires = keys[rotation.old].expires
  /\ rotation.pc = "create" =>
       keys[rotation.old].expires \in Int /\ keyClock <= keys[rotation.old].expires

\* A key without expiry exists, or a rotation is about to make one.
Lasting ==
  keyFaults = 0 =>
    \/ \E k \in KeyIds : keys[k] # None /\ keys[k].expires = Never
    \/ rotation.pc = "create" /\ rotation.expires = Never

KeyInv ==
  /\ KeyTypes /\ RotationKnows /\ Lasting
  /\ revoked = {} => \A k \in KeyIds : keys[k] # None => keys[k].status = "active"

LEMMA NoneIsNoRow == None \notin KeyRows
BY KeyAssumption DEF KeyRows

LEMMA KeyStart == Init => KeyInv
<1>. SUFFICES ASSUME Init PROVE KeyInv
  OBVIOUS
<1>1. keys[FirstKey] = [status |-> "active", expires |-> Never]
  BY KeyAssumption DEF Init, KeyInit
<1>2. [status |-> "active", expires |-> Never] \in KeyRows
  BY DEF KeyRows
<1>3. keys \in [KeyIds -> KeyRows \union {None}]
  BY <1>2 DEF Init, KeyInit
<1>4. \A k \in KeyIds : keys[k] # None => keys[k].status = "active"
  BY DEF Init, KeyInit
<1>5. Lasting
  BY <1>1, <1>2, NoneIsNoRow, KeyAssumption DEF Lasting
<1>6. KeyTypes
  BY <1>3 DEF Init, KeyInit, KeyTypes, NoRotation
<1>7. RotationKnows
  BY DEF Init, KeyInit, RotationKnows, NoRotation
<1>. QED BY <1>4, <1>5, <1>6, <1>7 DEF KeyInv

LEMMA KeyStepKeeps == KeyInv /\ KeyStep => KeyInv'
<1>. SUFFICES ASSUME KeyInv, KeyStep PROVE KeyInv'
  OBVIOUS
<1>. USE NoneIsNoRow, KeyAssumption DEF KeyInv, KeyTypes
<1>1. ASSUME NEW k \in KeyIds, RevokeKey(k) PROVE KeyInv'
  <2>1. /\ keys[k] \in KeyRows /\ keys' = [keys EXCEPT ![k].status = "revoked"]
        /\ revoked' = revoked \union {k}
        /\ keyClock' = keyClock /\ rotation' = rotation /\ keyFaults' = keyFaults
    BY <1>1 DEF RevokeKey
  <2>2. [keys[k] EXCEPT !.status = "revoked"] \in KeyRows
    BY <2>1 DEF KeyRows
  <2>3. keys' \in [KeyIds -> KeyRows \union {None}]
    BY <2>1, <2>2
  <2>4. \A j \in KeyIds : /\ (keys'[j] = None) <=> (keys[j] = None)
                          /\ keys[j] # None => keys'[j].expires = keys[j].expires
    BY <2>1, <2>2 DEF KeyRows
  <2>. QED BY <2>1, <2>3, <2>4 DEF RotationKnows, Lasting
<1>2. ASSUME NEW k \in KeyIds, ReadOldKey(k) PROVE KeyInv'
  <2>1. /\ rotation.pc = "idle" /\ keys[k] \in KeyRows
        /\ rotation' = [pc |-> "expire", old |-> k, expires |-> keys[k].expires]
        /\ UNCHANGED <<keyClock, keys, revoked, keyFaults>>
    BY <1>2 DEF ReadOldKey
  <2>2. keys[k].expires \in Int \union {Never}
    BY <2>1 DEF KeyRows
  <2>. QED BY <2>1, <2>2 DEF RotationKnows, Lasting
<1>3. CASE ExpireOldKey
  <2>. DEFINE old == rotation.old
  <2>1. /\ rotation.pc = "expire" /\ old \in KeyIds /\ keys[old] \in KeyRows
        /\ rotation.expires = keys[old].expires
        /\ keys' = [keys EXCEPT ![old].expires = keyClock + Grace]
        /\ rotation' = [rotation EXCEPT !.pc = "create"]
        /\ UNCHANGED <<keyClock, revoked, keyFaults>>
    BY <1>3 DEF ExpireOldKey, RotationKnows
  <2>. HIDE DEF old
  <2>2. /\ keys'[old] = [keys[old] EXCEPT !.expires = keyClock + Grace]
        /\ \A j \in KeyIds \ {old} : keys'[j] = keys[j]
    BY <2>1
  <2>3. /\ keys'[old] \in KeyRows /\ keys'[old].expires = keyClock + Grace
        /\ keys'[old].status = keys[old].status
    BY <2>1, <2>2 DEF KeyRows
  <2>4. keys' \in [KeyIds -> KeyRows \union {None}]
    BY <2>1, <2>2, <2>3
  <2>5. /\ rotation'.pc = "create" /\ rotation'.old = old
        /\ rotation'.expires = keys[old].expires
        /\ rotation' \in [pc : {"idle", "expire", "create"}, old : KeyIds \union {None},
                          expires : Int \union {Never}]
    BY <2>1 DEF old
  <2>6. KeyTypes'
    BY <2>1, <2>4, <2>5
  <2>7. RotationKnows'
    <3>1. keyClock + Grace \in Int /\ keyClock <= keyClock + Grace
      OBVIOUS
    <3>. QED BY <2>1, <2>3, <2>5, <3>1 DEF RotationKnows
  <2>8. Lasting'
    <3>. SUFFICES ASSUME keyFaults = 0, keys[old].expires # Never
                  PROVE  \E k \in KeyIds : keys'[k] # None /\ keys'[k].expires = Never
      BY <2>1, <2>5 DEF Lasting
    <3>1. PICK k \in KeyIds : keys[k] # None /\ keys[k].expires = Never
      BY <2>1 DEF Lasting
    <3>2. k # old
      BY <3>1
    <3>. QED BY <2>2, <3>1, <3>2
  <2>9. revoked = {} => \A k \in KeyIds : keys'[k] # None => keys'[k].status = "active"
    BY <2>1, <2>2, <2>3
  <2>. QED BY <2>1, <2>6, <2>7, <2>8, <2>9
<1>4. CASE CreateKey
  <2>. DEFINE new == [status |-> "active", expires |-> rotation.expires]
  <2>1. PICK k \in KeyIds :
           /\ rotation.pc = "create" /\ keys[k] = None
           /\ keys' = [keys EXCEPT ![k] = new]
           /\ rotation' = NoRotation
           /\ UNCHANGED <<keyClock, revoked, keyFaults>>
    BY <1>4 DEF CreateKey
  <2>2. new \in KeyRows
    BY DEF KeyRows
  <2>3. /\ keys'[k] = new
        /\ \A j \in KeyIds \ {k} : keys'[j] = keys[j]
        /\ keys' \in [KeyIds -> KeyRows \union {None}]
    BY <2>1, <2>2
  <2>4. KeyTypes' /\ RotationKnows'
    BY <2>1, <2>3 DEF NoRotation, RotationKnows
  <2>5. new.status = "active" /\ new.expires = rotation.expires
    OBVIOUS
  <2>. HIDE DEF new
  <2>6. Lasting'
    <3>. SUFFICES ASSUME keyFaults = 0
                  PROVE  \E j \in KeyIds : keys'[j] # None /\ keys'[j].expires = Never
      BY <2>1 DEF Lasting
    <3>1. CASE rotation.expires = Never
      BY <3>1, <2>2, <2>3, <2>5
    <3>2. CASE rotation.expires # Never
      <4>1. PICK j \in KeyIds : keys[j] # None /\ keys[j].expires = Never
        BY <3>2 DEF Lasting
      <4>. QED BY <4>1, <2>1, <2>3
    <3>. QED BY <3>1, <3>2
  <2>7. revoked = {} => \A j \in KeyIds : keys'[j] # None => keys'[j].status = "active"
    BY <2>3, <2>5
  <2>. QED BY <2>1, <2>4, <2>6, <2>7
<1>5. CASE RotationFails
  BY <1>5 DEF RotationFails, NoRotation, RotationKnows, Lasting
<1>6. CASE KeyTick
  <2>1. /\ rotation.pc = "create" => keyClock < keys[rotation.old].expires
        /\ keyClock' = keyClock + 1
        /\ UNCHANGED <<keys, rotation, revoked, keyFaults>>
    BY <1>6 DEF KeyTick
  <2>. QED BY <2>1 DEF RotationKnows, Lasting
<1>. QED BY <1>1, <1>2, <1>3, <1>4, <1>5, <1>6 DEF KeyStep

LEMMA OnlyKeySteps == [Next]_vars => UNCHANGED keyVars \/ KeyStep
<1>. SUFFICES ASSUME [Next]_vars PROVE UNCHANGED keyVars \/ KeyStep
  OBVIOUS
<1>1. ASSUME NEW r \in Requests, Chain(r) PROVE UNCHANGED keyVars
  BY <1>1, Zenon DEF Chain, Arrive, ReadKeys, Authenticate, FilterIP, RateLimit, SkipLimits, LeaveRate,
     EnterQuota, LeaveQuota, Serve, ServeUncounted, Tracked
<1>2. Limiter \/ Quotas \/ IpAdministration => UNCHANGED keyVars
  BY Zenon DEF Limiter, Quotas, IpAdministration
<1>3. KeyAdministration => KeyStep
  BY Zenon DEF KeyAdministration
<1>4. UNCHANGED vars => UNCHANGED keyVars
  BY Zenon DEF vars
<1>. QED BY <1>1, <1>2, <1>3, <1>4, Zenon DEF Next

\* However often a key is rotated and however the rotations fall in time, a
\* tenant who starts with a lasting key is never left without a valid one,
\* provided that no rotation outlasts the grace period it grants.
THEOREM NeverWithoutAKey == Spec => []AlwaysAKey
<1>1. KeyInv /\ [Next]_vars => KeyInv'
  <2>. SUFFICES ASSUME KeyInv, [Next]_vars PROVE KeyInv'
    OBVIOUS
  <2>1. CASE UNCHANGED keyVars
    BY <2>1 DEF keyVars, KeyInv, KeyTypes, RotationKnows, Lasting
  <2>. QED BY <2>1, OnlyKeySteps, KeyStepKeeps
<1>2. KeyInv => AlwaysAKey
  <2>. SUFFICES ASSUME KeyInv, revoked = {}, keyFaults = 0
                PROVE  \E k \in KeyIds : ValidateKey(keys, k, keyClock)
    BY DEF AlwaysAKey
  <2>. USE NoneIsNoRow, KeyAssumption DEF KeyInv, KeyTypes, ValidateKey, IsExpired
  <2>1. CASE \E k \in KeyIds : keys[k] # None /\ keys[k].expires = Never
    BY <2>1
  <2>2. CASE rotation.pc = "create"
    BY <2>2 DEF RotationKnows
  <2>. QED BY <2>1, <2>2 DEF Lasting
<1>. QED BY KeyStart, <1>1, <1>2, PTL DEF Spec

-----------------------------------------------------------------------------
(* The limits                                                              *)

\* Induction over the natural numbers, by the least one that fails.
LEMMA LeastNumber ==
  ASSUME NEW S \in SUBSET Nat, S # {}
  PROVE  \E n \in S : \A m \in S : n <= m
<1>1. IsWellFoundedOn(OpToRel(<, Nat), Nat)
  BY NatLessThanWellFounded
<1>2. PICK n \in S : \A m \in S : ~(<<m, n>> \in OpToRel(<, Nat))
  BY <1>1, WFMin
<1>3. \A m \in S : ~(m < n)
  BY <1>2 DEF OpToRel
<1>. QED BY <1>3

\* f is the recursive function of ValidRequests on the first n times.
Filters(f, times, cutoff, n) ==
  f = [i \in 0 .. n |->
         IF i = 0 THEN <<>>
         ELSE IF times[i] > cutoff THEN Append(f[i - 1], times[i]) ELSE f[i - 1]]

LEMMA FiltersExists ==
  ASSUME NEW times, NEW cutoff, NEW n \in Nat
  PROVE  \E f : Filters(f, times, cutoff, n)
<1>. DEFINE Bad == {m \in Nat : ~ \E f : Filters(f, times, cutoff, m)}
<1>1. CASE Bad = {}
  BY <1>1
<1>2. CASE Bad # {}
  <2>1. PICK m \in Bad : \A j \in Bad : m <= j
    <3>1. Bad \in SUBSET Nat
      OBVIOUS
    <3>. HIDE DEF Bad
    <3>. QED BY <1>2, <3>1, LeastNumber
  <2>2. m # 0
    <3>1. Filters([i \in 0 .. 0 |-> <<>>], times, cutoff, 0)
      <4>1. \A i \in 0 .. 0 : i = 0
        OBVIOUS
      <4>. QED BY <4>1 DEF Filters
    <3>. QED BY <2>1, <3>1
  <2>3. m - 1 \in Nat /\ m - 1 \notin Bad
    BY <2>1, <2>2
  <2>4. PICK f : Filters(f, times, cutoff, m - 1)
    BY <2>3
  <2>. DEFINE Rest(g, i) == IF i = 0 THEN <<>>
                            ELSE IF times[i] > cutoff THEN Append(g[i - 1], times[i])
                            ELSE g[i - 1]
              g == [i \in 0 .. m |-> Rest(f, i)]
  <2>5. f = [i \in 0 .. m - 1 |-> Rest(f, i)]
    BY <2>4 DEF Filters
  <2>6. \A i \in 0 .. m - 1 : g[i] = f[i]
    <3>1. \A i \in 0 .. m - 1 : f[i] = Rest(f, i)
      <4>. HIDE DEF Rest
      <4>. QED BY <2>5
    <3>2. \A i \in 0 .. m - 1 : g[i] = Rest(f, i)
      <4>. HIDE DEF Rest
      <4>. QED OBVIOUS
    <3>. QED BY <3>1, <3>2
  <2>7. \A i \in 0 .. m : Rest(f, i) = Rest(g, i)
    <3>. SUFFICES ASSUME NEW i \in 0 .. m PROVE Rest(f, i) = Rest(g, i)
      OBVIOUS
    <3>1. CASE i = 0
      BY <3>1
    <3>2. CASE i # 0
      <4>1. i - 1 \in 0 .. m - 1
        BY <2>1, <3>2
      <4>2. g[i - 1] = f[i - 1]
        BY <2>6, <4>1
      <4>. HIDE DEF g
      <4>. QED BY <4>2, Zenon
    <3>. QED BY <3>1, <3>2
  <2>8. g = [i \in 0 .. m |-> Rest(g, i)]
    BY <2>7
  <2>9. Filters(g, times, cutoff, m)
    <3>. HIDE DEF g
    <3>. QED BY <2>8 DEF Filters
  <2>. QED BY <2>1, <2>9
<1>. QED BY <1>1, <1>2

LEMMA ValidIsFiltered ==
  ASSUME NEW times \in Seq(Int), NEW cutoff
  PROVE  \E f : /\ Filters(f, times, cutoff, Len(times))
                /\ ValidRequests(times, cutoff) = f[Len(times)]
<1>1. ValidRequests(times, cutoff)
        = (CHOOSE f : Filters(f, times, cutoff, Len(times)))[Len(times)]
  BY Zenon DEF ValidRequests, Filters
<1>2. Len(times) \in Nat
  OBVIOUS
<1>. QED BY <1>1, <1>2, FiltersExists

LEMMA FiltersStep ==
  ASSUME NEW times, NEW cutoff, NEW n \in Nat, NEW f, Filters(f, times, cutoff, n),
         NEW i \in 0 .. n
  PROVE  f[i] = IF i = 0 THEN <<>>
                ELSE IF times[i] > cutoff THEN Append(f[i - 1], times[i]) ELSE f[i - 1]
<1>1. f = [j \in 0 .. n |->
             IF j = 0 THEN <<>>
             ELSE IF times[j] > cutoff THEN Append(f[j - 1], times[j]) ELSE f[j - 1]]
  BY DEF Filters
<1>. QED BY <1>1, Zenon

\* v is what is left of the first i times.
Sifted(v, i, times, cutoff) ==
  /\ v \in Seq(Int) /\ Len(v) <= i
  /\ \A j \in 1 .. Len(v) : v[j] > cutoff
  /\ Len(v) = i => \A j \in 1 .. i : v[j] = times[j] /\ times[j] > cutoff

LEMMA FiltersSift ==
  ASSUME NEW times \in Seq(Int), NEW cutoff \in Int, NEW f, Filters(f, times, cutoff, Len(times))
  PROVE  Sifted(f[Len(times)], Len(times), times, cutoff)
<1>. DEFINE Bad == {i \in 0 .. Len(times) : ~Sifted(f[i], i, times, cutoff)}
<1>1. Len(times) \in 0 .. Len(times)
  OBVIOUS
<1>2. CASE Bad = {}
  BY <1>1, <1>2
<1>3. CASE Bad # {}
  <2>1. PICK m \in Bad : \A j \in Bad : m <= j
    <3>1. Bad \in SUBSET Nat
      OBVIOUS
    <3>. HIDE DEF Bad
    <3>. QED BY <1>3, <3>1, LeastNumber
  <2>2. m \in 0 .. Len(times) /\ ~Sifted(f[m], m, times, cutoff)
    OBVIOUS
  <2>3. m # 0
    <3>1. 0 \in 0 .. Len(times) /\ Len(times) \in Nat
      OBVIOUS
    <3>2. f[0] = <<>>
      BY <3>1, FiltersStep
    <3>3. Sifted(<<>>, 0, times, cutoff)
      BY DEF Sifted
    <3>. QED BY <2>2, <3>2, <3>3
  <2>4. Sifted(f[m - 1], m - 1, times, cutoff)
    <3>1. m - 1 \in 0 .. Len(times) /\ m - 1 < m
      BY <2>2, <2>3
    <3>. QED BY <2>1, <3>1
  <2>5. PICK s : s = f[m - 1]
    OBVIOUS
  <2>6. f[m] = IF times[m] > cutoff THEN Append(s, times[m]) ELSE s
    <3>1. Len(times) \in Nat
      OBVIOUS
    <3>. QED BY <2>2, <2>3, <2>5, <3>1, FiltersStep
  <2>7. times[m] \in Int
    BY <2>2, <2>3
  <2>8. times[m] > cutoff => Sifted(Append(s, times[m]), m, times, cutoff)
    <3>. SUFFICES ASSUME times[m] > cutoff PROVE Sifted(Append(s, times[m]), m, times, cutoff)
      OBVIOUS
    <3>1. PICK v : v = Append(s, times[m])
      OBVIOUS
    <3>2. /\ s \in Seq(Int) /\ Len(s) <= m - 1
          /\ \A j \in 1 .. Len(s) : s[j] > cutoff
          /\ Len(s) = m - 1 => \A j \in 1 .. m - 1 : s[j] = times[j] /\ times[j] > cutoff
      BY <2>4, <2>5 DEF Sifted
    <3>3. /\ v \in Seq(Int) /\ Len(v) = Len(s) + 1 /\ v[Len(s) + 1] = times[m]
          /\ \A j \in 1 .. Len(s) : v[j] = s[j]
      BY <2>7, <3>1, <3>2
    <3>4. \A j \in 1 .. Len(v) : v[j] > cutoff
      <4>. SUFFICES ASSUME NEW j \in 1 .. Len(v) PROVE v[j] > cutoff
        OBVIOUS
      <4>1. CASE j = Len(s) + 1
        BY <3>3, <4>1
      <4>2. CASE j # Len(s) + 1
        <5>1. j \in 1 .. Len(s)
          BY <3>2, <3>3, <4>2
        <5>. QED BY <3>2, <3>3, <5>1
      <4>. QED BY <4>1, <4>2
    <3>5. ASSUME Len(v) = m, NEW j \in 1 .. m PROVE v[j] = times[j] /\ times[j] > cutoff
      <4>1. Len(s) = m - 1
        BY <2>2, <3>2, <3>3, <3>5
      <4>2. CASE j = m
        BY <2>2, <3>3, <4>1, <4>2
      <4>3. CASE j # m
        <5>1. j \in 1 .. m - 1
          BY <2>2, <4>3
        <5>. QED BY <3>2, <3>3, <4>1, <5>1
      <4>. QED BY <4>2, <4>3
    <3>6. v \in Seq(Int) /\ Len(v) <= m
      BY <2>2, <3>2, <3>3
    <3>7. Sifted(v, m, times, cutoff)
      BY <3>4, <3>5, <3>6, Zenon DEF Sifted
    <3>. QED BY <3>1, <3>7
  <2>9. ~(times[m] > cutoff) => Sifted(s, m, times, cutoff)
    BY <2>2, <2>4, <2>5 DEF Sifted
  <2>. QED BY <2>2, <2>6, <2>8, <2>9
<1>. QED BY <1>2, <1>3

\* The valid requests are at most the requests, and all of them only if every
\* one is after the cutoff.
LEMMA ValidRequestsAre ==
  ASSUME NEW times \in Seq(Int), NEW cutoff \in Int
  PROVE  LET valid == ValidRequests(times, cutoff)
         IN /\ valid \in Seq(Int) /\ Len(valid) <= Len(times)
            /\ \A i \in DOMAIN valid : valid[i] > cutoff
            /\ Len(valid) = Len(times) =>
                 valid = times /\ \A i \in DOMAIN times : times[i] > cutoff
<1>1. PICK f : /\ Filters(f, times, cutoff, Len(times))
               /\ ValidRequests(times, cutoff) = f[Len(times)]
  BY ValidIsFiltered
<1>2. PICK v : v = ValidRequests(times, cutoff)
  OBVIOUS
<1>3. Sifted(v, Len(times), times, cutoff)
  BY <1>1, <1>2, FiltersSift
<1>4. Len(v) = Len(times) => v = times
  <2>. SUFFICES ASSUME Len(v) = Len(times) PROVE v = times
    OBVIOUS
  <2>1. v \in Seq(Int) /\ \A j \in 1 .. Len(v) : v[j] = times[j]
    BY <1>3 DEF Sifted
  <2>. QED BY <2>1, SeqEqual
<1>. QED BY <1>2, <1>3, <1>4 DEF Sifted

Counters == [count : Int, since : Int, times : Seq(Int)]

\* A counter k of limit l lets a request that read the clock at t pass.
Admits(k, t, l) == CheckLimit(k, t, l).allowed

\* A sliding window never holds more requests than the limit.
Fits(k, l) == Alg(l) = "sliding_window" => Len(k.times) <= Limit(l)

LEMMA LimitFacts ==
  ASSUME rateLimits \in Seq(LimitRows), NEW l \in Limits
  PROVE  /\ Window(l) \in Nat /\ Window(l) >= 1 /\ Limit(l) \in Nat /\ Limit(l) >= 1
         /\ Alg(l) \in Algorithms
         /\ l \in Nat /\ l >= 1
<1>1. rateLimits[l] \in LimitRows /\ l \in 1 .. Len(rateLimits)
  BY DEF Limits
<1>. QED BY <1>1 DEF LimitRows, Window, Limit, Alg

Counter(n, t, ts) == [count |-> n, since |-> t, times |-> ts]

LEMMA CounterIs ==
  ASSUME NEW k \in Counters
  PROVE  /\ k = Counter(k.count, k.since, k.times)
         /\ k.count \in Int /\ k.since \in Int /\ k.times \in Seq(Int)
BY DEF Counter, Counters

LEMMA CounterUpdates ==
  ASSUME NEW k \in Counters, NEW x, NEW t
  PROVE  /\ [k EXCEPT !.count = x] = Counter(x, k.since, k.times)
         /\ [k EXCEPT !.times = x] = Counter(k.count, k.since, x)
         /\ [k EXCEPT !.count = x, !.since = t] = Counter(x, t, k.times)
<1>1. PICK z : z = [k EXCEPT !.count = x]
  OBVIOUS
<1>2. z = Counter(x, k.since, k.times)
  BY <1>1 DEF Counters, Counter
<1>3. [k EXCEPT !.count = x, !.since = t] = [z EXCEPT !.since = t]
  BY <1>1
<1>4. [z EXCEPT !.since = t] = Counter(x, t, k.times)
  BY <1>2 DEF Counter
<1>5. [k EXCEPT !.times = x] = Counter(k.count, k.since, x)
  BY DEF Counters, Counter
<1>. QED BY <1>1, <1>2, <1>3, <1>4, <1>5

\* What the check of each algorithm comes to.
LEMMA FixedWindowIs ==
  ASSUME rateLimits \in Seq(LimitRows), NEW l \in Limits, NEW k \in Counters, NEW t \in Int
  PROVE  LET v == checkFixedWindow(k, t, l)
         IN /\ v.allowed <=> t - k.since >= Window(l) \/ k.count < Limit(l)
            /\ v.counter \in Counters /\ v.counter.times = k.times
            /\ v.allowed /\ t - k.since >= Window(l) => v.counter.count = 1 /\ v.counter.since = t
            /\ v.allowed /\ ~(t - k.since >= Window(l)) =>
                 v.counter.count = k.count + 1 /\ v.counter.since = k.since
            /\ ~v.allowed => v.counter = k /\ v.retryAfter = k.since + Window(l) - t
<1>1. PICK W \in Nat : W = Window(l) /\ W >= 1
  BY LimitFacts
<1>2. PICK L \in Nat : L = Limit(l) /\ L >= 1
  BY LimitFacts
<1>3. PICK n \in Int, u \in Int, ts \in Seq(Int) : k = Counter(n, u, ts)
  BY CounterIs
<1>4. k.count = n /\ k.since = u /\ k.times = ts
  BY <1>3 DEF Counter, Counters
<1>. DEFINE m == IF t - u >= W THEN 0 ELSE n
            w == IF t - u >= W THEN t ELSE u
<1>5. PICK s : s = IF t - u >= W THEN Counter(0, t, ts) ELSE k
  OBVIOUS
<1>6. /\ s = Counter(m, w, ts) /\ s \in Counters /\ m \in Int /\ w \in Int
      /\ s.count = m /\ s.since = w /\ [s EXCEPT !.count = m + 1] = Counter(m + 1, w, ts)
  <2>1. s = Counter(m, w, ts) /\ m \in Int /\ w \in Int
    BY <1>3, <1>5
  <2>. HIDE DEF m, w
  <2>2. s \in Counters /\ s.count = m /\ s.since = w /\ s.times = ts
    BY <2>1 DEF Counter, Counters
  <2>3. [s EXCEPT !.count = m + 1] = Counter(m + 1, s.since, s.times)
    BY <2>2, CounterUpdates
  <2>. QED BY <2>1, <2>2, <2>3
<1>7. [k EXCEPT !.count = 0, !.since = t] = Counter(0, t, ts)
  BY <1>4, CounterUpdates
<1>8. checkFixedWindow(k, t, l) =
        IF s.count >= L THEN Verdict(FALSE, s, s.since + W - t)
        ELSE Verdict(TRUE, [s EXCEPT !.count = s.count + 1], 0)
  <2>1. s = IF t - k.since >= Window(l) THEN [k EXCEPT !.count = 0, !.since = t] ELSE k
    BY <1>1, <1>4, <1>5, <1>7
  <2>2. checkFixedWindow(k, t, l) =
          IF s.count >= Limit(l) THEN Verdict(FALSE, s, s.since + Window(l) - t)
          ELSE Verdict(TRUE, [s EXCEPT !.count = s.count + 1], 0)
    BY <2>1 DEF checkFixedWindow
  <2>. QED BY <1>1, <1>2, <2>2
<1>9. checkFixedWindow(k, t, l) =
        IF m >= L THEN Verdict(FALSE, s, w + W - t) ELSE Verdict(TRUE, Counter(m + 1, w, ts), 0)
  BY <1>6, <1>8
<1>10. /\ Counter(m + 1, w, ts) \in Counters /\ Counter(m + 1, w, ts).times = ts
       /\ Counter(m + 1, w, ts).count = m + 1 /\ Counter(m + 1, w, ts).since = w
  BY <1>6 DEF Counter, Counters
<1>11. CASE m >= L
  <2>1. ~(t - u >= W) /\ ~(n < L)
    BY <1>2, <1>11
  <2>2. s = k /\ w = u
    BY <1>5, <2>1
  <2>3. checkFixedWindow(k, t, l) = Verdict(FALSE, k, u + W - t)
    BY <1>9, <1>11, <2>2
  <2>. QED BY <1>1, <1>2, <1>4, <2>1, <2>3 DEF Verdict
<1>12. CASE ~(m >= L)
  <2>1. t - u >= W \/ n < L
    BY <1>2, <1>12
  <2>2. checkFixedWindow(k, t, l) = Verdict(TRUE, Counter(m + 1, w, ts), 0)
    BY <1>9, <1>12
  <2>3. /\ t - u >= W => m + 1 = 1 /\ w = t
        /\ ~(t - u >= W) => m + 1 = n + 1 /\ w = u
    OBVIOUS
  <2>. HIDE DEF m, w
  <2>. QED BY <1>1, <1>2, <1>4, <1>10, <2>1, <2>2, <2>3 DEF Verdict
<1>. QED BY <1>11, <1>12

LEMMA SlidingWindowIs ==
  ASSUME rateLimits \in Seq(LimitRows), NEW l \in Limits, NEW k \in Counters, NEW t \in Int,
         Len(k.times) <= Limit(l)
  PROVE  LET v == checkSlidingWindow(k, t, l)
         IN /\ v.allowed <=> Len(ValidRequests(k.times, t - Window(l))) < Limit(l)
            /\ v.counter \in Counters /\ Len(v.counter.times) <= Limit(l)
            /\ v.allowed =>
                 v.counter.times = Append(ValidRequests(k.times, t - Window(l)), t)
            /\ ~v.allowed =>
                 /\ v.counter = k /\ v.retryAfter = k.times[1] + Window(l) - t
                 /\ Len(k.times) = Limit(l) /\ \A i \in DOMAIN k.times : k.times[i] > t - Window(l)
<1>1. PICK W \in Nat : W = Window(l) /\ W >= 1
  BY LimitFacts
<1>2. PICK L \in Nat : L = Limit(l) /\ L >= 1
  BY LimitFacts
<1>3. PICK n \in Int, u \in Int, ts \in Seq(Int) : k = Counter(n, u, ts)
  BY CounterIs
<1>4. k.times = ts /\ \A us : [k EXCEPT !.times = us] = Counter(n, u, us)
  BY <1>3 DEF Counter, Counters
<1>5. PICK valid : valid = ValidRequests(ts, t - W)
  OBVIOUS
<1>6. /\ valid \in Seq(Int) /\ Len(valid) <= Len(ts)
      /\ Len(valid) = Len(ts) => valid = ts /\ \A i \in DOMAIN ts : ts[i] > t - W
  <2>1. t - W \in Int
    OBVIOUS
  <2>. QED BY <1>5, <2>1, ValidRequestsAre
<1>7. checkSlidingWindow(k, t, l) =
        IF Len(valid) >= L THEN Verdict(FALSE, Counter(n, u, valid), valid[1] + W - t)
        ELSE Verdict(TRUE, Counter(n, u, Append(valid, t)), 0)
  BY <1>1, <1>2, <1>4, <1>5, Zenon DEF checkSlidingWindow
<1>8. Append(valid, t) \in Seq(Int) /\ Len(Append(valid, t)) = Len(valid) + 1
  BY <1>6
<1>9. CASE Len(valid) >= L
  <2>1. valid = ts /\ Len(ts) = L /\ \A i \in DOMAIN ts : ts[i] > t - W
    BY <1>2, <1>4, <1>6, <1>9
  <2>2. checkSlidingWindow(k, t, l) = Verdict(FALSE, k, ts[1] + W - t)
    BY <1>3, <1>7, <1>9, <2>1
  <2>. QED BY <1>1, <1>2, <1>4, <1>5, <1>9, <2>1, <2>2 DEF Verdict
<1>10. CASE ~(Len(valid) >= L)
  <2>1. Counter(n, u, Append(valid, t)) \in Counters
    BY <1>8 DEF Counter, Counters
  <2>2. Counter(n, u, Append(valid, t)).times = Append(valid, t)
    BY DEF Counter, Counters
  <2>3. checkSlidingWindow(k, t, l) = Verdict(TRUE, Counter(n, u, Append(valid, t)), 0)
    BY <1>7, <1>10
  <2>4. Len(valid) < L /\ Len(Append(valid, t)) <= L
    BY <1>2, <1>6, <1>8, <1>10
  <2>. QED BY <1>1, <1>2, <1>4, <1>5, <2>1, <2>2, <2>3, <2>4 DEF Verdict
<1>. QED BY <1>9, <1>10

LEMMA MinOfTwo ==
  ASSUME NEW a \in Int, NEW b \in Int
  PROVE  Min({a, b}) = IF a <= b THEN a ELSE b
<1>1. a <= b \/ b <= a
  OBVIOUS
<1>2. \A x \in {a, b} : (\A y \in {a, b} : x <= y) => x = IF a <= b THEN a ELSE b
  OBVIOUS
<1>3. \E x \in {a, b} : \A y \in {a, b} : x <= y
  OBVIOUS
<1>. QED BY <1>2, <1>3 DEF Min

\* The tokens of a bucket at a time, were it large enough.
Level(k, t, l) == k.count + (t - k.since) * Limit(l)

LEMMA BucketIs ==
  ASSUME rateLimits \in Seq(LimitRows), NEW l \in Limits, NEW k \in Counters, NEW t \in Int
  PROVE  LET v == checkTokenBucket(k, t, l)
         IN /\ v.allowed <=> Level(k, t, l) >= Window(l)
            /\ v.counter \in Counters /\ v.counter.times = k.times /\ v.counter.since = t
            /\ v.allowed => /\ v.counter.count >= 0
                            /\ v.counter.count + Window(l) <= Level(k, t, l)
                            /\ v.counter.count + Window(l) <= Limit(l) * Window(l)
            /\ ~v.allowed => /\ v.counter.count = Level(k, t, l)
                             /\ v.retryAfter = CeilDiv(Window(l) - Level(k, t, l), Limit(l))
<1>1. /\ Window(l) \in Nat /\ Window(l) >= 1 /\ Limit(l) \in Nat /\ Limit(l) >= 1
  BY LimitFacts
<1>2. k.count \in Int /\ k.since \in Int /\ k.times \in Seq(Int)
  BY DEF Counters
<1>3. PICK W \in Nat : W = Window(l)
  BY <1>1
<1>4. PICK L \in Nat : L = Limit(l)
  BY <1>1
<1>5. L * W \in Int /\ L * W >= W
  <2>1. L * W = W + (L - 1) * W
    BY <1>3, <1>4
  <2>2. (L - 1) * W >= 0
    BY <1>1, <1>3, <1>4
  <2>. QED BY <2>1, <2>2, <1>1, <1>3, <1>4
<1>6. PICK level : level = Level(k, t, l)
  OBVIOUS
<1>7. level \in Int
  BY <1>2, <1>4, <1>6 DEF Level
<1>8. PICK tokens : tokens = Min({level, L * W})
  OBVIOUS
<1>9. tokens = IF level <= L * W THEN level ELSE L * W
  BY <1>5, <1>7, <1>8, MinOfTwo
<1>10. /\ tokens \in Int /\ (tokens < W <=> level < W) /\ (level < W => tokens = level)
       /\ tokens <= level /\ tokens <= L * W
  BY <1>3, <1>5, <1>7, <1>9
<1>11. PICK n \in Int, u \in Int, ts \in Seq(Int) : k = Counter(n, u, ts)
  BY CounterIs
<1>12. k.times = ts /\ [k EXCEPT !.count = tokens, !.since = t] = Counter(tokens, t, ts)
  <2>1. k.times = ts
    BY <1>11 DEF Counter
  <2>. QED BY <2>1, CounterUpdates
<1>13. \A m : [Counter(tokens, t, ts) EXCEPT !.count = m] = Counter(m, t, ts)
  BY DEF Counter
<1>14. checkTokenBucket(k, t, l) =
         IF tokens < W THEN Verdict(FALSE, Counter(tokens, t, ts), CeilDiv(W - tokens, L))
         ELSE Verdict(TRUE, Counter(tokens - W, t, ts), 0)
  BY <1>3, <1>4, <1>6, <1>8, <1>12, <1>13, Zenon DEF checkTokenBucket, Level
<1>15. CASE tokens < W
  <2>1. checkTokenBucket(k, t, l) = Verdict(FALSE, Counter(level, t, ts), CeilDiv(W - level, L))
    BY <1>3, <1>7, <1>10, <1>14, <1>15
  <2>2. ~(level >= W)
    BY <1>3, <1>7, <1>10, <1>15
  <2>3. /\ Counter(level, t, ts) \in Counters /\ Counter(level, t, ts).times = ts
        /\ Counter(level, t, ts).since = t /\ Counter(level, t, ts).count = level
    BY <1>7 DEF Counter, Counters
  <2>. QED BY <1>3, <1>4, <1>6, <1>12, <2>1, <2>2, <2>3 DEF Verdict
<1>16. CASE ~(tokens < W)
  <2>1. checkTokenBucket(k, t, l) = Verdict(TRUE, Counter(tokens - W, t, ts), 0)
    BY <1>14, <1>16
  <2>2. level >= W
    BY <1>3, <1>7, <1>10, <1>16
  <2>3. tokens - W \in Int
    BY <1>3, <1>10
  <2>4. /\ Counter(tokens - W, t, ts) \in Counters /\ Counter(tokens - W, t, ts).times = ts
        /\ Counter(tokens - W, t, ts).since = t /\ Counter(tokens - W, t, ts).count = tokens - W
    BY <2>3 DEF Counter, Counters
  <2>5. PICK left \in Int, most \in Int : left = tokens - W /\ most = L * W
    BY <1>5, <2>3
  <2>6. left >= 0 /\ left + W <= level /\ left + W <= most
    BY <1>3, <1>7, <1>10, <1>16, <2>5
  <2>. QED BY <1>3, <1>4, <1>6, <1>12, <2>1, <2>2, <2>4, <2>5, <2>6 DEF Verdict
<1>. QED BY <1>15, <1>16

\* A check keeps the kind of the counter.
LEMMA CheckTypes ==
  ASSUME rateLimits \in Seq(LimitRows), NEW l \in Limits, NEW k \in Counters, Fits(k, l),
         NEW t \in Int
  PROVE  CheckLimit(k, t, l).counter \in Counters /\ Fits(CheckLimit(k, t, l).counter, l)
<1>1. CASE Alg(l) = "fixed_window"
  <2>1. CheckLimit(k, t, l) = checkFixedWindow(k, t, l)
    BY <1>1 DEF CheckLimit
  <2>. QED BY <1>1, <2>1, FixedWindowIs DEF Fits
<1>2. CASE Alg(l) = "sliding_window"
  <2>1. CheckLimit(k, t, l) = checkSlidingWindow(k, t, l)
    BY <1>2 DEF CheckLimit
  <2>. QED BY <1>2, <2>1, SlidingWindowIs DEF Fits
<1>3. CASE Alg(l) = "token_bucket"
  <2>1. CheckLimit(k, t, l) = checkTokenBucket(k, t, l)
    BY <1>3 DEF CheckLimit
  <2>. QED BY <1>3, <2>1, BucketIs DEF Fits
<1>. QED BY <1>1, <1>2, <1>3, LimitFacts DEF Algorithms

LEMMA CeilDivIs ==
  ASSUME NEW a \in Int, NEW b \in Nat, a >= 1, b >= 1
  PROVE  CeilDiv(a, b) \in Nat /\ CeilDiv(a, b) >= 1 /\ CeilDiv(a, b) * b >= a
<1>1. PICK q \in Int : q = (a + b - 1) \div b
  OBVIOUS
<1>2. b * q <= a + b - 1 /\ a + b - 1 < b * q + b
  BY <1>1
<1>3. q >= 1
  <2>. SUFFICES ASSUME q <= 0 PROVE FALSE
    BY <1>1
  <2>1. b * q <= 0
    OBVIOUS
  <2>. QED BY <1>2, <2>1
<1>. QED BY <1>1, <1>2, <1>3 DEF CeilDiv

\* The same for a counter that other limits use too.
LEMMA CheckCounters ==
  ASSUME rateLimits \in Seq(LimitRows), NEW l \in Limits, NEW k \in Counters, NEW t \in Int
  PROVE  LET v == CheckLimit(k, t, l)
         IN v.counter \in Counters /\ (~v.allowed => v.retryAfter \in Int)
<1>1. PICK W \in Nat : W = Window(l) /\ W >= 1
  BY LimitFacts
<1>2. PICK L \in Nat : L = Limit(l) /\ L >= 1
  BY LimitFacts
<1>3. PICK n \in Int, u \in Int, ts \in Seq(Int) : k = Counter(n, u, ts)
  BY CounterIs
<1>4. k.count = n /\ k.since = u /\ k.times = ts /\ \A us : [k EXCEPT !.times = us] = Counter(n, u, us)
  BY <1>3 DEF Counter, Counters
<1>5. CASE Alg(l) = "fixed_window"
  <2>1. CheckLimit(k, t, l) = checkFixedWindow(k, t, l)
    BY <1>5 DEF CheckLimit
  <2>2. u + W - t \in Int
    OBVIOUS
  <2>. QED BY <1>1, <1>4, <2>1, <2>2, FixedWindowIs
<1>6. CASE Alg(l) = "sliding_window"
  <2>1. CheckLimit(k, t, l) = checkSlidingWindow(k, t, l)
    BY <1>6 DEF CheckLimit
  <2>2. PICK valid \in Seq(Int) : valid = ValidRequests(ts, t - W)
    <3>1. t - W \in Int
      OBVIOUS
    <3>. QED BY <3>1, ValidRequestsAre
  <2>3. checkSlidingWindow(k, t, l) =
          IF Len(valid) >= L THEN Verdict(FALSE, Counter(n, u, valid), valid[1] + W - t)
          ELSE Verdict(TRUE, Counter(n, u, Append(valid, t)), 0)
    BY <1>1, <1>2, <1>4, <2>2, Zenon DEF checkSlidingWindow
  <2>4. CASE Len(valid) >= L
    <3>1. Counter(n, u, valid) \in Counters
      BY DEF Counter, Counters
    <3>2. valid[1] + W - t \in Int
      BY <1>2, <2>4
    <3>3. CheckLimit(k, t, l) = Verdict(FALSE, Counter(n, u, valid), valid[1] + W - t)
      BY <2>1, <2>3, <2>4
    <3>. QED BY <3>1, <3>2, <3>3 DEF Verdict
  <2>5. CASE ~(Len(valid) >= L)
    <3>1. Counter(n, u, Append(valid, t)) \in Counters
      BY DEF Counter, Counters
    <3>2. CheckLimit(k, t, l) = Verdict(TRUE, Counter(n, u, Append(valid, t)), 0)
      BY <2>1, <2>3, <2>5
    <3>. QED BY <3>1, <3>2 DEF Verdict
  <2>. QED BY <2>4, <2>5
<1>7. CASE Alg(l) = "token_bucket"
  <2>1. CheckLimit(k, t, l) = checkTokenBucket(k, t, l)
    BY <1>7 DEF CheckLimit
  <2>2. PICK level \in Int : level = Level(k, t, l)
    <3>1. n + (t - u) * L \in Int
      OBVIOUS
    <3>. QED BY <1>2, <1>4, <3>1 DEF Level
  <2>3. ~(level >= W) => CeilDiv(W - level, L) \in Int
    <3>. SUFFICES ASSUME ~(level >= W) PROVE CeilDiv(W - level, L) \in Int
      OBVIOUS
    <3>1. W - level \in Int /\ W - level >= 1
      OBVIOUS
    <3>. QED BY <1>2, <3>1, CeilDivIs
  <2>. QED BY <1>1, <1>2, <2>1, <2>2, <2>3, BucketIs
<1>. QED BY <1>5, <1>6, <1>7, LimitFacts DEF Algorithms

\* The header cuts off less than a second.
LEMMA WholeSecondsIs ==
  ASSUME NEW d \in Int
  PROVE  /\ WholeSeconds(d) \in Int /\ Second \in Nat
         /\ d < WholeSeconds(d) + Second
<1>1. Second \in Nat /\ Second >= 1
  BY LimiterAssumption
<1>2. PICK m \in Nat : m = Second /\ m >= 1
  BY <1>1
<1>3. PICK q \in Int : q = d \div m
  BY <1>2
<1>4. d < m * q + m
  BY <1>2, <1>3
<1>5. q * m \in Int /\ q * m = m * q
  BY <1>2, <1>3
<1>6. WholeSeconds(d) = q * m
  BY <1>2, <1>3 DEF WholeSeconds
<1>. QED BY <1>1, <1>2, <1>4, <1>5, <1>6

\* A refusal leaves the counter as good as it was, and what it tells the
\* caller is enough: whoever comes that much later is let in.
LEMMA Refusal ==
  ASSUME rateLimits \in Seq(LimitRows), NEW l \in Limits, NEW k \in Counters, Fits(k, l),
         NEW t \in Int, ~Admits(k, t, l)
  PROVE  LET v == CheckLimit(k, t, l)
         IN /\ v.retryAfter \in Int /\ v.retryAfter >= 1
            /\ \A u \in Int : Admits(k, u, l) => Admits(v.counter, u, l)
            /\ \A u \in Int : u >= t + v.retryAfter => Admits(v.counter, u, l)
<1>1. PICK W \in Nat : W = Window(l) /\ W >= 1
  BY LimitFacts
<1>2. PICK L \in Nat : L = Limit(l) /\ L >= 1
  BY LimitFacts
<1>3. k.count \in Int /\ k.since \in Int /\ k.times \in Seq(Int)
  BY CounterIs
<1>4. CASE Alg(l) = "fixed_window"
  <2>1. \A c, u : CheckLimit(c, u, l) = checkFixedWindow(c, u, l)
    BY <1>4 DEF CheckLimit
  <2>2. PICK v : v = CheckLimit(k, t, l)
    OBVIOUS
  <2>3. v.counter = k /\ v.retryAfter = k.since + W - t /\ ~(t - k.since >= W)
    BY <1>1, <2>1, <2>2, FixedWindowIs DEF Admits
  <2>4. \A u \in Int : u >= t + v.retryAfter => Admits(k, u, l)
    <3>. SUFFICES ASSUME NEW u \in Int, u >= t + v.retryAfter PROVE Admits(k, u, l)
      OBVIOUS
    <3>1. u - k.since >= W
      BY <1>3, <2>3
    <3>. QED BY <1>1, <2>1, <3>1, FixedWindowIs DEF Admits
  <2>5. v.retryAfter \in Int /\ v.retryAfter >= 1
    BY <1>3, <2>3
  <2>. QED BY <2>2, <2>3, <2>4, <2>5
<1>5. CASE Alg(l) = "sliding_window"
  <2>1. \A c, u : CheckLimit(c, u, l) = checkSlidingWindow(c, u, l)
    BY <1>5 DEF CheckLimit
  <2>2. Len(k.times) <= L
    BY <1>2, <1>5 DEF Fits
  <2>3. PICK v : v = CheckLimit(k, t, l)
    OBVIOUS
  <2>4. /\ v.counter = k /\ v.retryAfter = k.times[1] + W - t
        /\ Len(k.times) = L /\ \A i \in DOMAIN k.times : k.times[i] > t - W
    BY <1>1, <1>2, <2>1, <2>2, <2>3, SlidingWindowIs DEF Admits
  <2>5. 1 \in DOMAIN k.times /\ k.times[1] \in Int /\ k.times[1] > t - W
    BY <1>2, <1>3, <2>4
  <2>6. \A u \in Int : u >= t + v.retryAfter => Admits(k, u, l)
    <3>. SUFFICES ASSUME NEW u \in Int, u >= t + v.retryAfter PROVE Admits(k, u, l)
      OBVIOUS
    <3>1. ~(k.times[1] > u - W) /\ u - W \in Int
      BY <2>4, <2>5
    <3>2. PICK valid : valid = ValidRequests(k.times, u - W)
      OBVIOUS
    <3>3. valid \in Seq(Int) /\ Len(valid) <= Len(k.times) /\ Len(valid) # Len(k.times)
      BY <1>3, <2>5, <3>1, <3>2, ValidRequestsAre
    <3>4. Len(valid) < L
      BY <1>3, <2>4, <3>3
    <3>. QED BY <1>1, <1>2, <2>1, <2>2, <3>2, <3>4, SlidingWindowIs DEF Admits
  <2>7. v.retryAfter \in Int /\ v.retryAfter >= 1
    BY <2>4, <2>5
  <2>. QED BY <2>3, <2>4, <2>6, <2>7
<1>6. CASE Alg(l) = "token_bucket"
  <2>1. \A c, u : CheckLimit(c, u, l) = checkTokenBucket(c, u, l)
    BY <1>6 DEF CheckLimit
  <2>2. PICK v : v = CheckLimit(k, t, l)
    OBVIOUS
  <2>3. PICK level \in Int : level = Level(k, t, l)
    BY <1>2, <1>3 DEF Level
  <2>4. /\ v.counter \in Counters /\ v.counter.since = t /\ v.counter.count = level
        /\ v.retryAfter = CeilDiv(W - level, L) /\ ~(level >= W)
    BY <1>1, <1>2, <2>1, <2>2, <2>3, BucketIs DEF Admits
  <2>5. PICK d \in Nat : d = v.retryAfter /\ d >= 1 /\ d * L >= W - level
    <3>1. W - level \in Int /\ W - level >= 1
      BY <2>4
    <3>. QED BY <1>2, <2>4, <3>1, CeilDivIs
  <2>6. \A u \in Int : Level(v.counter, u, l) = level + (u - t) * L
    BY <1>2, <2>4 DEF Level
  <2>7. \A u \in Int : Level(k, u, l) = level + (u - t) * L
    <3>. SUFFICES ASSUME NEW u \in Int PROVE Level(k, u, l) = level + (u - t) * L
      OBVIOUS
    <3>1. PICK n \in Int, s \in Int : n = k.count /\ s = k.since
      BY <1>3
    <3>2. level = n + (t - s) * L
      BY <1>2, <2>3, <3>1 DEF Level
    <3>3. (t - s) * L + (u - t) * L = (u - s) * L
      OBVIOUS
    <3>4. (t - s) * L \in Int /\ (u - t) * L \in Int /\ (u - s) * L \in Int
      OBVIOUS
    <3>5. Level(k, u, l) = n + (u - s) * L
      BY <1>2, <3>1 DEF Level
    <3>. QED BY <3>2, <3>3, <3>4, <3>5
  <2>8. \A c \in Counters : \A u \in Int : Admits(c, u, l) <=> Level(c, u, l) >= W
    BY <1>1, <2>1, BucketIs DEF Admits
  <2>9. \A u \in Int : u >= t + d => level + (u - t) * L >= W
    <3>. SUFFICES ASSUME NEW u \in Int, u >= t + d PROVE level + (u - t) * L >= W
      OBVIOUS
    <3>1. PICK e \in Nat : e = u - t - d
      OBVIOUS
    <3>2. e * L >= 0 /\ e * L \in Int /\ d * L \in Int
      OBVIOUS
    <3>3. (u - t) * L = e * L + d * L
      <4>1. u - t = e + d
        BY <3>1
      <4>. QED BY <4>1
    <3>4. PICK x \in Int, y \in Int : x = e * L /\ y = d * L
      BY <3>2
    <3>5. x >= 0 /\ y >= W - level /\ (u - t) * L = x + y
      BY <2>5, <3>2, <3>3, <3>4
    <3>6. level + (x + y) >= W
      BY <1>1, <3>5
    <3>. QED BY <3>5, <3>6
  <2>10. \A u \in Int : Admits(k, u, l) => Admits(v.counter, u, l)
    BY <2>4, <2>6, <2>7, <2>8
  <2>11. \A u \in Int : u >= t + d => Admits(v.counter, u, l)
    BY <2>4, <2>6, <2>8, <2>9
  <2>. QED BY <2>2, <2>5, <2>10, <2>11
<1>. QED BY <1>4, <1>5, <1>6, LimitFacts DEF Algorithms

\* A new counter lets everyone in who comes after it.
LEMMA NewCounterIs ==
  ASSUME rateLimits \in Seq(LimitRows), NEW l \in Limits, NEW now \in Int
  PROVE  /\ NewCounter(l, now) \in Counters /\ Fits(NewCounter(l, now), l)
         /\ \A u \in Int : u >= now => Admits(NewCounter(l, now), u, l)
<1>1. PICK W \in Nat : W = Window(l) /\ W >= 1
  BY LimitFacts
<1>2. PICK L \in Nat : L = Limit(l) /\ L >= 1
  BY LimitFacts
<1>3. PICK n : n = IF Alg(l) = "token_bucket" THEN L * W ELSE 0
  OBVIOUS
<1>4. L * W \in Int /\ L * W >= W
  <2>1. L * W = W + (L - 1) * W
    OBVIOUS
  <2>2. (L - 1) * W >= 0 /\ (L - 1) * W \in Int
    BY <1>1, <1>2
  <2>. QED BY <2>1, <2>2
<1>5. n \in Int
  BY <1>3, <1>4
<1>6. PICK k : k = NewCounter(l, now)
  OBVIOUS
<1>7. k = Counter(n, now, <<>>)
  BY <1>1, <1>2, <1>3, <1>6 DEF NewCounter, Counter
<1>8. k \in Counters /\ k.count = n /\ k.since = now /\ k.times = <<>>
  BY <1>5, <1>7 DEF Counter, Counters
<1>9. Fits(k, l)
  BY <1>2, <1>8 DEF Fits
<1>10. ASSUME NEW u \in Int, u >= now PROVE Admits(k, u, l)
  <2>1. CASE Alg(l) = "fixed_window"
    <3>1. CheckLimit(k, u, l) = checkFixedWindow(k, u, l)
      BY <2>1 DEF CheckLimit
    <3>2. k.count < Limit(l)
      BY <1>2, <1>3, <1>8, <2>1
    <3>. QED BY <1>8, <3>1, <3>2, FixedWindowIs DEF Admits
  <2>2. CASE Alg(l) = "sliding_window"
    <3>1. CheckLimit(k, u, l) = checkSlidingWindow(k, u, l)
      BY <2>2 DEF CheckLimit
    <3>2. Len(k.times) <= Limit(l) /\ u - W \in Int /\ Len(k.times) = 0 /\ k.times \in Seq(Int)
      BY <1>2, <1>8
    <3>3. PICK valid : valid = ValidRequests(k.times, u - W)
      OBVIOUS
    <3>4. valid \in Seq(Int) /\ Len(valid) <= 0
      BY <3>2, <3>3, ValidRequestsAre
    <3>5. Len(valid) < Limit(l)
      BY <1>2, <3>4
    <3>. QED BY <1>1, <1>8, <3>1, <3>2, <3>3, <3>5, SlidingWindowIs DEF Admits
  <2>3. CASE Alg(l) = "token_bucket"
    <3>1. CheckLimit(k, u, l) = checkTokenBucket(k, u, l)
      BY <2>3 DEF CheckLimit
    <3>2. Level(k, u, l) = L * W + (u - now) * L
      BY <1>2, <1>3, <1>8, <2>3 DEF Level
    <3>3. (u - now) * L >= 0 /\ (u - now) * L \in Int
      BY <1>10
    <3>4. Level(k, u, l) >= Window(l)
      BY <1>1, <1>4, <3>2, <3>3
    <3>. QED BY <1>8, <3>1, <3>4, BucketIs DEF Admits
  <2>. QED BY <2>1, <2>2, <2>3, LimitFacts DEF Algorithms
<1>. QED BY <1>6, <1>8, <1>9, <1>10

KeyTable == [x \in Requests \X Limits |-> Key(x[1], x[2])]
AccountTable == [x \in Requests \X Limits |-> Account(x[1], x[2])]
Letting == {x \in Counters \X Int \X Limits : Admits(x[1], x[2], x[3])}
Fitting == {x \in Counters \X Limits : Fits(x[1], x[2])}
OwnLimits == {l \in Limits : Own(l)}

LEMMA ChecksStay ==
  ASSUME rateLimits' = rateLimits, NEW k, NEW t, NEW l
  PROVE  CheckLimit(k, t, l)' = CheckLimit(k, t, l)
<1>1. checkFixedWindow(k, t, l)' = checkFixedWindow(k, t, l)
  BY DEF checkFixedWindow, Window, Limit
<1>2. checkSlidingWindow(k, t, l)' = checkSlidingWindow(k, t, l)
  BY Zenon DEF checkSlidingWindow, Window, Limit
<1>3. checkTokenBucket(k, t, l)' = checkTokenBucket(k, t, l)
  BY Zenon DEF checkTokenBucket, Window, Limit
<1>4. Alg(l)' = Alg(l)
  BY Zenon DEF Alg
<1>. QED BY <1>1, <1>2, <1>3, <1>4, Zenon DEF CheckLimit

LEMMA TablesStay ==
  rateLimits' = rateLimits =>
    /\ Limits' = Limits
    /\ KeyTable' = KeyTable /\ AccountTable' = AccountTable
    /\ Letting' = Letting /\ Fitting' = Fitting /\ OwnLimits' = OwnLimits
<1>. SUFFICES ASSUME rateLimits' = rateLimits
     PROVE  /\ Limits' = Limits
    /\ KeyTable' = KeyTable /\ AccountTable' = AccountTable
    /\ Letting' = Letting /\ Fitting' = Fitting /\ OwnLimits' = OwnLimits
  OBVIOUS
<1>1. Limits' = Limits
  BY DEF Limits
<1>2. KeyTable' = KeyTable
  BY Zenon DEF KeyTable, Key, Subject, Alg, Limits
<1>3. AccountTable' = AccountTable
  BY Zenon DEF AccountTable, Account, Subject, Limits
<1>4. Letting' = Letting
  <2>1. \A k, t, l : CheckLimit(k, t, l)' = CheckLimit(k, t, l)
    BY ChecksStay
  <2>2. \A k, t, l : Admits(k, t, l)' <=> Admits(k, t, l)
    BY <2>1, Zenon DEF Admits
  <2>. QED BY <1>1, <2>2 DEF Letting
<1>5. Fitting' = Fitting
  BY Zenon DEF Fitting, Fits, Alg, Limit, Limits
<1>6. OwnLimits' = OwnLimits
  BY Zenon DEF OwnLimits, Own, Alg, Limits
<1>. QED BY <1>1, <1>2, <1>3, <1>4, <1>5, <1>6

\* The counter a caller will find for a limit, and what it has been told.
Mapped(r, l) == counterOf[KeyTable[<<r, l>>]]
Told(r, l) == promise[AccountTable[<<r, l>>]]

LimiterTypes ==
  /\ clock \in Int
  /\ rateLimits \in Seq(LimitRows)
  /\ heap \in [CounterIds -> Counters \union {None}]
  /\ counterOf \in [Keys -> CounterIds \union {None}]
  /\ nextLimit \in [Requests -> Int]
  /\ call \in [Requests -> [limit : Nat, now : Int, ctr : CounterIds] \union {None}]
  /\ promise \in [Limits \X Subjects -> Int \union {None}]

\* A caller is in the check of its next limit and holds a counter of its kind.
CallsHold ==
  \A r \in Requests : call[r] # None =>
    /\ call[r].limit \in Limits /\ nextLimit[r] = call[r].limit
    /\ call[r].now <= clock
    /\ heap[call[r].ctr] # None
    /\ call[r].limit \in OwnLimits => <<heap[call[r].ctr], call[r].limit>> \in Fitting

MapHolds ==
  /\ \A k \in Keys : counterOf[k] # None => heap[counterOf[k]] # None
  /\ \A r \in Requests, l \in OwnLimits :
       Mapped(r, l) # None => <<heap[Mapped(r, l)], l>> \in Fitting

\* A counter, in the map or out of it, serves one key.
OwnCounters ==
  /\ \A j, k \in Keys : counterOf[j] # None /\ counterOf[j] = counterOf[k] => j = k
  /\ \A r, q \in Requests :
       call[r] # None /\ call[q] # None /\ call[r].ctr = call[q].ctr
         => KeyTable[<<r, call[r].limit>>] = KeyTable[<<q, call[q].limit>>]
  /\ \A r \in Requests, k \in Keys :
       call[r] # None /\ counterOf[k] = call[r].ctr => k = KeyTable[<<r, call[r].limit>>]

\* A caller whose counter has been replaced has read the clock before every
\* caller that holds the new one.
StaleIsEarlier ==
  \A r, q \in Requests :
    /\ call[r] # None /\ call[q] # None
    /\ KeyTable[<<r, call[r].limit>>] = KeyTable[<<q, call[q].limit>>]
    /\ Mapped(q, call[q].limit) = call[q].ctr /\ call[r].ctr # call[q].ctr
    => call[r].now <= call[q].now

\* Whoever was told to come back at a time finds a counter a second later that
\* lets it in, and so does whoever holds one already and is not too early.
WordKept ==
  \A r \in Requests, l \in OwnLimits : Told(r, l) # None =>
    /\ Mapped(r, l) # None =>
         \A t \in Int : t >= Told(r, l) + Second /\ t >= clock => <<heap[Mapped(r, l)], t, l>> \in Letting
    /\ call[r] # None /\ call[r].limit = l =>
         call[r].now < Told(r, l) + Second \/ <<heap[call[r].ctr], call[r].now, l>> \in Letting

LimiterInv ==
  /\ LimiterTypes /\ CallsHold /\ MapHolds /\ OwnCounters /\ StaleIsEarlier /\ WordKept

LEMMA TableFacts ==
  ASSUME rateLimits \in Seq(LimitRows), NEW r \in Requests, NEW l \in Limits
  PROVE  /\ KeyTable[<<r, l>>] = Key(r, l) /\ Key(r, l) \in Keys
         /\ AccountTable[<<r, l>>] = Account(r, l) /\ Account(r, l) \in Limits \X Subjects
         /\ l \in OwnLimits => \A q \in Requests, m \in Limits :
              /\ (KeyTable[<<q, m>>] = KeyTable[<<r, l>>])
                    <=> (AccountTable[<<q, m>>] = AccountTable[<<r, l>>])
              /\ KeyTable[<<q, m>>] = KeyTable[<<r, l>>] => m = l
<1>1. \A q \in Requests, m \in Limits :
        KeyTable[<<q, m>>] = Key(q, m) /\ AccountTable[<<q, m>>] = Account(q, m)
  BY DEF KeyTable, AccountTable
<1>3. Alg(l) \in Algorithms
  BY LimitFacts
<1>4. Subject(r, l) \in Subjects
  <2>1. PICK d \in Dimensions : d = rateLimits[l].dimension
    <3>1. rateLimits[l] \in LimitRows
      BY DEF Limits
    <3>. QED BY <3>1 DEF LimitRows
  <2>2. PICK u : u = Identity(r)
    OBVIOUS
  <2>3. Subject(r, l) = <<d, u[d]>>
    BY <2>1, <2>2 DEF Subject
  <2>4. <<d, u[d]>> \in Subjects
    BY <2>2 DEF Subjects
  <2>. QED BY <2>3, <2>4
<1>5. Key(r, l) \in Keys /\ Account(r, l) \in Limits \X Subjects
  BY <1>3, <1>4 DEF Key, Keys, Account
<1>6. ASSUME l \in OwnLimits, NEW q \in Requests, NEW m \in Limits, Key(q, m) = Key(r, l)
      PROVE  m = l
  <2>1. Subject(q, m) = Subject(r, l) /\ Alg(m) = Alg(l)
    BY <1>6 DEF Key
  <2>2. rateLimits[m].dimension = rateLimits[l].dimension
    BY <2>1 DEF Subject
  <2>3. Own(l)
    BY <1>6 DEF OwnLimits
  <2>. QED BY <2>1, <2>2, <2>3, Zenon DEF Own
<1>7. ASSUME l \in OwnLimits, NEW q \in Requests, NEW m \in Limits
      PROVE  (Key(q, m) = Key(r, l)) <=> (Account(q, m) = Account(r, l))
  <2>1. Key(q, m) = Key(r, l) => Account(q, m) = Account(r, l)
    <3>1. Key(q, m) = Key(r, l) => m = l /\ Subject(q, m) = Subject(r, l)
      BY <1>6, <1>7 DEF Key
    <3>. QED BY <3>1, Zenon DEF Account
  <2>2. Account(q, m) = Account(r, l) => Key(q, m) = Key(r, l)
    <3>1. Account(q, m) = Account(r, l) => m = l /\ Subject(q, m) = Subject(r, l)
      BY DEF Account
    <3>. QED BY <3>1, Zenon DEF Key
  <2>. QED BY <2>1, <2>2
<1>. QED BY <1>1, <1>5, <1>6, <1>7

LEMMA LettingIs ==
  ASSUME NEW k \in Counters, NEW t \in Int, NEW l \in Limits
  PROVE  (<<k, t, l>> \in Letting) <=> Admits(k, t, l)
BY DEF Letting

LEMMA FittingIs ==
  ASSUME NEW k \in Counters, NEW l \in Limits
  PROVE  (<<k, l>> \in Fitting) <=> Fits(k, l)
BY DEF Fitting

LEMMA NoneIsNothing ==
  /\ None \notin Int /\ None \notin CounterIds /\ None \notin Counters
  /\ None \notin [limit : Nat, now : Int, ctr : CounterIds]
BY LimiterAssumption DEF Counters

LEMMA LimiterStarts ==
  ASSUME NEW rows \in Seq(LimitRows), LimiterInit(rows)
  PROVE  LimiterInv
<1>1. /\ clock = 0 /\ rateLimits = rows
      /\ heap = [c \in CounterIds |-> None] /\ counterOf = [k \in Keys |-> None]
      /\ nextLimit = [r \in Requests |-> 1] /\ call = [r \in Requests |-> None]
      /\ promise = [a \in (DOMAIN rows) \X Subjects |-> None]
  BY DEF LimiterInit
<1>2. LimiterTypes
  BY <1>1 DEF LimiterTypes, Limits
<1>3. \A r \in Requests, l \in Limits :
        Mapped(r, l) = None /\ Told(r, l) = None
  <2>. SUFFICES ASSUME NEW r \in Requests, NEW l \in Limits
                PROVE  Mapped(r, l) = None /\ Told(r, l) = None
    OBVIOUS
  <2>1. /\ KeyTable[<<r, l>>] = Key(r, l) /\ Key(r, l) \in Keys
        /\ AccountTable[<<r, l>>] = Account(r, l) /\ Account(r, l) \in Limits \X Subjects
    BY <1>1, TableFacts
  <2>2. counterOf[Key(r, l)] = None
    BY <1>1, <2>1
  <2>3. promise[Account(r, l)] = None
    BY <1>1, <2>1 DEF Limits
  <2>. QED BY <2>1, <2>2, <2>3 DEF Mapped, Told
<1>4. MapHolds /\ WordKept
  BY <1>1, <1>3 DEF MapHolds, WordKept, OwnLimits
<1>5. CallsHold /\ OwnCounters /\ StaleIsEarlier
  BY <1>1 DEF CallsHold, OwnCounters, StaleIsEarlier
<1>. QED BY <1>2, <1>4, <1>5 DEF LimiterInv

\* Facts about the tables in a state of the invariant.
LEMMA InTypes ==
  ASSUME LimiterInv
  PROVE  /\ rateLimits \in Seq(LimitRows)
         /\ clock \in Int
         /\ \A r \in Requests, l \in Limits :
              /\ KeyTable[<<r, l>>] = Key(r, l) /\ KeyTable[<<r, l>>] \in Keys
              /\ AccountTable[<<r, l>>] = Account(r, l)
              /\ AccountTable[<<r, l>>] \in Limits \X Subjects
              /\ Mapped(r, l) \in CounterIds \union {None}
              /\ Told(r, l) \in Int \union {None}
         /\ \A r, q \in Requests : \A l \in OwnLimits, m \in Limits :
              /\ (KeyTable[<<q, m>>] = KeyTable[<<r, l>>])
                    <=> (AccountTable[<<q, m>>] = AccountTable[<<r, l>>])
              /\ KeyTable[<<q, m>>] = KeyTable[<<r, l>>] => m = l
         /\ \A r \in Requests : call[r] # None =>
              /\ call[r] \in [limit : Nat, now : Int, ctr : CounterIds]
              /\ call[r].now \in Int /\ call[r].ctr \in CounterIds
              /\ call[r].limit \in Limits
              /\ heap[call[r].ctr] \in Counters
         /\ \A k \in Keys : counterOf[k] # None => heap[counterOf[k]] \in Counters
<1>1. LimiterTypes /\ CallsHold /\ MapHolds
  BY DEF LimiterInv
<1>2. rateLimits \in Seq(LimitRows) /\ clock \in Int
  BY <1>1 DEF LimiterTypes
<1>3. \A r \in Requests, l \in Limits :
              /\ KeyTable[<<r, l>>] = Key(r, l) /\ KeyTable[<<r, l>>] \in Keys
              /\ AccountTable[<<r, l>>] = Account(r, l)
              /\ AccountTable[<<r, l>>] \in Limits \X Subjects
  <2>. SUFFICES ASSUME NEW r \in Requests, NEW l \in Limits
       PROVE  /\ KeyTable[<<r, l>>] = Key(r, l) /\ KeyTable[<<r, l>>] \in Keys
              /\ AccountTable[<<r, l>>] = Account(r, l)
              /\ AccountTable[<<r, l>>] \in Limits \X Subjects
    OBVIOUS
  <2>1. /\ KeyTable[<<r, l>>] = Key(r, l) /\ Key(r, l) \in Keys
        /\ AccountTable[<<r, l>>] = Account(r, l) /\ Account(r, l) \in Limits \X Subjects
    BY <1>2, TableFacts
  <2>. QED BY <2>1
<1>4. \A r \in Requests, l \in Limits :
              /\ Mapped(r, l) \in CounterIds \union {None}
              /\ Told(r, l) \in Int \union {None}
  BY <1>1, <1>3 DEF LimiterTypes, Mapped, Told
<1>5. \A r, q \in Requests : \A l \in OwnLimits, m \in Limits :
              /\ (KeyTable[<<q, m>>] = KeyTable[<<r, l>>])
                    <=> (AccountTable[<<q, m>>] = AccountTable[<<r, l>>])
              /\ KeyTable[<<q, m>>] = KeyTable[<<r, l>>] => m = l
  <2>. SUFFICES ASSUME NEW r \in Requests, NEW l \in OwnLimits
       PROVE  \A q \in Requests, m \in Limits :
              /\ (KeyTable[<<q, m>>] = KeyTable[<<r, l>>])
                    <=> (AccountTable[<<q, m>>] = AccountTable[<<r, l>>])
              /\ KeyTable[<<q, m>>] = KeyTable[<<r, l>>] => m = l
    BY Zenon
  <2>1. l \in Limits
    BY DEF OwnLimits
  <2>. QED BY <1>2, <2>1, TableFacts, Zenon
<1>6. \A r \in Requests : call[r] # None =>
              /\ call[r] \in [limit : Nat, now : Int, ctr : CounterIds]
              /\ call[r].now \in Int /\ call[r].ctr \in CounterIds
              /\ call[r].limit \in Limits
              /\ heap[call[r].ctr] \in Counters
  <2>. SUFFICES ASSUME NEW r \in Requests, call[r] # None
       PROVE  /\ call[r] \in [limit : Nat, now : Int, ctr : CounterIds]
              /\ call[r].now \in Int /\ call[r].ctr \in CounterIds
              /\ call[r].limit \in Limits
              /\ heap[call[r].ctr] \in Counters
    OBVIOUS
  <2>1. call[r] \in [limit : Nat, now : Int, ctr : CounterIds]
    BY <1>1 DEF LimiterTypes
  <2>2. call[r].limit \in Limits /\ heap[call[r].ctr] # None
    BY <1>1 DEF CallsHold
  <2>. QED BY <1>1, <2>1, <2>2 DEF LimiterTypes
<1>7. \A k \in Keys : counterOf[k] # None => heap[counterOf[k]] \in Counters
  BY <1>1 DEF LimiterTypes, MapHolds
<1>. QED BY <1>2, <1>3, <1>4, <1>5, <1>6, <1>7

LEMMA TickKeeps == ASSUME LimiterInv, LimiterTick PROVE LimiterInv'
<1>1. /\ clock' = clock + 1 /\ clock \in Int
      /\ UNCHANGED <<rateLimits, heap, counterOf, nextLimit, call, promise>>
  BY InTypes DEF LimiterTick
<1>2. /\ Limits' = Limits /\ KeyTable' = KeyTable /\ AccountTable' = AccountTable
      /\ Letting' = Letting /\ Fitting' = Fitting /\ OwnLimits' = OwnLimits
  BY <1>1, TablesStay
<1>3. LimiterTypes'
  BY <1>1, <1>2 DEF LimiterInv, LimiterTypes
<1>4. CallsHold'
  BY <1>1, <1>2, InTypes DEF LimiterInv, CallsHold
<1>5. MapHolds' /\ OwnCounters' /\ StaleIsEarlier'
  BY <1>1, <1>2 DEF LimiterInv, MapHolds, OwnCounters, StaleIsEarlier, Mapped
<1>6. WordKept'
  <2>. SUFFICES ASSUME NEW r \in Requests, NEW l \in OwnLimits, Told(r, l) # None
       PROVE /\ Mapped(r, l) # None =>
                  \A t \in Int : t >= Told(r, l) + Second /\ t >= clock + 1
                     => <<heap[Mapped(r, l)], t, l>> \in Letting
             /\ call[r] # None /\ call[r].limit = l =>
                  call[r].now < Told(r, l) + Second \/ <<heap[call[r].ctr], call[r].now, l>> \in Letting
    BY <1>1, <1>2, Zenon DEF WordKept, Mapped, Told
  <2>1. \A t \in Int : t >= clock + 1 => t >= clock
    BY <1>1
  <2>. QED BY <2>1 DEF LimiterInv, WordKept
<1>. QED BY <1>3, <1>4, <1>5, <1>6 DEF LimiterInv

\* Anything else leaves the limiter alone, but for the return to the first limit.
LEMMA LimiterStaysIf ==
  ASSUME LimiterInv, UNCHANGED <<clock, rateLimits, heap, counterOf, call, promise>>,
         nextLimit' \in [Requests -> Int],
         \A r \in Requests : call[r] # None => nextLimit'[r] = nextLimit[r]
  PROVE  LimiterInv'
<1>2. /\ Limits' = Limits /\ KeyTable' = KeyTable /\ AccountTable' = AccountTable
      /\ Letting' = Letting /\ Fitting' = Fitting /\ OwnLimits' = OwnLimits
  BY TablesStay
<1>3. LimiterTypes'
  BY <1>2 DEF LimiterInv, LimiterTypes
<1>4. CallsHold'
  BY <1>2 DEF LimiterInv, CallsHold
<1>5. MapHolds' /\ OwnCounters' /\ StaleIsEarlier'
  BY <1>2 DEF LimiterInv, MapHolds, OwnCounters, StaleIsEarlier, Mapped
<1>6. WordKept'
  BY <1>2 DEF LimiterInv, WordKept, Mapped, Told
<1>. QED BY <1>3, <1>4, <1>5, <1>6 DEF LimiterInv

\* What is left of the counters: those in the map or in a caller's hand.
LEMMA CollectKeeps ==
  ASSUME NEW h \in [CounterIds -> Counters \union {None}], NEW map, NEW calls
  PROVE  /\ Collect(h, map, calls) \in [CounterIds -> Counters \union {None}]
         /\ \A k \in Keys : map[k] \in CounterIds => Collect(h, map, calls)[map[k]] = h[map[k]]
         /\ \A r \in Requests : calls[r] # None /\ calls[r].ctr \in CounterIds
              => Collect(h, map, calls)[calls[r].ctr] = h[calls[r].ctr]
<1>1. \A c \in CounterIds : Collect(h, map, calls)[c] =
         IF \/ \E k \in Keys : map[k] = c
            \/ \E r \in Requests : calls[r] # None /\ calls[r].ctr = c
         THEN h[c] ELSE None
  BY DEF Collect
<1>2. Collect(h, map, calls) \in [CounterIds -> Counters \union {None}]
  BY DEF Collect
<1>. QED BY <1>1, <1>2

LEMMA SweepKeeps ==
  ASSUME LimiterInv, NEW k0 \in Keys, cleanupExpiredCountersOnce(k0)
  PROVE  LimiterInv'
<1>1. /\ counterOf' = [counterOf EXCEPT ![k0] = None]
      /\ heap' = Collect(heap, counterOf', call)
      /\ UNCHANGED <<clock, rateLimits, nextLimit, call, promise>>
  BY DEF cleanupExpiredCountersOnce
<1>2. /\ Limits' = Limits /\ KeyTable' = KeyTable /\ AccountTable' = AccountTable
      /\ Letting' = Letting /\ Fitting' = Fitting /\ OwnLimits' = OwnLimits
  BY <1>1, TablesStay
<1>3. /\ heap \in [CounterIds -> Counters \union {None}]
      /\ counterOf \in [Keys -> CounterIds \union {None}]
  BY DEF LimiterInv, LimiterTypes
<1>4. /\ counterOf' \in [Keys -> CounterIds \union {None}]
      /\ \A k \in Keys : counterOf'[k] = IF k = k0 THEN None ELSE counterOf[k]
  BY <1>1, <1>3
<1>5. /\ heap' \in [CounterIds -> Counters \union {None}]
      /\ \A k \in Keys : counterOf'[k] # None => heap'[counterOf'[k]] = heap[counterOf'[k]]
      /\ \A r \in Requests : call[r] # None => heap'[call[r].ctr] = heap[call[r].ctr]
  <2>1. \A k \in Keys : counterOf'[k] # None => counterOf'[k] \in CounterIds
    BY <1>4
  <2>2. \A r \in Requests : call[r] # None => call[r].ctr \in CounterIds
    BY InTypes
  <2>3. PICK h : h = Collect(heap, counterOf', call)
    OBVIOUS
  <2>4. /\ h \in [CounterIds -> Counters \union {None}]
        /\ \A k \in Keys : counterOf'[k] \in CounterIds => h[counterOf'[k]] = heap[counterOf'[k]]
        /\ \A r \in Requests : call[r] # None /\ call[r].ctr \in CounterIds
             => h[call[r].ctr] = heap[call[r].ctr]
    BY <1>3, <2>3, CollectKeeps
  <2>. QED BY <1>1, <2>1, <2>2, <2>3, <2>4
<1>6. LimiterTypes'
  BY <1>1, <1>2, <1>4, <1>5 DEF LimiterInv, LimiterTypes
<1>7. \A r \in Requests, l \in Limits : KeyTable[<<r, l>>] \in Keys
  BY InTypes
<1>8. CallsHold'
  BY <1>1, <1>2, <1>5 DEF LimiterInv, CallsHold
<1>9. MapHolds'
  BY <1>1, <1>2, <1>4, <1>5, <1>7 DEF LimiterInv, MapHolds, Mapped, OwnLimits
<1>10. OwnCounters'
  BY <1>1, <1>2, <1>4, InTypes, NoneIsNothing DEF LimiterInv, OwnCounters
<1>11. StaleIsEarlier'
  <2>. SUFFICES ASSUME NEW r \in Requests, NEW q \in Requests, call[r] # None, call[q] # None,
                       KeyTable[<<r, call[r].limit>>] = KeyTable[<<q, call[q].limit>>],
                       counterOf'[KeyTable[<<q, call[q].limit>>]] = call[q].ctr,
                       call[r].ctr # call[q].ctr
                PROVE  call[r].now <= call[q].now
    BY <1>1, <1>2 DEF StaleIsEarlier, Mapped
  <2>1. call[q].limit \in Limits /\ call[q].ctr \in CounterIds
    BY InTypes
  <2>2. counterOf[KeyTable[<<q, call[q].limit>>]] = call[q].ctr
    BY <1>4, <1>7, <2>1, NoneIsNothing
  <2>. QED BY <2>2 DEF LimiterInv, StaleIsEarlier, Mapped
<1>12. WordKept'
  <2>. SUFFICES ASSUME NEW r \in Requests, NEW l \in OwnLimits, Told(r, l) # None
       PROVE /\ counterOf'[KeyTable[<<r, l>>]] # None =>
                  \A t \in Int : t >= Told(r, l) + Second /\ t >= clock
                     => <<heap'[counterOf'[KeyTable[<<r, l>>]]], t, l>> \in Letting
             /\ call[r] # None /\ call[r].limit = l =>
                  call[r].now < Told(r, l) + Second \/ <<heap'[call[r].ctr], call[r].now, l>> \in Letting
    <3>1. clock' = clock /\ call' = call /\ promise' = promise
      BY <1>1
    <3>. QED BY <3>1, <1>2, Zenon DEF WordKept, Mapped, Told
  <2>1. counterOf'[KeyTable[<<r, l>>]] # None =>
           /\ counterOf'[KeyTable[<<r, l>>]] = Mapped(r, l)
           /\ heap'[counterOf'[KeyTable[<<r, l>>]]] = heap[Mapped(r, l)]
    BY <1>4, <1>5, <1>7 DEF Mapped, OwnLimits
  <2>. QED BY <1>5, <2>1 DEF LimiterInv, WordKept
<1>. QED BY <1>6, <1>8, <1>9, <1>10, <1>11, <1>12 DEF LimiterInv

\* The invariant of the next state in terms of this one's tables.
LEMMA NextLimiterInv ==
  ASSUME rateLimits' = rateLimits, LimiterTypes',
         \A r \in Requests : call'[r] # None =>
           /\ call'[r].limit \in Limits /\ nextLimit'[r] = call'[r].limit
           /\ call'[r].now <= clock'
           /\ heap'[call'[r].ctr] # None
           /\ call'[r].limit \in OwnLimits => <<heap'[call'[r].ctr], call'[r].limit>> \in Fitting,
         \A k \in Keys : counterOf'[k] # None => heap'[counterOf'[k]] # None,
         \A r \in Requests, l \in OwnLimits :
           counterOf'[KeyTable[<<r, l>>]] # None
             => <<heap'[counterOf'[KeyTable[<<r, l>>]]], l>> \in Fitting,
         \A j, k \in Keys : counterOf'[j] # None /\ counterOf'[j] = counterOf'[k] => j = k,
         \A r, q \in Requests :
           call'[r] # None /\ call'[q] # None /\ call'[r].ctr = call'[q].ctr
             => KeyTable[<<r, call'[r].limit>>] = KeyTable[<<q, call'[q].limit>>],
         \A r \in Requests, k \in Keys :
           call'[r] # None /\ counterOf'[k] = call'[r].ctr
             => k = KeyTable[<<r, call'[r].limit>>],
         \A r, q \in Requests :
           /\ call'[r] # None /\ call'[q] # None
           /\ KeyTable[<<r, call'[r].limit>>] = KeyTable[<<q, call'[q].limit>>]
           /\ counterOf'[KeyTable[<<q, call'[q].limit>>]] = call'[q].ctr
           /\ call'[r].ctr # call'[q].ctr
           => call'[r].now <= call'[q].now,
         \A r \in Requests, l \in OwnLimits : promise'[AccountTable[<<r, l>>]] # None =>
           /\ counterOf'[KeyTable[<<r, l>>]] # None =>
                \A t \in Int : t >= promise'[AccountTable[<<r, l>>]] + Second /\ t >= clock'
                  => <<heap'[counterOf'[KeyTable[<<r, l>>]]], t, l>> \in Letting
           /\ call'[r] # None /\ call'[r].limit = l =>
                \/ call'[r].now < promise'[AccountTable[<<r, l>>]] + Second
                \/ <<heap'[call'[r].ctr], call'[r].now, l>> \in Letting
  PROVE  LimiterInv'
<1>2. /\ Limits' = Limits /\ KeyTable' = KeyTable /\ AccountTable' = AccountTable
      /\ Letting' = Letting /\ Fitting' = Fitting /\ OwnLimits' = OwnLimits
  BY TablesStay
<1>3. CallsHold'
  BY <1>2, Zenon DEF CallsHold
<1>4. MapHolds'
  BY <1>2, Zenon DEF MapHolds, Mapped
<1>5. OwnCounters'
  BY <1>2, Zenon DEF OwnCounters
<1>6. StaleIsEarlier'
  BY <1>2, Zenon DEF StaleIsEarlier, Mapped
<1>7. WordKept'
  BY <1>2, Zenon DEF WordKept, Mapped, Told
<1>. QED BY <1>3, <1>4, <1>5, <1>6, <1>7 DEF LimiterInv

LEMMA NewCallIs ==
  ASSUME LimiterInv, NEW p \in Requests, NEW l \in Limits, NEW c \in CounterIds,
         call' = [call EXCEPT ![p] = [limit |-> l, now |-> clock, ctr |-> c]]
  PROVE  /\ call' \in [Requests -> [limit : Nat, now : Int, ctr : CounterIds] \union {None}]
         /\ call'[p] # None
         /\ call'[p].limit = l /\ call'[p].now = clock /\ call'[p].ctr = c
         /\ \A r \in Requests \ {p} : call'[r] = call[r]
<1>1. PICK n : n = [limit |-> l, now |-> clock, ctr |-> c]
  OBVIOUS
<1>2. l \in Nat /\ clock \in Int
  BY InTypes, LimitFacts
<1>3. n \in [limit : Nat, now : Int, ctr : CounterIds]
  BY <1>1, <1>2
<1>4. n.limit = l /\ n.now = clock /\ n.ctr = c
  BY <1>1
<1>5. call \in [Requests -> [limit : Nat, now : Int, ctr : CounterIds] \union {None}]
  BY DEF LimiterInv, LimiterTypes
<1>6. call' = [call EXCEPT ![p] = n]
  BY <1>1
<1>. QED BY <1>3, <1>4, <1>5, <1>6, NoneIsNothing

\* A caller takes the counter in the map.
LEMMA FindsCounter ==
  ASSUME LimiterInv, NEW p \in Requests, NEW l \in Limits, l = nextLimit[p], call[p] = None,
         NEW c \in CounterIds, c = Mapped(p, l),
         call' = [call EXCEPT ![p] = [limit |-> l, now |-> clock, ctr |-> c]],
         UNCHANGED <<clock, rateLimits, heap, counterOf, nextLimit, promise>>
  PROVE  LimiterInv'
<1>. DEFINE k == KeyTable[<<p, l>>]
<1>1. c = Mapped(p, l) /\ c = counterOf[k]
  BY DEF Mapped
<1>2. /\ call' \in [Requests -> [limit : Nat, now : Int, ctr : CounterIds] \union {None}]
      /\ call'[p] # None
      /\ call'[p].limit = l /\ call'[p].now = clock /\ call'[p].ctr = c
      /\ \A r \in Requests \ {p} : call'[r] = call[r]
  BY NewCallIs
<1>3. k \in Keys /\ c # None
  BY InTypes, NoneIsNothing
<1>4. LimiterTypes'
  <2>1. Limits' = Limits
    BY DEF Limits
  <2>. QED BY <1>2, <2>1 DEF LimiterInv, LimiterTypes
<1>5. heap[c] # None /\ (l \in OwnLimits => <<heap[c], l>> \in Fitting)
  BY <1>1, <1>3 DEF LimiterInv, MapHolds
<1>6. \A r \in Requests : call'[r] # None =>
           /\ call'[r].limit \in Limits /\ nextLimit'[r] = call'[r].limit
           /\ call'[r].now <= clock'
           /\ heap'[call'[r].ctr] # None
           /\ call'[r].limit \in OwnLimits => <<heap'[call'[r].ctr], call'[r].limit>> \in Fitting
  <2>1. clock <= clock
    BY InTypes
  <2>. QED BY <1>2, <1>5, <2>1 DEF LimiterInv, CallsHold
<1>7. \A j \in Keys : counterOf'[j] # None => heap'[counterOf'[j]] # None
  BY DEF LimiterInv, MapHolds
<1>8. \A r \in Requests, m \in OwnLimits :
        counterOf'[KeyTable[<<r, m>>]] # None
          => <<heap'[counterOf'[KeyTable[<<r, m>>]]], m>> \in Fitting
  BY DEF LimiterInv, MapHolds, Mapped
<1>9. \A i, j \in Keys : counterOf'[i] # None /\ counterOf'[i] = counterOf'[j] => i = j
  BY DEF LimiterInv, OwnCounters
<1>10. \A r \in Requests, j \in Keys :
           call'[r] # None /\ counterOf'[j] = call'[r].ctr
             => j = KeyTable[<<r, call'[r].limit>>]
  BY <1>1, <1>2, <1>3, <1>9 DEF LimiterInv, OwnCounters
<1>11. \A r, q \in Requests :
           call'[r] # None /\ call'[q] # None /\ call'[r].ctr = call'[q].ctr
             => KeyTable[<<r, call'[r].limit>>] = KeyTable[<<q, call'[q].limit>>]
  <2>1. \A r \in Requests : call'[r] # None /\ call'[r].ctr = c
           => KeyTable[<<r, call'[r].limit>>] = k
    BY <1>1, <1>3, <1>10
  <2>. QED BY <1>2, <2>1 DEF LimiterInv, OwnCounters
<1>12. \A r, q \in Requests :
           /\ call'[r] # None /\ call'[q] # None
           /\ KeyTable[<<r, call'[r].limit>>] = KeyTable[<<q, call'[q].limit>>]
           /\ counterOf'[KeyTable[<<q, call'[q].limit>>]] = call'[q].ctr
           /\ call'[r].ctr # call'[q].ctr
           => call'[r].now <= call'[q].now
  <2>. SUFFICES ASSUME NEW r \in Requests, NEW q \in Requests,
           call'[r] # None /\ call'[q] # None,
           KeyTable[<<r, call'[r].limit>>] = KeyTable[<<q, call'[q].limit>>],
           counterOf[KeyTable[<<q, call'[q].limit>>]] = call'[q].ctr,
           call'[r].ctr # call'[q].ctr
         PROVE call'[r].now <= call'[q].now
    OBVIOUS
  <2>1. r # p
    BY <1>1, <1>2
  <2>2. CASE q = p
    BY <1>2, <2>1, <2>2 DEF LimiterInv, CallsHold
  <2>3. CASE q # p
    BY <1>2, <2>1, <2>3 DEF LimiterInv, StaleIsEarlier, Mapped
  <2>. QED BY <2>2, <2>3
<1>13. \A r \in Requests, m \in OwnLimits : promise'[AccountTable[<<r, m>>]] # None =>
           /\ counterOf'[KeyTable[<<r, m>>]] # None =>
                \A t \in Int : t >= promise'[AccountTable[<<r, m>>]] + Second /\ t >= clock'
                  => <<heap'[counterOf'[KeyTable[<<r, m>>]]], t, m>> \in Letting
           /\ call'[r] # None /\ call'[r].limit = m =>
                \/ call'[r].now < promise'[AccountTable[<<r, m>>]] + Second
                \/ <<heap'[call'[r].ctr], call'[r].now, m>> \in Letting
  <2>. SUFFICES ASSUME NEW r \in Requests, NEW m \in OwnLimits, Told(r, m) # None
       PROVE /\ Mapped(r, m) # None =>
                \A t \in Int : t >= Told(r, m) + Second /\ t >= clock => <<heap[Mapped(r, m)], t, m>> \in Letting
             /\ call'[r] # None /\ call'[r].limit = m =>
                call'[r].now < Told(r, m) + Second \/ <<heap[call'[r].ctr], call'[r].now, m>> \in Letting
    BY Zenon DEF Told, Mapped
  <2>1. Mapped(r, m) # None =>
          \A t \in Int : t >= Told(r, m) + Second /\ t >= clock => <<heap[Mapped(r, m)], t, m>> \in Letting
    BY DEF LimiterInv, WordKept
  <2>2. CASE r # p
    BY <1>2, <2>1, <2>2 DEF LimiterInv, WordKept
  <2>3. CASE r = p /\ m = l
    <3>0. Told(p, l) \in Int \union {None} /\ Told(p, l) # None /\ clock \in Int
      BY <2>3, InTypes
    <3>1. clock \in Int /\ Told(p, l) \in Int /\ Second \in Nat
      BY <3>0, LimiterAssumption
    <3>2. clock < Told(p, l) + Second \/ (clock >= Told(p, l) + Second /\ clock >= clock)
      BY <3>1
    <3>. QED BY <1>1, <1>2, <1>3, <2>1, <2>3, <3>1, <3>2
  <2>4. CASE r = p /\ m # l
    BY <1>2, <2>1, <2>4
  <2>. QED BY <2>2, <2>3, <2>4
<1>. QED BY <1>4, <1>6, <1>7, <1>8, <1>9, <1>10, <1>11, <1>12, <1>13, NextLimiterInv, Zenon

\* A caller finds no counter in the map and puts a new one there.
LEMMA MakesCounter ==
  ASSUME LimiterInv, NEW p \in Requests, NEW l \in Limits, l = nextLimit[p], call[p] = None,
         Mapped(p, l) = None, NEW c \in CounterIds, heap[c] = None,
         call' = [call EXCEPT ![p] = [limit |-> l, now |-> clock, ctr |-> c]],
         heap' = [heap EXCEPT ![c] = NewCounter(l, clock)],
         counterOf' = [counterOf EXCEPT ![KeyTable[<<p, l>>]] = c],
         UNCHANGED <<clock, rateLimits, nextLimit, promise>>
  PROVE  LimiterInv'
<1>1. PICK k \in Keys : k = KeyTable[<<p, l>>] /\ counterOf[k] = None
  BY InTypes DEF Mapped
<1>2. /\ call' \in [Requests -> [limit : Nat, now : Int, ctr : CounterIds] \union {None}]
      /\ call'[p] # None
      /\ call'[p].limit = l /\ call'[p].now = clock /\ call'[p].ctr = c
      /\ \A r \in Requests \ {p} : call'[r] = call[r]
  BY NewCallIs
<1>3. PICK n \in Counters : /\ n = NewCounter(l, clock) /\ n # None
                            /\ <<n, l>> \in Fitting
                            /\ \A t \in Int : t >= clock => <<n, t, l>> \in Letting
  <2>1. clock \in Int /\ rateLimits \in Seq(LimitRows)
    BY InTypes
  <2>2. PICK n \in Counters : /\ n = NewCounter(l, clock) /\ Fits(n, l)
                              /\ \A t \in Int : t >= clock => Admits(n, t, l)
    BY <2>1, NewCounterIs
  <2>. QED BY <2>2, LettingIs, FittingIs, NoneIsNothing
<1>4. /\ heap \in [CounterIds -> Counters \union {None}]
      /\ counterOf \in [Keys -> CounterIds \union {None}]
      /\ clock \in Int /\ c # None
  BY NoneIsNothing DEF LimiterInv, LimiterTypes
<1>5. /\ heap' \in [CounterIds -> Counters \union {None}] /\ heap'[c] = n
      /\ \A d \in CounterIds : d # c => heap'[d] = heap[d]
  <2>1. heap' = [heap EXCEPT ![c] = n]
    BY <1>3
  <2>. QED BY <1>4, <2>1
<1>6. /\ counterOf' \in [Keys -> CounterIds \union {None}] /\ counterOf'[k] = c
      /\ \A j \in Keys : j # k => counterOf'[j] = counterOf[j]
  <2>1. counterOf' = [counterOf EXCEPT ![k] = c]
    BY <1>1
  <2>. QED BY <1>4, <2>1
<1>7. /\ \A r \in Requests : call[r] # None => call[r].ctr \in CounterIds /\ call[r].ctr # c
      /\ \A j \in Keys : counterOf[j] # None => counterOf[j] \in CounterIds /\ counterOf[j] # c
  <2>1. \A r \in Requests : call[r] # None => call[r].ctr \in CounterIds /\ call[r].ctr # c
    BY InTypes DEF LimiterInv, CallsHold
  <2>2. \A j \in Keys : counterOf[j] # None => counterOf[j] \in CounterIds /\ counterOf[j] # c
    BY <1>4 DEF LimiterInv, MapHolds
  <2>. QED BY <2>1, <2>2
<1>8. \A r \in Requests : \A m \in Limits :
         /\ KeyTable[<<r, m>>] \in Keys
         /\ m \in OwnLimits /\ KeyTable[<<r, m>>] = k => m = l
  <2>. SUFFICES ASSUME NEW r \in Requests, NEW m \in Limits
                PROVE  /\ KeyTable[<<r, m>>] \in Keys
                       /\ m \in OwnLimits /\ KeyTable[<<r, m>>] = k => m = l
    OBVIOUS
  <2>1. KeyTable[<<r, m>>] \in Keys
    BY InTypes
  <2>2. m \in OwnLimits /\ KeyTable[<<p, l>>] = KeyTable[<<r, m>>] => l = m
    BY InTypes
  <2>. QED BY <1>1, <2>1, <2>2
<1>9. LimiterTypes'
  <2>1. Limits' = Limits
    BY DEF Limits
  <2>. QED BY <1>2, <1>5, <1>6, <2>1 DEF LimiterInv, LimiterTypes
<1>10. \A r \in Requests : call'[r] # None =>
           /\ call'[r].limit \in Limits /\ nextLimit'[r] = call'[r].limit
           /\ call'[r].now <= clock'
           /\ heap'[call'[r].ctr] # None
           /\ call'[r].limit \in OwnLimits => <<heap'[call'[r].ctr], call'[r].limit>> \in Fitting
  <2>. SUFFICES ASSUME NEW r \in Requests, call'[r] # None
                PROVE  /\ call'[r].limit \in Limits /\ nextLimit'[r] = call'[r].limit
                       /\ call'[r].now <= clock'
                       /\ heap'[call'[r].ctr] # None
                       /\ call'[r].limit \in OwnLimits => <<heap'[call'[r].ctr], call'[r].limit>> \in Fitting
    OBVIOUS
  <2>1. CASE r = p
    BY <1>2, <1>3, <1>4, <1>5, <2>1
  <2>2. CASE r # p
    BY <1>2, <1>5, <1>7, <2>2 DEF LimiterInv, CallsHold
  <2>. QED BY <2>1, <2>2
<1>11. \A j \in Keys : counterOf'[j] # None => heap'[counterOf'[j]] # None
  BY <1>3, <1>5, <1>6, <1>7 DEF LimiterInv, MapHolds
<1>12. \A r \in Requests, m \in OwnLimits :
        counterOf'[KeyTable[<<r, m>>]] # None
          => <<heap'[counterOf'[KeyTable[<<r, m>>]]], m>> \in Fitting
  <2>. SUFFICES ASSUME NEW r \in Requests, NEW m \in OwnLimits, counterOf'[KeyTable[<<r, m>>]] # None
                PROVE  <<heap'[counterOf'[KeyTable[<<r, m>>]]], m>> \in Fitting
    OBVIOUS
  <2>0. m \in Limits
    BY DEF OwnLimits
  <2>1. CASE KeyTable[<<r, m>>] = k
    BY <1>3, <1>5, <1>6, <1>8, <2>0, <2>1
  <2>2. CASE KeyTable[<<r, m>>] # k
    BY <1>5, <1>6, <1>7, <1>8, <2>0, <2>2 DEF LimiterInv, MapHolds, Mapped
  <2>. QED BY <2>1, <2>2
<1>13. \A i, j \in Keys : counterOf'[i] # None /\ counterOf'[i] = counterOf'[j] => i = j
  BY <1>4, <1>6, <1>7 DEF LimiterInv, OwnCounters
<1>14. \A r \in Requests, j \in Keys :
           call'[r] # None /\ counterOf'[j] = call'[r].ctr
             => j = KeyTable[<<r, call'[r].limit>>]
  <2>. SUFFICES ASSUME NEW r \in Requests, NEW j \in Keys,
                       call'[r] # None, counterOf'[j] = call'[r].ctr
                PROVE  j = KeyTable[<<r, call'[r].limit>>]
    OBVIOUS
  <2>1. CASE r = p
    BY <1>1, <1>2, <1>4, <1>6, <1>7, <2>1
  <2>2. CASE r # p
    BY <1>2, <1>6, <1>7, <2>2 DEF LimiterInv, OwnCounters
  <2>. QED BY <2>1, <2>2
<1>15. \A r, q \in Requests :
           call'[r] # None /\ call'[q] # None /\ call'[r].ctr = call'[q].ctr
             => KeyTable[<<r, call'[r].limit>>] = KeyTable[<<q, call'[q].limit>>]
  BY <1>2, <1>7 DEF LimiterInv, OwnCounters
<1>16. \A r, q \in Requests :
           /\ call'[r] # None /\ call'[q] # None
           /\ KeyTable[<<r, call'[r].limit>>] = KeyTable[<<q, call'[q].limit>>]
           /\ counterOf'[KeyTable[<<q, call'[q].limit>>]] = call'[q].ctr
           /\ call'[r].ctr # call'[q].ctr
           => call'[r].now <= call'[q].now
  <2>. SUFFICES ASSUME NEW r \in Requests, NEW q \in Requests,
           call'[r] # None, call'[q] # None,
           KeyTable[<<r, call'[r].limit>>] = KeyTable[<<q, call'[q].limit>>],
           counterOf'[KeyTable[<<q, call'[q].limit>>]] = call'[q].ctr,
           call'[r].ctr # call'[q].ctr
         PROVE call'[r].now <= call'[q].now
    OBVIOUS
  <2>1. CASE q = p
    <3>1. r # p
      BY <1>2, <2>1
    <3>. QED BY <1>2, <2>1, <3>1 DEF LimiterInv, CallsHold
  <2>2. CASE q # p
    <3>1. call'[q] = call[q] /\ call[q].ctr # c /\ call[q].limit \in Limits
      BY <1>2, <1>7, <2>2 DEF LimiterInv, CallsHold
    <3>2. KeyTable[<<q, call[q].limit>>] # k
      BY <1>6, <3>1
    <3>3. r # p
      BY <1>1, <1>2, <3>1, <3>2
    <3>. QED BY <1>2, <1>6, <1>8, <3>1, <3>2, <3>3 DEF LimiterInv, StaleIsEarlier, Mapped
  <2>. QED BY <2>1, <2>2
<1>17. \A r \in Requests, m \in OwnLimits : promise'[AccountTable[<<r, m>>]] # None =>
           /\ counterOf'[KeyTable[<<r, m>>]] # None =>
                \A t \in Int : t >= promise'[AccountTable[<<r, m>>]] + Second /\ t >= clock'
                  => <<heap'[counterOf'[KeyTable[<<r, m>>]]], t, m>> \in Letting
           /\ call'[r] # None /\ call'[r].limit = m =>
                \/ call'[r].now < promise'[AccountTable[<<r, m>>]] + Second
                \/ <<heap'[call'[r].ctr], call'[r].now, m>> \in Letting
  <2>. SUFFICES ASSUME NEW r \in Requests, NEW m \in OwnLimits, Told(r, m) # None
       PROVE /\ counterOf'[KeyTable[<<r, m>>]] # None =>
                  \A t \in Int : t >= Told(r, m) + Second /\ t >= clock
                    => <<heap'[counterOf'[KeyTable[<<r, m>>]]], t, m>> \in Letting
             /\ call'[r] # None /\ call'[r].limit = m =>
                  call'[r].now < Told(r, m) + Second \/ <<heap'[call'[r].ctr], call'[r].now, m>> \in Letting
    <3>1. clock' = clock /\ promise' = promise
      OBVIOUS
    <3>. QED BY <3>1, Zenon DEF Told
  <2>0. m \in Limits
    BY DEF OwnLimits
  <2>1. CASE KeyTable[<<r, m>>] = k
    <3>1. m = l /\ heap'[counterOf'[KeyTable[<<r, m>>]]] = n
      BY <1>5, <1>6, <1>8, <2>0, <2>1
    <3>2. r = p => heap'[call'[r].ctr] = n /\ call'[r].now = clock
      BY <1>2, <1>5
    <3>3. r # p => /\ call'[r] = call[r]
                   /\ call[r] # None => heap'[call[r].ctr] = heap[call[r].ctr]
      BY <1>2, <1>5, <1>7
    <3>4. clock >= clock
      BY <1>4
    <3>. QED BY <1>3, <1>4, <3>1, <3>2, <3>3, <3>4 DEF LimiterInv, WordKept
  <2>2. CASE KeyTable[<<r, m>>] # k
    <3>1. counterOf'[KeyTable[<<r, m>>]] # None =>
             /\ counterOf'[KeyTable[<<r, m>>]] = Mapped(r, m)
             /\ heap'[counterOf'[KeyTable[<<r, m>>]]] = heap[Mapped(r, m)]
      BY <1>5, <1>6, <1>7, <1>8, <2>0, <2>2 DEF Mapped
    <3>2. call'[r] # None /\ call'[r].limit = m => r # p
      BY <1>1, <1>2, <2>2
    <3>3. r # p => /\ call'[r] = call[r]
                   /\ call[r] # None => heap'[call[r].ctr] = heap[call[r].ctr]
      BY <1>2, <1>5, <1>7
    <3>. QED BY <3>1, <3>2, <3>3 DEF LimiterInv, WordKept
  <2>. QED BY <2>1, <2>2
<1>. QED BY <1>9, <1>10, <1>11, <1>12, <1>13, <1>14, <1>15, <1>16, <1>17, NextLimiterInv, Zenon

LEMMA LookupKeeps ==
  ASSUME LimiterInv, NEW p \in Requests, Lookup(p) PROVE LimiterInv'
<1>1. PICK l \in Limits : l = nextLimit[p]
  BY DEF Lookup
<1>2. /\ call[p] = None /\ UNCHANGED <<clock, rateLimits, nextLimit, promise>>
  BY DEF Lookup
<1>3. Key(p, l) = KeyTable[<<p, l>>] /\ counterOf[Key(p, l)] = Mapped(p, l)
  BY InTypes DEF Mapped
<1>4. CASE Mapped(p, l) # None
  <2>1. /\ call' = [call EXCEPT ![p] = [limit |-> l, now |-> clock, ctr |-> Mapped(p, l)]]
        /\ UNCHANGED <<heap, counterOf>>
    BY <1>1, <1>3, <1>4 DEF Lookup
  <2>2. Mapped(p, l) \in CounterIds
    BY <1>4, InTypes
  <2>. QED BY <1>1, <1>2, <2>1, <2>2, FindsCounter
<1>5. CASE Mapped(p, l) = None
  <2>1. PICK c \in CounterIds : c = FreshId /\ heap[c] = None
    <3>1. \E id \in CounterIds : heap[id] = None
      BY <1>1, <1>3, <1>5, Zenon DEF Lookup
    <3>. QED BY <3>1, Zenon DEF FreshId
  <2>2. /\ call' = [call EXCEPT ![p] = [limit |-> l, now |-> clock, ctr |-> c]]
        /\ heap' = [heap EXCEPT ![c] = NewCounter(l, clock)]
        /\ counterOf' = [counterOf EXCEPT ![KeyTable[<<p, l>>]] = c]
    BY <1>1, <1>3, <1>5, <2>1 DEF Lookup
  <2>. QED BY <1>1, <1>2, <1>5, <2>1, <2>2, MakesCounter
<1>. QED BY <1>4, <1>5

\* A check leaves a counter that lets in whoever it has promised to let in.
LEMMA CheckKeeps ==
  ASSUME LimiterInv, NEW p \in Requests, Check(p) PROVE LimiterInv'
<1>1. PICK l \in Limits, c \in CounterIds, now \in Int, k0 \in Counters :
         /\ call[p] # None /\ call[p].limit = l /\ call[p].ctr = c /\ call[p].now = now
         /\ k0 = heap[c]
  <2>1. call[p] # None
    BY DEF Check
  <2>. QED BY <2>1, InTypes
<1>2. PICK k \in Keys, a \in Limits \X Subjects :
         /\ k = KeyTable[<<p, l>>] /\ k = Key(p, l)
         /\ a = AccountTable[<<p, l>>] /\ a = Account(p, l)
  BY InTypes
<1>3. PICK v : v = CheckLimit(k0, now, l)
  OBVIOUS
<1>4. (l \in OwnLimits => Fits(k0, l)) /\ rateLimits \in Seq(LimitRows)
  <2>1. l \in OwnLimits => <<k0, l>> \in Fitting
    BY <1>1 DEF LimiterInv, CallsHold
  <2>. QED BY <2>1, FittingIs, InTypes
<1>5. PICK n \in Counters : n = v.counter /\ (l \in OwnLimits => <<n, l>> \in Fitting) /\ n # None
  <2>1. v.counter \in Counters
    BY <1>3, <1>4, CheckCounters
  <2>2. l \in OwnLimits => Fits(v.counter, l)
    BY <1>3, <1>4, CheckTypes
  <2>. QED BY <2>1, <2>2, FittingIs, NoneIsNothing
<1>6. /\ call' = [call EXCEPT ![p] = None]
      /\ nextLimit' = [nextLimit EXCEPT ![p] = IF v.allowed THEN l + 1 ELSE 0]
      /\ heap' = Collect([heap EXCEPT ![c] = n], counterOf, call')
      /\ promise' = [promise EXCEPT ![a] =
                      IF v.allowed THEN None
                      ELSE IF promise[a] = None /\ counterOf[k] = c
                           THEN now + WholeSeconds(v.retryAfter) ELSE promise[a]]
      /\ UNCHANGED <<clock, rateLimits, counterOf>>
  BY <1>1, <1>2, <1>3, <1>5 DEF Check
<1>7. /\ heap \in [CounterIds -> Counters \union {None}]
      /\ counterOf \in [Keys -> CounterIds \union {None}]
      /\ nextLimit \in [Requests -> Int]
      /\ call \in [Requests -> [limit : Nat, now : Int, ctr : CounterIds] \union {None}]
      /\ promise \in [Limits \X Subjects -> Int \union {None}]
      /\ clock \in Int /\ l \in Nat
  BY <1>4, LimitFacts DEF LimiterInv, LimiterTypes
<1>8. /\ call' \in [Requests -> [limit : Nat, now : Int, ctr : CounterIds] \union {None}]
      /\ call'[p] = None /\ \A r \in Requests \ {p} : call'[r] = call[r]
  BY <1>6, <1>7
<1>9. PICK h \in [CounterIds -> Counters \union {None}] :
         /\ h = [heap EXCEPT ![c] = n] /\ h[c] = n
         /\ \A d \in CounterIds : d # c => h[d] = heap[d]
  <2>1. PICK h : h = [heap EXCEPT ![c] = n]
    OBVIOUS
  <2>2. h \in [CounterIds -> Counters \union {None}]
    BY <1>7, <2>1
  <2>3. h[c] = n /\ \A d \in CounterIds : d # c => h[d] = heap[d]
    BY <1>7, <2>1
  <2>. QED BY <2>1, <2>2, <2>3
<1>10. /\ heap' \in [CounterIds -> Counters \union {None}]
       /\ \A j \in Keys : counterOf[j] # None => heap'[counterOf[j]] = h[counterOf[j]]
       /\ \A r \in Requests : call'[r] # None => heap'[call[r].ctr] = h[call[r].ctr]
  <2>1. PICK g : g = Collect(h, counterOf, call')
    OBVIOUS
  <2>2. /\ g \in [CounterIds -> Counters \union {None}]
        /\ \A j \in Keys : counterOf[j] \in CounterIds => g[counterOf[j]] = h[counterOf[j]]
        /\ \A r \in Requests : call'[r] # None /\ call'[r].ctr \in CounterIds
             => g[call'[r].ctr] = h[call'[r].ctr]
    BY <2>1, CollectKeeps
  <2>3. heap' = g
    BY <1>6, <1>9, <2>1
  <2>4. \A r \in Requests : call'[r] # None => call'[r].ctr \in CounterIds /\ call'[r] = call[r]
    BY <1>8, InTypes
  <2>. QED BY <1>7, <2>2, <2>3, <2>4
<1>11. \A r \in Requests : call'[r] # None => r # p /\ call'[r] = call[r] /\ call[r] # None
  BY <1>8
<1>12. /\ \A r \in Requests \ {p} : nextLimit'[r] = nextLimit[r]
       /\ nextLimit' \in [Requests -> Int]
  BY <1>6, <1>7
<1>13. \A r \in Requests : call[r] # None =>
         /\ call[r].ctr \in CounterIds /\ call[r].limit \in Limits
         /\ call[r].ctr = c => /\ KeyTable[<<r, call[r].limit>>] = k
                               /\ call[r].limit \in OwnLimits => call[r].limit = l
         /\ call[r].now \in Int
  <2>. SUFFICES ASSUME NEW r \in Requests, call[r] # None
       PROVE /\ call[r].ctr \in CounterIds /\ call[r].limit \in Limits
             /\ call[r].ctr = c => /\ KeyTable[<<r, call[r].limit>>] = k
                                   /\ call[r].limit \in OwnLimits => call[r].limit = l
             /\ call[r].now \in Int
    OBVIOUS
  <2>1. call[r].ctr \in CounterIds /\ call[r].limit \in Limits /\ call[r].now \in Int
    BY InTypes
  <2>2. call[r].ctr = c => KeyTable[<<r, call[r].limit>>] = KeyTable[<<p, l>>]
    BY <1>1 DEF LimiterInv, OwnCounters
  <2>3. call[r].limit \in OwnLimits /\ KeyTable[<<p, l>>] = KeyTable[<<r, call[r].limit>>]
          => l = call[r].limit
    BY InTypes
  <2>. QED BY <1>2, <2>1, <2>2, <2>3
<1>14. \A r \in Requests : \A m \in Limits :
         /\ KeyTable[<<r, m>>] \in Keys
         /\ AccountTable[<<r, m>>] \in Limits \X Subjects
         /\ m \in OwnLimits /\ KeyTable[<<r, m>>] = k => m = l
         /\ m \in OwnLimits => ((KeyTable[<<r, m>>] = k) <=> (AccountTable[<<r, m>>] = a))
         /\ counterOf[KeyTable[<<r, m>>]] = c => KeyTable[<<r, m>>] = k
  <2>. SUFFICES ASSUME NEW r \in Requests, NEW m \in Limits
       PROVE  /\ KeyTable[<<r, m>>] \in Keys
              /\ AccountTable[<<r, m>>] \in Limits \X Subjects
              /\ m \in OwnLimits /\ KeyTable[<<r, m>>] = k => m = l
              /\ m \in OwnLimits => ((KeyTable[<<r, m>>] = k) <=> (AccountTable[<<r, m>>] = a))
              /\ counterOf[KeyTable[<<r, m>>]] = c => KeyTable[<<r, m>>] = k
    OBVIOUS
  <2>1. KeyTable[<<r, m>>] \in Keys /\ AccountTable[<<r, m>>] \in Limits \X Subjects
    BY InTypes
  <2>2. m \in OwnLimits =>
        /\ KeyTable[<<p, l>>] = KeyTable[<<r, m>>] => l = m
        /\ (KeyTable[<<p, l>>] = KeyTable[<<r, m>>])
              <=> (AccountTable[<<p, l>>] = AccountTable[<<r, m>>])
    BY InTypes
  <2>3. counterOf[KeyTable[<<r, m>>]] = c => KeyTable[<<r, m>>] = KeyTable[<<p, l>>]
    BY <1>1, <2>1 DEF LimiterInv, OwnCounters
  <2>. QED BY <1>2, <2>1, <2>2, <2>3
<1>15. /\ promise' \in [Limits \X Subjects -> Int \union {None}]
       /\ \A b \in Limits \X Subjects : b # a => promise'[b] = promise[b]
       /\ v.allowed => promise'[a] = None
       /\ ~v.allowed => \/ promise'[a] = promise[a]
                        \/ counterOf[k] = c /\ promise'[a] = now + WholeSeconds(v.retryAfter)
  <2>1. PICK d : d = IF v.allowed THEN None
                      ELSE IF promise[a] = None /\ counterOf[k] = c
                           THEN now + WholeSeconds(v.retryAfter) ELSE promise[a]
    OBVIOUS
  <2>2. d \in Int \union {None}
    <3>0. ~v.allowed => v.retryAfter \in Int
      BY <1>3, <1>4, CheckCounters
    <3>1. ~v.allowed => WholeSeconds(v.retryAfter) \in Int
      BY <3>0, WholeSecondsIs
    <3>2. promise[a] \in Int \union {None}
      BY <1>7
    <3>. QED BY <2>1, <3>1, <3>2
  <2>3. promise' = [promise EXCEPT ![a] = d]
    BY <1>6, <2>1
  <2>. QED BY <1>7, <2>1, <2>2, <2>3
<1>16. ~v.allowed /\ l \in OwnLimits =>
         /\ v.retryAfter \in Int /\ v.retryAfter >= 1
         /\ \A t \in Int : <<k0, t, l>> \in Letting => <<n, t, l>> \in Letting
         /\ \A t \in Int : t >= now + v.retryAfter => <<n, t, l>> \in Letting
  <2>. SUFFICES ASSUME ~v.allowed, l \in OwnLimits
       PROVE  /\ v.retryAfter \in Int /\ v.retryAfter >= 1
              /\ \A t \in Int : <<k0, t, l>> \in Letting => <<n, t, l>> \in Letting
              /\ \A t \in Int : t >= now + v.retryAfter => <<n, t, l>> \in Letting
    OBVIOUS
  <2>1. ~Admits(k0, now, l)
    BY <1>3 DEF Admits
  <2>2. /\ v.retryAfter \in Int /\ v.retryAfter >= 1
        /\ \A t \in Int : Admits(k0, t, l) => Admits(n, t, l)
        /\ \A t \in Int : t >= now + v.retryAfter => Admits(n, t, l)
    BY <1>3, <1>4, <1>5, <2>1, Refusal
  <2>. QED BY <2>2, LettingIs
<1>17. LimiterTypes'
  <2>1. Limits' = Limits
    BY <1>6 DEF Limits
  <2>. QED BY <1>6, <1>8, <1>10, <1>12, <1>15, <2>1 DEF LimiterInv, LimiterTypes
<1>18. \A r \in Requests : call'[r] # None =>
           /\ call'[r].limit \in Limits /\ nextLimit'[r] = call'[r].limit
           /\ call'[r].now <= clock'
           /\ heap'[call'[r].ctr] # None
           /\ call'[r].limit \in OwnLimits => <<heap'[call'[r].ctr], call'[r].limit>> \in Fitting
  <2>. SUFFICES ASSUME NEW r \in Requests, call'[r] # None
                PROVE  /\ call'[r].limit \in Limits /\ nextLimit'[r] = call'[r].limit
                       /\ call'[r].now <= clock'
                       /\ heap'[call'[r].ctr] # None
                       /\ call'[r].limit \in OwnLimits => <<heap'[call'[r].ctr], call'[r].limit>> \in Fitting
    OBVIOUS
  <2>1. r # p /\ call'[r] = call[r] /\ call[r] # None
    BY <1>11
  <2>2. /\ call[r].limit \in Limits /\ nextLimit[r] = call[r].limit /\ call[r].now <= clock
        /\ heap[call[r].ctr] # None
        /\ call[r].limit \in OwnLimits => <<heap[call[r].ctr], call[r].limit>> \in Fitting
    BY <2>1 DEF LimiterInv, CallsHold
  <2>3. nextLimit'[r] = nextLimit[r] /\ clock' = clock
    BY <1>6, <1>12, <2>1
  <2>4. call[r].ctr \in CounterIds /\ heap'[call[r].ctr] = h[call[r].ctr]
    BY <1>10, <1>13, <2>1
  <2>5. CASE call[r].ctr = c
    BY <1>5, <1>9, <1>13, <2>1, <2>2, <2>3, <2>4, <2>5
  <2>6. CASE call[r].ctr # c
    BY <1>9, <2>1, <2>2, <2>3, <2>4, <2>6
  <2>. QED BY <2>5, <2>6
<1>19. \A j \in Keys : counterOf'[j] # None => heap'[counterOf'[j]] # None
  <2>1. \A j \in Keys : counterOf[j] # None => counterOf[j] \in CounterIds /\ heap[counterOf[j]] # None
    BY <1>7 DEF LimiterInv, MapHolds
  <2>. QED BY <1>5, <1>6, <1>9, <1>10, <2>1
<1>20. \A r \in Requests, m \in OwnLimits :
        counterOf'[KeyTable[<<r, m>>]] # None
          => <<heap'[counterOf'[KeyTable[<<r, m>>]]], m>> \in Fitting
  <2>. SUFFICES ASSUME NEW r \in Requests, NEW m \in OwnLimits, counterOf[KeyTable[<<r, m>>]] # None
                PROVE  <<heap'[counterOf[KeyTable[<<r, m>>]]], m>> \in Fitting
    BY <1>6, Zenon
  <2>0. m \in Limits
    BY DEF OwnLimits
  <2>1. CASE counterOf[KeyTable[<<r, m>>]] = c
    BY <1>5, <1>9, <1>10, <1>14, <2>0, <2>1
  <2>2. CASE counterOf[KeyTable[<<r, m>>]] # c
    <3>1. heap'[counterOf[KeyTable[<<r, m>>]]] = heap[counterOf[KeyTable[<<r, m>>]]]
      BY <1>7, <1>9, <1>10, <1>14, <2>0, <2>2
    <3>. QED BY <3>1 DEF LimiterInv, MapHolds, Mapped
  <2>. QED BY <2>1, <2>2
<1>21. \A i, j \in Keys : counterOf'[i] # None /\ counterOf'[i] = counterOf'[j] => i = j
  BY <1>6 DEF LimiterInv, OwnCounters
<1>22. \A r \in Requests, j \in Keys :
           call'[r] # None /\ counterOf'[j] = call'[r].ctr
             => j = KeyTable[<<r, call'[r].limit>>]
  BY <1>6, <1>11 DEF LimiterInv, OwnCounters
<1>23. \A r, q \in Requests :
           call'[r] # None /\ call'[q] # None /\ call'[r].ctr = call'[q].ctr
             => KeyTable[<<r, call'[r].limit>>] = KeyTable[<<q, call'[q].limit>>]
  BY <1>11 DEF LimiterInv, OwnCounters
<1>24. \A r, q \in Requests :
           /\ call'[r] # None /\ call'[q] # None
           /\ KeyTable[<<r, call'[r].limit>>] = KeyTable[<<q, call'[q].limit>>]
           /\ counterOf'[KeyTable[<<q, call'[q].limit>>]] = call'[q].ctr
           /\ call'[r].ctr # call'[q].ctr
           => call'[r].now <= call'[q].now
  BY <1>6, <1>11 DEF LimiterInv, StaleIsEarlier, Mapped
<1>25. \A r \in Requests, m \in OwnLimits : promise'[AccountTable[<<r, m>>]] # None =>
           /\ counterOf'[KeyTable[<<r, m>>]] # None =>
                \A t \in Int : t >= promise'[AccountTable[<<r, m>>]] + Second /\ t >= clock'
                  => <<heap'[counterOf'[KeyTable[<<r, m>>]]], t, m>> \in Letting
           /\ call'[r] # None /\ call'[r].limit = m =>
                \/ call'[r].now < promise'[AccountTable[<<r, m>>]] + Second
                \/ <<heap'[call'[r].ctr], call'[r].now, m>> \in Letting
  <2>. SUFFICES ASSUME NEW r \in Requests, NEW m \in OwnLimits, NEW d, d # None,
                       d = promise'[AccountTable[<<r, m>>]]
       PROVE /\ Mapped(r, m) # None =>
                  \A t \in Int : t >= d + Second /\ t >= clock
                    => <<heap'[Mapped(r, m)], t, m>> \in Letting
             /\ call'[r] # None /\ call[r].limit = m =>
                  call[r].now < d + Second \/ <<heap'[call[r].ctr], call[r].now, m>> \in Letting
    <3>1. UNCHANGED <<clock, counterOf>>
      BY <1>6
    <3>. QED BY <1>11, <3>1, ZenonT(40) DEF Mapped
  <2>0. m \in Limits /\ Second \in Nat
    BY LimiterAssumption DEF OwnLimits
  <2>1. CASE KeyTable[<<r, m>>] # k
    <3>1. d = Told(r, m)
      BY <1>14, <1>15, <2>0, <2>1 DEF Told
    <3>2. Mapped(r, m) # None => heap'[Mapped(r, m)] = heap[Mapped(r, m)]
      BY <1>7, <1>9, <1>10, <1>14, <2>0, <2>1 DEF Mapped
    <3>3. call'[r] # None /\ call[r].limit = m => heap'[call[r].ctr] = heap[call[r].ctr]
      BY <1>9, <1>10, <1>11, <1>13, <2>1
    <3>. QED BY <1>11, <3>1, <3>2, <3>3 DEF LimiterInv, WordKept
  <2>2. CASE KeyTable[<<r, m>>] = k /\ d = Told(r, m)
    <3>1. m = l /\ ~v.allowed /\ Told(r, m) # None
      BY <1>14, <1>15, <2>0, <2>2
    <3>2. Mapped(r, m) # None =>
            \/ heap'[Mapped(r, m)] = heap[Mapped(r, m)]
            \/ heap[Mapped(r, m)] = k0 /\ heap'[Mapped(r, m)] = n
      BY <1>1, <1>7, <1>9, <1>10, <1>14, <2>0 DEF Mapped
    <3>3. call'[r] # None =>
            \/ heap'[call[r].ctr] = heap[call[r].ctr]
            \/ heap[call[r].ctr] = k0 /\ heap'[call[r].ctr] = n
      BY <1>1, <1>9, <1>10, <1>11, <1>13
    <3>4. Mapped(r, m) # None =>
              \A t \in Int : t >= d + Second /\ t >= clock => <<heap[Mapped(r, m)], t, m>> \in Letting
      BY <2>2, <3>1 DEF LimiterInv, WordKept
    <3>5. call'[r] # None /\ call[r].limit = m =>
              call[r].now < d + Second \/ <<heap[call[r].ctr], call[r].now, m>> \in Letting
      BY <1>11, <2>2, <3>1 DEF LimiterInv, WordKept
    <3>. QED BY <1>11, <1>13, <1>16, <3>1, <3>2, <3>3, <3>4, <3>5
  <2>3. CASE KeyTable[<<r, m>>] = k /\ d # Told(r, m)
    <3>1. /\ m = l /\ ~v.allowed /\ counterOf[k] = c
          /\ d = now + WholeSeconds(v.retryAfter)
      BY <1>14, <1>15, <2>0, <2>3 DEF Told
    <3>2. Mapped(r, m) = c /\ heap'[c] = n
      BY <1>7, <1>9, <1>10, <2>3, <3>1, NoneIsNothing DEF Mapped
    <3>4. /\ d \in Int /\ v.retryAfter \in Int /\ v.retryAfter >= 1
          /\ now + v.retryAfter < d + Second
      <4>1. v.retryAfter \in Int /\ v.retryAfter >= 1
        BY <1>16, <3>1
      <4>2. PICK w \in Int : w = WholeSeconds(v.retryAfter) /\ v.retryAfter < w + Second
        BY <4>1, WholeSecondsIs
      <4>. QED BY <2>0, <3>1, <4>1, <4>2
    <3>3. ASSUME call'[r] # None, call[r].limit = m
          PROVE  call[r].now < d + Second \/ <<heap'[call[r].ctr], call[r].now, m>> \in Letting
      <4>1. call[r] # None /\ call[r].now \in Int
        BY <1>11, <1>13, <3>3
      <4>2. CASE call[r].ctr = c
        <5>1. call[r].now < d + Second \/ call[r].now >= now + v.retryAfter
          BY <2>0, <3>4, <4>1
        <5>. QED BY <1>16, <3>1, <3>2, <4>1, <4>2, <5>1
      <4>3. CASE call[r].ctr # c
        <5>1. Mapped(p, l) = c
          BY <1>2, <3>1 DEF Mapped
        <5>2. call[r].now <= now
          BY <1>1, <1>2, <2>3, <3>1, <3>3, <4>1, <4>3, <5>1 DEF LimiterInv, StaleIsEarlier
        <5>. QED BY <2>0, <3>4, <4>1, <5>2
      <4>. QED BY <4>2, <4>3
    <3>5. \A t \in Int : t >= d + Second => t >= now + v.retryAfter
      BY <2>0, <3>4
    <3>. QED BY <1>16, <3>1, <3>2, <3>3, <3>5
  <2>. QED BY <2>1, <2>2, <2>3
<1>. QED BY <1>6, <1>17, <1>18, <1>19, <1>20, <1>21, <1>22, <1>23, <1>24, <1>25, NextLimiterInv, Zenon

\* What a step may do to the limiter.
Idling ==
  /\ UNCHANGED <<clock, rateLimits, heap, counterOf, call, granted, promise>>
  /\ \/ nextLimit' = nextLimit
     \/ \E r \in Requests : nextLimit[r] \notin Limits /\ nextLimit' = [nextLimit EXCEPT ![r] = 1]

LEMMA OnlyLimiterSteps ==
  [Next]_vars => \/ Idling
                 \/ \E r \in Requests : Lookup(r) \/ Check(r)
                 \/ LimiterTick \/ \E k \in Keys : cleanupExpiredCountersOnce(k)
<1>. SUFFICES ASSUME [Next]_vars
              PROVE  \/ Idling
                     \/ \E r \in Requests : Lookup(r) \/ Check(r)
                     \/ LimiterTick \/ \E k \in Keys : cleanupExpiredCountersOnce(k)
  OBVIOUS
<1>1. UNCHANGED limiterVars => Idling
  BY Zenon DEF limiterVars, Idling
<1>2. ASSUME NEW r \in Requests, Chain(r) PROVE Idling \/ Lookup(r) \/ Check(r)
  <2>1. CASE LeaveRate(r)
    BY <2>1, Zenon DEF LeaveRate, Idling
  <2>2. CASE RateLimit(r)
    BY <2>2, Zenon DEF RateLimit
  <2>3. CASE ~LeaveRate(r) /\ ~RateLimit(r)
    <3>1. UNCHANGED limiterVars
      BY <1>2, <2>3, Zenon DEF Chain, Arrive, SkipLimits, ReadKeys, Authenticate, FilterIP,
         EnterQuota, LeaveQuota, Serve, ServeUncounted, Tracked
    <3>. QED BY <1>1, <3>1
  <2>. QED BY <2>1, <2>2, <2>3
<1>3. Limiter => LimiterTick \/ \E k \in Keys : cleanupExpiredCountersOnce(k)
  BY Zenon DEF Limiter
<1>4. Quotas \/ IpAdministration \/ KeyAdministration => UNCHANGED limiterVars
  BY Zenon DEF Quotas, IpAdministration, KeyAdministration
<1>5. UNCHANGED vars => UNCHANGED limiterVars
  BY Zenon DEF vars
<1>. QED BY <1>1, <1>2, <1>3, <1>4, <1>5, Zenon DEF Next

LEMMA LimiterKeeps == LimiterInv /\ [Next]_vars => LimiterInv'
<1>. SUFFICES ASSUME LimiterInv, [Next]_vars PROVE LimiterInv'
  OBVIOUS
<1>1. ASSUME Idling PROVE LimiterInv'
  <2>1. nextLimit \in [Requests -> Int]
    BY DEF LimiterInv, LimiterTypes
  <2>2. /\ nextLimit' \in [Requests -> Int]
        /\ \A r \in Requests : call[r] # None => nextLimit'[r] = nextLimit[r]
    <3>1. CASE nextLimit' = nextLimit
      BY <2>1, <3>1
    <3>2. ASSUME NEW q \in Requests, nextLimit[q] \notin Limits,
                 nextLimit' = [nextLimit EXCEPT ![q] = 1]
          PROVE  /\ nextLimit' \in [Requests -> Int]
                 /\ \A r \in Requests : call[r] # None => nextLimit'[r] = nextLimit[r]
      <4>1. call[q] = None
        BY <3>2 DEF LimiterInv, CallsHold
      <4>. QED BY <2>1, <3>2, <4>1
    <3>. QED BY <1>1, <3>1, <3>2, Zenon DEF Idling
  <2>3. UNCHANGED <<clock, rateLimits, heap, counterOf, call, promise>>
    BY <1>1, Zenon DEF Idling
  <2>. QED BY <2>2, <2>3, LimiterStaysIf
<1>. QED BY <1>1, OnlyLimiterSteps, LookupKeeps, CheckKeeps, TickKeeps, SweepKeeps, Zenon

\* A step that refuses a caller is its check, of a counter that does not let it in.
LEMMA RefusedIsTurnedAway ==
  ASSUME LimiterInv, [Next]_vars, NEW r \in Requests, call[r] # None, nextLimit'[r] = 0
  PROVE  <<heap[call[r].ctr], call[r].now, call[r].limit>> \notin Letting
<1>1. nextLimit \in [Requests -> Int]
  BY DEF LimiterInv, LimiterTypes
<1>2. call[r].limit \in Limits /\ nextLimit[r] = call[r].limit
  BY DEF LimiterInv, CallsHold
<1>3. PICK l \in Limits : l = call[r].limit /\ l \in Nat /\ l >= 1
  <2>1. rateLimits \in Seq(LimitRows)
    BY InTypes
  <2>. QED BY <1>2, <2>1, LimitFacts
<1>4. nextLimit'[r] # nextLimit[r]
  BY <1>2, <1>3
<1>5. ~Idling
  BY <1>1, <1>2, <1>4 DEF Idling
<1>6. ~LimiterTick /\ ~\E k \in Keys : cleanupExpiredCountersOnce(k)
  BY <1>4, Zenon DEF LimiterTick, cleanupExpiredCountersOnce
<1>7. ~\E q \in Requests : Lookup(q)
  BY <1>4, Zenon DEF Lookup
<1>8. PICK q \in Requests : Check(q)
  BY <1>5, <1>6, <1>7, OnlyLimiterSteps, Zenon
<1>9. nextLimit' = [nextLimit EXCEPT ![q] =
                      IF CheckLimit(heap[call[q].ctr], call[q].now, call[q].limit).allowed
                      THEN call[q].limit + 1 ELSE 0]
  BY <1>8, Zenon DEF Check
<1>10. q = r
  BY <1>1, <1>4, <1>9
<1>11. ~Admits(heap[call[r].ctr], call[r].now, l)
  <2>1. l + 1 # 0
    BY <1>3
  <2>. QED BY <1>1, <1>3, <1>9, <1>10, <2>1 DEF Admits
<1>12. heap[call[r].ctr] \in Counters /\ call[r].now \in Int
  BY InTypes
<1>. QED BY <1>3, <1>11, <1>12, LettingIs

LEMMA PromisesKept ==
  ASSUME LimiterInv, [Next]_vars, NEW r \in Requests, call[r] # None, nextLimit'[r] = 0,
         Own(call[r].limit)
  PROVE  LET due == promise[Account(r, call[r].limit)]
         IN due = None \/ call[r].now < due + Second
<1>1. call[r].limit \in Limits /\ call[r].limit \in OwnLimits
  BY InTypes DEF OwnLimits
<1>2. Told(r, call[r].limit) = promise[Account(r, call[r].limit)]
  BY <1>1, InTypes DEF Told
<1>3. <<heap[call[r].ctr], call[r].now, call[r].limit>> \notin Letting
  BY RefusedIsTurnedAway
<1>. QED BY <1>1, <1>2, <1>3 DEF LimiterInv, WordKept

\* A caller that was refused and told to come back after so many seconds is let
\* in by that limit when it does, the second the header cuts off allowed for,
\* however many callers race, come late or come between, whether its counter has
\* been swept meanwhile or not, and whatever other limits the tenant has -- as long
\* as none of them shares this one's counters.
THEOREM RefusalsKeepTheirWord == Spec => RetryAfterKept
<1>1. Init => LimiterInv
  <2>. SUFFICES ASSUME Init PROVE LimiterInv
    OBVIOUS
  <2>1. setup.limits \in Seq(LimitRows) /\ LimiterInit(setup.limits)
    BY SetupAssumption DEF Init
  <2>. QED BY <2>1, LimiterStarts
<1>2. LimiterInv /\ [Next]_vars =>
        [\A r \in Requests :
           call[r] # None /\ nextLimit'[r] = 0 /\ Own(call[r].limit)
             => LET due == promise[Account(r, call[r].limit)]
                IN due = None \/ call[r].now < due + Second]_limiterVars
  BY PromisesKept, Zenon
<1>. QED BY <1>1, <1>2, LimiterKeeps, PTL DEF Spec, RetryAfterKept

-----------------------------------------------------------------------------
(* What a window lets through                                              *)

\* FiltersStep, case by case.
LEMMA FiltersAre ==
  ASSUME NEW f, NEW u, NEW d, NEW k \in Nat, Filters(f, u, d, k), NEW j \in 0 .. k
  PROVE  /\ j = 0 => f[j] = <<>>
         /\ j # 0 /\ u[j] > d => f[j] = Append(f[j - 1], u[j])
         /\ j # 0 /\ ~(u[j] > d) => f[j] = f[j - 1]
<1>1. f[j] = IF j = 0 THEN <<>>
             ELSE IF u[j] > d THEN Append(f[j - 1], u[j]) ELSE f[j - 1]
  BY FiltersStep, Zenon
<1>. QED BY <1>1

LEMMA ValidOfNone == ASSUME NEW cutoff PROVE ValidRequests(<<>>, cutoff) = <<>>
<1>1. <<>> \in Seq(Int) /\ Len(<<>>) = 0 /\ 0 \in Nat /\ 0 \in 0 .. 0
  OBVIOUS
<1>2. PICK f : Filters(f, <<>>, cutoff, 0) /\ ValidRequests(<<>>, cutoff) = f[0]
  BY <1>1, ValidIsFiltered
<1>3. f[0] = <<>>
  BY <1>1, <1>2, FiltersAre
<1>. QED BY <1>2, <1>3

\* What is appended is filtered by itself.
LEMMA ValidAppended ==
  ASSUME NEW times \in Seq(Int), NEW t \in Int, NEW cutoff \in Int
  PROVE  ValidRequests(Append(times, t), cutoff) =
           IF t > cutoff THEN Append(ValidRequests(times, cutoff), t)
           ELSE ValidRequests(times, cutoff)
<1>1. PICK n \in Nat : n = Len(times)
  OBVIOUS
<1>2. PICK more : more = Append(times, t)
  OBVIOUS
<1>3. /\ more \in Seq(Int) /\ Len(more) = n + 1 /\ more[n + 1] = t
      /\ \A i \in 1 .. n : more[i] = times[i]
  BY <1>1, <1>2
<1>4. PICK f : Filters(f, times, cutoff, n) /\ ValidRequests(times, cutoff) = f[n]
  BY <1>1, ValidIsFiltered
<1>5. PICK k \in Nat : k = n + 1 /\ k - 1 = n
  BY <1>1
<1>6. PICK g : Filters(g, more, cutoff, k) /\ ValidRequests(more, cutoff) = g[k]
  BY <1>3, <1>5, ValidIsFiltered
<1>. DEFINE Bad == {i \in 0 .. n : g[i] # f[i]}
<1>7. Bad = {}
  <2>. SUFFICES ASSUME Bad # {} PROVE FALSE
    OBVIOUS
  <2>1. PICK m \in Bad : \A j \in Bad : m <= j
    <3>1. Bad \in SUBSET Nat
      OBVIOUS
    <3>. HIDE DEF Bad
    <3>. QED BY <3>1, LeastNumber
  <2>2. m \in 0 .. n /\ g[m] # f[m] /\ m \in 0 .. k
    BY <1>5
  <2>3. /\ m = 0 => f[m] = <<>>
        /\ m # 0 /\ times[m] > cutoff => f[m] = Append(f[m - 1], times[m])
        /\ m # 0 /\ ~(times[m] > cutoff) => f[m] = f[m - 1]
    BY <1>4, <2>2, FiltersAre
  <2>7. /\ m = 0 => g[m] = <<>>
        /\ m # 0 /\ more[m] > cutoff => g[m] = Append(g[m - 1], more[m])
        /\ m # 0 /\ ~(more[m] > cutoff) => g[m] = g[m - 1]
    BY <1>6, <2>2, FiltersAre
  <2>4. m # 0
    BY <2>2, <2>3, <2>7
  <2>5. more[m] = times[m]
    BY <1>3, <2>2, <2>4
  <2>6. g[m - 1] = f[m - 1]
    <3>1. m - 1 \in 0 .. n /\ m - 1 < m
      BY <2>2, <2>4
    <3>2. m - 1 \notin Bad
      BY <2>1, <3>1
    <3>. QED BY <3>1, <3>2
  <2>. QED BY <2>2, <2>3, <2>5, <2>6, <2>7
<1>8. g[n] = f[n]
  <2>1. n \in 0 .. n
    BY <1>1
  <2>. QED BY <1>7, <2>1
<1>9. /\ more[k] > cutoff => g[k] = Append(g[k - 1], more[k])
      /\ ~(more[k] > cutoff) => g[k] = g[k - 1]
  <2>1. k \in 0 .. k /\ k # 0
    BY <1>1, <1>5
  <2>. QED BY <1>6, <2>1, FiltersAre
<1>. QED BY <1>2, <1>3, <1>4, <1>5, <1>6, <1>8, <1>9

\* A cutoff after an earlier one leaves what it leaves by itself.
LEMMA ValidTwice ==
  ASSUME NEW times \in Seq(Int), NEW cutoff \in Int, NEW later \in Int, cutoff <= later
  PROVE  ValidRequests(ValidRequests(times, cutoff), later) = ValidRequests(times, later)
<1>1. PICK n \in Nat : n = Len(times)
  OBVIOUS
<1>2. PICK f : Filters(f, times, cutoff, n) /\ ValidRequests(times, cutoff) = f[n]
  BY <1>1, ValidIsFiltered
<1>3. PICK h : Filters(h, times, later, n) /\ ValidRequests(times, later) = h[n]
  BY <1>1, ValidIsFiltered
<1>. DEFINE Fine(i) == f[i] \in Seq(Int) /\ ValidRequests(f[i], later) = h[i]
            Bad == {i \in 0 .. n : ~Fine(i)}
<1>4. Bad = {}
  <2>. SUFFICES ASSUME Bad # {} PROVE FALSE
    OBVIOUS
  <2>1. PICK m \in Bad : \A j \in Bad : m <= j
    <3>1. Bad \in SUBSET Nat
      OBVIOUS
    <3>. HIDE DEF Bad
    <3>. QED BY <3>1, LeastNumber
  <2>2. m \in 0 .. n /\ ~Fine(m)
    OBVIOUS
  <2>3. /\ m = 0 => f[m] = <<>>
        /\ m # 0 /\ times[m] > cutoff => f[m] = Append(f[m - 1], times[m])
        /\ m # 0 /\ ~(times[m] > cutoff) => f[m] = f[m - 1]
    BY <1>2, <2>2, FiltersAre
  <2>9. /\ m = 0 => h[m] = <<>>
        /\ m # 0 /\ times[m] > later => h[m] = Append(h[m - 1], times[m])
        /\ m # 0 /\ ~(times[m] > later) => h[m] = h[m - 1]
    BY <1>3, <2>2, FiltersAre
  <2>4. m # 0
    <3>1. <<>> \in Seq(Int) /\ ValidRequests(<<>>, later) = <<>>
      BY ValidOfNone
    <3>2. m = 0 => f[m] = <<>> /\ h[m] = <<>>
      BY <2>3, <2>9
    <3>3. m = 0 => Fine(m)
      BY <3>1, <3>2
    <3>. QED BY <2>2, <3>3
  <2>5. PICK u \in Seq(Int) : u = f[m - 1] /\ ValidRequests(u, later) = h[m - 1]
    <3>1. m - 1 \in 0 .. n /\ m - 1 < m
      BY <2>2, <2>4
    <3>2. m - 1 \notin Bad
      BY <2>1, <3>1
    <3>. QED BY <3>1, <3>2
  <2>6. PICK t \in Int : t = times[m]
    BY <1>1, <2>2, <2>4
  <2>7. CASE t > cutoff
    <3>1. f[m] = Append(u, t) /\ Append(u, t) \in Seq(Int)
      BY <2>3, <2>4, <2>5, <2>6, <2>7
    <3>2. ValidRequests(Append(u, t), later) =
             IF t > later THEN Append(ValidRequests(u, later), t) ELSE ValidRequests(u, later)
      BY ValidAppended
    <3>3. h[m] = IF t > later THEN Append(h[m - 1], t) ELSE h[m - 1]
      BY <2>4, <2>6, <2>9
    <3>. QED BY <2>2, <2>5, <3>1, <3>2, <3>3
  <2>8. CASE ~(t > cutoff)
    <3>1. ~(t > later)
      BY <2>8
    <3>. QED BY <2>2, <2>3, <2>4, <2>5, <2>6, <2>8, <2>9, <3>1
  <2>. QED BY <2>7, <2>8
<1>5. Fine(n)
  <2>1. n \in 0 .. n
    BY <1>1
  <2>. QED BY <1>4, <2>1
<1>. QED BY <1>2, <1>3, <1>5

\* What an account of a limit has been granted in the last 1, 2, ... ticks, and
\* the ages WindowBounded is about.
Histories(row) == [0 .. row.window - 1 -> Nat]
Span(row) == {n \in 0 .. row.window - 1 : n + Lag < row.window}

\* A tick later, and an admission later.
Older(s) == [n \in DOMAIN s |-> IF n = 0 THEN 0 ELSE s[n - 1]]
More(s) == [n \in DOMAIN s |-> s[n] + 1]

\* An account that may start with a new counter; one whose counter is k at time
\* t.  A fixed window may begin with the limit of the one before it; everything
\* else is in the counter.
Forgotten(s, row) ==
  \A n \in Span(row) : s[n] <= IF row.algorithm = "fixed_window" THEN row.limit ELSE 0

FixedRemembers(k, s, t, row) ==
  /\ k.count \in 0 .. row.limit
  /\ \A n \in Span(row) :
       /\ s[n] <= k.count + row.limit
       /\ t - n > k.since + Lag => s[n] <= k.count

SlidingRemembers(k, s, t, row) ==
  \A n \in Span(row) :
    /\ s[n] <= Len(ValidRequests(k.times, t - n - Lag - 1))
    /\ (\A i \in DOMAIN k.times : i = Len(k.times) => t - n > k.times[i] + Lag) => s[n] = 0

Tokens(k, t, row) == k.count + (t - k.since) * row.limit

BucketRemembers(k, s, t, row) ==
  \A n \in Span(row) :
    /\ t - n > k.since + Lag => s[n] = 0
    /\ s[n] >= 1 => /\ Tokens(k, t, row) >= 0
                    /\ s[n] * row.window + Tokens(k, t, row)
                         <= row.limit * row.window + (n + Lag) * row.limit

Remembers(k, s, t, row) ==
  /\ row.algorithm = "fixed_window" => FixedRemembers(k, s, t, row)
  /\ row.algorithm = "sliding_window" => SlidingRemembers(k, s, t, row)
  /\ row.algorithm = "token_bucket" => BucketRemembers(k, s, t, row)

LEMMA RowFacts ==
  ASSUME NEW row \in LimitRows
  PROVE  /\ row.window \in Nat /\ row.window >= 1 /\ row.limit \in Nat /\ row.limit >= 1
         /\ row.algorithm \in Algorithms /\ Lag \in Nat /\ CleanAge \in Nat
         /\ \A n \in Span(row) : n \in Nat /\ n \in 0 .. row.window - 1
         /\ \A n \in Span(row) : n # 0 => n - 1 \in Span(row)
         /\ \A s \in Histories(row) : \A n \in Span(row) : s[n] \in Nat
<1>1. /\ row.window \in Nat /\ row.window >= 1 /\ row.limit \in Nat /\ row.limit >= 1
      /\ row.algorithm \in Algorithms /\ Lag \in Nat /\ CleanAge \in Nat
  BY LimiterAssumption DEF LimitRows
<1>2. \A n \in Span(row) : n \in Nat /\ n \in 0 .. row.window - 1
  BY <1>1 DEF Span
<1>3. \A n \in Span(row) : n # 0 => n - 1 \in Span(row)
  BY <1>1 DEF Span
<1>4. \A s \in Histories(row) : \A n \in Span(row) : s[n] \in Nat
  BY <1>2 DEF Histories
<1>. QED BY <1>1, <1>2, <1>3, <1>4

LEMMA OlderIs ==
  ASSUME NEW row \in LimitRows, NEW s \in Histories(row)
  PROVE  /\ Older(s) \in Histories(row)
         /\ \A n \in Span(row) : /\ n = 0 => Older(s)[n] = 0
                                 /\ n # 0 => Older(s)[n] = s[n - 1]
<1>1. DOMAIN s = 0 .. row.window - 1
  BY DEF Histories
<1>2. \A n \in 0 .. row.window - 1 : Older(s)[n] = IF n = 0 THEN 0 ELSE s[n - 1]
  BY <1>1 DEF Older
<1>3. Older(s) \in Histories(row)
  <2>1. \A n \in 0 .. row.window - 1 : (IF n = 0 THEN 0 ELSE s[n - 1]) \in Nat
    BY RowFacts DEF Histories
  <2>. QED BY <1>1, <2>1 DEF Older, Histories
<1>. QED BY <1>2, <1>3, RowFacts

LEMMA MoreIs ==
  ASSUME NEW row \in LimitRows, NEW s \in Histories(row)
  PROVE  /\ More(s) \in Histories(row)
         /\ \A n \in Span(row) : More(s)[n] = s[n] + 1
<1>1. DOMAIN s = 0 .. row.window - 1
  BY DEF Histories
<1>2. More(s) \in Histories(row)
  BY <1>1 DEF More, Histories
<1>. QED BY <1>1, <1>2, RowFacts DEF More

\* Time takes nothing from what is remembered and adds nothing to what is not.
LEMMA ForgottenAges ==
  ASSUME NEW row \in LimitRows, NEW s \in Histories(row), Forgotten(s, row)
  PROVE  Forgotten(Older(s), row)
<1>1. PICK most \in Nat : most = IF row.algorithm = "fixed_window" THEN row.limit ELSE 0
  BY RowFacts
<1>2. \A n \in Span(row) : s[n] <= most
  BY <1>1 DEF Forgotten
<1>3. \A n \in Span(row) : Older(s)[n] <= most
  BY <1>1, <1>2, OlderIs, RowFacts
<1>. QED BY <1>1, <1>3 DEF Forgotten

LEMMA RemembersAges ==
  ASSUME NEW row \in LimitRows, NEW s \in Histories(row), NEW k \in Counters, NEW t \in Int,
         Remembers(k, s, t, row)
  PROVE  Remembers(k, Older(s), t + 1, row)
<1>1. PICK u : u = t + 1
  OBVIOUS
<1>2. PICK o : o = Older(s)
  OBVIOUS
<1>3. PICK L \in Nat : L = row.limit
  BY RowFacts
<1>4. PICK W \in Nat : W = row.window
  BY RowFacts
<1>5. \A n \in Span(row) : /\ n \in Nat /\ s[n] \in Nat
                           /\ n = 0 => o[n] = 0
                           /\ n # 0 => n - 1 \in Span(row) /\ o[n] = s[n - 1] /\ u - n = t - (n - 1)
  BY <1>1, <1>2, OlderIs, RowFacts
<1>6. k.count \in Int /\ k.since \in Int /\ k.times \in Seq(Int) /\ Lag \in Nat
  BY CounterIs, RowFacts
<1>7. CASE row.algorithm = "fixed_window"
  <2>1. FixedRemembers(k, s, t, row)
    BY <1>7 DEF Remembers
  <2>2. FixedRemembers(k, o, u, row)
    BY <1>3, <1>5, <1>6, <2>1 DEF FixedRemembers
  <2>. QED BY <1>1, <1>2, <1>7, <2>2 DEF Remembers
<1>8. CASE row.algorithm = "sliding_window"
  <2>1. SlidingRemembers(k, s, t, row)
    BY <1>8 DEF Remembers
  <2>2. SlidingRemembers(k, o, u, row)
    <3>. SUFFICES ASSUME NEW n \in Span(row)
         PROVE /\ o[n] <= Len(ValidRequests(k.times, u - n - Lag - 1))
               /\ (\A i \in DOMAIN k.times : i = Len(k.times) => u - n > k.times[i] + Lag)
                     => o[n] = 0
      BY DEF SlidingRemembers
    <3>1. CASE n = 0
      <4>1. o[n] = 0
        BY <1>5, <3>1
      <4>2. u - n - Lag - 1 \in Int
        BY <1>1, <1>5, <1>6
      <4>3. Len(ValidRequests(k.times, u - n - Lag - 1)) \in Nat
        BY <1>6, <4>2, ValidRequestsAre
      <4>. QED BY <4>1, <4>3
    <3>2. CASE n # 0
      <4>1. PICK m \in Span(row) : m = n - 1
        BY <1>5, <3>2
      <4>2. o[n] = s[m] /\ u - n = t - m
        BY <1>5, <3>2, <4>1
      <4>3. /\ s[m] <= Len(ValidRequests(k.times, t - m - Lag - 1))
            /\ (\A i \in DOMAIN k.times : i = Len(k.times) => t - m > k.times[i] + Lag)
                  => s[m] = 0
        BY <2>1 DEF SlidingRemembers
      <4>. QED BY <4>2, <4>3, Zenon
    <3>. QED BY <3>1, <3>2
  <2>. QED BY <1>1, <1>2, <1>8, <2>2 DEF Remembers
<1>9. CASE row.algorithm = "token_bucket"
  <2>1. BucketRemembers(k, s, t, row)
    BY <1>9 DEF Remembers
  <2>2. BucketRemembers(k, o, u, row)
    <3>. SUFFICES ASSUME NEW n \in Span(row)
         PROVE /\ u - n > k.since + Lag => o[n] = 0
               /\ o[n] >= 1 => /\ Tokens(k, u, row) >= 0
                               /\ o[n] * row.window + Tokens(k, u, row)
                                    <= row.limit * row.window + (n + Lag) * row.limit
      BY DEF BucketRemembers
    <3>1. CASE n = 0
      BY <1>5, <3>1
    <3>2. CASE n # 0
      <4>1. PICK m \in Span(row) : m = n - 1 /\ m \in Nat /\ s[m] \in Nat
        BY <1>5, <3>2
      <4>2. o[n] = s[m] /\ u - n = t - m
        BY <1>5, <3>2, <4>1
      <4>3. PICK a \in Int, b \in Int, c \in Int : a = Tokens(k, t, row) /\ b = (m + Lag) * L /\ c = s[m] * W
        <5>1. Tokens(k, t, row) \in Int
          BY <1>3, <1>6 DEF Tokens
        <5>. QED BY <1>6, <4>1, <5>1
      <4>4. PICK d \in Int : d = L * W
        OBVIOUS
      <4>5. /\ t - m > k.since + Lag => s[m] = 0
            /\ s[m] >= 1 => a >= 0 /\ c + a <= d + b
        BY <1>3, <1>4, <2>1, <4>3, <4>4 DEF BucketRemembers
      <4>6. Tokens(k, u, row) = a + L
        <5>1. (u - k.since) * L = (t - k.since) * L + L
          BY <1>1, <1>6
        <5>2. (t - k.since) * L \in Int
          BY <1>6
        <5>. QED BY <1>3, <1>6, <4>3, <5>1, <5>2 DEF Tokens
      <4>7. (n + Lag) * L = b + L
        <5>1. n + Lag = (m + Lag) + 1
          BY <1>5, <1>6, <4>1
        <5>2. PICK x \in Int : x = m + Lag
          BY <1>6, <4>1
        <5>3. (x + 1) * L = x * L + L
          OBVIOUS
        <5>. QED BY <4>3, <5>1, <5>2, <5>3
      <4>8. o[n] >= 1 => a + L >= 0 /\ c + (a + L) <= d + (b + L)
        BY <4>2, <4>5
      <4>. QED BY <1>3, <1>4, <4>2, <4>3, <4>4, <4>5, <4>6, <4>7, <4>8
    <3>. QED BY <3>1, <3>2
  <2>. QED BY <1>1, <1>2, <1>9, <2>2 DEF Remembers
<1>. QED BY <1>7, <1>8, <1>9, RowFacts DEF Algorithms

LEMMA RowIs ==
  ASSUME rateLimits \in Seq(LimitRows), NEW l \in Limits
  PROVE  /\ rateLimits[l] \in LimitRows
         /\ rateLimits[l].window = Window(l) /\ rateLimits[l].limit = Limit(l)
         /\ rateLimits[l].algorithm = Alg(l)
BY DEF Limits, Window, Limit, Alg

\* What is forgotten or remembered is within the burst.
LEMMA ForgottenBound ==
  ASSUME rateLimits \in Seq(LimitRows), NEW l \in Limits, NEW s \in Histories(rateLimits[l]),
         Forgotten(s, rateLimits[l])
  PROVE  \A n \in Span(rateLimits[l]) : s[n] <= Burst(l)
<1>1. PICK row \in LimitRows : row = rateLimits[l]
  BY RowIs
<1>2. PICK L \in Nat : L = Limit(l) /\ L >= 1
  BY LimitFacts
<1>3. PICK most \in Nat : most = (IF row.algorithm = "fixed_window" THEN row.limit ELSE 0) /\ most <= L
  BY <1>1, <1>2, RowIs
<1>4. \A n \in Span(row) : s[n] <= most /\ s[n] \in Nat
  BY <1>1, <1>3, RowFacts DEF Forgotten
<1>5. PICK b \in Nat : b = Burst(l) /\ b >= L
  BY <1>2 DEF Burst
<1>. QED BY <1>1, <1>2, <1>3, <1>4, <1>5

LEMMA RemembersBound ==
  ASSUME rateLimits \in Seq(LimitRows), NEW l \in Limits, NEW s \in Histories(rateLimits[l]),
         NEW k \in Counters, NEW t \in Int, Fits(k, l), Remembers(k, s, t, rateLimits[l])
  PROVE  \A n \in Span(rateLimits[l]) : s[n] <= Burst(l)
<1>1. PICK row \in LimitRows : row = rateLimits[l]
  BY RowIs
<1>2. PICK L \in Nat : L = row.limit /\ L = Limit(l) /\ L >= 1
  BY <1>1, RowIs, LimitFacts
<1>3. PICK W \in Nat : W = row.window /\ W >= 1
  BY <1>1, RowIs, LimitFacts
<1>4. row.algorithm = Alg(l) /\ Remembers(k, s, t, row)
  BY <1>1, RowIs
<1>5. SUFFICES ASSUME NEW n \in Span(row) PROVE s[n] <= Burst(l)
  BY <1>1
<1>6. n \in Nat /\ s[n] \in Nat /\ Lag \in Nat /\ n + Lag < W
  BY <1>1, <1>3, RowFacts DEF Span
<1>7. CASE row.algorithm = "fixed_window"
  <2>1. k.count \in 0 .. L /\ s[n] <= k.count + L
    BY <1>2, <1>4, <1>7 DEF Remembers, FixedRemembers
  <2>2. Burst(l) = 2 * L
    BY <1>2, <1>4, <1>7 DEF Burst
  <2>. QED BY <1>6, <2>1, <2>2
<1>8. CASE row.algorithm = "sliding_window"
  <2>1. PICK cutoff \in Int : cutoff = t - n - Lag - 1
    BY <1>6
  <2>2. s[n] <= Len(ValidRequests(k.times, cutoff))
    BY <1>4, <1>8, <2>1 DEF Remembers, SlidingRemembers
  <2>3. PICK valid : valid = ValidRequests(k.times, cutoff)
    OBVIOUS
  <2>4. valid \in Seq(Int) /\ Len(valid) <= Len(k.times) /\ k.times \in Seq(Int)
    BY <2>3, CounterIs, ValidRequestsAre
  <2>5. Len(k.times) <= L /\ Burst(l) = L
    BY <1>2, <1>4, <1>8 DEF Burst, Fits
  <2>. QED BY <1>6, <2>2, <2>3, <2>4, <2>5
<1>9. CASE row.algorithm = "token_bucket"
  <2>1. Burst(l) = 2 * L
    BY <1>2, <1>4, <1>9 DEF Burst
  <2>2. Tokens(k, t, row) \in Int
    BY <1>2, CounterIs DEF Tokens
  <2>3. PICK a \in Int, b \in Int, c \in Int, d \in Int :
           a = Tokens(k, t, row) /\ b = (n + Lag) * L /\ c = s[n] * W /\ d = L * W
    BY <1>6, <2>2
  <2>4. s[n] >= 1 => a >= 0 /\ c + a <= d + b
    BY <1>2, <1>3, <1>4, <1>9, <2>3 DEF Remembers, BucketRemembers
  <2>5. b < d
    <3>1. PICK e \in Nat : e = W - (n + Lag) /\ e >= 1
      BY <1>6
    <3>2. (n + Lag) + e = W
      BY <1>6, <3>1
    <3>3. PICK x \in Nat : x = n + Lag
      BY <1>6
    <3>4. L * (x + e) = x * L + e * L
      OBVIOUS
    <3>5. e * L >= 1
      BY <1>2, <3>1
    <3>6. PICK p \in Int, q \in Int : p = x * L /\ q = e * L
      OBVIOUS
    <3>7. b = p
      BY <2>3, <3>3, <3>6
    <3>8. W = x + e
      BY <3>2, <3>3
    <3>9. d = p + q
      BY <2>3, <3>4, <3>6, <3>8
    <3>. QED BY <3>5, <3>6, <3>7, <3>9
  <2>6. s[n] >= 1 => c < 2 * d
    BY <2>3, <2>4, <2>5
  <2>7. ASSUME s[n] > 2 * L PROVE FALSE
    <3>1. PICK e \in Nat : s[n] = 2 * L + e
      BY <1>6, <2>7
    <3>2. PICK z \in Nat : z = e * W
      OBVIOUS
    <3>3. (2 * L + e) * W = 2 * (L * W) + e * W
      OBVIOUS
    <3>4. c = 2 * d + z
      BY <2>3, <3>1, <3>2, <3>3
    <3>5. s[n] >= 1
      BY <1>2, <1>6, <2>7
    <3>. QED BY <2>6, <3>4, <3>5
  <2>. QED BY <1>6, <2>1, <2>7
<1>. QED BY <1>7, <1>8, <1>9, RowFacts DEF Algorithms

\* A new counter has nothing to remember.
LEMMA NewRemembers ==
  ASSUME rateLimits \in Seq(LimitRows), NEW l \in Limits, NEW s \in Histories(rateLimits[l]),
         NEW t \in Int, Forgotten(s, rateLimits[l])
  PROVE  Remembers(NewCounter(l, t), s, t, rateLimits[l])
<1>1. PICK row \in LimitRows : row = rateLimits[l]
  BY RowIs
<1>2. PICK L \in Nat : L = row.limit /\ L = Limit(l) /\ L >= 1
  BY <1>1, RowIs, LimitFacts
<1>3. row.algorithm = Alg(l) /\ Forgotten(s, row)
  BY <1>1, RowIs
<1>4. PICK k \in Counters : k = NewCounter(l, t)
  BY NewCounterIs
<1>5. /\ k.since = t /\ k.times = <<>>
      /\ row.algorithm # "token_bucket" => k.count = 0
  BY <1>3, <1>4 DEF NewCounter
<1>6. \A n \in Span(row) : n \in Nat /\ s[n] \in Nat
  BY <1>1, RowFacts
<1>7. CASE row.algorithm = "fixed_window"
  <2>1. \A n \in Span(row) : s[n] <= L
    BY <1>2, <1>3, <1>7 DEF Forgotten
  <2>2. \A n \in Span(row) : ~(t - n > t + Lag)
    BY <1>6, RowFacts
  <2>3. FixedRemembers(k, s, t, row)
    BY <1>2, <1>5, <1>6, <1>7, <2>1, <2>2 DEF FixedRemembers
  <2>. QED BY <1>1, <1>4, <1>7, <2>3 DEF Remembers
<1>8. CASE row.algorithm # "fixed_window"
  <2>1. \A n \in Span(row) : s[n] = 0
    BY <1>3, <1>6, <1>8 DEF Forgotten
  <2>2. BucketRemembers(k, s, t, row)
    BY <2>1 DEF BucketRemembers
  <2>3. SlidingRemembers(k, s, t, row)
    <3>1. ASSUME NEW n \in Span(row) PROVE s[n] <= Len(ValidRequests(k.times, t - n - Lag - 1))
      <4>1. t - n - Lag - 1 \in Int
        BY <1>6, RowFacts
      <4>2. ValidRequests(k.times, t - n - Lag - 1) = <<>>
        BY <1>5, ValidOfNone
      <4>. QED BY <2>1, <4>2
    <3>. QED BY <2>1, <3>1 DEF SlidingRemembers
  <2>. QED BY <1>1, <1>4, <1>8, <2>2, <2>3 DEF Remembers
<1>. QED BY <1>7, <1>8

\* What the sweep removes nothing depends on: it has been idle for a window.
LEMMA IdleForgets ==
  ASSUME rateLimits \in Seq(LimitRows), NEW l \in Limits, NEW s \in Histories(rateLimits[l]),
         NEW k \in Counters, clock \in Int, Remembers(k, s, clock, rateLimits[l]),
         Idle(k, Alg(l)), Window(l) <= CleanAge
  PROVE  Forgotten(s, rateLimits[l])
<1>1. PICK row \in LimitRows : row = rateLimits[l]
  BY RowIs
<1>2. row.algorithm = Alg(l) /\ row.window = Window(l) /\ Remembers(k, s, clock, row)
  BY <1>1, RowIs
<1>3. \A n \in Span(row) : n \in Nat /\ s[n] \in Nat /\ n + Lag < row.window
  BY <1>1, RowFacts DEF Span
<1>4. k.count \in Int /\ k.since \in Int /\ k.times \in Seq(Int)
  BY CounterIs
<1>5. row.window \in Nat /\ row.limit \in Nat /\ Lag \in Nat /\ CleanAge \in Nat /\ row.window <= CleanAge
  BY <1>2, RowFacts
<1>6. CASE row.algorithm = "sliding_window"
  <2>1. SlidingRemembers(k, s, clock, row)
    BY <1>2, <1>6 DEF Remembers
  <2>2. \A i \in DOMAIN k.times : i = Len(k.times) => clock - k.times[i] > CleanAge
    BY <1>2, <1>6 DEF Idle
  <2>3. \A n \in Span(row) : \A i \in DOMAIN k.times :
          i = Len(k.times) => clock - n > k.times[i] + Lag
    BY <1>3, <1>4, <1>5, <2>2
  <2>4. \A n \in Span(row) : s[n] = 0
    BY <2>1, <2>3 DEF SlidingRemembers
  <2>. QED BY <1>1, <1>6, <2>4 DEF Forgotten
<1>7. CASE row.algorithm # "sliding_window"
  <2>1. clock - k.since > CleanAge
    BY <1>2, <1>7 DEF Idle
  <2>2. \A n \in Span(row) : clock - n > k.since + Lag
    BY <1>3, <1>4, <1>5, <2>1
  <2>3. CASE row.algorithm = "fixed_window"
    <3>1. FixedRemembers(k, s, clock, row)
      BY <1>2, <2>3 DEF Remembers
    <3>2. \A n \in Span(row) : s[n] <= row.limit
      BY <1>3, <1>5, <2>2, <3>1 DEF FixedRemembers
    <3>. QED BY <1>1, <2>3, <3>2 DEF Forgotten
  <2>4. CASE row.algorithm = "token_bucket"
    <3>1. BucketRemembers(k, s, clock, row)
      BY <1>2, <2>4 DEF Remembers
    <3>2. \A n \in Span(row) : s[n] = 0
      BY <2>2, <3>1 DEF BucketRemembers
    <3>. QED BY <1>1, <2>4, <3>2 DEF Forgotten
  <2>. QED BY <1>7, <2>3, <2>4, RowFacts DEF Algorithms
<1>. QED BY <1>6, <1>7

\* A check by a caller that read the clock at most Lag ticks ago.
LEMMA FixedCheckRemembers ==
  ASSUME rateLimits \in Seq(LimitRows), NEW l \in Limits, NEW s \in Histories(rateLimits[l]),
         NEW k \in Counters, NEW t \in Int, NEW now \in Int, now <= t, t <= now + Lag,
         FixedRemembers(k, s, t, rateLimits[l])
  PROVE  LET v == checkFixedWindow(k, now, l)
         IN /\ v.allowed => FixedRemembers(v.counter, More(s), t, rateLimits[l])
            /\ ~v.allowed => FixedRemembers(v.counter, s, t, rateLimits[l])
<1>1. PICK row \in LimitRows : row = rateLimits[l]
  BY RowIs
<1>2. PICK L \in Nat : L = row.limit /\ L = Limit(l) /\ L >= 1
  BY <1>1, RowIs, LimitFacts
<1>3. PICK W \in Nat : W = row.window /\ W = Window(l) /\ W >= 1
  BY <1>1, RowIs, LimitFacts
<1>4. PICK v : v = checkFixedWindow(k, now, l)
  OBVIOUS
<1>5. PICK c \in Counters : c = v.counter
  BY <1>4, FixedWindowIs
<1>6. /\ v.allowed <=> now - k.since >= W \/ k.count < L
      /\ v.allowed /\ now - k.since >= W => c.count = 1 /\ c.since = now
      /\ v.allowed /\ ~(now - k.since >= W) => c.count = k.count + 1 /\ c.since = k.since
      /\ ~v.allowed => c = k
  BY <1>2, <1>3, <1>4, <1>5, FixedWindowIs
<1>7. k.count \in Int /\ k.since \in Int /\ Lag \in Nat
  BY CounterIs, RowFacts
<1>8. /\ k.count \in 0 .. L
      /\ \A n \in Span(row) : /\ s[n] <= k.count + L
                              /\ t - n > k.since + Lag => s[n] <= k.count
  BY <1>1, <1>2 DEF FixedRemembers
<1>9. \A n \in Span(row) : n \in Nat /\ s[n] \in Nat /\ n + Lag < W /\ More(s)[n] = s[n] + 1
  BY <1>1, <1>3, RowFacts, MoreIs DEF Span
<1>10. PICK m : m = More(s)
  OBVIOUS
<1>11. CASE v.allowed /\ now - k.since >= W
  <2>1. \A n \in Span(row) : t - n > k.since + Lag
    BY <1>3, <1>7, <1>9, <1>11
  <2>2. \A n \in Span(row) : s[n] <= L
    BY <1>7, <1>8, <1>9, <2>1
  <2>3. \A n \in Span(row) : ~(t - n > now + Lag)
    BY <1>7, <1>9
  <2>4. c.count = 1 /\ c.since = now
    BY <1>6, <1>11
  <2>5. FixedRemembers(c, m, t, row)
    BY <1>2, <1>9, <1>10, <2>2, <2>3, <2>4 DEF FixedRemembers
  <2>. QED BY <1>1, <1>4, <1>5, <1>10, <1>11, <2>5
<1>12. CASE v.allowed /\ ~(now - k.since >= W)
  <2>1. k.count < L /\ c.count = k.count + 1 /\ c.since = k.since
    BY <1>6, <1>12
  <2>2. PICK x \in Nat : x = k.count /\ x + 1 = c.count /\ x + 1 <= L
    BY <1>2, <1>8, <2>1
  <2>3. ASSUME NEW n \in Span(row)
        PROVE  m[n] <= c.count + L /\ (t - n > c.since + Lag => m[n] <= c.count)
    <3>1. m[n] = s[n] + 1 /\ s[n] \in Nat
      BY <1>9, <1>10
    <3>2. s[n] <= x + L /\ (t - n > k.since + Lag => s[n] <= x)
      BY <1>8, <2>2
    <3>3. s[n] + 1 <= x + 1 + L /\ (t - n > k.since + Lag => s[n] + 1 <= x + 1)
      BY <1>2, <3>1, <3>2
    <3>. QED BY <2>1, <2>2, <3>1, <3>3
  <2>4. c.count \in 0 .. L
    BY <2>2
  <2>5. FixedRemembers(c, m, t, row)
    BY <1>2, <2>3, <2>4 DEF FixedRemembers
  <2>. QED BY <1>1, <1>4, <1>5, <1>10, <1>12, <2>5
<1>13. CASE ~v.allowed
  BY <1>4, <1>5, <1>6, <1>13
<1>. QED BY <1>11, <1>12, <1>13

LEMMA SlidingCheckRemembers ==
  ASSUME rateLimits \in Seq(LimitRows), NEW l \in Limits, NEW s \in Histories(rateLimits[l]),
         NEW k \in Counters, NEW t \in Int, NEW now \in Int, now <= t, t <= now + Lag,
         Len(k.times) <= Limit(l), SlidingRemembers(k, s, t, rateLimits[l])
  PROVE  LET v == checkSlidingWindow(k, now, l)
         IN /\ v.allowed => SlidingRemembers(v.counter, More(s), t, rateLimits[l])
            /\ ~v.allowed => SlidingRemembers(v.counter, s, t, rateLimits[l])
<1>1. PICK row \in LimitRows : row = rateLimits[l]
  BY RowIs
<1>2. PICK W \in Nat : W = row.window /\ W = Window(l) /\ W >= 1
  BY <1>1, RowIs, LimitFacts
<1>3. PICK v : v = checkSlidingWindow(k, now, l)
  OBVIOUS
<1>4. PICK c \in Counters : c = v.counter
  BY <1>3, SlidingWindowIs
<1>5. ~v.allowed => c = k
  BY <1>3, <1>4, SlidingWindowIs
<1>6. k.times \in Seq(Int) /\ c.times \in Seq(Int) /\ Lag \in Nat
  BY CounterIs, RowFacts
<1>7. \A n \in Span(row) : n \in Nat /\ s[n] \in Nat /\ n + Lag < W /\ More(s)[n] = s[n] + 1
  BY <1>1, <1>2, RowFacts, MoreIs DEF Span
<1>8. CASE v.allowed
  <2>1. PICK cutoff \in Int : cutoff = now - W
    OBVIOUS
  <2>2. PICK valid \in Seq(Int) : valid = ValidRequests(k.times, cutoff)
    BY <1>6, ValidRequestsAre
  <2>3. c.times = Append(valid, now)
    <3>1. v.counter.times = Append(ValidRequests(k.times, now - Window(l)), now)
      BY <1>3, <1>8, SlidingWindowIs
    <3>. QED BY <1>2, <1>4, <2>1, <2>2, <3>1
  <2>4. ASSUME NEW n \in Span(row)
        PROVE  /\ More(s)[n] <= Len(ValidRequests(c.times, t - n - Lag - 1))
               /\ \E i \in DOMAIN c.times : i = Len(c.times) /\ ~(t - n > c.times[i] + Lag)
    <3>1. PICK later \in Int : later = t - n - Lag - 1
      BY <1>6, <1>7
    <3>2. cutoff <= later /\ now > later
      BY <1>6, <1>7, <2>1, <3>1
    <3>3. PICK old \in Seq(Int) : old = ValidRequests(k.times, later)
      BY <1>6, ValidRequestsAre
    <3>4. ValidRequests(valid, later) = old
      BY <1>6, <2>2, <3>2, <3>3, ValidTwice
    <3>5. ValidRequests(Append(valid, now), later) = Append(old, now)
      BY <3>2, <3>4, ValidAppended
    <3>6. s[n] <= Len(old)
      BY <1>1, <3>1, <3>3 DEF SlidingRemembers
    <3>7. Len(Append(old, now)) = Len(old) + 1
      OBVIOUS
    <3>8. More(s)[n] <= Len(ValidRequests(c.times, later))
      BY <1>7, <2>3, <3>5, <3>6, <3>7
    <3>9. \E i \in DOMAIN c.times : i = Len(c.times) /\ c.times[i] = now
      BY <2>3
    <3>10. ~(t - n > now + Lag)
      BY <1>6, <1>7
    <3>. QED BY <3>1, <3>8, <3>9, <3>10
  <2>5. SlidingRemembers(c, More(s), t, row)
    BY <2>4, Zenon DEF SlidingRemembers
  <2>. QED BY <1>1, <1>3, <1>4, <1>8, <2>5
<1>9. CASE ~v.allowed
  BY <1>3, <1>4, <1>5, <1>9
<1>. QED BY <1>8, <1>9

LEMMA BucketCheckRemembers ==
  ASSUME rateLimits \in Seq(LimitRows), NEW l \in Limits, NEW s \in Histories(rateLimits[l]),
         NEW k \in Counters, NEW t \in Int, NEW now \in Int, now <= t, t <= now + Lag,
         BucketRemembers(k, s, t, rateLimits[l])
  PROVE  LET v == checkTokenBucket(k, now, l)
         IN /\ v.allowed => BucketRemembers(v.counter, More(s), t, rateLimits[l])
            /\ ~v.allowed => BucketRemembers(v.counter, s, t, rateLimits[l])
<1>1. PICK row \in LimitRows : row = rateLimits[l]
  BY RowIs
<1>2. PICK L \in Nat : L = row.limit /\ L = Limit(l) /\ L >= 1
  BY <1>1, RowIs, LimitFacts
<1>3. PICK W \in Nat : W = row.window /\ W = Window(l) /\ W >= 1
  BY <1>1, RowIs, LimitFacts
<1>4. PICK v : v = checkTokenBucket(k, now, l)
  OBVIOUS
<1>5. PICK c \in Counters : c = v.counter
  BY <1>4, BucketIs
<1>6. k.count \in Int /\ k.since \in Int /\ c.count \in Int /\ Lag \in Nat
  BY CounterIs, RowFacts
<1>7. PICK d \in Int, in \in Int, x \in Int, y \in Int :
        /\ d = L * W /\ in = (t - now) * L
        /\ x = (now - k.since) * L /\ y = (t - k.since) * L
  <2>1. PICK p \in Int, q \in Int, r \in Int : p = t - now /\ q = now - k.since /\ r = t - k.since
    BY <1>6
  <2>2. L * W \in Int /\ p * L \in Int /\ q * L \in Int /\ r * L \in Int
    OBVIOUS
  <2>. QED BY <2>1, <2>2
<1>8. y = x + in /\ in >= 0
  <2>1. PICK p \in Int, q \in Int : p = now - k.since /\ q = t - now
    BY <1>6
  <2>2. (p + q) * L = p * L + q * L
    OBVIOUS
  <2>3. p + q = t - k.since /\ q >= 0
    BY <1>6, <2>1
  <2>4. q * L >= 0
    BY <2>1, <2>3
  <2>. QED BY <1>7, <2>1, <2>2, <2>3, <2>4
<1>9. /\ c.since = now
      /\ v.allowed => c.count >= 0 /\ c.count + W <= k.count + x /\ c.count + W <= d
      /\ ~v.allowed => c.count = k.count + x
  <2>1. Level(k, now, l) = k.count + x
    BY <1>2, <1>7 DEF Level
  <2>2. /\ v.counter.since = now
        /\ v.allowed => /\ v.counter.count >= 0
                        /\ v.counter.count + Window(l) <= Level(k, now, l)
                        /\ v.counter.count + Window(l) <= Limit(l) * Window(l)
        /\ ~v.allowed => v.counter.count = Level(k, now, l)
    BY <1>4, BucketIs
  <2>. QED BY <1>2, <1>3, <1>5, <1>7, <2>1, <2>2
<1>10. Tokens(k, t, row) = k.count + y /\ Tokens(c, t, row) = c.count + in
  BY <1>2, <1>7, <1>9 DEF Tokens
<1>11. \A n \in Span(row) : n \in Nat /\ s[n] \in Nat /\ n + Lag < W /\ More(s)[n] = s[n] + 1
  BY <1>1, <1>3, RowFacts, MoreIs DEF Span
<1>12. \A n \in Span(row) : ~(t - n > now + Lag)
  BY <1>6, <1>11
<1>13. ASSUME NEW n \in Span(row), NEW f \in Int, NEW z \in Int,
              f = (n + Lag) * L, z = s[n] * W
       PROVE  /\ s[n] >= 1 => k.count + y >= 0 /\ z + (k.count + y) <= d + f
              /\ in <= f
  <2>1. n \in Nat /\ s[n] \in Nat
    BY <1>11
  <2>2. s[n] >= 1 => k.count + y >= 0 /\ z + (k.count + y) <= d + f
    BY <1>1, <1>2, <1>3, <1>7, <1>10, <1>13 DEF BucketRemembers
  <2>3. in <= f
    <3>1. PICK p \in Int, q \in Nat : p = t - now /\ q = (n + Lag) - p
      BY <1>6, <2>1
    <3>2. n + Lag = p + q /\ (p + q) * L = p * L + q * L /\ q * L >= 0
      BY <1>6, <2>1, <3>1
    <3>. QED BY <1>7, <1>13, <3>1, <3>2
  <2>. QED BY <2>2, <2>3
<1>14. CASE v.allowed
  <2>1. ASSUME NEW n \in Span(row)
        PROVE  /\ Tokens(c, t, row) >= 0
               /\ (s[n] + 1) * W + Tokens(c, t, row) <= L * W + (n + Lag) * L
    <3>1. n \in Nat /\ s[n] \in Nat
      BY <1>11
    <3>2. PICK f \in Int, z \in Int : f = (n + Lag) * L /\ z = s[n] * W
      BY <1>6, <3>1
    <3>3. (s[n] + 1) * W = z + W
      BY <3>1, <3>2
    <3>4. /\ s[n] >= 1 => z + (k.count + y) <= d + f
          /\ in <= f
      BY <1>13, <3>2
    <3>5. s[n] = 0 => z = 0
      BY <3>2
    <3>6. c.count >= 0 /\ c.count + W <= k.count + x /\ c.count + W <= d
      BY <1>9, <1>14
    <3>7. PICK u \in Int, w \in Int : u = c.count /\ w = k.count
      BY <1>6
    <3>8. z + W + (u + in) <= d + f
      <4>1. CASE s[n] = 0
        <5>1. z = 0 /\ in <= f
          BY <3>4, <3>5, <4>1
        <5>2. u + W <= d
          BY <3>6, <3>7
        <5>. QED BY <5>1, <5>2
      <4>2. CASE s[n] # 0
        <5>1. z + (w + y) <= d + f
          BY <3>1, <3>4, <3>7, <4>2
        <5>2. u + W <= w + x
          BY <3>6, <3>7
        <5>. QED BY <1>8, <5>1, <5>2
      <4>. QED BY <4>1, <4>2
    <3>9. u + in >= 0 /\ Tokens(c, t, row) = u + in
      <4>1. u >= 0 /\ in >= 0
        BY <1>8, <3>6, <3>7
      <4>2. u + in >= 0
        BY <4>1
      <4>. QED BY <1>10, <3>7, <4>2
    <3>. QED BY <1>7, <3>2, <3>3, <3>8, <3>9
  <2>2. BucketRemembers(c, More(s), t, row)
    BY <1>2, <1>3, <1>9, <1>11, <1>12, <2>1 DEF BucketRemembers
  <2>. QED BY <1>1, <1>4, <1>5, <1>14, <2>2
<1>15. CASE ~v.allowed
  <2>1. Tokens(c, t, row) = Tokens(k, t, row)
    BY <1>6, <1>8, <1>9, <1>10, <1>15
  <2>2. BucketRemembers(c, s, t, row)
    BY <1>1, <1>9, <1>12, <2>1, Zenon DEF BucketRemembers
  <2>. QED BY <1>1, <1>4, <1>5, <1>15, <2>2
<1>. QED BY <1>14, <1>15

\* A check of a counter counts what it admits, and nothing else.
LEMMA CheckRemembers ==
  ASSUME rateLimits \in Seq(LimitRows), NEW l \in Limits, NEW s \in Histories(rateLimits[l]),
         NEW k \in Counters, NEW t \in Int, NEW now \in Int, now <= t, t <= now + Lag,
         Fits(k, l), Remembers(k, s, t, rateLimits[l])
  PROVE  LET v == CheckLimit(k, now, l)
         IN /\ v.allowed => Remembers(v.counter, More(s), t, rateLimits[l])
            /\ ~v.allowed => Remembers(v.counter, s, t, rateLimits[l])
<1>1. rateLimits[l].algorithm = Alg(l)
  BY RowIs
<1>2. CASE Alg(l) = "fixed_window"
  <2>1. CheckLimit(k, now, l) = checkFixedWindow(k, now, l)
    BY <1>2 DEF CheckLimit
  <2>2. FixedRemembers(k, s, t, rateLimits[l])
    BY <1>1, <1>2 DEF Remembers
  <2>. QED BY <1>1, <1>2, <2>1, <2>2, FixedCheckRemembers DEF Remembers
<1>3. CASE Alg(l) = "sliding_window"
  <2>1. CheckLimit(k, now, l) = checkSlidingWindow(k, now, l)
    BY <1>3 DEF CheckLimit
  <2>2. SlidingRemembers(k, s, t, rateLimits[l]) /\ Len(k.times) <= Limit(l)
    BY <1>1, <1>3 DEF Remembers, Fits
  <2>. QED BY <1>1, <1>3, <2>1, <2>2, SlidingCheckRemembers DEF Remembers
<1>4. CASE Alg(l) = "token_bucket"
  <2>1. CheckLimit(k, now, l) = checkTokenBucket(k, now, l)
    BY <1>4 DEF CheckLimit
  <2>2. BucketRemembers(k, s, t, rateLimits[l])
    BY <1>1, <1>4 DEF Remembers
  <2>. QED BY <1>1, <1>4, <2>1, <2>2, BucketCheckRemembers DEF Remembers
<1>. QED BY <1>2, <1>3, <1>4, LimitFacts DEF Algorithms

AllHistories == UNION {Histories(row) : row \in LimitRows}

\* Limits with counters of their own whose windows the sweep waits for.
Steady == {l \in OwnLimits : Window(l) <= CleanAge}

\* What an account has been granted lately.
Given(r, l) == granted[AccountTable[<<r, l>>]]

WindowTypes ==
  /\ granted \in [Limits \X Subjects -> AllHistories]
  /\ \A a \in Limits \X Subjects : granted[a] \in Histories(rateLimits[a[1]])

\* A caller locks the counter Lag ticks after it read the clock, or sooner.
Timely == \A r \in Requests : call[r] # None => clock <= call[r].now + Lag

\* Only a caller's account is ever charged.
OnlyAccounts ==
  \A a \in Limits \X Subjects :
    (\A r \in Requests, l \in Limits : AccountTable[<<r, l>>] # a)
      => \A n \in Span(rateLimits[a[1]]) : granted[a][n] = 0

\* The counter in the map knows what its account has been granted lately, and
\* where there is none there is nothing to know.
CountersRemember ==
  \A r \in Requests, l \in Steady :
    /\ Mapped(r, l) = None => Forgotten(Given(r, l), rateLimits[l])
    /\ Mapped(r, l) # None => Remembers(heap[Mapped(r, l)], Given(r, l), clock, rateLimits[l])

WindowInv ==
  LimiterInv /\ WindowTypes /\ Timely /\ OnlyAccounts /\ CountersRemember

\* As NextLimiterInv.
LEMMA NextWindowInv ==
  ASSUME WindowInv, rateLimits' = rateLimits, LimiterInv',
         granted' \in [Limits \X Subjects -> AllHistories],
         \A a \in Limits \X Subjects : granted'[a] \in Histories(rateLimits[a[1]]),
         \A r \in Requests : call'[r] # None => clock' <= call'[r].now + Lag,
         \A a \in Limits \X Subjects :
           (\A r \in Requests, l \in Limits : AccountTable[<<r, l>>] # a)
             => \A n \in Span(rateLimits[a[1]]) : granted'[a][n] = 0,
         \A r \in Requests, l \in Steady :
           /\ counterOf'[KeyTable[<<r, l>>]] = None
                => Forgotten(granted'[AccountTable[<<r, l>>]], rateLimits[l])
           /\ counterOf'[KeyTable[<<r, l>>]] # None
                => Remembers(heap'[counterOf'[KeyTable[<<r, l>>]]],
                             granted'[AccountTable[<<r, l>>]], clock', rateLimits[l])
  PROVE  WindowInv'
<1>1. /\ Limits' = Limits /\ KeyTable' = KeyTable /\ AccountTable' = AccountTable
      /\ Steady' = Steady
  <2>1. /\ Limits' = Limits /\ KeyTable' = KeyTable /\ AccountTable' = AccountTable
        /\ OwnLimits' = OwnLimits
    BY TablesStay
  <2>2. Steady' = Steady
    BY <2>1, Zenon DEF Steady, Window
  <2>. QED BY <2>1, <2>2
<1>2. WindowTypes'
  BY <1>1, Zenon DEF WindowInv, WindowTypes
<1>3. Timely'
  BY Zenon DEF Timely
<1>4. OnlyAccounts'
  BY <1>1, Zenon DEF OnlyAccounts
<1>5. CountersRemember'
  BY <1>1, Zenon DEF CountersRemember, Mapped, Given
<1>. QED BY <1>2, <1>3, <1>4, <1>5 DEF WindowInv

\* The facts of a state of the invariant that every step needs.
LEMMA InWindow ==
  ASSUME WindowInv
  PROVE  /\ LimiterInv /\ clock \in Int /\ Lag \in Nat
         /\ rateLimits \in Seq(LimitRows)
         /\ \A l \in Limits : rateLimits[l] \in LimitRows
         /\ \A a \in Limits \X Subjects : a[1] \in Limits
         /\ granted \in [Limits \X Subjects -> AllHistories]
         /\ \A a \in Limits \X Subjects : granted[a] \in Histories(rateLimits[a[1]])
         /\ \A r \in Requests : \A l \in Limits :
              /\ AccountTable[<<r, l>>] \in Limits \X Subjects
              /\ AccountTable[<<r, l>>][1] = l
              /\ Given(r, l) \in Histories(rateLimits[l])
         /\ \A l \in Limits : Histories(rateLimits[l]) \subseteq AllHistories
         /\ \A l \in Steady : l \in Limits /\ l \in OwnLimits
<1>1. LimiterInv /\ clock \in Int /\ rateLimits \in Seq(LimitRows)
  BY InTypes DEF WindowInv
<1>2. \A l \in Limits : rateLimits[l] \in LimitRows
  BY <1>1, RowIs
<1>3. \A a \in Limits \X Subjects : a[1] \in Limits
  OBVIOUS
<1>4. /\ granted \in [Limits \X Subjects -> AllHistories]
      /\ \A a \in Limits \X Subjects : granted[a] \in Histories(rateLimits[a[1]])
  BY DEF WindowInv, WindowTypes
<1>5. \A l \in Limits : Histories(rateLimits[l]) \subseteq AllHistories
  BY <1>2, Zenon DEF AllHistories
<1>6. ASSUME NEW r \in Requests, NEW l \in Limits
      PROVE  /\ AccountTable[<<r, l>>] \in Limits \X Subjects
             /\ AccountTable[<<r, l>>][1] = l
             /\ Given(r, l) \in Histories(rateLimits[l])
  <2>1. /\ AccountTable[<<r, l>>] = Account(r, l)
        /\ AccountTable[<<r, l>>] \in Limits \X Subjects
    BY <1>1, InTypes
  <2>2. AccountTable[<<r, l>>][1] = l
    BY <2>1 DEF Account
  <2>. QED BY <1>4, <2>1, <2>2, Zenon DEF Given
<1>7. Lag \in Nat
  BY LimiterAssumption
<1>8. \A l \in Steady : l \in Limits /\ l \in OwnLimits
  BY DEF Steady, OwnLimits
<1>. QED BY <1>1, <1>2, <1>3, <1>4, <1>5, <1>6, <1>7, <1>8

LEMMA WindowStarts ==
  ASSUME NEW rows \in Seq(LimitRows), LimiterInit(rows)
  PROVE  WindowInv
<1>1. LimiterInv
  BY LimiterStarts
<1>2. /\ clock = 0 /\ rateLimits = rows
      /\ counterOf = [k \in Keys |-> None]
      /\ call = [r \in Requests |-> None]
      /\ granted = [a \in (DOMAIN rows) \X Subjects |-> [n \in 0 .. rows[a[1]].window - 1 |-> 0]]
  BY DEF LimiterInit
<1>3. \A l \in Limits : rateLimits[l] \in LimitRows
  BY <1>1, InTypes, RowIs
<1>4. \A a \in Limits \X Subjects :
        /\ granted[a] = [n \in 0 .. rateLimits[a[1]].window - 1 |-> 0]
        /\ granted[a] \in Histories(rateLimits[a[1]])
  BY <1>2 DEF Limits, Histories
<1>5. WindowTypes
  <2>1. \A a \in Limits \X Subjects : granted[a] \in AllHistories
    BY <1>3, <1>4 DEF AllHistories
  <2>2. granted \in [Limits \X Subjects -> AllHistories]
    BY <1>2, <2>1 DEF Limits
  <2>. QED BY <1>2, <1>4, <2>2 DEF WindowTypes, Limits
<1>6. \A a \in Limits \X Subjects : \A n \in Span(rateLimits[a[1]]) : granted[a][n] = 0
  BY <1>4 DEF Span
<1>7. OnlyAccounts /\ Timely
  BY <1>2, <1>6 DEF OnlyAccounts, Timely
<1>8. CountersRemember
  <2>. SUFFICES ASSUME NEW r \in Requests, NEW l \in Limits
       PROVE  Mapped(r, l) = None /\ Forgotten(Given(r, l), rateLimits[l])
    BY DEF CountersRemember, Steady, OwnLimits
  <2>1. /\ KeyTable[<<r, l>>] \in Keys
        /\ AccountTable[<<r, l>>] \in Limits \X Subjects
        /\ AccountTable[<<r, l>>] = Account(r, l)
    BY <1>1, InTypes
  <2>2. AccountTable[<<r, l>>][1] = l
    BY <2>1 DEF Account
  <2>3. \A n \in Span(rateLimits[l]) : Given(r, l)[n] = 0
    BY <1>6, <2>1, <2>2 DEF Given
  <2>4. rateLimits[l].limit \in Nat
    BY <1>3, RowFacts
  <2>. QED BY <1>2, <2>1, <2>3, <2>4 DEF Mapped, Forgotten
<1>. QED BY <1>1, <1>5, <1>7, <1>8 DEF WindowInv

LEMMA NothingAges ==
  ASSUME NEW row \in LimitRows, NEW s \in Histories(row), \A n \in Span(row) : s[n] = 0
  PROVE  \A n \in Span(row) : Older(s)[n] = 0
<1>. SUFFICES ASSUME NEW n \in Span(row) PROVE Older(s)[n] = 0
  OBVIOUS
<1>1. CASE n = 0
  BY <1>1, OlderIs
<1>2. CASE n # 0
  BY <1>2, OlderIs, RowFacts
<1>. QED BY <1>1, <1>2

\* The steps, one by one.
LEMMA WindowAges ==
  ASSUME WindowInv, LimiterTick, LimiterInv' PROVE WindowInv'
<1>1. /\ clock' = clock + 1
      /\ \A r \in Requests : call[r] # None => call[r].now + Lag > clock
      /\ granted' = [a \in Limits \X Subjects |->
                        [n \in DOMAIN granted[a] |-> IF n = 0 THEN 0 ELSE granted[a][n - 1]]]
      /\ UNCHANGED <<rateLimits, heap, counterOf, nextLimit, call, promise>>
  BY DEF LimiterTick
<1>2. \A a \in Limits \X Subjects : granted'[a] = Older(granted[a])
  BY <1>1 DEF Older
<1>3. \A a \in Limits \X Subjects : granted'[a] \in Histories(rateLimits[a[1]])
  <2>. SUFFICES ASSUME NEW a \in Limits \X Subjects
       PROVE granted'[a] \in Histories(rateLimits[a[1]])
    OBVIOUS
  <2>1. PICK row \in LimitRows : row = rateLimits[a[1]] /\ granted[a] \in Histories(row)
    BY InWindow
  <2>. QED BY <1>2, <2>1, OlderIs
<1>4. granted' \in [Limits \X Subjects -> AllHistories]
  <2>1. \A a \in Limits \X Subjects : granted'[a] \in AllHistories
    BY <1>3, InWindow, Zenon
  <2>. QED BY <1>1, <2>1
<1>5. \A r \in Requests : call'[r] # None => clock' <= call'[r].now + Lag
  <2>. SUFFICES ASSUME NEW r \in Requests, call[r] # None PROVE clock + 1 <= call[r].now + Lag
    BY <1>1
  <2>1. call[r].now \in Int /\ clock \in Int /\ Lag \in Nat
    BY InWindow, InTypes
  <2>. QED BY <1>1, <2>1
<1>6. ASSUME NEW a \in Limits \X Subjects,
             \A r \in Requests, l \in Limits : AccountTable[<<r, l>>] # a,
             NEW n \in Span(rateLimits[a[1]])
      PROVE  granted'[a][n] = 0
  <2>1. \A m \in Span(rateLimits[a[1]]) : granted[a][m] = 0
    BY <1>6 DEF WindowInv, OnlyAccounts
  <2>2. PICK row \in LimitRows : row = rateLimits[a[1]] /\ granted[a] \in Histories(row)
    BY InWindow
  <2>3. PICK s \in Histories(row) : s = granted[a]
    BY <2>2
  <2>4. \A m \in Span(row) : Older(s)[m] = 0
    BY <2>1, <2>2, <2>3, NothingAges
  <2>5. granted'[a] = Older(s) /\ n \in Span(row)
    BY <1>2, <1>6, <2>2, <2>3
  <2>. QED BY <2>4, <2>5
<1>7. ASSUME NEW r \in Requests, NEW l \in Steady
      PROVE  /\ counterOf'[KeyTable[<<r, l>>]] = None
                  => Forgotten(granted'[AccountTable[<<r, l>>]], rateLimits[l])
             /\ counterOf'[KeyTable[<<r, l>>]] # None
                  => Remembers(heap'[counterOf'[KeyTable[<<r, l>>]]],
                               granted'[AccountTable[<<r, l>>]], clock', rateLimits[l])
  <2>1. PICK row \in LimitRows : row = rateLimits[l]
    BY InWindow
  <2>2. PICK s \in Histories(row) : s = Given(r, l)
    BY <2>1, InWindow
  <2>3. granted'[AccountTable[<<r, l>>]] = Older(s)
    BY <1>2, <2>2, InWindow DEF Given
  <2>4. /\ Mapped(r, l) = None => Forgotten(s, row)
        /\ Mapped(r, l) # None => Remembers(heap[Mapped(r, l)], s, clock, row)
    BY <2>1, <2>2, Zenon DEF WindowInv, CountersRemember
  <2>5. Mapped(r, l) = None => Forgotten(Older(s), row)
    BY <2>4, ForgottenAges
  <2>6. Mapped(r, l) # None => Remembers(heap[Mapped(r, l)], Older(s), clock + 1, row)
    <3>. SUFFICES ASSUME Mapped(r, l) # None
                  PROVE  Remembers(heap[Mapped(r, l)], Older(s), clock + 1, row)
      OBVIOUS
    <3>1. PICK k \in Counters : k = heap[Mapped(r, l)]
      BY InWindow, InTypes DEF Mapped
    <3>. QED BY <2>4, <3>1, InWindow, RemembersAges
  <2>. QED BY <1>1, <2>1, <2>3, <2>5, <2>6, Zenon DEF Mapped
<1>. QED BY <1>1, <1>3, <1>4, <1>5, <1>6, <1>7, NextWindowInv, Zenon

LEMMA WindowIdles ==
  ASSUME WindowInv, Idling, LimiterInv' PROVE WindowInv'
<1>1. UNCHANGED <<clock, rateLimits, heap, counterOf, call, granted>>
  BY Zenon DEF Idling
<1>2. /\ Limits' = Limits /\ KeyTable' = KeyTable /\ AccountTable' = AccountTable
      /\ Steady' = Steady
  <2>1. /\ Limits' = Limits /\ KeyTable' = KeyTable /\ AccountTable' = AccountTable
        /\ OwnLimits' = OwnLimits
    BY <1>1, TablesStay
  <2>2. Steady' = Steady
    BY <1>1, <2>1, Zenon DEF Steady, Window
  <2>. QED BY <2>1, <2>2
<1>. QED BY <1>1, <1>2 DEF WindowInv, WindowTypes, Timely, OnlyAccounts, CountersRemember, Mapped, Given

LEMMA WindowLookedUp ==
  ASSUME WindowInv, NEW p \in Requests, Lookup(p), LimiterInv' PROVE WindowInv'
<1>1. PICK l \in Limits : l = nextLimit[p]
  BY DEF Lookup
<1>2. PICK k \in Keys : k = Key(p, l) /\ k = KeyTable[<<p, l>>]
  BY InWindow, InTypes
<1>3. PICK c : c = IF counterOf[k] = None THEN FreshId ELSE counterOf[k]
  OBVIOUS
<1>4. /\ counterOf[k] = None => \E id \in CounterIds : heap[id] = None
      /\ call' = [call EXCEPT ![p] = [limit |-> l, now |-> clock, ctr |-> c]]
      /\ counterOf[k] = None => /\ heap' = [heap EXCEPT ![c] = NewCounter(l, clock)]
                                /\ counterOf' = [counterOf EXCEPT ![k] = c]
      /\ counterOf[k] # None => UNCHANGED <<heap, counterOf>>
      /\ UNCHANGED <<clock, rateLimits, granted>>
  BY <1>1, <1>2, <1>3, Zenon DEF Lookup
<1>5. /\ heap \in [CounterIds -> Counters \union {None}]
      /\ counterOf \in [Keys -> CounterIds \union {None}]
      /\ call \in [Requests -> [limit : Nat, now : Int, ctr : CounterIds] \union {None}]
      /\ clock \in Int /\ Lag \in Nat
  BY InWindow DEF LimiterInv, LimiterTypes
<1>6. \A r \in Requests : call'[r] # None => clock' <= call'[r].now + Lag
  <2>1. /\ \A r \in Requests \ {p} : call'[r] = call[r]
        /\ call'[p] = [limit |-> l, now |-> clock, ctr |-> c]
    BY <1>4, <1>5
  <2>2. call'[p].now = clock
    BY <2>1
  <2>3. \A r \in Requests : call[r] # None => clock <= call[r].now + Lag
    BY DEF WindowInv, Timely
  <2>4. clock <= clock + Lag /\ clock' = clock
    BY <1>4, <1>5
  <2>5. \A r \in Requests : r = p \/ r \in Requests \ {p}
    OBVIOUS
  <2>. QED BY <2>1, <2>2, <2>3, <2>4, <2>5, Zenon
<1>7. ASSUME NEW r \in Requests, NEW m \in Steady
      PROVE  /\ counterOf'[KeyTable[<<r, m>>]] = None
                  => Forgotten(granted'[AccountTable[<<r, m>>]], rateLimits[m])
             /\ counterOf'[KeyTable[<<r, m>>]] # None
                  => Remembers(heap'[counterOf'[KeyTable[<<r, m>>]]],
                               granted'[AccountTable[<<r, m>>]], clock', rateLimits[m])
  <2>1. PICK row \in LimitRows : row = rateLimits[m]
    BY InWindow
  <2>2. PICK s \in Histories(row) : s = Given(r, m)
    BY <2>1, InWindow
  <2>3. granted'[AccountTable[<<r, m>>]] = s /\ clock' = clock
    BY <1>4, <2>2 DEF Given
  <2>4. PICK j \in Keys : j = KeyTable[<<r, m>>] /\ (j = k => m = l)
    <3>1. KeyTable[<<r, m>>] \in Keys /\ (KeyTable[<<p, l>>] = KeyTable[<<r, m>>] => l = m)
      BY InWindow, InTypes
    <3>. QED BY <1>2, <3>1
  <2>5. /\ counterOf[j] = None => Forgotten(s, row)
        /\ counterOf[j] # None => Remembers(heap[counterOf[j]], s, clock, row)
    BY <2>1, <2>2, <2>4, Zenon DEF WindowInv, CountersRemember, Mapped
  <2>6. CASE counterOf[k] # None
    BY <1>4, <2>1, <2>3, <2>4, <2>5, <2>6, Zenon
  <2>7. CASE counterOf[k] = None
    <3>1. c \in CounterIds /\ heap[c] = None
      BY <1>3, <1>4, <2>7, Zenon DEF FreshId
    <3>2. CASE j = k
      <4>1. counterOf'[j] = c /\ heap'[c] = NewCounter(l, clock) /\ c # None
        BY <1>4, <1>5, <2>7, <3>1, <3>2, NoneIsNothing
      <4>2. Remembers(NewCounter(m, clock), s, clock, row)
        BY <1>5, <2>1, <2>2, <2>5, <2>7, <3>2, InWindow, NewRemembers
      <4>. QED BY <2>1, <2>3, <2>4, <3>2, <4>1, <4>2, Zenon
    <3>3. CASE j # k
      <4>1. counterOf'[j] = counterOf[j]
        BY <1>4, <1>5, <2>7, <3>3
      <4>2. counterOf[j] # None => heap'[counterOf[j]] = heap[counterOf[j]]
        <5>1. counterOf[j] # None => heap[counterOf[j]] # None
          BY InWindow DEF LimiterInv, MapHolds
        <5>. QED BY <1>4, <1>5, <2>7, <3>1, <5>1
      <4>. QED BY <2>1, <2>3, <2>4, <2>5, <4>1, <4>2, Zenon
    <3>. QED BY <3>2, <3>3
  <2>. QED BY <2>6, <2>7
<1>8. /\ granted' \in [Limits \X Subjects -> AllHistories]
      /\ \A a \in Limits \X Subjects : granted'[a] \in Histories(rateLimits[a[1]])
      /\ \A a \in Limits \X Subjects :
           (\A r \in Requests, m \in Limits : AccountTable[<<r, m>>] # a)
             => \A n \in Span(rateLimits[a[1]]) : granted'[a][n] = 0
  <2>1. granted' = granted
    BY <1>4
  <2>2. OnlyAccounts
    BY DEF WindowInv
  <2>. QED BY <2>1, <2>2, InWindow, Zenon DEF OnlyAccounts
<1>. QED BY <1>4, <1>6, <1>7, <1>8, NextWindowInv, Zenon

LEMMA WindowSwept ==
  ASSUME WindowInv, NEW k0 \in Keys, cleanupExpiredCountersOnce(k0), LimiterInv' PROVE WindowInv'
<1>1. /\ counterOf[k0] # None /\ Idle(heap[counterOf[k0]], k0[2])
      /\ counterOf' = [counterOf EXCEPT ![k0] = None]
      /\ heap' = Collect(heap, counterOf', call)
      /\ UNCHANGED <<clock, rateLimits, call, granted>>
  BY DEF cleanupExpiredCountersOnce
<1>2. /\ heap \in [CounterIds -> Counters \union {None}]
      /\ counterOf \in [Keys -> CounterIds \union {None}]
  BY InWindow DEF LimiterInv, LimiterTypes
<1>3. /\ counterOf' \in [Keys -> CounterIds \union {None}]
      /\ \A k \in Keys : k # k0 => counterOf'[k] = counterOf[k]
      /\ counterOf'[k0] = None
  BY <1>1, <1>2
<1>4. \A k \in Keys : counterOf'[k] # None => heap'[counterOf'[k]] = heap[counterOf'[k]]
  <2>1. PICK h : h = Collect(heap, counterOf', call)
    OBVIOUS
  <2>2. \A k \in Keys : counterOf'[k] \in CounterIds => h[counterOf'[k]] = heap[counterOf'[k]]
    BY <1>2, <2>1, CollectKeeps
  <2>. QED BY <1>1, <1>3, <2>1, <2>2
<1>5. ASSUME NEW r \in Requests, NEW m \in Steady
      PROVE  /\ counterOf'[KeyTable[<<r, m>>]] = None
                  => Forgotten(granted'[AccountTable[<<r, m>>]], rateLimits[m])
             /\ counterOf'[KeyTable[<<r, m>>]] # None
                  => Remembers(heap'[counterOf'[KeyTable[<<r, m>>]]],
                               granted'[AccountTable[<<r, m>>]], clock', rateLimits[m])
  <2>1. PICK row \in LimitRows : row = rateLimits[m]
    BY InWindow
  <2>2. PICK s \in Histories(row) : s = Given(r, m)
    BY <2>1, InWindow
  <2>3. granted'[AccountTable[<<r, m>>]] = s /\ clock' = clock
    BY <1>1, <2>2 DEF Given
  <2>4. PICK j \in Keys : j = KeyTable[<<r, m>>] /\ j = Key(r, m)
    BY InWindow, InTypes
  <2>5. /\ counterOf[j] = None => Forgotten(s, row)
        /\ counterOf[j] # None => Remembers(heap[counterOf[j]], s, clock, row)
    BY <2>1, <2>2, <2>4, Zenon DEF WindowInv, CountersRemember, Mapped
  <2>6. CASE j # k0
    <3>1. counterOf'[j] = counterOf[j]
      BY <1>3, <2>6
    <3>2. counterOf[j] # None => heap'[counterOf[j]] = heap[counterOf[j]]
      BY <1>4, <3>1
    <3>. QED BY <2>1, <2>3, <2>4, <2>5, <3>1, <3>2, Zenon
  <2>7. CASE j = k0
    <3>1. PICK k \in Counters : k = heap[counterOf[j]]
      BY <1>1, <2>7, InWindow, InTypes
    <3>2. k0[2] = Alg(m) /\ Window(m) <= CleanAge
      <4>1. Window(m) <= CleanAge
        BY DEF Steady
      <4>. QED BY <2>4, <2>7, <4>1 DEF Key
    <3>3. Idle(k, Alg(m))
      BY <1>1, <2>7, <3>1, <3>2
    <3>4. Remembers(k, s, clock, row)
      BY <1>1, <2>5, <2>7, <3>1
    <3>5. Forgotten(s, row)
      BY <2>1, <2>2, <3>2, <3>3, <3>4, InWindow, IdleForgets
    <3>. QED BY <1>3, <2>1, <2>3, <2>4, <2>7, <3>5
  <2>. QED BY <2>6, <2>7
<1>6. /\ granted' \in [Limits \X Subjects -> AllHistories]
      /\ \A a \in Limits \X Subjects : granted'[a] \in Histories(rateLimits[a[1]])
      /\ \A a \in Limits \X Subjects :
           (\A r \in Requests, m \in Limits : AccountTable[<<r, m>>] # a)
             => \A n \in Span(rateLimits[a[1]]) : granted'[a][n] = 0
      /\ \A r \in Requests : call'[r] # None => clock' <= call'[r].now + Lag
  <2>1. granted' = granted /\ clock' = clock /\ call' = call
    BY <1>1
  <2>2. OnlyAccounts /\ Timely
    BY DEF WindowInv
  <2>. QED BY <2>1, <2>2, InWindow, Zenon DEF OnlyAccounts, Timely
<1>. QED BY <1>1, <1>5, <1>6, NextWindowInv, Zenon

LEMMA WindowChecked ==
  ASSUME WindowInv, NEW p \in Requests, Check(p), LimiterInv' PROVE WindowInv'
<1>1. PICK l \in Limits, c \in CounterIds, now \in Int, k0 \in Counters :
         /\ call[p] # None /\ call[p].limit = l /\ call[p].ctr = c /\ call[p].now = now
         /\ k0 = heap[c]
  <2>1. call[p] # None
    BY DEF Check
  <2>. QED BY <2>1, InWindow, InTypes
<1>2. PICK k \in Keys, a \in Limits \X Subjects :
         /\ k = KeyTable[<<p, l>>] /\ k = Key(p, l)
         /\ a = AccountTable[<<p, l>>] /\ a = Account(p, l)
  BY InWindow, InTypes
<1>3. PICK v : v = CheckLimit(k0, now, l)
  OBVIOUS
<1>4. /\ l \in OwnLimits => Fits(k0, l)
      /\ rateLimits \in Seq(LimitRows)
      /\ now <= clock /\ clock <= now + Lag /\ clock \in Int
  <2>1. (l \in OwnLimits => <<k0, l>> \in Fitting) /\ now <= clock
    BY <1>1, InWindow DEF LimiterInv, CallsHold
  <2>2. clock <= now + Lag
    BY <1>1 DEF WindowInv, Timely
  <2>. QED BY <2>1, <2>2, FittingIs, InWindow
<1>5. PICK n \in Counters : n = v.counter
  BY <1>3, <1>4, CheckCounters
<1>6. PICK row \in LimitRows : row = rateLimits[l]
  BY InWindow
<1>7. PICK s \in Histories(row) : s = granted[a]
  BY <1>2, <1>6, InWindow DEF Given
<1>8. /\ call' = [call EXCEPT ![p] = None]
      /\ heap' = Collect([heap EXCEPT ![c] = n], counterOf, call')
      /\ v.allowed /\ counterOf[k] = c => granted' = [granted EXCEPT ![a] = More(s)]
      /\ ~(v.allowed /\ counterOf[k] = c) => granted' = granted
      /\ UNCHANGED <<clock, rateLimits, counterOf>>
  BY <1>1, <1>2, <1>3, <1>5, <1>7 DEF Check, More
<1>9. /\ heap \in [CounterIds -> Counters \union {None}]
      /\ counterOf \in [Keys -> CounterIds \union {None}]
      /\ call \in [Requests -> [limit : Nat, now : Int, ctr : CounterIds] \union {None}]
      /\ granted \in [Limits \X Subjects -> AllHistories]
  BY InWindow DEF LimiterInv, LimiterTypes
<1>10. PICK h \in [CounterIds -> Counters \union {None}] :
         /\ h = [heap EXCEPT ![c] = n] /\ h[c] = n
         /\ \A d \in CounterIds : d # c => h[d] = heap[d]
  <2>1. PICK h : h = [heap EXCEPT ![c] = n]
    OBVIOUS
  <2>2. h \in [CounterIds -> Counters \union {None}]
    BY <1>9, <2>1
  <2>3. h[c] = n /\ \A d \in CounterIds : d # c => h[d] = heap[d]
    BY <1>9, <2>1
  <2>. QED BY <2>1, <2>2, <2>3
<1>11. \A j \in Keys : counterOf[j] # None => heap'[counterOf[j]] = h[counterOf[j]]
  <2>1. PICK g : g = Collect(h, counterOf, call')
    OBVIOUS
  <2>2. \A j \in Keys : counterOf[j] \in CounterIds => g[counterOf[j]] = h[counterOf[j]]
    BY <2>1, CollectKeeps
  <2>3. heap' = g
    BY <1>8, <1>10, <2>1
  <2>. QED BY <1>9, <2>2, <2>3
<1>12. More(s) \in Histories(row) /\ More(s) \in AllHistories
  BY <1>6, <1>7, MoreIs, InWindow
<1>13. /\ \A b \in Limits \X Subjects : b # a => granted'[b] = granted[b]
       /\ v.allowed /\ counterOf[k] = c => granted'[a] = More(s)
       /\ ~(v.allowed /\ counterOf[k] = c) => granted'[a] = s
       /\ granted' \in [Limits \X Subjects -> AllHistories]
  BY <1>7, <1>8, <1>9, <1>12
<1>14. \A b \in Limits \X Subjects : granted'[b] \in Histories(rateLimits[b[1]])
  <2>1. a[1] = l
    BY <1>2 DEF Account
  <2>2. granted'[a] \in Histories(row)
    BY <1>7, <1>12, <1>13
  <2>3. \A b \in Limits \X Subjects : granted[b] \in Histories(rateLimits[b[1]])
    BY InWindow
  <2>. QED BY <1>6, <1>13, <2>1, <2>2, <2>3
<1>15. \A r \in Requests : call'[r] # None => clock' <= call'[r].now + Lag
  <2>1. \A r \in Requests : call'[r] # None => call'[r] = call[r] /\ call[r] # None
    BY <1>8, <1>9
  <2>2. clock' = clock /\ Timely
    BY <1>8 DEF WindowInv
  <2>. QED BY <2>1, <2>2, Zenon DEF Timely
<1>16. \A b \in Limits \X Subjects :
         (\A r \in Requests, m \in Limits : AccountTable[<<r, m>>] # b)
           => \A i \in Span(rateLimits[b[1]]) : granted'[b][i] = 0
  <2>. SUFFICES ASSUME NEW b \in Limits \X Subjects,
                       \A r \in Requests, m \in Limits : AccountTable[<<r, m>>] # b
       PROVE  \A i \in Span(rateLimits[b[1]]) : granted'[b][i] = 0
    BY Zenon
  <2>1. b # a
    BY <1>2
  <2>2. granted'[b] = granted[b]
    BY <1>13, <2>1
  <2>3. OnlyAccounts
    BY DEF WindowInv
  <2>. QED BY <2>2, <2>3, Zenon DEF OnlyAccounts
<1>17. ASSUME NEW r \in Requests, NEW m \in Steady
       PROVE  /\ counterOf'[KeyTable[<<r, m>>]] = None
                   => Forgotten(granted'[AccountTable[<<r, m>>]], rateLimits[m])
              /\ counterOf'[KeyTable[<<r, m>>]] # None
                   => Remembers(heap'[counterOf'[KeyTable[<<r, m>>]]],
                                granted'[AccountTable[<<r, m>>]], clock', rateLimits[m])
  <2>1. PICK j \in Keys, b \in Limits \X Subjects :
           /\ j = KeyTable[<<r, m>>] /\ b = AccountTable[<<r, m>>]
           /\ (j = k <=> b = a) /\ (j = k => m = l)
    <3>1. /\ (KeyTable[<<p, l>>] = KeyTable[<<r, m>>])
                 <=> (AccountTable[<<p, l>>] = AccountTable[<<r, m>>])
          /\ KeyTable[<<p, l>>] = KeyTable[<<r, m>>] => l = m
      BY InWindow, InTypes
    <3>2. KeyTable[<<r, m>>] \in Keys /\ AccountTable[<<r, m>>] \in Limits \X Subjects
      BY InWindow, InTypes
    <3>. QED BY <1>2, <3>1, <3>2
  <2>2. /\ counterOf[j] = None => Forgotten(granted[b], rateLimits[m])
        /\ counterOf[j] # None => Remembers(heap[counterOf[j]], granted[b], clock, rateLimits[m])
    BY <2>1, Zenon DEF WindowInv, CountersRemember, Mapped, Given
  <2>3. clock' = clock /\ counterOf' = counterOf
    BY <1>8
  <2>4. counterOf[j] # None => counterOf[j] \in CounterIds
    BY <1>9
  <2>5. CASE j # k
    <3>1. granted'[b] = granted[b]
      BY <1>13, <2>1, <2>5
    <3>2. counterOf[j] # c
      BY <1>1, <1>2, <2>5, InWindow DEF LimiterInv, OwnCounters
    <3>3. counterOf[j] # None => heap'[counterOf[j]] = heap[counterOf[j]]
      BY <1>10, <1>11, <2>4, <3>2
    <3>. QED BY <2>1, <2>2, <2>3, <3>1, <3>3, Zenon
  <2>6. CASE j = k /\ counterOf[j] # c
    <3>1. granted'[b] = granted[b]
      BY <1>7, <1>13, <2>1, <2>6
    <3>2. counterOf[j] # None => heap'[counterOf[j]] = heap[counterOf[j]]
      BY <1>10, <1>11, <2>4, <2>6
    <3>. QED BY <2>1, <2>2, <2>3, <3>1, <3>2, Zenon
  <2>7. CASE j = k /\ counterOf[j] = c
    <3>1. counterOf[j] # None /\ heap'[counterOf[j]] = n
      BY <1>10, <1>11, <2>7, NoneIsNothing
    <3>2. Remembers(k0, s, clock, row)
      BY <1>1, <1>6, <1>7, <2>1, <2>2, <2>7, <3>1
    <3>6. Fits(k0, l)
      BY <1>4, <2>1, <2>7, InWindow
    <3>3. /\ v.allowed => Remembers(n, More(s), clock, row)
          /\ ~v.allowed => Remembers(n, s, clock, row)
      BY <3>6, <1>3, <1>4, <1>5, <1>6, <1>7, <3>2, CheckRemembers
    <3>4. Remembers(n, granted'[a], clock, row)
      BY <1>13, <2>7, <3>3
    <3>5. b = a /\ m = l
      BY <2>1, <2>7
    <3>. QED BY <1>6, <2>1, <2>3, <3>1, <3>4, <3>5, Zenon
  <2>. QED BY <2>5, <2>6, <2>7
<1>. QED BY <1>8, <1>13, <1>14, <1>15, <1>16, <1>17, NextWindowInv, Zenon

LEMMA WindowKeeps == WindowInv /\ [Next]_vars => WindowInv'
<1>. SUFFICES ASSUME WindowInv, [Next]_vars PROVE WindowInv'
  OBVIOUS
<1>1. LimiterInv'
  BY LimiterKeeps DEF WindowInv
<1>. QED BY <1>1, OnlyLimiterSteps, WindowIdles, WindowLookedUp, WindowChecked,
            WindowAges, WindowSwept, Zenon

LEMMA WindowIsBounded == WindowInv => WindowBounded
<1>. SUFFICES ASSUME WindowInv, NEW a \in Limits \X Subjects, NEW n \in DOMAIN granted[a],
                     Own(a[1]), Window(a[1]) <= CleanAge, n + Lag < Window(a[1])
              PROVE  granted[a][n] <= Burst(a[1])
  BY DEF WindowBounded
<1>1. PICK l \in Limits : l = a[1] /\ l \in Steady /\ l \in OwnLimits
  BY DEF Steady, OwnLimits
<1>2. PICK row \in LimitRows : row = rateLimits[l]
  BY InWindow
<1>3. PICK s \in Histories(row) : s = granted[a]
  BY <1>1, <1>2, InWindow
<1>4. n \in Span(row)
  BY <1>1, <1>2, <1>3 DEF Histories, Span, Window
<1>5. CASE \A r \in Requests, m \in Limits : AccountTable[<<r, m>>] # a
  <2>1. s[n] = 0
    BY <1>1, <1>2, <1>3, <1>4, <1>5 DEF WindowInv, OnlyAccounts
  <2>2. Limit(l) \in Nat
    BY InWindow, LimitFacts
  <2>. QED BY <1>1, <1>3, <2>1, <2>2 DEF Burst
<1>6. ASSUME NEW r \in Requests, NEW m \in Limits, AccountTable[<<r, m>>] = a
      PROVE  granted[a][n] <= Burst(a[1])
  <2>1. m = l
    BY <1>1, <1>6, InWindow
  <2>2. /\ Mapped(r, l) = None => Forgotten(s, row)
        /\ Mapped(r, l) # None => Remembers(heap[Mapped(r, l)], s, clock, row)
    BY <1>1, <1>2, <1>3, <1>6, <2>1, Zenon DEF WindowInv, CountersRemember, Given
  <2>3. CASE Mapped(r, l) = None
    BY <1>1, <1>2, <1>3, <1>4, <2>2, <2>3, InWindow, ForgottenBound
  <2>4. CASE Mapped(r, l) # None
    <3>1. PICK k \in Counters : k = heap[Mapped(r, l)]
      BY <2>4, InWindow, InTypes DEF Mapped
    <3>2. Fits(k, l)
      <4>1. <<k, l>> \in Fitting
        BY <1>1, <2>4, <3>1, InWindow DEF LimiterInv, MapHolds
      <4>. QED BY <4>1, FittingIs
    <3>3. \A i \in Span(row) : s[i] <= Burst(l)
      BY <1>2, <1>3, <2>2, <2>4, <3>1, <3>2, InWindow, RemembersBound
    <3>. QED BY <1>1, <1>3, <1>4, <3>3
  <2>. QED BY <2>3, <2>4
<1>. QED BY <1>5, <1>6

\* However the callers race, come late or come between, and whenever the sweep
\* comes, no account of a limit with counters of its own, whose window the sweep
\* waits for, is granted more than the burst its algorithm stands for in a stretch
\* of time as long as the window less the lag -- whatever other limits there are.
THEOREM LimitsHoldInEveryWindow == Spec => []WindowBounded
<1>1. Init => WindowInv
  <2>. SUFFICES ASSUME Init PROVE WindowInv
    OBVIOUS
  <2>1. setup.limits \in Seq(LimitRows) /\ LimiterInit(setup.limits)
    BY SetupAssumption DEF Init
  <2>. QED BY <2>1, WindowStarts
<1>. QED BY <1>1, WindowKeeps, WindowIsBounded, PTL DEF Spec
===============================================================================
