------------------------------ MODULE ConfigStore ------------------------------
(***************************************************************************)
(* How a client's key leads to a configuration.  CreateMessage looks for a *)
(* load balancer with the key, then in the cache of configurations, then   *)
(* in the table, and caches what it finds (GetConfigByAnthropicAPIKey).    *)
(* Administrators create, update, renew and delete configurations and load *)
(* balancers meanwhile; each of their calls is several statements.         *)
(***************************************************************************)
EXTENDS Integers, FiniteSets

CONSTANTS
    Configs, Balancers,  \* ids
    Generated,           \* keys the server makes up (UUIDs)
    ConfigTokens,        \* custom tokens given to configurations
    BalancerTokens,      \* custom tokens given to load balancers
    BodyKeys,            \* keys that bodies of updates carry
    Clients, Administrators,   \* goroutines of client and of administrator requests
    TTL, MaxEntries,     \* of the cache
    Lag,                 \* longest time between a SELECT and the Set after it
    MaxTime, MaxVersion,
    NoKey, Absent

ASSUME ConfigStoreAssumption ==
  /\ Configs # {} /\ Configs \cap Balancers = {} /\ Clients \cap Administrators = {}
  /\ NoKey \notin Generated \cup ConfigTokens \cup BalancerTokens
  /\ BodyKeys \subseteq Generated \cup ConfigTokens \cup BalancerTokens
  /\ Generated \cap (ConfigTokens \cup BalancerTokens) = {}   \* a UUID is new
  /\ TTL \in Nat /\ Lag \in Nat /\ MaxTime \in Nat
  /\ MaxEntries \in Nat \ {0} /\ MaxVersion \in Nat \ {0}

VARIABLES
    time,
    config,    \* config[i]: the row of i in api_configs
    balancer,  \* balancer[b]: the row of b in load_balancers
    until,     \* until[i][v]: when version v of configuration i was replaced
    cache,     \* cache[k]: the cached configuration of key k
    handed,    \* handed[i]: the key last given out for i
    made,      \* generated keys
    dropped,   \* keys whose entry a call that took them away has left in the cache
    job        \* what every goroutine holds between two statements

configVars == <<time, config, balancer, until, cache, handed, made, dropped, job>>

Keys     == Generated \cup ConfigTokens \cup BalancerTokens
Versions == 1 .. MaxVersion
Waiting  == [pc |-> "idle", op |-> "", id |-> Absent, key |-> NoKey,
             found |-> Absent, since |-> 0]

Becomes(u, j) == job' = [job EXCEPT ![u] = j]
Ends(u) == Becomes(u, Waiting)

\* Whether no goroutine is between two statements.
NobodyBusy == \A u \in Clients \cup Administrators : job[u].pc = "idle"

ConfigInit ==
  /\ time = 0
  /\ config = [i \in Configs |-> Absent]
  /\ balancer = [b \in Balancers |-> Absent]
  /\ until = [i \in Configs |-> [v \in Versions |-> Absent]]
  /\ cache = [k \in Keys |-> Absent]
  /\ handed = [i \in Configs |-> NoKey]
  /\ made = {} /\ dropped = {}
  /\ job = [u \in Clients \cup Administrators |-> Waiting]

ConfigTick ==
  /\ time < MaxTime /\ time' = time + 1
  /\ \A c \in Clients : job[c].pc = "set" => time < job[c].since + Lag
  /\ UNCHANGED <<config, balancer, until, cache, handed, made, dropped, job>>

------------------------------------------------------------------------------
(* CreateMessage: the key of a request. *)

clientFrame == UNCHANGED <<time, config, balancer, until, handed, made, dropped>>

\* GetLoadBalancerByAPIKey comes first; load balancers are not cached.
FindBalancer(c, k) ==
  /\ job[c].pc = "idle"
  /\ IF \E b \in Balancers : balancer[b] # Absent /\ balancer[b].key = k /\ balancer[b].enabled
     THEN UNCHANGED job
     ELSE Becomes(c, [Waiting EXCEPT !.pc = "get", !.key = k])
  /\ UNCHANGED cache /\ clientFrame

\* (mutant) an entry is served as long as it is there
FreshForEver(k) == cache[k] # Absent

Fresh(k) == cache[k] # Absent /\ time <= cache[k].expires

\* Get, and on a miss the SELECT of the enabled row with the key.
GetCached(c) ==
  /\ job[c].pc = "get" /\ Fresh(job[c].key)
  /\ Becomes(c, [job[c] EXCEPT !.pc = "answered", !.since = time,
                            !.found = cache[job[c].key].found])
  /\ UNCHANGED cache /\ clientFrame

SelectConfig(c) ==
  /\ job[c].pc = "get" /\ ~Fresh(job[c].key)
  /\ LET hits == {i \in Configs : config[i] # Absent /\ config[i].key = job[c].key
                                    /\ config[i].enabled} IN
       \/ hits = {} /\ Ends(c)
       \/ \E i \in hits : Becomes(c, [job[c] EXCEPT !.pc = "set", !.since = time,
                                        !.found = <<i, config[i].version>>])
  /\ UNCHANGED cache /\ clientFrame

\* Set makes room first when the cache is full, also when it only replaces.
Cached == {k \in Keys : cache[k] # Absent}
SetCache(c) ==
  /\ job[c].pc = "set"
  /\ \E out \in SUBSET Cached :
       /\ IF Cardinality(Cached) < MaxEntries THEN out = {}
          ELSE \E k \in Cached : out = {k} /\ \A o \in Cached : cache[k].expires <= cache[o].expires
       /\ cache' = [k \in Keys |->
            IF k = job[c].key THEN [found |-> job[c].found, expires |-> time + TTL]
            ELSE IF k \in out THEN Absent ELSE cache[k]]
  /\ Becomes(c, [job[c] EXCEPT !.pc = "answered"])
  /\ clientFrame

\* The request goes on with what was found.
Answered(c) ==
  /\ job[c].pc = "answered" /\ Ends(c)
  /\ UNCHANGED cache /\ clientFrame

\* cleanupExpired, once a minute
cleanupExpired ==
  /\ \E k \in Keys : cache[k] # Absent /\ ~(time <= cache[k].expires)
  /\ cache' = [k \in Keys |-> IF cache[k] # Absent /\ time > cache[k].expires
                              THEN Absent ELSE cache[k]]
  /\ UNCHANGED job /\ clientFrame

------------------------------------------------------------------------------
(* The administration of configurations. *)

InUse(k, besides) == \E i \in Configs \ {besides} : config[i] # Absent /\ config[i].key = k

\* The key a call asks for: a custom token, or for NoKey a new one (whichever it
\* is, as they are all alike).
Chosen(custom) ==
  IF custom # NoKey THEN {custom}
  ELSE LET new == Generated \ made IN IF new = {} THEN {} ELSE {CHOOSE k \in new : TRUE}

\* A custom token must not be in use; the check and the write are two statements.
\* A configuration that is created gets an id of its own.
CheckToken(u, op, i, custom) ==
  /\ job[u].pc = "idle"
  /\ op = "create" => /\ config[i] = Absent /\ handed[i] = NoKey
                      /\ \A o \in Administrators : job[o].pc = "create" => job[o].id # i
  /\ op = "renew"  => config[i] # Absent
  /\ IF custom # NoKey /\ InUse(custom, i) THEN UNCHANGED job
     ELSE Becomes(u, [Waiting EXCEPT !.pc = op, !.id = i, !.key = custom])
  /\ UNCHANGED <<time, config, balancer, until, cache, handed, made, dropped>>

\* INSERT; configurations are created enabled.
InsertConfig(u) ==
  /\ job[u].pc = "create"
  /\ \E k \in Chosen(job[u].key) :
       /\ config' = [config EXCEPT ![job[u].id] = [key |-> k, enabled |-> TRUE, version |-> 1]]
       /\ handed' = [handed EXCEPT ![job[u].id] = k]
       /\ made' = made \cup ({k} \cap Generated)
  /\ Ends(u)
  /\ UNCHANGED <<time, balancer, until, cache, dropped>>

\* Row i changes: its version is over.
Replaces(i, row) ==
  /\ config[i].version < MaxVersion
  /\ config' = [config EXCEPT ![i] = [row EXCEPT !.version = @ + 1]]
  /\ until' = [until EXCEPT ![i][config[i].version] = time]

\* RenewAnthropicAPIKey: the row gets the new key (or the one it has, when that
\* is the custom token of the call); the cache is not touched.
RenewKey(u) ==
  /\ job[u].pc = "renew"
  /\ LET i == job[u].id IN
       IF config[i] = Absent THEN UNCHANGED <<config, until, handed, made, dropped>>
       ELSE \E k \in Chosen(job[u].key) :
              /\ IF k = config[i].key THEN UNCHANGED <<config, until>>
                 ELSE Replaces(i, [config[i] EXCEPT !.key = k])
              /\ handed' = [handed EXCEPT ![i] = k]
              /\ made' = made \cup ({k} \cap Generated)
              /\ dropped' = dropped \cup ({config[i].key} \ {k})
  /\ Ends(u)
  /\ UNCHANGED <<time, balancer, cache>>

\* UpdateAPIConfig and DeleteAPIConfig begin by reading the row for its key.  A
\* deletion goes on without it when it cannot be read; an update whose body
\* carries a key does not ask for the row's, nor whether another row has it.
ReadConfig(u, op, i) ==
  /\ job[u].pc = "idle" /\ config[i] # Absent
  /\ LET read == [Waiting EXCEPT !.pc = "read", !.op = op, !.id = i, !.key = config[i].key] IN
       \/ Becomes(u, read)
       \/ op = "delete" /\ Becomes(u, [read EXCEPT !.pc = "delete", !.key = NoKey])
       \/ /\ op = "update"
          /\ \E k \in BodyKeys : /\ k \in Generated => k \in made
                                /\ Becomes(u, [read EXCEPT !.op = "rekey", !.key = k])
  /\ UNCHANGED <<time, config, balancer, until, cache, handed, made, dropped>>

\* (mutant) the body's key is written also when it has none
WriteBodyKey(u, enabled) ==
  /\ job[u].pc = "read" /\ job[u].op = "update"
  /\ LET i == job[u].id IN
       IF config[i] = Absent THEN UNCHANGED <<config, until>>
       ELSE Replaces(i, [config[i] EXCEPT !.key = NoKey, !.enabled = enabled])
  /\ Becomes(u, [job[u] EXCEPT !.pc = "invalidate"])
  /\ UNCHANGED <<time, balancer, cache, handed, made, dropped>>

\* UPDATE writes the key that was read back, or the body's; then the entry of that
\* key is invalidated, and a key that the row had before keeps its entry.
WriteConfig(u, enabled) ==
  /\ job[u].pc = "read" /\ job[u].op \in {"update", "rekey"}
  /\ LET i == job[u].id IN
       IF config[i] = Absent THEN UNCHANGED <<config, until, handed, dropped>>
       ELSE /\ Replaces(i, [config[i] EXCEPT !.key = job[u].key, !.enabled = enabled])
            /\ handed' = IF job[u].op = "rekey" THEN [handed EXCEPT ![i] = job[u].key] ELSE handed
            /\ dropped' = dropped \cup ({config[i].key} \ {job[u].key})
  /\ Becomes(u, [job[u] EXCEPT !.pc = "invalidate"])
  /\ UNCHANGED <<time, balancer, cache, made>>

\* An update invalidates when the row is written, a deletion before.
Invalidate(u) ==
  /\ \/ job[u].pc = "invalidate" /\ Ends(u)
     \/ /\ job[u].pc = "read" /\ job[u].op = "delete"
        /\ Becomes(u, [job[u] EXCEPT !.pc = "delete"])
  /\ cache' = IF job[u].key \in Keys THEN [cache EXCEPT ![job[u].key] = Absent] ELSE cache
  /\ UNCHANGED <<time, config, balancer, until, handed, made, dropped>>

DeleteRow(u) ==
  /\ job[u].pc = "delete"
  /\ LET i == job[u].id IN
       /\ config' = [config EXCEPT ![i] = Absent]
       /\ until' = IF config[i] = Absent THEN until
                   ELSE [until EXCEPT ![i][config[i].version] = time]
       /\ dropped' = IF job[u].key = NoKey /\ config[i] # Absent
                     THEN dropped \cup {config[i].key} ELSE dropped
  /\ Ends(u)
  /\ UNCHANGED <<time, balancer, cache, handed, made>>

\* A statement fails, and with it the call.
ConfigStatementFails(u) ==
  /\ job[u].pc \in {"create", "renew", "read", "delete"}
  /\ Ends(u)
  /\ UNCHANGED <<time, config, balancer, until, cache, handed, made, dropped>>

------------------------------------------------------------------------------
(* The administration of load balancers: nothing is cached, the key stays   *)
(* through an update.                                                       *)

PutBalancer(b, row) ==
  /\ balancer' = [balancer EXCEPT ![b] = row]
  /\ UNCHANGED <<time, config, until, cache, handed, dropped, job>>

BalancerTokenFree(b, k) ==
  \A o \in Balancers \ {b} : balancer[o] # Absent => balancer[o].key # k

\* CreateLoadBalancer and RenewLoadBalancerAPIKey
KeyBalancer(u, b, custom) ==
  /\ job[u].pc = "idle"
  /\ custom # NoKey => BalancerTokenFree(b, custom)
  /\ \E k \in Chosen(custom), enabled \in BOOLEAN :
       /\ balancer[b] # Absent => enabled = balancer[b].enabled
       /\ PutBalancer(b, [key |-> k, enabled |-> enabled])
       /\ made' = made \cup ({k} \cap Generated)

UpdateBalancer(u, b, enabled) ==
  /\ job[u].pc = "idle" /\ balancer[b] # Absent
  /\ PutBalancer(b, [balancer[b] EXCEPT !.enabled = enabled])
  /\ UNCHANGED made

DeleteBalancer(u, b) ==
  /\ job[u].pc = "idle" /\ balancer[b] # Absent
  /\ PutBalancer(b, Absent)
  /\ UNCHANGED made

------------------------------------------------------------------------------
Client(c) ==
  \/ \E k \in Keys : FindBalancer(c, k)
  \/ GetCached(c) \/ SelectConfig(c) \/ SetCache(c) \/ Answered(c)

\* A call about one of these configurations or load balancers begins.
Begins(u, configs, balancers) ==
  \/ \E i \in configs, custom \in ConfigTokens \cup {NoKey}, op \in {"create", "renew"} :
       CheckToken(u, op, i, custom)
  \/ \E i \in configs, op \in {"update", "delete"} : ReadConfig(u, op, i)
  \/ \E b \in balancers :
       \/ \E custom \in BalancerTokens \cup {NoKey} : KeyBalancer(u, b, custom)
       \/ \E enabled \in BOOLEAN : UpdateBalancer(u, b, enabled)
       \/ DeleteBalancer(u, b)

GoesOn(u) ==
  \/ InsertConfig(u) \/ RenewKey(u) \/ Invalidate(u) \/ DeleteRow(u)
  \/ (\E enabled \in BOOLEAN : WriteConfig(u, enabled))
  \/ ConfigStatementFails(u)

------------------------------------------------------------------------------
\* Whether version v of i is the row, or was until at most "ago" before t.
Within(found, t, ago) ==
  LET i == found[1]  v == found[2] IN
    IF config[i] # Absent /\ config[i].version = v THEN TRUE
    ELSE until[i][v] >= t - ago

\* Whatever administrators do meanwhile, a request is served by a row that was
\* current, with this key and enabled, at most TTL (and the delay of a reader)
\* before it was looked up: a disabled, renewed or deleted configuration is out of service then.
ServedIsRecent ==
  \A c \in Clients :
    job[c].pc = "answered" => Within(job[c].found, job[c].since, TTL + Lag)

\* What a request with key k would be served with.
Lookups(k) ==
  LET lbs == {b \in Balancers : balancer[b] # Absent /\ balancer[b].key = k /\ balancer[b].enabled}
  IN IF lbs # {} THEN lbs
     ELSE IF Fresh(k) THEN {cache[k].found}
     ELSE {<<i, config[i].version>> :
             i \in {j \in Configs : config[j] # Absent /\ config[j].key = k /\ config[j].enabled}}

\* Whether the key of configuration i is that of another row too.
Shared(i) ==
  \/ InUse(config[i].key, i)
  \/ \E b \in Balancers : balancer[b] # Absent /\ balancer[b].key = config[i].key

\* When calls do not overlap, the key last handed out for a configuration is
\* the row's, and leads to exactly the row as it is now: a change takes effect
\* with the next request.  Excepted are keys taken from a configuration by a
\* renewal, an update with a key in its body or a deletion that could not read the
\* row, as their entries stay in the cache.  And two rows share a key only when it
\* came in the body of an update, which nobody checks, or when it is a custom token
\* that a load balancer may be given too: each table is checked for itself.
KeysLeadHome ==
  NobodyBusy =>
    \A i \in Configs : config[i] # Absent =>
      /\ config[i].key = handed[i]
      /\ Shared(i) => config[i].key \in BodyKeys \cup BalancerTokens
      /\ config[i].enabled /\ ~Shared(i) /\ handed[i] \notin dropped
           => Lookups(handed[i]) = {<<i, config[i].version>>}
================================================================================
