------------------------------ MODULE MCAdmission ------------------------------
(* Instance of Admission for TLC: small setups, one per question.              *)
EXTENDS Admission, TLC

CONSTANTS r1, r2, r3, w, adm, a1, a2, requests, toks, k1, k2, k3, T

MCRequests == {r1, r2, r3}
MCUsers == MCRequests \union {w, adm}
MCQuotaIds == {requests, toks}
MCKeyOf == [r \in MCRequests |-> k1]
MCIpOf == [r \in MCRequests |-> IF r = r1 THEN "home" ELSE "away"]
Daily == [q \in MCQuotaIds |-> 1]
\* A request is checked as one request and a thousand tokens and charged as
\* one request and the tokens the handler reports, of which it reports none.
MCEstimate == [q \in MCQuotaIds |-> 1]
MCIncrement == [q \in MCQuotaIds |-> IF q = requests THEN 1 ELSE 0]

Row(d, a, n, t) == [dimension |-> d, algorithm |-> a, limit |-> n, window |-> t]
IpRule(i, t, s, ips) == [id |-> i, type |-> t, scope |-> s, ips |-> ips]
MCRules == {IpRule(1, "blacklist", "global", {"away"}), IpRule(2, "whitelist", T, {"home"}),
            IpRule(3, "blacklist", T, {"home", "away"})}

NoQuota == [q \in {} |-> 0]
Base == [chain |-> {}, parts |-> {}, limits |-> <<>>, quotas |-> NoQuota, rules |-> {},
         serial |-> FALSE, newLimits |-> {}, callers |-> {r1}, most |-> 1]
Rated == [Base EXCEPT !.chain = {"rate"}, !.parts = {"rate"}]
Quota == [Base EXCEPT !.chain = {"quota", "track"}, !.quotas = (requests :> 2)]
Serial == [Quota EXCEPT !.serial = TRUE, !.most = 4]
Shared == <<Row("ip", "fixed_window", 1, 2), Row("ip", "fixed_window", 2, 6)>>

MCSetups ==
  \* several callers, one limit, time and the sweep
  {[Rated EXCEPT !.limits = <<Row("tenant", a, 1, 4)>>, !.callers = c,
                 !.most = IF c = MCRequests THEN 3 ELSE 4] :
     a \in Algorithms, c \in {MCRequests, {r2, r3}}}
  \* a limit per tenant after one per key; two limits that share an address's
  \* counter, one of them with a window the sweep does not wait for, also
  \* with one of the tenant
  \union {[Rated EXCEPT !.callers = {r2, r3}, !.most = 3, !.limits = rows] :
     rows \in {<<Row("api_key", "fixed_window", 2, 4), Row("tenant", "token_bucket", 1, 2)>>, Shared}}
  \union {[Rated EXCEPT !.callers = {r2, r3}, !.most = 2,
                !.limits = Append(Shared, Row("tenant", "sliding_window", 1, 4))]}
  \* callers racing for what is left of a quota
  \union {[Quota EXCEPT !.callers = {r2, r3}, !.most = 5, !.parts = {"errors"}],
          [Quota EXCEPT !.callers = MCRequests, !.most = 3]}
  \* and with resets in between
  \union {[Quota EXCEPT !.quotas = (requests :> 1), !.callers = {r2, r3}, !.most = 3, !.parts = {"reset"}],
          [Quota EXCEPT !.quotas = (requests :> 1), !.callers = {r2, r3}, !.most = 2, !.parts = {"days"}],
          [Quota EXCEPT !.quotas = (requests :> 1), !.most = 3, !.parts = {"days", "tick"}]}
  \* one operation after the other, over two midnights
  \union {[Serial EXCEPT !.parts = p, !.quotas = (requests :> 1), !.most = 3] :
             p \in {{"days", "tick", "faults"}, {"days", "reset"}}}
  \union {[Serial EXCEPT !.parts = {"set", "faults"}, !.newLimits = {3}, !.most = 3],
          [Serial EXCEPT !.parts = {"set"}, !.newLimits = {1, 3}, !.most = 3]}
  \* rules and keys change while requests pass
  \union {[Base EXCEPT !.chain = {"ip"}, !.parts = {"ip"}, !.callers = {r1, r2}, !.most = 1,
                !.rules = {IpRule(1, "blacklist", "global", {"away"})}],
          [Base EXCEPT !.chain = {"authenticate"}, !.parts = {"keys"}],
          [Base EXCEPT !.chain = {"authenticate", "ip", "rate", "quota", "track"}, !.most = 2, !.parts = {"errors"},
                !.callers = {r1, r2}, !.quotas = (requests :> 1),
                !.limits = <<Row("ip", "fixed_window", 1, 2)>>]}

HiddenSetups == {[Serial EXCEPT !.quotas = (requests :> 1 @@ toks :> 5)]}
SetSetups == {[Serial EXCEPT !.parts = {"set"}, !.newLimits = {3}]}
\* A fixed window longer than the age at which the sweep removes a counter.
LongSetups == {[Rated EXCEPT !.callers = {r2, r3}, !.most = 3,
                             !.limits = <<Row("tenant", "fixed_window", 2, 6)>>]}

Symmetry == Permutations({r2, r3})
=============================================================================
