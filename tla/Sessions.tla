-------------------------------- MODULE Sessions --------------------------------
(***************************************************************************)
(* The conversation sessions a request is recorded under.  Every attempt   *)
(* of a request (one per node a load balancer tries) looks for the session *)
(* the client names and makes a new one unless it is of the attempt's      *)
(* configuration (GetOrCreateSession); when the attempt has answered, the  *)
(* last question and the answer are saved one after the other, each by     *)
(* SaveMessages: count, insert, read the session, write it back.           *)
(***************************************************************************)
EXTENDS Integers, FiniteSets, Functions

CONSTANTS
    SessionIds,        \* ids the server makes up
    SessionConfigs,    \* configurations (nodes) a request may be tried on
    Requests,          \* requests in progress at a time
    MaxTurns,          \* attempts begun, in all
    MaxSessionFaults,  \* statements that fail
    NoSession

ASSUME SessionsAssumption ==
  /\ NoSession \notin SessionIds
  /\ NoSession \notin [config : SessionConfigs, count : Nat, tokens : Nat]
  /\ MaxTurns \in Nat /\ MaxSessionFaults \in Nat

VARIABLES
    sessionRow,   \* sessionRow[s]: the row of s in sessions, or NoSession
    messages,     \* the rows of session_messages
    request,      \* what the goroutine of every request holds
    turns,        \* attempts begun
    sessionFaults

sessionVars == <<sessionRow, messages, request, turns, sessionFaults>>

\* What a message adds to the tokens of its session.
Tokens(role) == IF role = "user" THEN 1 ELSE 2

Free == [pc |-> "free", named |-> NoSession, session |-> NoSession, config |-> NoSession,
         turn |-> 0, left |-> {}, count |-> 0, tokens |-> 0]

SessionsInit ==
  /\ sessionRow = [s \in SessionIds |-> NoSession]
  /\ messages = {}
  /\ request = [r \in Requests |-> Free]
  /\ turns = 0 /\ sessionFaults = 0

SessionFault == sessionFaults < MaxSessionFaults /\ sessionFaults' = sessionFaults + 1
Rows(s) == {m \in messages : m.session = s}
RowTokens(s) == SumFunction([m \in Rows(s) |-> Tokens(m.role)])

------------------------------------------------------------------------------
(* executeMessageRequestWithConfig, CreateMessage *)

\* An attempt begins: the first with what the client names, a later one with
\* the same on another node.
Attempt(r, named, cfg) ==
  /\ turns < MaxTurns /\ turns' = turns + 1
  /\ \/ request[r].pc = "free"
     \/ request[r].pc = "upstream" /\ request[r].named = named /\ request[r].config # cfg
  /\ request' = [request EXCEPT ![r] = [Free EXCEPT !.pc = "find", !.named = named,
                                          !.config = cfg, !.turn = turns + 1]]
  /\ UNCHANGED <<sessionRow, messages, sessionFaults>>

\* (mutant) any session that exists will do
GetAnySession(r) ==
  /\ request[r].pc = "find"
  /\ LET named == request[r].named
         found == named # NoSession /\ sessionRow[named] # NoSession
     IN request' = [request EXCEPT ![r].pc = IF found THEN "upstream" ELSE "create",
                                   ![r].session = IF found THEN named ELSE NoSession]
  /\ UNCHANGED <<sessionRow, messages, turns, sessionFaults>>

\* The session named counts only if it exists and is of this configuration (and
\* with it of its user).  After an error the request goes on without a session.
GetSession(r) ==
  /\ request[r].pc = "find"
  /\ LET named == request[r].named
         found == /\ named # NoSession /\ sessionRow[named] # NoSession
                  /\ sessionRow[named].config = request[r].config
     IN \/ /\ request' = [request EXCEPT ![r].pc = IF found THEN "upstream" ELSE "create",
                                         ![r].session = IF found THEN named ELSE NoSession]
           /\ UNCHANGED sessionFaults
        \/ named # NoSession /\ SessionFault /\ request' = [request EXCEPT ![r].pc = "upstream"]
  /\ UNCHANGED <<sessionRow, messages, turns>>

\* A new id for a session, whichever it is, as they are all alike.
NewIds == LET new == {s \in SessionIds : sessionRow[s] = NoSession} IN
            IF new = {} THEN {} ELSE {CHOOSE s \in new : TRUE}

CreateSession(r) ==
  /\ request[r].pc = "create"
  /\ \/ \E s \in NewIds :
          /\ sessionRow' = [sessionRow EXCEPT ![s] =
                              [config |-> request[r].config, count |-> 0, tokens |-> 0]]
          /\ request' = [request EXCEPT ![r].pc = "upstream", ![r].session = s]
          /\ UNCHANGED sessionFaults
     \/ SessionFault /\ request' = [request EXCEPT ![r].pc = "upstream"] /\ UNCHANGED sessionRow
  /\ UNCHANGED <<messages, turns>>

\* The attempt fails and no other follows, or there is no session to save to.
RequestOver(r) ==
  /\ request[r].pc = "upstream"
  /\ request' = [request EXCEPT ![r] = Free]
  /\ UNCHANGED <<sessionRow, messages, turns, sessionFaults>>

\* The attempt has answered: the last message of the user, if any, and an answer
\* with content are to be saved.
Answer(r, left) ==
  /\ request[r].pc = "upstream" /\ request[r].session # NoSession
  /\ request' = [request EXCEPT ![r].pc = "count", ![r].left = left]
  /\ UNCHANGED <<sessionRow, messages, turns, sessionFaults>>

------------------------------------------------------------------------------
(* SaveMessagesToSession and SaveMessages *)

Role(r) == IF "user" \in request[r].left THEN "user" ELSE "assistant"

\* A failure ends the saving of this message, not of the next.
NextMessage(r) ==
  LET rest == request[r].left \ {Role(r)} IN
    request' = [request EXCEPT ![r] =
      IF rest = {} THEN Free
      ELSE [request[r] EXCEPT !.pc = "count", !.left = rest, !.count = 0, !.tokens = 0]]

SaveFails(r) ==
  /\ request[r].pc \in {"count", "insert", "get", "update"} /\ SessionFault
  /\ NextMessage(r)
  /\ UNCHANGED <<sessionRow, messages, turns>>

CountSessionMessages(r) ==
  /\ request[r].pc = "count"
  /\ request' = [request EXCEPT ![r].pc = "insert",
                                ![r].count = Cardinality(Rows(request[r].session))]
  /\ UNCHANGED <<sessionRow, messages, turns, sessionFaults>>

CreateSessionMessage(r) ==
  /\ request[r].pc = "insert"
  /\ messages' = messages \cup
       {[session |-> request[r].session, index |-> request[r].count,
         role |-> Role(r), turn |-> request[r].turn, config |-> request[r].config]}
  /\ request' = [request EXCEPT ![r].pc = "get"]
  /\ UNCHANGED <<sessionRow, turns, sessionFaults>>

\* The session is there: no route deletes one (DeleteSession has no caller), and
\* without foreign keys it outlives its configuration.
ReadSession(r) ==
  /\ request[r].pc = "get"
  /\ request' = [request EXCEPT ![r].pc = "update",
                                ![r].tokens = sessionRow[request[r].session].tokens]
  /\ UNCHANGED <<sessionRow, messages, turns, sessionFaults>>

\* UpdateSession writes the whole row: the count taken before the insert plus
\* one, and the tokens just read plus those of the message.
UpdateSession(r) ==
  /\ request[r].pc = "update"
  /\ sessionRow' = [sessionRow EXCEPT
       ![request[r].session].count  = request[r].count + 1,
       ![request[r].session].tokens = request[r].tokens + Tokens(Role(r))]
  /\ NextMessage(r)
  /\ UNCHANGED <<messages, turns, sessionFaults>>

Begin(r) == \E named \in SessionIds \cup {NoSession}, cfg \in SessionConfigs :
              /\ named # NoSession => sessionRow[named] # NoSession
              /\ Attempt(r, named, cfg)

Proceed(r) ==
  \/ GetSession(r) \/ CreateSession(r) \/ RequestOver(r)
  \/ \E left \in {{"user"}, {"user", "assistant"}} : Answer(r, left)
  \/ SaveFails(r) \/ CountSessionMessages(r) \/ CreateSessionMessage(r)
  \/ ReadSession(r) \/ UpdateSession(r)

------------------------------------------------------------------------------
\* However requests of a session overlap and statements fail, the counters of
\* its row never run ahead of its messages: two writers lose each other's
\* update, they never invent one.
CountersNeverLead ==
  \A s \in SessionIds : sessionRow[s] # NoSession =>
    /\ sessionRow[s].count <= Cardinality(Rows(s))
    /\ sessionRow[s].tokens <= RowTokens(s)

\* In the order of the session (its message_index) an answer comes after the
\* question of its request, and all messages are of the session's configuration.
TurnsInOrder ==
  \A m \in messages :
    /\ m.config = sessionRow[m.session].config
    /\ m.role = "assistant" =>
         \A q \in Rows(m.session) : q.turn = m.turn /\ q.role = "user" => q.index < m.index

\* Whether no request is being served.
NobodyServed == \A r \in Requests : request[r].pc = "free"

\* When requests do not overlap and nothing fails, the row counts exactly the
\* messages and their tokens, and the messages are numbered from 0 on.
CountersExact ==
  NobodyServed /\ sessionFaults = 0 =>
    \A s \in SessionIds : sessionRow[s] # NoSession =>
      /\ sessionRow[s].count = Cardinality(Rows(s))
      /\ sessionRow[s].tokens = RowTokens(s)
      /\ {m.index : m \in Rows(s)} = 0 .. Cardinality(Rows(s)) - 1
=================================================================================
