------------------------------- MODULE LogStore -------------------------------
(***************************************************************************)
(* Where the bodies of logged requests live.  A worker of the request log  *)
(* inserts the row with its bodies inline, then moves each body to a file  *)
(* in the directory of the day and points the row at it; then it counts    *)
(* the request in the statistics of the day (LogRequestSync, StoreBody,    *)
(* updateTokenStats).  A cleaner (CleanupOldData) deletes old rows and old *)
(* directories, enforces the size quota, and moves to files the bodies of  *)
(* rows older than the path columns (MigrateInlineBodiesToFiles).          *)
(*                                                                         *)
(* Time goes in half days of UTC: an even tick is the first half of a day. *)
(* The server's own calendar is Zone half days ahead of it.                *)
(***************************************************************************)
EXTENDS Integers, FiniteSets, Sequences, Functions

CONSTANTS
    LogIds,        \* requests that may be logged
    LegacyLogs,    \* rows written before the path columns existed
    Kinds,         \* "req" and "resp"
    LogWorkers,    \* worker goroutines of the request log
    Cleaners,      \* goroutines that run CleanupOldData
    RetentionDays, \* log_retention_days
    Zone,          \* what the local clock is ahead of UTC: west, at Greenwich, east
    MaxTick, MaxLogFaults,
    Null, Empty,   \* an absent path and the path ''
    Nothing

\* Time begins on the second day, so that there is one before it.
FirstTick == 2

ASSUME LogStoreAssumption ==
  /\ LegacyLogs \subseteq LogIds /\ Kinds = {"req", "resp"}
  /\ LogWorkers # {} /\ LogWorkers \cap Cleaners = {}
  /\ Null \notin Nat /\ Empty \notin Nat /\ Null # Empty
  /\ RetentionDays \in Nat \ {0} /\ MaxLogFaults \in Nat
  /\ Zone \in -1 .. 1 /\ MaxTick \in Nat /\ MaxTick >= FirstTick

VARIABLES
    tick,
    logRow,     \* logRow[l]: the row of l in request_logs, or Nothing
    files,      \* complete files, <<l, kind, day of its directory>>
    torn,       \* files created but not yet, or never, completely written
    writer,     \* writer[w]: what a worker or cleaner is doing
    tokenStats, \* the rows of token_stats of one configuration and model
    counted,    \* requests whose statistics have been written
    logged,     \* requests handed to the log
    logFaults   \* statements that failed, and crashes

logVars == <<tick, logRow, files, torn, writer, tokenStats, counted, logged,
             logFaults>>

\* The days of UTC, which the database and the parser of directory names go by,
\* and those of the server's clock, which names the directories.
Day(t)      == t \div 2
LocalDay(t) == (t + Zone) \div 2
Today       == Day(tick)
Days        == 0 .. Day(MaxTick) + 1

\* What a worker or cleaner holds between two statements.
Idling == [pc |-> "idle", log |-> Nothing, todo |-> {}, moved |-> {},
           dir |-> 0, stat |-> 0, rows |-> {}]

Goes(w, pc) == writer' = [writer EXCEPT ![w].pc = pc]
LogFault == logFaults < MaxLogFaults /\ logFaults' = logFaults + 1

LogInit(legacy, active) ==
  /\ tick = FirstTick
  /\ logRow = [l \in LogIds |->
                 IF l \in legacy
                 THEN [created |-> FirstTick,
                       body |-> [k \in Kinds |-> [inline |-> TRUE, path |-> Null]]]
                 ELSE Nothing]
  /\ files = {} /\ torn = {}
  /\ writer = [w \in LogWorkers \cup Cleaners |-> Idling]
  /\ tokenStats = <<>> /\ counted = {}
  /\ logged = IF active THEN legacy ELSE LogIds
  /\ logFaults = 0

------------------------------------------------------------------------------
(* LogRequestSync *)

\* The row goes in with its bodies inline and empty paths.  If that fails the
\* request is not logged at all.  Its files will be in the directory of the day
\* that the server's clock shows now.
InsertLog(w, l, toFile) ==
  /\ writer[w].pc = "idle" /\ l \notin logged
  /\ logged' = logged \cup {l}
  /\ \/ /\ logRow' = [logRow EXCEPT ![l] =
                 [created |-> tick,
                  body |-> [k \in Kinds |-> [inline |-> TRUE, path |-> Empty]]]]
        /\ writer' = [writer EXCEPT ![w] =
                 [Idling EXCEPT !.log = l, !.todo = IF toFile THEN Kinds ELSE {},
                                !.pc = IF toFile THEN "store" ELSE "stats",
                                !.dir = LocalDay(tick)]]
        /\ UNCHANGED logFaults
     \/ LogFault /\ UNCHANGED <<logRow, writer>>
  /\ UNCHANGED <<tick, files, torn, tokenStats, counted>>

\* "req" is stored before "resp".
NextKind(todo) == IF "req" \in todo THEN "req" ELSE "resp"

\* Which file the writer is about to write: in the worker's directory, or the
\* migration's, named after the row's time of creation as the database gives it.
File(w) == <<writer[w].log, NextKind(writer[w].todo), writer[w].dir>>

\* StoreBody creates the file, or truncates the one that is there.
CreateFile(w) ==
  /\ writer[w].pc = "store" /\ writer[w].todo # {}
  /\ LET f == File(w) IN
       \/ /\ torn' = torn \cup {f} /\ files' = files \ {f}
          /\ Goes(w, "write")
          /\ UNCHANGED logFaults
       \/ /\ LogFault
          /\ writer' = [writer EXCEPT ![w].todo = @ \ {f[2]}]
          /\ UNCHANGED <<torn, files>>
  /\ UNCHANGED <<tick, logRow, tokenStats, counted, logged>>

\* ... and writes and closes it.  When the directory has gone in between, the
\* open file has no name any more.  A worker then updates the row at once, the
\* migration stores the other body first.
WriteFile(w) ==
  /\ writer[w].pc = "write"
  /\ LET f == File(w)
         rest == writer[w].todo \ {f[2]} IN
       \/ /\ files' = IF f \in torn THEN files \cup {f} ELSE files
          /\ torn' = torn \ {f}
          /\ writer' = [writer EXCEPT ![w].todo = rest, ![w].moved = @ \cup {f[2]},
                          ![w].pc = IF w \in Cleaners /\ rest # {} THEN "store" ELSE "point"]
          /\ UNCHANGED logFaults
       \/ /\ LogFault
          /\ writer' = [writer EXCEPT ![w].todo = rest, ![w].pc = "store"]
          /\ UNCHANGED <<files, torn>>
  /\ UNCHANGED <<tick, logRow, tokenStats, counted, logged>>

\* UPDATE request_logs SET body = NULL, path = ...; a failed update leaves the
\* body inline.  The migration writes its COALESCE of both paths, and '' for
\* the body it could not store.
PointRow(w) ==
  /\ writer[w].pc = "point"
  /\ LET l == writer[w].log
         moved == writer[w].moved
         Pointed(k, b) == IF k \in moved THEN [inline |-> FALSE, path |-> writer[w].dir]
                          ELSE IF w \in Cleaners /\ b.path = Null
                               THEN [b EXCEPT !.path = Empty] ELSE b
     IN \/ /\ logRow' = IF logRow[l] = Nothing THEN logRow
                        ELSE [logRow EXCEPT ![l].body =
                                [k \in Kinds |-> Pointed(k, @[k])]]
           /\ UNCHANGED logFaults
        \/ LogFault /\ UNCHANGED logRow
  /\ writer' = [writer EXCEPT ![w].pc = "store", ![w].moved = {}]
  /\ UNCHANGED <<tick, files, torn, tokenStats, counted, logged>>

\* All bodies dealt with: a worker goes on to the statistics, the migration
\* points the row (if it moved anything) and takes the next one.
BodiesDone(w) ==
  /\ writer[w].pc = "store" /\ writer[w].todo = {}
  /\ writer' = IF w \in LogWorkers THEN [writer EXCEPT ![w].pc = "stats"]
               ELSE IF writer[w].moved # {} THEN [writer EXCEPT ![w].pc = "point"]
               ELSE [writer EXCEPT ![w].pc = "migrate", ![w].log = Nothing]
  /\ UNCHANGED <<tick, logRow, files, torn, tokenStats, counted, logged, logFaults>>

------------------------------------------------------------------------------
(* updateTokenStats *)

\* SELECT id of today's row; 0 stands for sql.ErrNoRows.  Any other error is
\* returned, and the request goes uncounted.
FindStats(w) ==
  /\ writer[w].pc = "stats"
  /\ \/ /\ \/ \E i \in DOMAIN tokenStats :
                /\ tokenStats[i].day = Today
                /\ writer' = [writer EXCEPT ![w].pc = "count", ![w].stat = i]
           \/ /\ \A i \in DOMAIN tokenStats : tokenStats[i].day # Today
              /\ writer' = [writer EXCEPT ![w].pc = "count", ![w].stat = 0]
        /\ UNCHANGED logFaults
     \/ LogFault /\ writer' = [writer EXCEPT ![w] = Idling]
  /\ UNCHANGED <<tick, logRow, files, torn, tokenStats, counted, logged>>

\* (mutant) INSERT OR REPLACE: one row per day, the last writer's.
InsertOrReplace(w) ==
  /\ writer[w].pc = "count"
  /\ tokenStats' = IF writer[w].stat = 0
                   THEN Append(SelectSeq(tokenStats, LAMBDA r : r.day # Today),
                               [day |-> Today, requests |-> 1])
                   ELSE [tokenStats EXCEPT ![writer[w].stat].requests = @ + 1]
  /\ counted' = counted \cup {writer[w].log}
  /\ writer' = [writer EXCEPT ![w] = Idling]
  /\ UNCHANGED <<tick, logRow, files, torn, logged, logFaults>>

\* The row found is incremented by SQL; if there was none, one is inserted, and
\* two workers that both found none insert two.
WriteStats(w) ==
  /\ writer[w].pc = "count"
  /\ \/ /\ tokenStats' = IF writer[w].stat = 0
                         THEN Append(tokenStats, [day |-> Today, requests |-> 1])
                         ELSE [tokenStats EXCEPT ![writer[w].stat].requests = @ + 1]
        /\ counted' = counted \cup {writer[w].log}
        /\ UNCHANGED logFaults
     \/ LogFault /\ UNCHANGED <<tokenStats, counted>>
  /\ writer' = [writer EXCEPT ![w] = Idling]
  /\ UNCHANGED <<tick, logRow, files, torn, logged>>

------------------------------------------------------------------------------
(* CleanupOldData *)

\* Deletes the rows older than the retention, to the second.
DeleteOldRequestLogs(c) ==
  /\ writer[c].pc = "idle"
  /\ \/ /\ logRow' = [l \in LogIds |->
              IF logRow[l] # Nothing /\ logRow[l].created < tick - 2 * RetentionDays
              THEN Nothing ELSE logRow[l]]
        /\ UNCHANGED logFaults
     \/ LogFault /\ UNCHANGED logRow
  /\ Goes(c, "directories")
  /\ UNCHANGED <<tick, files, torn, tokenStats, counted, logged>>

\* (mutant) the cutoff is one day late
OldByOne(day) == day <= Today - RetentionDays + 1

\* A directory's name is read as a midnight of UTC, whatever clock named it, and
\* that midnight lies before the cutoff on the day RetentionDays ago too.
OldDirectory(day) == day <= Today - RetentionDays

CleanOldDirectories(c) ==
  /\ writer[c].pc = "directories"
  /\ files' = {f \in files : ~OldDirectory(f[3])}
  /\ torn'  = {f \in torn : ~OldDirectory(f[3])}
  /\ Goes(c, "quota")
  /\ UNCHANGED <<tick, logRow, tokenStats, counted, logged, logFaults>>

\* When the database is over its size, the oldest rows go; their files stay.
\* The database path is never found, so no VACUUM follows.
DeleteOldestRequestLogs(c) ==
  /\ writer[c].pc = "quota"
  /\ \E gone \in SUBSET {l \in LogIds : logRow[l] # Nothing} :
       /\ \A l \in gone, o \in LogIds \ gone :
            logRow[o] # Nothing => logRow[l].created <= logRow[o].created
       /\ logRow' = [l \in LogIds |-> IF l \in gone THEN Nothing ELSE logRow[l]]
  /\ Goes(c, "select")
  /\ UNCHANGED <<tick, files, torn, tokenStats, counted, logged, logFaults>>

\* The migration reads its batch of rows: those with a NULL path and a body.
SelectInline(c) ==
  /\ writer[c].pc = "select"
  /\ writer' = [writer EXCEPT ![c].pc = "migrate",
        ![c].rows = {<<l, Day(logRow[l].created)>> : l \in
                       {o \in LogIds : logRow[o] # Nothing /\
                          \E k \in Kinds : /\ logRow[o].body[k].inline
                                           /\ logRow[o].body[k].path = Null}}]
  /\ UNCHANGED <<tick, logRow, files, torn, tokenStats, counted, logged, logFaults>>

\* ... and takes them one by one, with the bodies and the date it read.
MigrateRow(c) ==
  /\ writer[c].pc = "migrate"
  /\ \/ \E r \in writer[c].rows :
          writer' = [writer EXCEPT ![c] =
            [Idling EXCEPT !.pc = "store", !.log = r[1], !.dir = r[2], !.todo = Kinds,
                           !.rows = writer[c].rows \ {r}]]
     \/ writer[c].rows = {} /\ writer' = [writer EXCEPT ![c] = Idling]
  /\ UNCHANGED <<tick, logRow, files, torn, tokenStats, counted, logged, logFaults>>

\* The logs of a configuration are deleted; files and statistics stay.
DeleteConfigLogs ==
  /\ logRow' = [l \in LogIds |-> Nothing]
  /\ UNCHANGED <<tick, files, torn, writer, tokenStats, counted, logged, logFaults>>

\* The process dies; rows and files are as the last statement left them.
LogCrash ==
  /\ LogFault
  /\ writer' = [w \in DOMAIN writer |-> Idling]
  /\ UNCHANGED <<tick, logRow, files, torn, tokenStats, counted, logged>>

LogTick ==
  /\ tick < MaxTick /\ tick' = tick + 1
  /\ UNCHANGED <<logRow, files, torn, writer, tokenStats, counted, logged, logFaults>>

LogWorker(w, toFile) ==
  \/ \E l \in LogIds : InsertLog(w, l, toFile)
  \/ CreateFile(w) \/ WriteFile(w) \/ PointRow(w) \/ BodiesDone(w)
  \/ FindStats(w) \/ WriteStats(w)

Cleaner(c) ==
  \/ DeleteOldRequestLogs(c) \/ CleanOldDirectories(c) \/ DeleteOldestRequestLogs(c)
  \/ SelectInline(c) \/ MigrateRow(c)
  \/ CreateFile(c) \/ WriteFile(c) \/ PointRow(c) \/ BodiesDone(c)

------------------------------------------------------------------------------
\* What GetLogByID finds of a body.
Readable(l, k) ==
  LET b == logRow[l].body[k] IN
    IF b.path \in Days THEN <<l, k, b.path>> \in files ELSE b.inline

\* Rows stay for RetentionDays; bodies, in the directory of a day that may have
\* begun almost a day before the row, are promised for one day less, and less
\* what the clock that named the directory is behind UTC.
Behind  == IF Zone < 0 THEN -Zone ELSE 0
Kept(l) == /\ logRow[l] # Nothing
           /\ tick - logRow[l].created <= 2 * (RetentionDays - 1) - Behind

\* Such a row still has both its bodies, inline or in a complete file: through
\* every order of insert, store, update, cleanup and migration, failed statements
\* and a crash between any two of them.
KeptBodiesReadable == \A l \in LogIds : Kept(l) => \A k \in Kinds : Readable(l, k)

\* Nothing excludes two cleanups at a time: every load balancer's monitor starts
\* one in the same night hour, an administrator one whenever he likes.  Two
\* migrations that have read the same row both write its files, and for the time
\* of the second writing the row points at a file that is not complete.
Rewritten(l, k) ==
  \E c \in Cleaners : writer[c].pc = "write" /\ File(c) = <<l, k, logRow[l].body[k].path>>

KeptUnlessRewritten ==
  \A l \in LogIds : Kept(l) => \A k \in Kinds : Readable(l, k) \/ Rewritten(l, k)

\* Every request counted is in the statistics once, although the workers look
\* for the day's row and write it in two statements.
StatsConserved ==
  SumFunction([i \in DOMAIN tokenStats |-> tokenStats[i].requests]) = Cardinality(counted)
===============================================================================
