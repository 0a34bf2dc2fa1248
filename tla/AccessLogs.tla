----------------------------- MODULE AccessLogs -----------------------------
(***************************************************************************)
(* The access log: the proxy appends one line per request to a file per    *)
(* hour and removes expired files when it changes files                    *)
(* (proxy/internal/handler/access_log.go); another process, the API, pages *)
(* through the files from the newest line to the oldest                    *)
(* (api/internal/api/handler_load_balancer_access_logs.go).                *)
(*                                                                         *)
(* A line is the request it is about; a file is named by its hour.  What   *)
(* a line says, and how a cursor is encoded, is left out.                  *)
(***************************************************************************)
EXTENDS Integers, Sequences, FiniteSets

CONSTANTS
    Requests,     \* every request is logged at most once
    Matching,     \* the requests that the reader's filters let through
    HourLength,   \* in ticks of the clock
    Retention,    \* in ticks of the clock
    PageSize,
    MaxTime,      \* bound: ticks of the clock
    NoFile

ASSUME LogAssumption ==
    /\ Matching \subseteq Requests
    /\ HourLength \in Nat \ {0} /\ Retention \in Nat \ {0} /\ PageSize \in Nat \ {0}
    /\ MaxTime \in Nat \ {0}
    /\ NoFile \notin Seq(Requests)

\* Go's zero time is 0.
Times == 1..MaxTime

HourOf(t) == t \div HourLength

Hours == 0..MaxTime

VARIABLES
    clock,
    files,      \* [Hours -> Seq(Requests) \cup {NoFile}], the directory
    modified,   \* [Hours -> 0..MaxTime], the files' modification times
    logger,     \* the proxy's fileAccessLogger
    stamp,      \* [Requests -> 0..MaxTime], the time that Log read, 0 before
    written,    \* history: when the line of a request was written, or 0
    reader      \* a client that reads all pages, with the API's state of the page

logVars == <<files, modified, logger, stamp, written>>

OnFile(r) == \E k \in Hours : files[k] # NoFile /\ \E i \in 1..Len(files[k]) : files[k][i] = r

\* Where a page ended: the next one skips offset lines from the end of file.
Cursor == [file : Hours, offset : Nat]
Start == [file |-> 0, offset |-> 0]

\* owed is history: the lines that were there when the reader began.
Reader == [pc : {"idle", "list", "read", "more", "done", "gone", "failed"},
           list : SUBSET Hours, at : Cursor, cursor : Cursor, paged : BOOLEAN,
           got : Nat, seen : SUBSET Requests, owed : SUBSET Requests]

NotReading == [pc |-> "idle", list |-> {}, at |-> Start, cursor |-> Start, paged |-> FALSE,
               got |-> 0, seen |-> {}, owed |-> {}]

LogTypeOK ==
    /\ clock \in Times
    /\ files \in [Hours -> Seq(Requests) \cup {NoFile}]
    /\ modified \in [Hours -> 0..MaxTime]
    /\ logger \in [key : Hours, state : {"open", "stuck"}]
    /\ stamp \in [Requests -> 0..MaxTime]
    /\ written \in [Requests -> 0..MaxTime]
    /\ reader \in Reader

-----------------------------------------------------------------------------
(* The logger.  Files are opened for appending and created if need be.     *)

Opened(k) == IF files[k] = NoFile THEN <<>> ELSE files[k]

\* Mutant: the age of a file is that of its hour.
ExpiredHours(k, now) == {f \in Hours : files[f] # NoFile /\ f # k /\ f * HourLength + Retention < now}

Expired(k, now) == {f \in Hours : files[f] # NoFile /\ f # k /\ modified[f] + Retention < now}

\* Open the file of hour k, and remove the files that expired, whoever
\* wrote them, but the one that was opened.
Rotated(k, now) ==
    [f \in Hours |-> IF f = k THEN Opened(k)
                     ELSE IF f \in Expired(k, now) THEN NoFile ELSE files[f]]

\* The file of hour k is the current one already, or the logger changes to it.
RotateIfNeeded(k, now) == IF k = logger.key THEN files ELSE Rotated(k, now)

Created(k) == IF files[k] = NoFile THEN [modified EXCEPT ![k] = clock] ELSE modified

LogInit ==
    /\ clock = 1
    /\ files = [k \in Hours |-> IF k = HourOf(1) THEN <<>> ELSE NoFile]
    /\ modified = [k \in Hours |-> IF k = HourOf(1) THEN 1 ELSE 0]
    /\ logger = [key |-> HourOf(1), state |-> "open"]
    /\ stamp = [r \in Requests |-> 0]
    /\ written = [r \in Requests |-> 0]

\* Log reads the clock before it has the lock.
ReadClock(r) ==
    /\ stamp' = [stamp EXCEPT ![r] = clock]
    /\ UNCHANGED <<files, modified, logger, written>>

\* Under the lock.  A late goroutine changes back to the file of its hour.
WriteLine(r) ==
    LET k == HourOf(stamp[r])
    IN  /\ logger.state = "open"
        /\ files' = [RotateIfNeeded(k, stamp[r]) EXCEPT ![k] = Append(@, r)]
        /\ modified' = [modified EXCEPT ![k] = clock]
        /\ logger' = [logger EXCEPT !.key = k]
        /\ written' = [written EXCEPT ![r] = clock]
        /\ UNCHANGED stamp

\* The file of the new hour cannot be opened when the old one is closed, or
\* a write fails and the writer keeps its error: nothing is written any more
\* until the proxy is started again.
LogFails(r) ==
    LET k == HourOf(stamp[r])
    IN  /\ logger.state = "open"
        /\ \/ /\ k # logger.key
              /\ logger' = [logger EXCEPT !.state = "stuck"]
              /\ UNCHANGED <<files, modified>>
           \/ /\ logger' = [key |-> k, state |-> "stuck"]
              /\ files' = RotateIfNeeded(k, stamp[r])
              /\ modified' = Created(k)
        /\ UNCHANGED <<stamp, written>>

\* A line that cannot be written is dropped, and the request is served.
DropLine(r) ==
    /\ logger.state = "stuck"
    /\ UNCHANGED logVars

\* NewFileAccessLogger, in a new process.
OpenLog ==
    LET k == HourOf(clock)
    IN  /\ logger' = [key |-> k, state |-> "open"]
        /\ files' = Rotated(k, clock)
        /\ modified' = Created(k)
        /\ UNCHANGED <<stamp, written>>

-----------------------------------------------------------------------------
(* The reader.  A page is a request to the API of several steps: the       *)
(* listing of the directory, one read for every file until the page is     *)
(* full, and more reads to tell whether anything is left.                  *)

BeginReading ==
    /\ reader.pc = "idle"
    /\ reader' = [NotReading EXCEPT !.pc = "list", !.owed = {r \in Matching : OnFile(r)}]
    /\ UNCHANGED <<clock, logVars>>

Newest(hours) == CHOOSE k \in hours : \A j \in hours : j <= k

\* A cursor whose file was removed is answered by an empty page.  The client is
\* told that there is no more, as at the end of the log; the two ends are kept
\* apart here so that properties can be.
ListFiles ==
    /\ reader.pc = "list"
    /\ LET list == {k \in Hours : files[k] # NoFile}
       IN  reader' =
             IF reader.paged /\ reader.cursor.file \notin list
             THEN [reader EXCEPT !.pc = "gone"]
             ELSE [reader EXCEPT !.pc = "read", !.list = list, !.got = 0,
                     !.at = IF reader.paged THEN reader.cursor
                            ELSE [file |-> Newest(list), offset |-> 0]]
    /\ UNCHANGED <<clock, logVars>>

\* The lines still to be read of the file, by their place from the end.
Hits ==
    LET lines == files[reader.at.file]
    IN  {c \in reader.at.offset..(Len(lines) - 1) : lines[Len(lines) - c] \in Matching}

LineAt(c) == files[reader.at.file][Len(files[reader.at.file]) - c]

\* Mutant: the offset is not reset for the next file.
NextFileSkipping(rd) ==
    LET rest == {k \in rd.list : k < rd.at.file}
    IN  IF rest = {} THEN [rd EXCEPT !.pc = "done"] ELSE [rd EXCEPT !.at.file = Newest(rest)]

\* The next older file of the listing, from its end.
NextFile(rd) ==
    LET rest == {k \in rd.list : k < rd.at.file}
    IN  IF rest = {} THEN [rd EXCEPT !.pc = "done"]
        ELSE [rd EXCEPT !.at = [file |-> Newest(rest), offset |-> 0]]

\* Lines are taken from the newest on until the page is full.
ReadFile ==
    /\ reader.pc = "read"
    /\ LET room == PageSize - reader.got
           last == CHOOSE c \in Hits : Cardinality({h \in Hits : h <= c}) = room
           end == [file |-> reader.at.file, offset |-> last + 1]
       IN  reader' =
             IF files[reader.at.file] = NoFile THEN [reader EXCEPT !.pc = "failed"]
             ELSE IF Cardinality(Hits) < room
             THEN NextFile([reader EXCEPT !.got = @ + Cardinality(Hits),
                                          !.seen = @ \cup {LineAt(c) : c \in Hits}])
             ELSE [reader EXCEPT !.pc = "more", !.cursor = end, !.at = end, !.paged = TRUE,
                                 !.seen = @ \cup {LineAt(c) : c \in {h \in Hits : h <= last}}]
    /\ UNCHANGED <<clock, logVars>>

\* hasMoreFilteredAccessLogs, with the listing of the page; a client that is
\* told so asks for the next page.
HasMore ==
    /\ reader.pc = "more"
    /\ reader' = IF files[reader.at.file] = NoFile THEN [reader EXCEPT !.pc = "failed"]
                 ELSE IF Hits # {} THEN [reader EXCEPT !.pc = "list"]
                 ELSE NextFile(reader)
    /\ UNCHANGED <<clock, logVars>>

ReaderStep == BeginReading \/ ListFiles \/ ReadFile \/ HasMore

-----------------------------------------------------------------------------
(* What the log promises.                                                  *)

\* A line stays on file for the time of the retention, although files are
\* removed by goroutines with an old time, and although a goroutine changes
\* back to the file of an earlier hour.
RecentKept ==
    \A r \in Requests : written[r] # 0 /\ clock <= written[r] + Retention => OnFile(r)

\* A client that was told that there is nothing more has been sent every line
\* that was on file when it began, unless its file expired meanwhile,
\* although lines are appended and the files change between and during its
\* requests.
PagesComplete ==
    reader.pc = "done" => \A r \in reader.owed : OnFile(r) => r \in reader.seen

=============================================================================
