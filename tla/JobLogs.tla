------------------------------- MODULE JobLogs --------------------------------
(* The log chunks of one job. The runner sends them one after the other; a  *)
(* call it gives up on (its client's timeout) may still be running in the   *)
(* server, where numbering a chunk and storing it are two statements. A     *)
(* page that shows the log asks for the chunks after the last it has seen.  *)
EXTENDS Naturals, FiniteSets

CONSTANT MaxChunks     \* bound: chunks the runner sends

ASSUME JobLogsAssumption == MaxChunks \in Nat

VARIABLES jobLogs,     \* rows of job_logs: [chunk, chunkSeq]
          calls,       \* handlers of /-/ci/jobs/logs in flight: [chunk, chunkSeq]
          sent,        \* chunks sent so far
          answered,    \* the last call has been answered, or given up
          gaveUp,      \* some call was given up while it ran
          view         \* the page: the chunks it shows and the last chunk_seq

logVars == <<jobLogs, calls, sent, answered, gaveUp, view>>

Unread == MaxChunks + 1

LogInit ==
    /\ jobLogs = {} /\ calls = {} /\ sent = 0 /\ answered = TRUE /\ gaveUp = FALSE
    /\ view = [shown |-> {}, after |-> 0]

appendLogs ==
    /\ answered /\ sent < MaxChunks
    /\ sent' = sent + 1 /\ answered' = FALSE
    /\ calls' = calls \cup {[chunk |-> sent + 1, chunkSeq |-> Unread]}
    /\ UNCHANGED <<jobLogs, gaveUp, view>>

GiveUp ==
    /\ ~answered /\ answered' = TRUE /\ gaveUp' = TRUE
    /\ UNCHANGED <<jobLogs, calls, sent, view>>

(* A bug to catch: the largest number, not the next. *)
LargestSeq(rows) == IF rows = {} THEN 1 ELSE CHOOSE n \in {r.chunkSeq : r \in rows} : \A r \in rows : r.chunkSeq <= n

(* COALESCE(MAX(chunk_seq), -1) + 1; numbers start at 1 here. *)
NextSeq(rows) == IF rows = {} THEN 1 ELSE 1 + CHOOSE n \in {r.chunkSeq : r \in rows} : \A r \in rows : r.chunkSeq <= n

AppendJobLogSelect(c) ==
    /\ c \in calls /\ c.chunkSeq = Unread
    /\ calls' = (calls \ {c}) \cup {[c EXCEPT !.chunkSeq = NextSeq(jobLogs)]}
    /\ UNCHANGED <<jobLogs, sent, answered, gaveUp, view>>

(* The INSERT, and the answer if the runner still waits for this call.      *)
AppendJobLogInsert(c) ==
    /\ c \in calls /\ c.chunkSeq # Unread
    /\ calls' = calls \ {c} /\ jobLogs' = jobLogs \cup {c}
    /\ answered' = (answered \/ c.chunk = sent)
    /\ UNCHANGED <<sent, gaveUp, view>>

AppendJobLogFails(c) ==
    /\ c \in calls /\ calls' = calls \ {c}
    /\ answered' = (answered \/ c.chunk = sent)
    /\ UNCHANGED <<jobLogs, sent, gaveUp, view>>

GetJobLogsSince(rows, after) == {r \in rows : r.chunkSeq > after}

(* The page asks again after the largest number it has been given.          *)
GetJobLogs ==
    LET new == GetJobLogsSince(jobLogs, view.after) IN
    /\ new # {}
    /\ view' = [shown |-> view.shown \cup {r.chunk : r \in new}, after |-> NextSeq(new) - 1]
    /\ UNCHANGED <<jobLogs, calls, sent, answered, gaveUp>>

LogNext ==
    \/ appendLogs \/ GiveUp \/ GetJobLogs
    \/ \E c \in calls : AppendJobLogSelect(c) \/ AppendJobLogInsert(c) \/ AppendJobLogFails(c)

LogSpec == LogInit /\ [][LogNext]_logVars

-----------------------------------------------------------------------------
(* Unless a call was given up while it ran, a page that follows the log has *)
(* every chunk stored so far up to the last number it knows, and the        *)
(* numbers order the chunks as they were sent, whatever calls failed and    *)
(* whenever the page asked. With two calls in flight both can fail:         *)
(* AppendJobLog does not lock (db/ci.go:937-960, api/ci.go:642-660).        *)
FollowersMissNothing ==
    gaveUp \/
    /\ \A r \in jobLogs : r.chunkSeq <= view.after => r.chunk \in view.shown
    /\ \A a, b \in jobLogs : a.chunk < b.chunk => a.chunkSeq < b.chunkSeq
=============================================================================
