---------------------------- MODULE MemoryQueries ----------------------------
(***************************************************************************)
(* Reading the database back: the message table with its updates and the   *)
(* `crow memory tail` command, and `crow memory evidence`, which lists the *)
(* evidence table while a running hub goes on writing it                   *)
(* (ch-memory backends/sqlite.rs, ch-tui main.rs run_memory_tail and       *)
(* run_memory_evidence).                                                   *)
(*                                                                         *)
(* Times are kept in whole seconds and no query says how rows of one       *)
(* second are ordered: the database may return them in any order.          *)
(* The listing of every status is three queries, one after the other.      *)
(***************************************************************************)
EXTENDS Naturals, Sequences, FiniteSets, Selections

CONSTANTS MessageId, EvidenceId, TaskId,
          MaxSeconds,   \* bound on the clock
          TailCounts,   \* the --count values of `crow memory tail`
          Counts        \* the --count values of `crow memory evidence`

ASSUME QueriesAssumption == MaxSeconds \in Nat /\ TailCounts \subseteq Nat /\ Counts \subseteq Nat

VARIABLES
    now,        \* the clock, in seconds
    messages,   \* the table: rows [id, chan, at, text]
    tail,       \* what the last `crow memory tail` printed, and the table it read
    evidence,   \* the table: rows [id, task, at, status]
    list        \* the listing under way: its filter, the rows it has, and (history)
                \* the table as it was when it began and whether a verdict came since

mqvars == <<now, messages, tail, evidence, list>>

Chans == {"general", "other"}
Verdicts == {"verified", "failed"}
Statuses == {"pending"} \cup Verdicts

\* ORDER BY created_at LIMIT n: the first n rows by time, rows of one second in any order.
Lowest(a, b, desc) == IF desc THEN a.at >= b.at ELSE a.at <= b.at
Ordered(rows, n, desc) ==
    LET k == IF Cardinality(rows) < n THEN Cardinality(rows) ELSE n IN
    {s \in [1..k -> rows] :
        /\ \A i, j \in 1..k : i < j => s[i] # s[j] /\ Lowest(s[i], s[j], desc)
        /\ \A r \in rows : (\A i \in 1..k : s[i] # r) => \A i \in 1..k : Lowest(s[i], r, desc)}

Backwards(s) == [i \in DOMAIN s |-> s[Len(s) + 1 - i]]
Take(s, n) == SubSeq(s, 1, IF Len(s) < n THEN Len(s) ELSE n)

\* sort_by_key is stable.
SortedByTime(s) ==
    [k \in DOMAIN s |->
        s[CHOOSE i \in DOMAIN s :
            Cardinality({j \in DOMAIN s : s[j].at < s[i].at \/ (s[j].at = s[i].at /\ j <= i)}) = k]]

NoList == [step |-> "idle", task |-> "", status |-> "", count |-> 0, rows |-> <<>>,
           table |-> {}, calm |-> TRUE]

MqInit ==
    /\ now = 0
    /\ messages = {} /\ tail = [chan |-> "general", rows |-> <<>>, table |-> {}, count |-> 0]
    /\ evidence = {} /\ list = NoList

Second == now < MaxSeconds /\ now' = now + 1 /\ UNCHANGED <<messages, tail, evidence, list>>

----------------------------------------------------------------------------
(* The message table. *)

\* write: INSERT OR REPLACE, so a message written again replaces its row.
WriteMessage(id, chan) ==
    /\ messages' = {r \in messages : r.id # id}
                   \cup {[id |-> id, chan |-> chan, at |-> now, text |-> "first"]}
    /\ UNCHANGED <<now, tail, evidence, list>>

\* update and delete touch nothing when there is no such row (NotFound).
Rewritten(r, id) == IF r.id = id THEN [r EXCEPT !.text = "second"] ELSE r

UpdateMessage(id) ==
    /\ messages' = {Rewritten(r, id) : r \in messages}
    /\ UNCHANGED <<now, tail, evidence, list>>

DeleteMessage(id) ==
    /\ messages' = {r \in messages : r.id # id}
    /\ UNCHANGED <<now, tail, evidence, list>>

ClearMessages == messages' = {} /\ UNCHANGED <<now, tail, evidence, list>>

\* recent: newest first.  get_session_context is the same query.
Recent(chan, n) == Ordered({r \in messages : r.chan = chan}, n, TRUE)

\* crow memory tail: the newest n of a channel, printed the other way round.
PrintTail(chan, n) ==
    /\ \E s \in Recent(chan, n) :
          tail' = [chan |-> chan, rows |-> Backwards(s), table |-> messages, count |-> n]
    /\ UNCHANGED <<now, messages, evidence, list>>

MessageStep == \/ Second \/ ClearMessages
               \/ \E id \in MessageId : \/ \E c \in Chans : WriteMessage(id, c)
                                        \/ UpdateMessage(id) \/ DeleteMessage(id)
               \/ \E c \in Chans, n \in TailCounts : PrintTail(c, n)

----------------------------------------------------------------------------
(* The evidence table, written by the hub's writer. *)

Submit(id, task) ==
    /\ \A r \in evidence : r.id # id
    /\ evidence' = evidence \cup {[id |-> id, task |-> task, at |-> now, status |-> "pending"]}
    /\ UNCHANGED <<now, messages, tail, list>>

\* verify and fail change a row whatever its status.
Judged(r, id, status) == IF r.id = id THEN [r EXCEPT !.status = status] ELSE r

Judge(id, status) ==
    /\ \E r \in evidence : r.id = id /\ r.status # status
    /\ evidence' = {Judged(r, id, status) : r \in evidence}
    /\ list' = [list EXCEPT !.calm = @ /\ list.step = "idle"]
    /\ UNCHANGED <<now, messages, tail>>

ByTask(task) == Ordered({r \in evidence : r.task = task}, Cardinality(evidence), FALSE)
ByStatus(status, n) == Ordered({r \in evidence : r.status = status}, n, FALSE)

\* crow memory evidence.  With a task, one query and a filter in memory; with
\* one status, one query; otherwise the three queries follow.  Without a
\* --status, a task is listed whole and no task lists what is pending.
Matching(s, status) == Selected(s, {i \in DOMAIN s : status \in {"all", s[i].status}})

List(task, status, n) ==
    /\ list.step = "idle"
    /\ LET asked == [NoList EXCEPT !.task = task, !.status = status, !.count = n,
                                   !.table = evidence, !.step = "shown"] IN
       IF task # ""
       THEN \E s \in ByTask(task) : list' = [asked EXCEPT !.rows = Take(Matching(s, status), n)]
       ELSE IF status # "all"
       THEN \E s \in ByStatus(status, n) : list' = [asked EXCEPT !.rows = s]
       ELSE \E s \in ByStatus("pending", n) :
               list' = [asked EXCEPT !.rows = s, !.step = "verified"]
    /\ UNCHANGED <<now, messages, tail, evidence>>

\* Mutant: the rows are cut to the count before they are sorted.
CutFirst(s, n) == SortedByTime(Take(s, n))

\* The union, oldest first, cut to the count.
Union(s, n) == Take(SortedByTime(s), n)

\* The second and the third query.
ListVerified ==
    /\ list.step = "verified"
    /\ \E s \in ByStatus("verified", list.count) :
          list' = [list EXCEPT !.rows = @ \o s, !.step = "failed"]
    /\ UNCHANGED <<now, messages, tail, evidence>>

ListFailed ==
    /\ list.step = "failed"
    /\ \E s \in ByStatus("failed", list.count) :
          list' = [list EXCEPT !.rows = Union(@ \o s, list.count), !.step = "shown"]
    /\ UNCHANGED <<now, messages, tail, evidence>>

\* Bound of the model: one listing, and the table is left alone once it is shown.
EvidenceStep ==
    /\ list.step # "shown"
    /\ \/ Second \/ ListVerified \/ ListFailed
       \/ \E id \in EvidenceId : \/ \E t \in TaskId : Submit(id, t)
                                 \/ \E v \in Verdicts : Judge(id, v)
       \/ \E t \in TaskId \cup {""}, s \in Statuses \cup {"all"}, n \in Counts : List(t, s, n)

MqNext == MessageStep \/ EvidenceStep
MqSpec == MqInit /\ [][MqNext]_mqvars

----------------------------------------------------------------------------
QueriesTypeOK ==
    /\ now \in 0..MaxSeconds
    /\ \A r \in messages : r.id \in MessageId /\ r.chan \in Chans /\ r.at \in 0..now
    /\ \A r \in evidence : r.id \in EvidenceId /\ r.status \in Statuses /\ r.at \in 0..now

\* What the commands print is what they say.  A listing of evidence shows the
\* oldest rows that match, oldest first, each once, and as many as asked for:
\* the union of three partial queries loses none of them, provided no verdict
\* moved a row from one query to another while they ran (a row judged between
\* the queries may be shown twice, or not at all).  The tail is the newest
\* messages of its channel, in the order of their seconds.
Wanted == {r \in list.table : /\ list.task \in {"", r.task}
                              /\ list.status \in {"all", r.status}}
ListingsInOrder ==
    /\ list.step = "shown" /\ list.calm => list.rows \in Ordered(Wanted, list.count, FALSE)
    /\ Backwards(tail.rows) \in Ordered({r \in tail.table : r.chan = tail.chan}, tail.count, TRUE)
=============================================================================
