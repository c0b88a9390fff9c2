----------------------------- MODULE StatusViews -----------------------------
(***************************************************************************)
(* The commands of src/cli/main.cc that look at the queue while it works:  *)
(* taskq status, taskq result, taskq failed list and taskq stats.  (The    *)
(* live gauges of taskq metrics are three of the four numbers of stats.)   *)
(*                                                                         *)
(* Each of them sends several Redis commands, one after the other and in   *)
(* no transaction, so that clients and workers move tasks between two of    *)
(* its reads.  One process of the CLI reads at a time; what it has printed  *)
(* or will print is the replies it has got.                                *)
(***************************************************************************)
EXTENDS TaskQueue, FiniteSets

CONSTANT MaxMoves  \* bound on the moves between the reads of taskq stats

ASSUME ViewsAssumption == IsFiniteSet(Tasks) /\ MaxMoves \in Nat

VARIABLES
    command,  \* the command that is reading, or "none"
    subject,  \* the task it was asked about, or Null
    replies,  \* what Redis has answered so far
    started,  \* history: the number of messages when the command began
    gained,   \* history: moves since then that can add to what it counts
    lost,     \* history: moves since then that can take from it
    cleared   \* history: tasks whose failure reason was deleted since then

history == <<started, gained, lost, cleared>>
viewVars == <<command, subject, replies, history>>

Commands == {"none", "status", "result", "failed_list", "stats"}

-----------------------------------------------------------------------------
(* GetStats: the lengths of four keys, and the order it asks for them.      *)

Lengths ==
    <<Len(pending), Cardinality(delayed),
      Cardinality({t \in Tasks : running[t] # Null}), Len(dead)>>

\* Bug: the dead list is asked for first.
ReadOrderDeadFirst == <<4, 1, 2, 3>>

ReadOrder == <<1, 2, 3, 4>>

Messages(l) == l[1] + l[2] + l[3] + l[4]

-----------------------------------------------------------------------------
(* The commands.                                                           *)

ViewInit ==
    /\ command = "none" /\ subject = Null /\ replies = <<>>
    /\ started = 0 /\ gained = 0 /\ lost = 0 /\ cleared = {}

Begin(c, t) ==
    /\ command = "none"
    /\ command' = c /\ subject' = t
    /\ started' = IF c = "stats" THEN Messages(Lengths) ELSE 0
    /\ UNCHANGED <<replies, gained, lost, cleared>>

\* The process has printed what it has, or the error that ends it.
End ==
    /\ command' = "none" /\ subject' = Null /\ replies' = <<>>
    /\ started' = 0 /\ gained' = 0 /\ lost' = 0 /\ cleared' = {}

Answer(r) ==
    /\ replies' = Append(replies, r)
    /\ UNCHANGED <<command, subject, history>>

\* HGET of the status; a task that has none is not found.
GetStatus ==
    /\ command = "status" /\ Len(replies) = 0
    /\ IF status[subject] = "none" THEN End ELSE Answer(status[subject])

\* Whether HGET finds a reason.
GetFailureReason ==
    /\ command = "status" /\ Len(replies) = 1
    /\ Answer(subject \in failures)

\* Bug: the result is looked for before the status.
BuildTaskStatusJsonResultFirst ==
    \/ /\ command = "status" /\ Len(replies) = 0
       /\ IF status[subject] = "none" THEN End ELSE Answer(results[subject])
    \/ GetFailureReason
    \/ command = "status" /\ Len(replies) = 2 /\ Answer(status[subject])

BuildTaskStatusJson ==
    \/ GetStatus
    \/ GetFailureReason
    \/ command = "status" /\ Len(replies) = 2 /\ Answer(results[subject])

\* taskq result asks whether there is a result and, for the text format, asks
\* again in order to print it.
PrintTaskResult ==
    /\ command = "result" /\ Len(replies) < 2
    /\ IF Len(replies) = 0 /\ results[subject] = "none" THEN End
       ELSE Answer(results[subject])

\* LRANGE of the dead list, newest first, without what does not parse: place i
\* of the reply is the task at place at[i] of the list.
ListDeadTasks ==
    LET parsed == {i \in 1..Len(dead) : dead[i].id \notin Unparsable} IN
    \E at \in [1..Cardinality(parsed) -> parsed] :
        /\ \A i, j \in DOMAIN at : i < j => at[i] > at[j]
        /\ Answer([i \in DOMAIN at |-> dead[at[i]].id])

\* taskq failed list: the list, then the reason of each task on it.
FailedList ==
    /\ command = "failed_list"
    /\ \/ replies = <<>> /\ ListDeadTasks
       \/ /\ replies # <<>> /\ Len(replies) <= Len(replies[1])
          /\ Answer(replies[1][Len(replies)] \in failures)

GetStats ==
    /\ command = "stats" /\ Len(replies) < 4
    /\ Answer(Lengths[ReadOrder[Len(replies) + 1]])

Complete ==
    \/ command = "status" /\ Len(replies) = 3
    \/ command = "result" /\ Len(replies) = 2
    \/ command = "failed_list" /\ replies # <<>> /\ Len(replies) = Len(replies[1]) + 1
    \/ command = "stats" /\ Len(replies) = 4

Read ==
    /\ \/ \E t \in Tasks : Begin("status", t) \/ Begin("result", t)
       \/ Begin("failed_list", Null) \/ Begin("stats", Null)
       \/ BuildTaskStatusJson
       \/ PrintTaskResult
       \/ FailedList
       \/ GetStats
       \/ Complete /\ End
    /\ UNCHANGED vars

-----------------------------------------------------------------------------
(* The queue goes on.                                                      *)

\* What a step takes a message from and moves it to: 1 is pending, 2 delayed,
\* 3 running, 4 dead.
Shrinks == {k \in 1..4 : Lengths'[k] < Lengths[k]}
Grows == {k \in 1..4 : Lengths'[k] > Lengths[k]}

\* A message that is new, is reserved or is buried can be counted once more; one
\* that ends, is promoted, retried, reclaimed or requeued can be missed.
Adds == \E k \in Grows : \A j \in Shrinks : j < k
Takes == \E j \in Shrinks : \A k \in Grows : k < j

QueueStep ==
    /\ Next
    /\ IF command = "stats"
       THEN /\ Lengths' # Lengths => gained + lost < MaxMoves
            /\ gained' = gained + (IF Adds THEN 1 ELSE 0)
            /\ lost' = lost + (IF Takes THEN 1 ELSE 0)
       ELSE UNCHANGED <<gained, lost>>
    /\ cleared' = IF command \in {"status", "failed_list"}
                  THEN cleared \cup (failures \ failures') ELSE cleared
    /\ UNCHANGED <<command, subject, replies, started>>

ViewsSpec == Init /\ ViewInit /\ [][QueueStep \/ Read]_<<vars, viewVars>>

-----------------------------------------------------------------------------
(* Properties.                                                             *)

\* What taskq status prints fits together although it was read in three steps,
\* for any order of reports: next to "succeeded" there is a result; a dead or
\* retrying task has a reason unless it was requeued or succeeded meanwhile;
\* a result, or a success with a reason next to it, is final unless a late
\* report was made.  A result that taskq result has found is there when it
\* asks again.
TaskViewFits ==
    /\ command = "status" /\ Complete =>
        LET s == replies[1]  reason == replies[2]  result == replies[3] IN
        /\ s = "succeeded" => result # "none" /\ (reason => subject \in late)
        /\ s \in {"dead", "retrying"} /\ ~reason => subject \in cleared
        /\ result # "none" /\ subject \notin late => status[subject] = "succeeded"
    /\ command = "result" /\ Complete => replies[2] # "none"

\* taskq failed list shows "unknown" for a task on the list only if the task was
\* requeued after the list was read, or a late report was made for it (a late
\* success deletes the reason and leaves the task on the list).
FailedListFits ==
    command = "failed_list" /\ Complete =>
        \A i \in 1..Len(replies[1]) :
            ~replies[i + 1] => replies[1][i] \in cleared \cup late

\* The four numbers of taskq stats add up to the messages there were when it
\* began, but for one more or less for each message that came, ended or moved
\* between its reads, and by the direction of the move: a reserve or a burial
\* never hides a task from stats, a promotion, a retry or a reclaim never
\* shows it twice.
StatsWithin ==
    command = "stats" /\ Complete =>
        /\ Messages(replies) <= started + gained
        /\ Messages(replies) >= started - lost

=============================================================================
