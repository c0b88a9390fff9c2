----------------------------- MODULE ScriptCalls -----------------------------
(***************************************************************************)
(* How a process gets Redis to run a script (src/redis_scripts.cc): it     *)
(* loads all scripts when it starts and calls them by their hash.  Redis   *)
(* may have forgotten them by then, as after a restart or SCRIPT FLUSH;    *)
(* Eval loads the script again and repeats the call, once.  Requests and   *)
(* replies are lost with the connection.                                   *)
(*                                                                         *)
(* The transaction of RedisBroker::Enqueue is a call too, of something     *)
(* that Redis cannot forget.  What scripts do is in RedisBroker.           *)
(***************************************************************************)
EXTENDS Integers

CONSTANTS
    Processes,  \* workers and commands of the CLI
    NumScripts, \* ScriptId::kCount
    MaxFlushes, \* bound on the times Redis forgets the scripts
    MaxErrors   \* bound on the connection errors

ASSUME CallsAssumption ==
    NumScripts \in Nat \ {0} /\ MaxFlushes \in Nat /\ MaxErrors \in Nat

Scripts == 1..NumScripts
Exec == 0

VARIABLES
    cache,    \* the scripts that Redis knows
    pc,       \* per process: where it is
    script,   \* per process: what it loads or calls
    runs,     \* history, per process: executions for its latest call
    broken,   \* history: processes whose connection has failed
    forgot,   \* history: processes whose latest call had just reloaded its
              \* script when Redis forgot it
    flushes,  \* history: how often Redis has forgotten the scripts
    errors    \* history: how many connection errors there were

vars == <<cache, pc, script, runs, broken, forgot, flushes, errors>>

\* "ping", "load": starting; "idle": between calls; "evalsha", "reload",
\* "again": the commands of Eval; "reply": Redis has run the script.
Waiting == {"ping", "load", "evalsha", "reload", "again", "reply"}

Init ==
    /\ cache = {}
    /\ pc = [p \in Processes |-> "ping"]
    /\ script = [p \in Processes |-> 1]
    /\ runs = [p \in Processes |-> 0]
    /\ broken = {} /\ forgot = {}
    /\ flushes = 0 /\ errors = 0

Goto(p, from, to) == pc[p] = from /\ pc' = [pc EXCEPT ![p] = to]

-----------------------------------------------------------------------------
(* A process starts.                                                       *)

\* EnsureRedis, which an unreachable Redis makes end the process.
Ping(p) ==
    /\ Goto(p, "ping", "load")
    /\ UNCHANGED <<cache, script, runs, broken, forgot, flushes, errors>>

\* LoadScripts: one SCRIPT LOAD of its loop.
LoadScripts(p) ==
    /\ Goto(p, "load", IF script[p] = NumScripts THEN "idle" ELSE "load")
    /\ cache' = cache \cup {script[p]}
    /\ script' = [script EXCEPT ![p] = IF @ = NumScripts THEN @ ELSE @ + 1]
    /\ UNCHANGED <<runs, broken, forgot, flushes, errors>>

-----------------------------------------------------------------------------
(* A call.                                                                 *)

Eval(p, s) ==
    /\ Goto(p, "idle", "evalsha")
    /\ script' = [script EXCEPT ![p] = s]
    /\ runs' = [runs EXCEPT ![p] = 0]
    /\ forgot' = forgot \ {p}
    /\ UNCHANGED <<cache, broken, flushes, errors>>

Known(p) == script[p] \in cache \cup {Exec}

\* Redis runs the script, or the transaction.
Run(p) ==
    /\ Known(p)
    /\ Goto(p, "evalsha", "reply") \/ Goto(p, "again", "reply")
    /\ runs' = [runs EXCEPT ![p] = @ + 1]
    /\ UNCHANGED <<cache, script, broken, forgot, flushes, errors>>

Return(p) ==
    /\ Goto(p, "reply", "idle")
    /\ UNCHANGED <<cache, script, runs, broken, forgot, flushes, errors>>

\* Bug: every error is taken for NOSCRIPT.
IsNoScriptErrorAny(error) == TRUE

IsNoScriptError(error) == error = "NOSCRIPT"

\* Where an error leads.  Only the first EVALSHA is in a try block (Ping, which
\* is in one of its own, ends the process too).
AfterError(p, error) ==
    IF pc[p] \in {"evalsha", "reply"} /\ IsNoScriptError(error) THEN "reload"
    ELSE "threw"

NoScript(p) ==
    /\ ~Known(p)
    /\ pc[p] \in {"evalsha", "again"}
    /\ pc' = [pc EXCEPT ![p] = AfterError(p, "NOSCRIPT")]
    /\ UNCHANGED <<cache, script, runs, broken, forgot, flushes, errors>>

\* Bug: the array of sources is off by one.
LoadScriptNext(p) ==
    /\ Goto(p, "reload", "again")
    /\ cache' = cache \cup {(script[p] % NumScripts) + 1}
    /\ UNCHANGED <<script, runs, broken, forgot, flushes, errors>>

LoadScript(p) ==
    /\ Goto(p, "reload", "again")
    /\ cache' = cache \cup {script[p]}
    /\ UNCHANGED <<script, runs, broken, forgot, flushes, errors>>

\* The connection fails before Redis has got the command or before its reply
\* has arrived.
ConnectionError(p) ==
    /\ errors < MaxErrors
    /\ pc[p] \in Waiting
    /\ pc' = [pc EXCEPT ![p] = AfterError(p, "connection")]
    /\ \/ UNCHANGED cache
       \/ pc[p] \in {"load", "reload"} /\ cache' = cache \cup {script[p]}
    /\ broken' = broken \cup {p}
    /\ errors' = errors + 1
    /\ UNCHANGED <<script, runs, forgot, flushes>>

\* The exception, or exit(1), has ended the process; another is started.
NewProcess(p) ==
    /\ Goto(p, "threw", "ping")
    /\ script' = [script EXCEPT ![p] = 1]
    /\ broken' = broken \ {p} /\ forgot' = forgot \ {p}
    /\ UNCHANGED <<cache, runs, flushes, errors>>

\* Redis restarts, or is told SCRIPT FLUSH.
Flush ==
    /\ flushes < MaxFlushes
    /\ flushes' = flushes + 1
    /\ cache' = {}
    /\ forgot' = forgot \cup {p \in Processes : pc[p] = "again"}
    /\ UNCHANGED <<pc, script, runs, broken, errors>>

Next ==
    \/ \E p \in Processes :
          \/ Ping(p) \/ LoadScripts(p) \/ Run(p) \/ Return(p) \/ NoScript(p)
          \/ LoadScript(p) \/ ConnectionError(p) \/ NewProcess(p)
          \/ \E s \in Scripts \cup {Exec} : Eval(p, s)
    \/ Flush

Spec == Init /\ [][Next]_vars

-----------------------------------------------------------------------------
(* Properties.                                                             *)

CallState(p) ==
    CASE pc[p] \in {"evalsha", "reload", "again"} -> "called"
      [] pc[p] = "reply" -> "executed"
      [] OTHER -> "idle"

Call == INSTANCE AtomicCall WITH state <- [p \in Processes |-> CallState(p)]

\* Reload, repetition and lost replies do not show: Redis runs a script at most
\* once for each call of Eval, exactly once for a call that returns, and the
\* same holds for the transaction of Enqueue.  An outcome is not reported, and
\* a task not enqueued, twice by one call.
ImplementsAtomicCall == Call!Spec

\* That Redis has forgotten the scripts is no error for the caller: a process
\* ends by an exception only if its connection failed, or Redis forgot them
\* again in the moment between the reload and the second EVALSHA.
NoScriptIsHandled ==
    \A p \in Processes : pc[p] = "threw" => p \in broken \cup forgot

=============================================================================
