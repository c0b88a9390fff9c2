-------------------------- MODULE ScriptCallsProofs --------------------------
(***************************************************************************)
(* Proofs about ScriptCalls, for any number of processes and scripts, and  *)
(* however often Redis forgets the scripts or a connection fails.          *)
(***************************************************************************)
EXTENDS ScriptCalls, TLAPS

\* The leaves are for Zenon unless they name another prover.
USE ZenonT(60)

CallsTypeOK ==
    /\ pc \in [Processes -> Waiting \cup {"idle", "threw"}]
    /\ script \in [Processes -> Scripts \cup {Exec}]
    /\ runs \in [Processes -> Nat]

\* What makes NoScriptIsHandled inductive: Redis knows a script that has just
\* been loaded again, or has forgotten it since.
ReloadedIsKnown ==
    \A p \in Processes : pc[p] = "again" => Known(p) \/ p \in forgot

CallsInv == CallsTypeOK /\ ReloadedIsKnown /\ NoScriptIsHandled

\* The states that the invariant and the abstraction tell apart.
USE DEF Waiting

-----------------------------------------------------------------------------
(* The invariant.                                                          *)

\* Processes that start with nothing loaded satisfy the invariant.
LEMMA InitCallsInv == Init => CallsInv
  BY CallsAssumption, SMTT(60)
     DEF Init, CallsInv, CallsTypeOK, ReloadedIsKnown, NoScriptIsHandled,
         Scripts

\* Every step of the start, of a call, of Redis and of the connection keeps the
\* types.
LEMMA TypeStep ==
    ASSUME CallsTypeOK, [Next]_vars
    PROVE  CallsTypeOK'
  <1> USE DEF CallsTypeOK, Scripts, Exec, Goto
  <1>1. ASSUME NEW p \in Processes,
               Ping(p) \/ LoadScripts(p) \/ Return(p) \/ LoadScript(p) \/ NewProcess(p)
        PROVE  CallsTypeOK'
    BY <1>1, CallsAssumption, SMTT(60)
       DEF Ping, LoadScripts, Return, LoadScript, NewProcess
  <1>2. ASSUME NEW p \in Processes, Run(p)
        PROVE  CallsTypeOK'
    BY <1>2, SMTT(60) DEF Run
  <1>3. ASSUME NEW p \in Processes, NoScript(p) \/ ConnectionError(p)
        PROVE  CallsTypeOK'
    BY <1>3 DEF NoScript, ConnectionError, AfterError
  <1>4. ASSUME NEW p \in Processes, NEW s \in Scripts \cup {Exec}, Eval(p, s)
        PROVE  CallsTypeOK'
    BY <1>4 DEF Eval
  <1>5. CASE Flush
    BY <1>5 DEF Flush
  <1>6. CASE UNCHANGED vars
    BY <1>6 DEF vars
  <1> QED BY <1>1, <1>2, <1>3, <1>4, <1>5, <1>6 DEF Next

\* Only Redis itself takes a script out of its cache, and whoever was about to
\* call it is then in forgot until its next call.
LEMMA ReloadedStep ==
    ASSUME CallsTypeOK, ReloadedIsKnown, [Next]_vars
    PROVE  ReloadedIsKnown'
  <1> USE DEF CallsTypeOK, ReloadedIsKnown, Known, Goto
  <1>1. ASSUME NEW p \in Processes,
               Ping(p) \/ LoadScripts(p) \/ Return(p) \/ LoadScript(p) \/ NewProcess(p)
        PROVE  ReloadedIsKnown'
    BY <1>1 DEF Ping, LoadScripts, Return, LoadScript, NewProcess
  <1>2. ASSUME NEW p \in Processes, Run(p)
        PROVE  ReloadedIsKnown'
    BY <1>2 DEF Run
  <1>3. ASSUME NEW p \in Processes, NoScript(p) \/ ConnectionError(p)
        PROVE  ReloadedIsKnown'
    BY <1>3 DEF NoScript, ConnectionError, AfterError
  <1>4. ASSUME NEW p \in Processes, NEW s \in Scripts \cup {Exec}, Eval(p, s)
        PROVE  ReloadedIsKnown'
    BY <1>4 DEF Eval
  <1>5. CASE Flush
    BY <1>5 DEF Flush
  <1>6. CASE UNCHANGED vars
    BY <1>6 DEF vars
  <1> QED BY <1>1, <1>2, <1>3, <1>4, <1>5, <1>6 DEF Next

\* A process throws only when its connection fails or its reloaded script is
\* not known.
LEMMA HandledStep ==
    ASSUME CallsInv, [Next]_vars
    PROVE  NoScriptIsHandled'
  <1> USE DEF CallsInv, CallsTypeOK, NoScriptIsHandled, Goto
  <1>1. ASSUME NEW p \in Processes,
               Ping(p) \/ LoadScripts(p) \/ Return(p) \/ LoadScript(p) \/ NewProcess(p)
        PROVE  NoScriptIsHandled'
    BY <1>1 DEF Ping, LoadScripts, Return, LoadScript, NewProcess
  <1>2. ASSUME NEW p \in Processes, Run(p)
        PROVE  NoScriptIsHandled'
    BY <1>2 DEF Run
  <1>3. ASSUME NEW p \in Processes, NoScript(p)
        PROVE  NoScriptIsHandled'
    <2>1. CASE pc[p] = "evalsha"
      BY <1>3, <2>1 DEF NoScript, AfterError, IsNoScriptError
    <2>2. CASE pc[p] = "again"
      <3>1. p \in forgot
        BY <1>3, <2>2 DEF NoScript, ReloadedIsKnown
      <3> QED BY <1>3, <2>2, <3>1 DEF NoScript, AfterError
    <2> QED BY <1>3, <2>1, <2>2 DEF NoScript
  <1>4. ASSUME NEW p \in Processes, ConnectionError(p)
        PROVE  NoScriptIsHandled'
    BY <1>4 DEF ConnectionError, AfterError
  <1>5. ASSUME NEW p \in Processes, NEW s \in Scripts \cup {Exec}, Eval(p, s)
        PROVE  NoScriptIsHandled'
    BY <1>5 DEF Eval
  <1>6. CASE Flush
    BY <1>6 DEF Flush
  <1>7. CASE UNCHANGED vars
    BY <1>7 DEF vars
  <1> QED BY <1>1, <1>2, <1>3, <1>4, <1>5, <1>6, <1>7 DEF Next

\* The invariant holds in every reachable state.
LEMMA CallsInvariant == Spec => []CallsInv
  <1>1. CallsInv /\ [Next]_vars => CallsInv'
    BY TypeStep, ReloadedStep, HandledStep DEF CallsInv
  <1> QED BY <1>1, InitCallsInv, PTL DEF Spec

\* Eval's reload makes a forgotten script no error of the caller: a process ends
\* by an exception only if its connection failed, or Redis forgot the script
\* again between SCRIPT LOAD and the second EVALSHA.
THEOREM ForgottenScriptsAreHandled == Spec => []NoScriptIsHandled
  <1>1. CallsInv => NoScriptIsHandled
    BY DEF CallsInv
  <1> QED BY <1>1, CallsInvariant, PTL

-----------------------------------------------------------------------------
(* The calls are atomic.                                                   *)

\* Every step of a process is a step of its atomic call, or changes nothing
\* there: loading and reloading do not show.
LEMMA AtomicStep ==
    ASSUME CallsTypeOK, [Next]_vars
    PROVE  [Call!Next]_<<[p \in Processes |-> CallState(p)], runs>>
  <1> DEFINE state == [p \in Processes |-> CallState(p)]
  <1> USE DEF Goto
  <1>1. ASSUME NEW p \in Processes,
               Ping(p) \/ LoadScripts(p) \/ LoadScript(p) \/ NewProcess(p)
        PROVE  UNCHANGED <<state, runs>>
    <2>1. \A q \in Processes : CallState(q)' = CallState(q)
      BY <1>1
         DEF CallsTypeOK, CallState, Ping, LoadScripts, LoadScript, NewProcess
    <2> QED BY <1>1, <2>1 DEF Ping, LoadScripts, LoadScript, NewProcess
  <1>2. ASSUME NEW p \in Processes, Run(p)
        PROVE  Call!Execute(p)
    <2>1. CallState(p) = "called" /\ pc' = [pc EXCEPT ![p] = "reply"]
      BY <1>2 DEF Run, CallState
    <2>2. state' = [state EXCEPT ![p] = "executed"]
      BY <2>1 DEF CallsTypeOK, CallState
    <2> QED BY <1>2, <2>1, <2>2 DEF Call!Execute, Call!Move, Run
  <1>3. ASSUME NEW p \in Processes, Return(p)
        PROVE  Call!Return(p)
    <2>1. CallState(p) = "executed" /\ pc' = [pc EXCEPT ![p] = "idle"]
      BY <1>3 DEF Return, CallState
    <2>2. state' = [state EXCEPT ![p] = "idle"]
      BY <2>1 DEF CallsTypeOK, CallState
    <2> QED BY <1>3, <2>1, <2>2 DEF Call!Return, Call!Move, Return
  <1>4. ASSUME NEW p \in Processes, NoScript(p) \/ ConnectionError(p)
        PROVE  Call!Throw(p) \/ UNCHANGED <<state, runs>>
    <2>1. UNCHANGED runs
      BY <1>4 DEF NoScript, ConnectionError
    <2>2. CASE pc' = [pc EXCEPT ![p] = "threw"]
      <3>1. state' = [state EXCEPT ![p] = "idle"]
        BY <2>2 DEF CallsTypeOK, CallState
      <3>2. CASE CallState(p) \in {"called", "executed"}
        BY <2>1, <3>1, <3>2 DEF Call!Throw, Call!Move
      <3>3. CASE CallState(p) = "idle"
        BY <2>1, <3>1, <3>3
      <3> QED BY <3>2, <3>3 DEF CallState
    <2>3. CASE pc[p] = "evalsha" /\ pc' = [pc EXCEPT ![p] = "reload"]
      <3>1. CallState(p) = "called" /\ state' = [state EXCEPT ![p] = "called"]
        BY <2>3 DEF CallsTypeOK, CallState
      <3> QED BY <2>1, <3>1
    <2> QED BY <1>4, <2>2, <2>3
               DEF NoScript, ConnectionError, AfterError, IsNoScriptError
  <1>5. ASSUME NEW p \in Processes, NEW s \in Scripts \cup {Exec}, Eval(p, s)
        PROVE  Call!Call(p)
    <2>1. CallState(p) = "idle" /\ pc' = [pc EXCEPT ![p] = "evalsha"]
      BY <1>5 DEF Eval, CallState
    <2>2. state' = [state EXCEPT ![p] = "called"]
      BY <2>1 DEF CallsTypeOK, CallState
    <2> QED BY <1>5, <2>1, <2>2 DEF Call!Call, Call!Move, Eval
  <1>6. CASE Flush \/ UNCHANGED vars
    <2>1. UNCHANGED <<pc, runs>>
      BY <1>6 DEF Flush, vars
    <2> QED BY <2>1 DEF CallState
  <1> QED BY <1>1, <1>2, <1>3, <1>4, <1>5, <1>6 DEF Next, Call!Next

\* Redis runs a script, or the transaction of an enqueue, at most once for each
\* call, and exactly once for a call that returns, although Eval repeats calls
\* and replies are lost.
THEOREM CallsAreAtomic == Spec => ImplementsAtomicCall
  <1>1. Init => Call!Init
    BY DEF Init, Call!Init, CallState
  <1>2. CallsInv /\ [Next]_vars =>
            [Call!Next]_<<[p \in Processes |-> CallState(p)], runs>>
    BY AtomicStep DEF CallsInv
  <1> QED BY <1>1, <1>2, CallsInvariant, PTL
             DEF Spec, ImplementsAtomicCall, Call!Spec

=============================================================================
