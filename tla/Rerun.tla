------------------------------- MODULE Rerun -------------------------------
(***************************************************************************)
(* The scheduler modes at work: a program runs twice.  In the first run it *)
(* switches the trace on at some point, perhaps with the fuzzer; in the    *)
(* second it replays that trace, or fuzzes with the same seed, from the    *)
(* same point on (pick_ready_thread_mode of src/src/sched/scheduler.c,     *)
(* src/src/trace/replay.c, src/src/trace/fuzz.c, and the trace hooks in    *)
(* thread.c, context.c and scheduler.c).  Tracing has the files.           *)
(*                                                                         *)
(* A program is a sequence of calls that depends on nothing but what it has*)
(* seen; so the second run makes the same calls (SameProgram).  With       *)
(* SameProgram = FALSE it is another program that replays the trace.       *)
(* Programs are flat: only the OS thread joins threads that are alive.     *)
(* Refused calls change nothing and are left out, as are the hooks of the  *)
(* primitives, whose events replay skips like every other that is no switch*)
(***************************************************************************)
EXTENDS Threads, Sequences

CONSTANTS
  MaxCalls,     \* bound: calls of a run
  Warmup,       \* GTH_FUZZ_WARMUP_DECISIONS
  RecordTids,   \* a record has this many different tids: 2^32
  SameProgram   \* the second run is one of the same program

ASSUME RerunAssumption ==
  /\ MaxCalls \in Nat
  /\ Warmup \in Nat
  /\ RecordTids \in Nat \ {0}
  /\ SameProgram \in BOOLEAN

\* The modes of the first and of the second run.
Pairs == {<<"NORMAL", "REPLAY">>, <<"FUZZ", "REPLAY">>, <<"FUZZ", "FUZZ">>}

VARIABLES
  pair,         \* the modes of the two runs
  run,          \* 1 or 2
  mode,         \* state->mode
  log,          \* what the hooks were called with since the mode was set
  trace,        \* run 2: the records of the trace of run 1
  current_idx,  \* replay->current_idx
  diverged,     \* replay->diverged
  dice,         \* history: what the fuzzer drew in run 1, per decision
  decision_count,
  hist,         \* history: the calls of run 1 and the state each one left
  done          \* calls of run 2 so far

modeVars == <<pair, run, mode, trace>>
replayVars == <<current_idx, diverged>>
fuzzVars == <<dice, decision_count>>
rerunVars == <<runtimeVars, modeVars, replayVars, fuzzVars, log, hist, done>>

\* A record keeps the lower bits of a tid.
Event(type, t) == [type |-> type, tid |-> t % RecordTids]
INIT == Event("INIT", 0)
SHUTDOWN == Event("SHUTDOWN", 0)

\* The hooks called in a step, in order.
Emit(es) == log' = IF log = <<>> THEN log ELSE log \o es

----------------------------------------------------------------------------
(* Whom the scheduler picks.                                               *)

\* The next context switch of the trace; events before it are consumed.
NextSwitch(i) ==
  /\ i \in current_idx + 1 .. Len(trace)
  /\ trace[i].type = "SWITCH"
  /\ \A j \in current_idx + 1 .. i - 1 : trace[j].type # "SWITCH"

\* gth_replay_find_thread; in a flat program nobody is RUNNING when it is asked.
ReplayFindThread(t) ==
  {s \in Slots : t # 0 /\ FindThread(s, t) /\ state[s] \in {"READY", "RUNNING"}}

\* Mutant: the switch is not consumed.
ReplayNextThreadKeeps(s) ==
  /\ \E i \in DOMAIN trace : /\ NextSwitch(i)
                            /\ s \in ReplayFindThread(trace[i].tid)
                            /\ current_idx' = i - 1
  /\ UNCHANGED <<diverged, last_rr_slot>>

\* Mutant: an event that is no switch counts as divergence.
ReplayNextThreadStrict(s) ==
  /\ \E i \in DOMAIN trace : /\ NextSwitch(i)
                            /\ s \in ReplayFindThread(trace[i].tid)
                            /\ current_idx' = i
                            /\ diverged' = (diverged \/ i # current_idx + 1)
  /\ UNCHANGED last_rr_slot

\* gth_replay_next_thread, when it returns a thread and when it does not.
ReplayNextThread(s) ==
  /\ \E i \in DOMAIN trace : /\ NextSwitch(i)
                            /\ s \in ReplayFindThread(trace[i].tid)
                            /\ current_idx' = i
  /\ UNCHANGED <<diverged, last_rr_slot>>

ReplayNobody ==
  \/ /\ \A i \in current_idx + 1 .. Len(trace) : trace[i].type # "SWITCH"
     /\ current_idx' = Len(trace)
     /\ UNCHANGED diverged
  \/ /\ \E i \in DOMAIN trace : /\ NextSwitch(i)
                               /\ ReplayFindThread(trace[i].tid) = {}
                               /\ current_idx' = i - 1
     /\ diverged' = TRUE

\* gth_fuzz_pick_alternative for the draw i out of 0 .. ready_count - 1: the
\* i-th READY thread without n, and n itself for the last.
PickAlternative(n, i, s) ==
  LET others == ReadySlots \ {n}
  IN  \/ s \in others /\ Cardinality({o \in others : o < s}) = i
      \/ s = n /\ i >= Cardinality(others)

\* What a decision may draw: -1 when the roll is no perturbation.  The stream is
\* a function of the seed: the same request at the same place draws the same.
Draws(d) ==
  LET ready == Cardinality(ReadySlots) IN
    IF run = 2 /\ d \in DOMAIN dice /\ dice[d].ready = ready THEN {dice[d]}
    ELSE {[ready |-> ready, roll |-> i] :
            i \in IF d <= Warmup THEN {-1} ELSE -1 .. ready - 1}

\* Mutant: a perturbation may choose any slot.
FuzzPickThreadAny(n, s) ==
  \E die \in Draws(decision_count + 1) :
    /\ s = IF die.roll = -1 THEN n ELSE die.roll
    /\ dice' = IF run = 1 THEN Append(dice, die) ELSE dice
    /\ decision_count' = decision_count + 1

\* gth_fuzz_pick_thread for the policy's choice n.
FuzzPickThread(n, s) ==
  \E die \in Draws(decision_count + 1) :
    /\ \/ die.roll = -1 /\ s = n
       \/ die.roll # -1 /\ PickAlternative(n, die.roll, s)
    /\ dice' = IF run = 1 THEN Append(dice, die) ELSE dice
    /\ decision_count' = decision_count + 1

\* gth_scheduler_pick_ready_thread_mode.  Replay does not move last_rr_slot;
\* the fuzzer leaves it at the policy's choice.
PickReadyMode(s) ==
  \/ mode = "REPLAY" /\ ReplayNextThread(s) /\ UNCHANGED fuzzVars
  \/ /\ mode = "FUZZ"
     /\ \E n \in Slots : PickReady(n) /\ FuzzPickThread(n, s)
     /\ UNCHANGED replayVars
  \/ mode = "NORMAL" /\ PickReady(s) /\ UNCHANGED <<replayVars, fuzzVars>>

NobodyPickedMode ==
  \/ mode = "REPLAY" /\ ReplayNobody /\ UNCHANGED fuzzVars
  \/ mode # "REPLAY" /\ ReadySlots = {} /\ UNCHANGED <<replayVars, fuzzVars>>

\* gth_scheduler_run_next on the OS thread, up to its swap.
RunNext(f) ==
  \E s \in Slots : /\ PickReadyMode(s)
                   /\ DispatchTo(Main, f, s)
                   /\ Emit(<<Event("SWITCH", tid[s])>>)

----------------------------------------------------------------------------
(* The calls of the program.                                               *)

\* The mode is set: gth_trace_start, with gth_scheduler_set_mode(GTH_MODE_FUZZ)
\* if so; in the second run that again, or gth_replay_from.
Begin ==
  /\ InUser(Main)
  /\ initialized
  /\ log = <<>>
  /\ log' = <<INIT>>
  /\ mode' = pair[run]
  /\ UNCHANGED <<runtimeVars, pair, run, trace, replayVars, fuzzVars>>

Yield ==
  /\ Calls(Main, "yield")
  /\ \/ RunNext(YieldFrame)
     \/ NobodyPickedMode /\ Return("ENOTFOUND") /\ Emit(<<>>)

JoinTurn(t, s) ==
  \/ RunNext(JoinFrame(t, s))
  \/ NobodyPickedMode /\ JoinReturn(Main, "EBUSY") /\ Emit(<<>>)

\* A call that runs the scheduler.
Schedules(call) ==
  /\ call.by = Main
  /\ \/ call.op = "yield" /\ Yield
     \/ /\ call.op = "join" /\ Calls(Main, "join")
        /\ \E s \in Slots : /\ FindThread(s, call.arg)
                            /\ state[s] \notin Terminal
                            /\ JoinTurn(call.arg, s)
     \/ /\ call.op = "loop" /\ cpu = Main /\ frame[Main].call = "join"
        /\ state[frame[Main].slot] \notin Terminal
        /\ JoinTurn(frame[Main].tid, frame[Main].slot)
  /\ UNCHANGED modeVars

\* A call that does not, with the hooks it calls.
Unblocked(t) == IF Woken(Found(t)) = {} THEN <<>> ELSE <<Event("UNBLOCK", t)>>

Quiet(call) ==
  /\ LET c == call.by
         t == call.arg
     IN  \/ /\ call.op = "init" /\ RuntimeInit(c)
            /\ Emit(<<>>)
         \/ /\ call.op = "create" /\ ThreadCreate(c, t)
            /\ Emit(<<Event("CREATE", next_tid)>>)
         \/ /\ call.op = "yield" /\ ThreadYield(c)
            /\ Emit(<<Event("YIELD", current_tid)>>)
         \/ /\ call.op = "exit" /\ c \in Slots /\ ThreadExit(c)
            /\ Emit(<<Event("EXIT", current_tid)>>)
         \/ /\ call.op = "join" /\ Calls(c, "join") /\ t # current_tid
            /\ \E s \in Slots : FindThread(s, t) /\ state[s] \in Terminal /\ ReleaseSlot(c, s)
            /\ Emit(<<>>)
         \/ /\ call.op = "loop" /\ JoinLoop(c) /\ state[frame[c].slot] \in Terminal
            /\ Emit(<<>>)
         \/ /\ call.op = "cancel" /\ ThreadCancel(c, t)
            /\ Emit(<<Event("CANCEL", t)>> \o Unblocked(t))
         \/ /\ call.op = "block" /\ SyncBlock(c, {})
            /\ Emit(<<Event("BLOCK", current_tid)>>)
         \/ /\ call.op = "wake" /\ Woken(Found(t)) # {}
            /\ SyncWake(c, Found(t)) /\ status' = "OK"
            /\ Emit(Unblocked(t))
  /\ UNCHANGED <<modeVars, replayVars, fuzzVars>>

Targeted == {"join", "cancel", "wake"}
CallSet ==
  [op : {"init", "begin"}, by : {Main}, arg : {0}]
  \cup [op : {"yield", "exit", "loop", "block"}, by : Contexts, arg : {0}]
  \cup [op : {"create"}, by : Contexts, arg : Priorities]
  \cup [op : Targeted, by : Contexts, arg : Tids \ {0}]

\* What a run shows of itself: everything but where round robin stands.
View == <<initialized, next_tid, table, counters, control, status>>

Makes(call) ==
  /\ IF run = 1 THEN Len(hist) < MaxCalls
     ELSE /\ done < Len(hist)
          /\ SameProgram => call = hist[done + 1].call
  /\ \/ Schedules(call)
     \/ Quiet(call)
     \/ call.op = "begin" /\ Begin
  /\ hist' = IF run = 1
             THEN Append(hist, [call |-> call, view |-> View', rr |-> last_rr_slot',
                                logged |-> Len(log'), decisions |-> decision_count'])
             ELSE hist
  /\ done' = IF run = 1 THEN done ELSE done + 1

\* The first run ends with gth_trace_stop and gth_runtime_shutdown.
Restart ==
  /\ run = 1
  /\ log # <<>>
  /\ RuntimeShutdown(Main)
  /\ run' = 2
  /\ mode' = "NORMAL"
  /\ trace' = Append(log, SHUTDOWN)
  /\ log' = <<>>
  /\ decision_count' = 0
  /\ UNCHANGED <<pair, replayVars, dice, hist, done>>

\* The second run is over, or the bound is reached before the first is.
Stop == /\ IF run = 2 THEN done = Len(hist) ELSE Len(hist) = MaxCalls
        /\ UNCHANGED rerunVars

RerunInit ==
  /\ Init
  /\ pair \in Pairs
  /\ run = 1
  /\ mode = "NORMAL"
  /\ log = <<>>
  /\ trace = <<>>
  /\ current_idx = 0
  /\ diverged = FALSE
  /\ dice = <<>>
  /\ decision_count = 0
  /\ hist = <<>>
  /\ done = 0

RerunNext == (\E call \in CallSet : Makes(call)) \/ Restart \/ Stop
RerunSpec == RerunInit /\ [][RerunNext]_rerunVars

----------------------------------------------------------------------------
(* Properties.                                                             *)

\* The second run goes through the states of the first, call by call: replay
\* takes every decision from the trace alone, the fuzzer draws the same again,
\* wherever in the program the mode was set and whatever the other events in
\* between (gth_replay_next_thread, gth_fuzz_pick_thread).
SameRun == run = 2 /\ done > 0 => View = hist[done].view

\* A run that repeats the recorded one is not marked as diverged, unless the OS
\* thread ran the scheduler with nobody READY: the trace has no event for that,
\* and gth_replay_next_thread takes the next switch for the one it looks for.
IdleSchedule == \E i \in DOMAIN hist : hist[i].view[6] \in {"ENOTFOUND", "EBUSY"}
NoFalseDivergence == diverged => IdleSchedule

\* In every mode the runtime makes only steps that Threads admits with the
\* choice left open: a READY thread, or nobody.  What is proved of Threads for
\* every policy holds of recorded, replayed and fuzzed runs.
OpenChoice == INSTANCE Threads WITH Policy <- "ANY"
ImplementsThreads == OpenChoice!Spec

\* Unless it is marked as diverged, what replay has consumed of the trace is
\* what the run did.
DivergenceDetected ==
  run = 2 /\ mode = "REPLAY" /\ ~diverged =>
    \A i \in 1 .. current_idx : i \in DOMAIN log => log[i] = trace[i]
=============================================================================
