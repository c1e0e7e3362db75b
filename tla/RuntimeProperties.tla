-------------------------- MODULE RuntimeProperties --------------------------
(***************************************************************************)
(* What the runtime's runs ask and what RuntimeProofs proves.              *)
(***************************************************************************)
EXTENDS Runtime

Ran(p) == Visited(state, p)

\* Phase p ran, and before q.
RanBefore(p, q) ==
  \E i, j \in 1 .. Len(state.phases_visited) :
    /\ i < j
    /\ state.phases_visited[i] = p
    /\ state.phases_visited[j] = q

InCycle == pc \in {"decide", "execute", "forced", "sync", "checkpoint", "ended"}

-----------------------------------------------------------------------------
(* The shape of a cycle, whatever fails. *)

\* No phase runs twice in one cycle: phases_visited is the loop's only memory
\* of what it did, and thirteen rules, the fallback and the forced night all
\* have to consult it.  (ImplementsDay asks it of the runs, and RuntimeProofs shows
\* it for every brain; the other modules rely on it by this name.)
NoPhaseTwice ==
  \A i, j \in 1 .. Len(state.phases_visited) :
    state.phases_visited[i] = state.phases_visited[j] => i = j

\* A cycle leaves its for loop through DEEP_SLEEP, never by running out of the
\* MAX_PHASES_PER_CYCLE turns, and so always reaches the night that restores it.
DayClosesAsleep ==
  pc = "ended" =>
    /\ Len(state.phases_visited) > 0
    /\ state.phases_visited[Len(state.phases_visited)] = "DEEP_SLEEP"

\* The floors are not decorative: perception, creation, judgement and the two
\* corrective phases are entered only while the gauge they draw on is at or
\* above its floor, whichever rule or fallback picked them and however little
\* the crashes before left.
Floored == {"OBSERVATION", "HUNT", "CREATION", "REFLECTION", "SECOND_WIND", "EXPLORATION"}

FloorsRespected ==
  [][ /\ pc = "decide" /\ pc' = "execute"
      /\ state'.phase \in Floored
      => state.energy[PhaseGauge[state'.phase]] >= FloorOf[PhaseGauge[state'.phase]]
    ]_vars

\* The clock's cycle number and the checkpoint's counter, two files written one
\* after the other, never drift apart by more than one cycle per kill or
\* uncaught exception, in memory or on disk, and the counter is never ahead.
\* ("creative-brain stop" resets both files under a running process.)
CountersAgree ==
  stops = 0 =>
    /\ pc # "off" =>
         /\ cycles_completed <= state.cycle_number
         /\ state.cycle_number <= cycles_completed + faults + (IF InCycle THEN 1 ELSE 0)
    /\ saved_completed <= saved_state.cycle_number
    /\ saved_state.cycle_number
         <= saved_completed + faults
              + (IF InCycle \/ pc = "last_checkpoint" THEN 1 ELSE 0)

\* A cycle the checkpoint counts stays counted through every kill and restart;
\* only the stop command's own write can take it away.
CompletedWorkSurvives ==
  [][stops' = stops => saved_completed' >= saved_completed]_vars

\* The runtime implements the abstract creative day, across restarts.
Day == INSTANCE CreativeDay
         WITH day <- state.phases_visited, kept <- saved_state.phases_visited

ImplementsDay == Day!Spec

\* A bounded run always gets to its end: every cycle closes and the process
\* shuts down, whatever fails inside.
ProcessEnds == (pc # "off") ~> (pc = "off")

-----------------------------------------------------------------------------
(* The inductive invariant behind the shape of a cycle. *)

LastPhase(s) == s.phases_visited[Len(s.phases_visited)]

\* A day as it can be in memory or on disk: no repetition, the current phase is
\* the last one entered, and nothing follows DEEP_SLEEP.
SoundDay(s) ==
  /\ \A i, j \in 1 .. Len(s.phases_visited) :
       s.phases_visited[i] = s.phases_visited[j] => i = j
  /\ s.phases_visited # <<>> => s.phase = LastPhase(s)
  /\ \A i \in 1 .. Len(s.phases_visited) :
       s.phases_visited[i] = "DEEP_SLEEP" => i = Len(s.phases_visited)

\* What the place the loop is at says about the day.
PlaceInDay ==
  /\ pc = "decide" =>
       /\ state.phases_visited = <<>> => state.llm_calls = 0
       /\ state.phases_visited # <<>> => state.phase # "DEEP_SLEEP"
  /\ pc \in {"execute", "forced", "sync", "checkpoint", "ended"} =>
       state.phases_visited # <<>>
  /\ pc \in {"forced", "ended"} => state.phase = "DEEP_SLEEP"

DayInvariant == SoundDay(state) /\ SoundDay(saved_state) /\ PlaceInDay

\* The checkpoint on disk is the process's counter, or one behind it between
\* the two writes that close a cycle.
CheckpointNeverAhead == pc # "off" => saved_completed <= cycles_completed

CountersLinked ==
  stops = 0 =>
    /\ pc \notin {"off", "last_checkpoint", "shutdown", "shutdown_checkpoint"} =>
         saved_completed = cycles_completed
    /\ InCycle => cycles_completed < state.cycle_number
    /\ pc # "off" =>
         state.cycle_number
           <= saved_completed + faults
                + (IF InCycle \/ pc = "last_checkpoint" THEN 1 ELSE 0)
    /\ pc \in {"checkpoint", "last_checkpoint", "shutdown_checkpoint"} =>
         saved_state.cycle_number = state.cycle_number

CounterInvariant == CheckpointNeverAhead /\ CountersLinked /\ CountersAgree

-----------------------------------------------------------------------------
(* The substance of a cycle nobody interrupts.  Phases may fail. *)

\* While the call budget lasts, sleep gives back enough: in every cycle the mind
\* focuses, then creates, then judges what it created; no gauge starves a later day.
DayIsProductive ==
  pc = "ended" /\ calls < MaxLlmCalls =>
    RanBefore("FOCUS", "CREATION") /\ RanBefore("CREATION", "REFLECTION")

\* The call budget ran out under HUNT, the one phase whose BudgetExceeded nobody
\* contains, and the night was forced on the mind straight from it.
ForcedNight ==
  /\ calls >= MaxLlmCalls
  /\ \E i \in 2 .. Len(state.phases_visited) :
       state.phases_visited[i - 1] = "HUNT" /\ state.phases_visited[i] = "DEEP_SLEEP"

\* No cycle ends unconsolidated, unless its night was forced, and a dream only
\* follows consolidation.
MemoryBeforeDreams ==
  pc = "ended" =>
    /\ Ran("CONSOLIDATION") \/ ForcedNight
    /\ Ran("DREAMING") => RanBefore("CONSOLIDATION", "DREAMING")

\* Observing, hunting, focusing, creating and judging come in this order or not at
\* all, and before the second wind and the exploration, although thirteen rules and
\* the fallback decide it on signals that a failed phase leaves stale: a phase that
\* was skipped is not made up for later.
WorkInOrder ==
  LET day == <<"OBSERVATION", "HUNT", "FOCUS", "CREATION", "REFLECTION">> IN
  \A m, n \in 1 .. Len(day) :
    /\ m < n => ~RanBefore(day[n], day[m])
    /\ \A late \in {"SECOND_WIND", "EXPLORATION"} : ~RanBefore(late, day[m])

=============================================================================
