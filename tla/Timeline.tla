------------------------------- MODULE Timeline -------------------------------
(***************************************************************************)
(* The time of a run: the scheduler's heap and the clock it drives, the     *)
(* chain of shifts with the people who work them, the time accounting of a  *)
(* machine, and the life of the run itself (start, fast-forward, live feed, *)
(* stop, finish).                                                           *)
(*                                                                          *)
(* Everything else the plant does to the machine is the action Handler: a   *)
(* callback of some component, at any instant its priority allows.          *)
(***************************************************************************)
EXTENDS ShiftCalendar, SequencesExt

CONSTANTS
  Patterns,    \* the shift patterns a run may be configured with
  Starts,      \* the instants a run may start at
  Horizons,    \* the instants it may fast-forward to
  Jitters,     \* how far from the start of a shift people clock in
  Overtimes,   \* the overtime they work
  State,       \* the machine states
  BucketOf,    \* state -> the accounting bucket of its role
  IdleState, OfflineState, RunningState,
  None,
  Minute,      \* a minute, the shortest a shift lasts from its opening
  Tick,        \* the period of the ticks
  MaxTime,     \* bound: the last instant of a behaviour
  MaxMoves     \* bound: callbacks of other components

Buckets == {"runtime", "idle", "downtime", "planned_stop", "unscheduled", "offline"}

ASSUME TimelineAssumption ==
  /\ Patterns \subseteq Seq(ShiftSpec) \ {<<>>}
  /\ Starts \subseteq Nat /\ Horizons \subseteq Nat
  /\ Jitters \subseteq Int /\ Overtimes \subseteq Nat
  /\ {Minute, Tick} \subseteq Nat \ {0} /\ MaxTime \in Nat
  /\ BucketOf \in [State -> Buckets]
  /\ {IdleState, OfflineState, RunningState} \subseteq State
  /\ None \notin Nat

\* No two shifts of a pattern start together.  The program does not check it: of
\* two that do, it only ever opens the one declared first.
ASSUME DistinctStarts ==
  \A p \in Patterns : \A i, j \in DOMAIN p : p[i].start = p[j].start => i = j

VARIABLES
  pattern,     \* ShiftsConfig.shifts
  request,     \* the arguments of run: a horizon, and whether to go live
  phase,       \* "new", "forward", "live", "finishing" or "finished"
  stopping,    \* Simulator._stopping
  now,         \* SimulationClock.now
  heap,        \* Scheduler._heap, in the order it is popped
  due,         \* the horizon of the run_until in progress
  horizon,     \* ShiftManager._horizon
  shifts,      \* ShiftManager._instances, in the order they were begun
  attendance,  \* the shift instance an employee's attendance is of; one
               \* employee works each shift of the pattern
  machine,     \* a machine and its time accounting
  written,     \* what has been written to storage about it
  moves,       \* callbacks of other components so far
  elapsed      \* history: time spent in each bucket, counted as it passes

runVars   == <<pattern, request>>
phaseVars == <<phase, stopping, due, horizon>>
shiftVars == <<shifts, attendance>>
vars == <<runVars, phaseVars, now, heap, shiftVars, machine, written, moves, elapsed>>

-----------------------------------------------------------------------------
\* The scheduler

SHIFT == 10
EMPLOYEE == 20
MAINTENANCE == 30
PRODUCTION == 70
PERSIST == 120

Task(when, priority, kind, of) ==
  [when |-> when, priority |-> priority, kind |-> kind, of |-> of]

Before(a, b) == a.when < b.when \/ (a.when = b.when /\ a.priority < b.priority)

\* at: the sequence number puts a task behind those of its instant and priority.
At(h, task) ==
  InsertAt(h, Min({i \in 1..Len(h) : Before(task, h[i])} \cup {Len(h) + 1}), task)

\* A call of at for each of the tasks, in turn.
AtEach(h, tasks) ==
  LET placed[i \in 0..Len(tasks)] == IF i = 0 THEN h ELSE At(placed[i - 1], tasks[i])
  IN placed[Len(tasks)]

\* advance_to: time never moves backwards.
Advance(t) == now' = IF t > now THEN t ELSE now

-----------------------------------------------------------------------------
\* Time accounting of a machine

HasWork(m) ==
  CASE m.duty = "continuous" -> TRUE
    [] m.duty = "coupled"    -> m.lineActive
    [] OTHER                 -> m.batch

\* _bucket_for: idle time is a loss only while there is work.
Bucket(m) ==
  IF BucketOf[m.state] = "idle" /\ ~HasWork(m) THEN "unscheduled" ELSE BucketOf[m.state]

\* accrue_time: bank the time since the last accrual.
Accrue(m, t) ==
  IF t <= m.lastAccrual THEN m
  ELSE [m EXCEPT !.lastAccrual = t,
                 !.window[Bucket(m)] = @ + (t - m.lastAccrual),
                 !.lifetime[Bucket(m)] = @ + (t - m.lastAccrual)]

Interval(m, t) ==
  [sequence |-> m.intervals + 1, state |-> m.state, entered |-> m.since, exited |-> t]

\* Mutant of TransitionTo: the new state keeps the old one's start.
TransitionKeepingStart(m, s, t) ==
  IF s = m.state THEN m
  ELSE [Accrue(m, t) EXCEPT !.state = s, !.intervals = @ + 1,
                            !.history = Append(@, Interval(m, t))]

\* transition_to, and force_route_to when the route has no state in between.
TransitionTo(m, s, t) ==
  IF s = m.state THEN m
  ELSE [Accrue(m, t) EXCEPT !.state = s, !.since = t, !.intervals = @ + 1,
                            !.history = Append(@, Interval(m, t))]

\* begin_stage, after the accrual of _start_stage; mutant: without it.
BeginStageUnbanked(m, t) == [m EXCEPT !.batch = TRUE]
BeginStage(m, t) == [Accrue(m, t) EXCEPT !.batch = TRUE]

EndStage(m, t) == [Accrue(m, t) EXCEPT !.batch = FALSE]

NoTime == [b \in Buckets |-> 0]

\* flush_shift_window
ResetWindow(m) == [m EXCEPT !.window = NoTime]

\* _flush_production leaves out a machine with nothing in these buckets.
WorthARow(window) ==
  \E b \in {"runtime", "idle", "downtime", "offline"} : window[b] > 0

-----------------------------------------------------------------------------
\* Shifts and people

Ascending(S) ==
  CHOOSE s \in [1..Cardinality(S) -> S] : \A i, j \in DOMAIN s : i < j => s[i] < s[j]

\* The interruptions an employee's shift still has ahead of it, in their order.
BreakTasks(date, spec, t, id) ==
  LET ahead  == {b \in BreakStarts(date, spec) : t < b}
      starts == Ascending(ahead)
  IN [i \in 1..(2 * Cardinality(ahead)) |->
        IF i % 2 = 1 THEN Task(starts[(i + 1) \div 2], EMPLOYEE, "break_start", id)
                     ELSE Task(starts[i \div 2] + 1, EMPLOYEE, "break_end", id)]

\* Mutant of ClockIn: an early arrival is kept although the shift is under way.
ClockInAsDrawn(start, jitter, t) == start + jitter
ClockIn(start, jitter, t) == IF start + jitter < t THEN t ELSE start + jitter

\* _schedule_people, for the employee who is present.
PeopleTasks(date, spec, t, id, jitter, overtime) ==
  << Task(ClockIn(ShiftStart(date, spec), jitter, t), EMPLOYEE, "clock_in", id) >>
    \o BreakTasks(date, spec, t, id)
    \o (IF overtime = 0 THEN <<>>
        ELSE << Task(ShiftEnd(date, spec), EMPLOYEE, "overtime", id) >>)
    \o << Task(ShiftEnd(date, spec) + overtime, EMPLOYEE, "clock_out", id) >>

\* Mutant of PastHorizon: a start at the horizon itself is past it.
AtOrPastHorizon(t) == horizon # None /\ t >= horizon
PastHorizon(t)     == horizon # None /\ t > horizon

\* _schedule_next: unless the next shift starts past the horizon.
ScheduleNext(h, t) ==
  LET next  == FirstStartFrom(pattern, t + 1)
      start == ShiftStart(next.date, pattern[next.index])
  IN IF PastHorizon(start) THEN h
     ELSE At(h, Task(start, SHIFT, "shift_start", next))

\* _assign_machines: without an operator the machine is powered down, unless
\* it holds a batch or is a utility; with one it is powered up.
AssignMachine(m, present, t) ==
  IF m.duty = "continuous" THEN (IF present THEN m ELSE Accrue(m, t))
  ELSE IF present
    THEN (IF m.state = OfflineState THEN TransitionTo(m, IdleState, t) ELSE Accrue(m, t))
    ELSE (IF m.batch THEN Accrue(m, t) ELSE TransitionTo(m, OfflineState, t))

\* _begin, called with the heap h; the next start and then the tasks of
\* `after` are placed behind those of the shift.
Begin(date, index, t, h, after) ==
  \E present \in BOOLEAN, jitter \in Jitters, overtime \in Overtimes :
    LET spec   == pattern[index]
        id     == Len(shifts) + 1
        people == IF present THEN PeopleTasks(date, spec, t, id, jitter, overtime) ELSE <<>>
        end    == IF ShiftEnd(date, spec) < t + Minute THEN t + Minute ELSE ShiftEnd(date, spec)
    IN
    /\ shifts' = Append(shifts, [date |-> date, index |-> index, begun |-> t,
                                 present |-> present])
    /\ attendance' = [attendance EXCEPT ![index] = id]
    /\ machine' = AssignMachine(machine, present, t)
    /\ heap' = LET opened == At(AtEach(h, people), Task(end, SHIFT, "shift_end", id))
               IN AtEach(ScheduleNext(opened, t), after)

-----------------------------------------------------------------------------
\* The life of a run

\* A run is asked for a span, for a live feed, or for one after the other.
Init ==
  /\ pattern \in Patterns
  /\ request \in [start : Starts, horizon : Horizons \cup {None}, live : BOOLEAN]
  /\ request.horizon = None => request.live
  /\ phase = "new" /\ stopping = FALSE
  /\ now = request.start
  /\ heap = <<>> /\ due = request.start /\ horizon = None
  /\ shifts = <<>>
  /\ attendance = [i \in DOMAIN pattern |-> None]
  /\ \E duty \in {"batch", "coupled", "continuous"} :
       machine = [duty |-> duty, state |-> OfflineState, since |-> request.start,
                  lastAccrual |-> request.start, batch |-> FALSE, lineActive |-> FALSE,
                  window |-> NoTime, lifetime |-> NoTime, history |-> <<>>, intervals |-> 0]
  /\ written = [history |-> <<>>, production |-> <<>>, summaries |-> {}]
  /\ moves = 0
  /\ elapsed = NoTime

\* _schedule_periodic; the ticks that leave this state alone are left out.
Periodic(t) == << Task(t + Tick, PRODUCTION, "production", None),
                  Task(t + Tick, PERSIST, "housekeeping", None) >>

\* start and the first lines of run.
Start ==
  /\ phase = "new"
  /\ IF Covering(pattern, now) # {}
       THEN LET c == ShiftFor(pattern, now) IN Begin(c.date, c.index, now, heap, Periodic(now))
       ELSE /\ heap' = AtEach(ScheduleNext(heap, now), Periodic(now))
            /\ UNCHANGED <<shiftVars, machine>>
  /\ horizon' = request.horizon
  /\ IF request.horizon # None
       THEN phase' = "forward" /\ due' = request.horizon
       ELSE phase' = "live" /\ UNCHANGED due
  /\ UNCHANGED <<runVars, stopping, now, written, moves, elapsed>>

\* No task of the run_until in progress is left.
Drained == heap # <<>> => due < Head(heap).when

\* The clock reaches t with the machine as it is.
Pass(t) ==
  /\ Advance(t)
  /\ elapsed' = [elapsed EXCEPT ![Bucket(machine)] = @ + (now' - now)]

\* run_until pops a task of this kind.
Popped(kind) ==
  /\ phase \in {"forward", "live"}
  /\ ~Drained
  /\ Head(heap).kind \in kind
  /\ Pass(Head(heap).when)
  /\ UNCHANGED <<runVars, phaseVars, moves>>

OnShiftStart ==
  /\ Popped({"shift_start"})
  /\ LET task == Head(heap) IN
       Begin(task.of.date, task.of.index, task.when, Tail(heap), <<>>)
  /\ UNCHANGED written

\* Mutant of Flushed: the window is closed without the time since the last tick.
FlushedUnbanked(m, t) == m

\* _flush_production brings the machine's accounts up to the end of the shift.
Flushed(m, t) == Accrue(m, t)

\* _on_shift_end
OnShiftEnd ==
  /\ Popped({"shift_end"})
  /\ heap' = Tail(heap)
  /\ LET id     == Head(heap).of
         closed == Flushed(machine, Head(heap).when)
     IN
     /\ machine' = ResetWindow(closed)
     /\ written' =
          [written EXCEPT
             !.production = IF WorthARow(closed.window)
                              THEN Append(@, [shift |-> id, window |-> closed.window])
                              ELSE @,
             !.summaries = IF shifts[id].present
                             THEN @ \cup {[shift |-> id, of |-> attendance[shifts[id].index]]}
                             ELSE @]
  /\ UNCHANGED shiftVars

\* Clock-ins, breaks, overtime and clock-outs only announce themselves.
OnPeople ==
  /\ Popped({"clock_in", "break_start", "break_end", "overtime", "clock_out"})
  /\ heap' = Tail(heap)
  /\ UNCHANGED <<shiftVars, machine, written>>

\* _repeat: the task is placed again, unless the run is stopping.
Repeat ==
  heap' = LET task == Head(heap) IN
            IF stopping THEN Tail(heap)
            ELSE At(Tail(heap), [task EXCEPT !.when = @ + Tick])

\* DutyManager.tick, which tells a coupled machine whether its line is active
\* and starts or idles one that is not batch duty, unless it is stopped.
DutyTick(m, active, t) ==
  LET told   == IF m.duty = "coupled" THEN [m EXCEPT !.lineActive = active] ELSE m
      wanted == m.duty = "continuous" \/ active
  IN IF wanted
       THEN (IF BucketOf[m.state] = "downtime" THEN told ELSE TransitionTo(told, RunningState, t))
       ELSE (IF m.state = RunningState THEN TransitionTo(told, IdleState, t) ELSE told)

\* _production_tick
ProductionTick ==
  /\ Popped({"production"})
  /\ Repeat
  /\ LET t == Head(heap).when
         banked == Accrue(machine, t)
     IN IF machine.duty = "batch" THEN machine' = banked
        ELSE \E active \in BOOLEAN : machine' = DutyTick(banked, active, t)
  /\ UNCHANGED <<shiftVars, written>>

\* _flush_state_history
FlushHistory(m) ==
  /\ written' = [written EXCEPT !.history = @ \o m.history]
  /\ machine' = [m EXCEPT !.history = <<>>]

\* _housekeeping_tick
HousekeepingTick ==
  /\ Popped({"housekeeping"})
  /\ Repeat
  /\ FlushHistory(machine)
  /\ UNCHANGED shiftVars

\* A callback of another component: it begins or ends a stage on the machine,
\* or moves it.
Handler ==
  /\ phase \in {"forward", "live"}
  /\ moves < MaxMoves /\ moves' = moves + 1
  /\ \E t \in now..due :
       /\ heap # <<>> => Before([when |-> t, priority |-> MAINTENANCE], Head(heap))
       /\ Pass(t)
       /\ \/ ~machine.batch /\ machine' = BeginStage(machine, t)
          \/ machine.batch /\ machine' = EndStage(machine, t)
          \/ \E s \in State \ {machine.state} : machine' = TransitionTo(machine, s, t)
  /\ UNCHANGED <<runVars, phaseVars, heap, shiftVars, written>>

\* The end of _run_fast_forward; _run_live lifts the horizon.
EndForward ==
  /\ phase = "forward" /\ Drained
  /\ Pass(request.horizon)
  /\ machine' = Accrue(machine, now')
  /\ IF request.live THEN phase' = "live" /\ horizon' = None
                     ELSE phase' = "ended" /\ UNCHANGED horizon
  /\ UNCHANGED <<runVars, stopping, due, heap, shiftVars, written, moves>>

\* One turn of the loop of _run_live, for the tasks of the next instant.
LiveTurn ==
  /\ phase = "live" /\ Drained
  /\ ~stopping /\ heap # <<>>
  /\ due' = Head(heap).when /\ due' <= MaxTime
  /\ UNCHANGED <<runVars, phase, stopping, horizon, now, heap, shiftVars, machine,
                 written, moves, elapsed>>

\* The loop ends on stop, and when nothing is left to do.
EndLive ==
  /\ phase = "live" /\ Drained
  /\ stopping \/ heap = <<>>
  /\ phase' = "ended"
  /\ UNCHANGED <<runVars, stopping, due, horizon, now, heap, shiftVars, machine,
                 written, moves, elapsed>>

\* stop, called from another thread, or SIGINT.
Stop ==
  /\ phase \in {"forward", "live"} /\ ~stopping
  /\ stopping' = TRUE
  /\ UNCHANGED <<runVars, phase, due, horizon, now, heap, shiftVars, machine,
                 written, moves, elapsed>>

\* finish, as far as the machine is concerned.
Finish ==
  /\ phase = "ended" /\ phase' = "finished"
  /\ stopping' = TRUE
  /\ FlushHistory(Accrue(machine, now))
  /\ UNCHANGED <<runVars, due, horizon, now, heap, shiftVars, moves, elapsed>>

\* The process ends.
Done == phase = "finished" /\ UNCHANGED vars

Next ==
  \/ Start \/ OnShiftStart \/ OnShiftEnd \/ OnPeople \/ ProductionTick
  \/ HousekeepingTick \/ Handler \/ EndForward \/ LiveTurn \/ EndLive \/ Stop
  \/ Finish \/ Done

Spec == Init /\ [][Next]_vars

-----------------------------------------------------------------------------
\* Properties

Opened(c) ==
  \E i \in DOMAIN shifts :
    /\ shifts[i].date = c.date /\ shifts[i].index = c.index
    /\ shifts[i].begun = ShiftStart(c.date, pattern[c.index])

\* The shifts that have started since the run did.
StartedSince ==
  {c \in [date : 0..DateOf(MaxTime), index : DOMAIN pattern] :
     LET start == ShiftStart(c.date, pattern[c.index]) IN
       /\ phase # "new" /\ request.start < start
       /\ start < now \/ (start = now /\ phase \in {"ended", "finished"})}

\* Every shift that starts after the run does is opened, at its start, up to
\* the end of the fast-forward if there is one.
ShiftsOpenOnTime ==
  \A c \in StartedSince :
    request.horizon = None \/ ShiftStart(c.date, pattern[c.index]) <= request.horizon
      => Opened(c)

\* No callback runs at an instant the clock has passed: none is placed there.
NothingInThePast == heap # <<>> => now <= Head(heap).when

\* Time is banked late but never under the wrong heading: what is banked,
\* and what the state of the machine says of the time since, is what passed.
AccountsAreExact ==
  \A b \in Buckets :
    elapsed[b] = machine.lifetime[b]
                 + (IF b = Bucket(machine) THEN now - machine.lastAccrual ELSE 0)

Total(window) == FoldFunction(+, 0, window)

Tiling(p) ==
  \A i \in DOMAIN p : p[i].end = p[IF i = Len(p) THEN 1 ELSE i + 1].start

\* What is written at the end of a shift is of that shift: the summary is of
\* the attendance at it, and, where one shift starts as the other ends, the
\* production is the time from its opening to its end, whatever the machine
\* was doing as one gave way to the other (shift_manager.py:157).
RowsAreOfTheirShift ==
  /\ \A s \in written.summaries : s.of = s.shift
  /\ Tiling(pattern) =>
       \A i \in DOMAIN written.production :
         LET row == written.production[i]
             s   == shifts[row.shift]
         IN Total(row.window) = ShiftEnd(s.date, pattern[s.index]) - s.begun

\* The state intervals of the machine, stored or about to be, follow one
\* another from the start of the run to the state it is in.
HistoryIsContinuous ==
  LET all == written.history \o machine.history
      EndOf(i) == IF i = 0 THEN request.start ELSE all[i].exited
  IN
  /\ \A i \in DOMAIN all : all[i].sequence = i /\ all[i].entered = EndOf(i - 1)
  /\ machine.since = EndOf(Len(all))
  /\ phase = "finished" => machine.history = <<>>

\* The claim of run(then_live = True) and of the README, "then keep streaming":
\* shifts go on being opened in the live feed that follows a fast-forward.
ShiftsOpenInTheLiveFeed == \A c \in StartedSince : Opened(c)
=============================================================================
