------------------------------ MODULE Collector ------------------------------
(***************************************************************************)
(* The market data collector (perplab.data.collector), its buffered        *)
(* writers (data.writer), its socket (exchange.ws) and mark price poller   *)
(* (data.rest_poller), and what the gap report (data.gaps) makes of what   *)
(* it left in the lake.                                                    *)
(* Time is counted in heartbeats of ten seconds; a stream that flows has a *)
(* row in each of them.                                                    *)
(***************************************************************************)
EXTENDS Integers, FiniteSets, FiniteSetsExt

CONSTANTS MaxTime,     \* the bound on time
          Day,         \* beats in a day, the partition of the lake
          FlushEvery,  \* the writers' flush interval
          Threshold,   \* DEFAULT_TICK_THRESHOLD_MS
          Silence,     \* MAX_SILENCE_S of the socket's dataset
          Tolerance,   \* DEFAULT_EXPLANATION_TOLERANCE_MS
          Detect,      \* how long a dead connection may look alive: the
                       \*   ping's interval and its timeout
          Weather      \* sets of troubles that may come together, and how many

Stream == {"book", "mark"}
Writer == Stream \cup {"events"}
Time   == 0 .. MaxTime

Trouble == {"crash", "stop", "drop", "half", "mute", "full"}

ASSUME CollectorAssumption ==
    /\ {MaxTime, Day, FlushEvery, Threshold, Silence, Tolerance, Detect} \subseteq Nat \ {0}
    /\ Weather \subseteq [met : SUBSET Trouble, most : Nat]

VARIABLES now,
          weather,    \* this behaviour's troubles
          met,        \* how many there were
          up,         \* the process runs
          wire,       \* the socket: "down", "up", or still open and silent
          ever,       \* connected_before
          lostAt,     \* disconnected_at_ms, 0 for None
          seenAt,     \* _last_msg_s of the socket's dataset
          reported,   \* it is in _stale_reported
          markAt,     \* _last_ts_ms of the poller, 0 for None
          buf,        \* the writers' buffers
          flushed,    \* their _last_flush
          flushing,   \* _flush_all is under way
          closing,    \* it is the forced flush of a clean stop
          due,        \* the heartbeat of this beat is still to come
          state,      \* last_heartbeat_ms of the state file, 0 without one
          disk,       \* the rows of a stream's day, with their copies
          log,        \* the collector events on disk
          died        \* what processes took in and ended without writing, and
                      \*   when one ended before it had a state file

held_vars == <<buf, flushed, flushing, closing, due>>
wire_vars == <<wire, ever, lostAt, seenAt, reported>>
lake_vars == <<state, disk, log>>
past_vars == <<weather, met, died>>
cvars == <<now, up, markAt, held_vars, wire_vars, lake_vars, past_vars>>

(* A collector event: from is covers_start_ms, its time less its downtime. *)
Event(kind, stream, from) == [kind |-> kind, stream |-> stream, from |-> from, at |-> now]

Kind == {"CONNECT", "RECONNECT", "DISCONNECT", "RESTART", "STALE", "SHUTDOWN"}
Events == [kind : Kind, stream : {"collector", "book"}, from : Time, at : Time]

CTypeOK ==
    /\ now \in Time /\ weather \in Weather /\ met \in 0 .. weather.most
    /\ {up, ever, reported, flushing, closing, due} \subseteq BOOLEAN
    /\ wire \in {"down", "up", "half", "mute"}
    /\ {lostAt, seenAt, markAt, state} \subseteq 0 .. now
    /\ DOMAIN buf = Writer /\ buf["events"] \subseteq Events
    /\ \A s \in Stream : buf[s] \subseteq 0 .. now
    /\ flushed \in [Writer -> 0 .. now]
    /\ disk \in [Stream -> [Time -> 0 .. 2]]
    /\ log \subseteq Events
    /\ died \in [book : SUBSET (0 .. now), events : SUBSET Events, unseen : SUBSET (0 .. now)]

CInit ==
    /\ now = 1 /\ weather \in Weather /\ met = 0
    /\ died = [book |-> {}, events |-> {}, unseen |-> {}]
    /\ up = FALSE /\ wire = "down" /\ ever = FALSE /\ lostAt = 0 /\ seenAt = 0
    /\ reported = FALSE /\ markAt = 0
    /\ buf = [w \in Writer |-> {}] /\ flushed = [w \in Writer |-> 0]
    /\ flushing = FALSE /\ closing = FALSE /\ due = FALSE
    /\ state = 0 /\ disk = [s \in Stream |-> [t \in Time |-> 0]] /\ log = {}

Add(w, x) == buf' = [buf EXCEPT ![w] = @ \cup {x}]

Meets(kind) == kind \in weather.met /\ met < weather.most /\ met' = met + 1

Idle == ~flushing /\ ~due

(***************************************************************************)
(* The process.                                                            *)
(***************************************************************************)

Recorded == {t \in Time : disk["mark"][t] > 0}

(* Mutant: the poller starts without what is on disk. *)
ResumeFrom_Nothing == 0

(* latest_recorded_ts: the newest row of the newest partition *)
ResumeFrom == IF Recorded = {} THEN 0 ELSE Max(Recorded)


(* run, up to its loops, with _emit_startup_event                          *)
Start ==
    /\ ~up /\ up' = TRUE
    /\ LET event == IF state = 0 THEN Event("CONNECT", "collector", now)
                    ELSE Event("RESTART", "collector", state)
       IN buf' = [w \in Writer |-> IF w = "events" THEN {event} ELSE {}]
    /\ flushed' = [w \in Writer |-> now]
    /\ markAt' = ResumeFrom
    /\ wire' = "down" /\ ever' = FALSE /\ lostAt' = 0 /\ reported' = FALSE
    /\ UNCHANGED <<now, seenAt, flushing, closing, due, lake_vars, past_vars>>

(* The process ends here and now: what it had buffered is lost.            *)
Die ==
    /\ up' = FALSE /\ wire' = "down" /\ flushing' = FALSE /\ closing' = FALSE /\ due' = FALSE
    /\ buf' = [w \in Writer |-> {}]
    /\ died' = [book   |-> died.book \cup buf["book"],
                events |-> died.events \cup buf["events"],
                unseen |-> died.unseen \cup (IF state = 0 THEN {now} ELSE {})]

Crash ==
    /\ up /\ Meets("crash") /\ Die
    /\ UNCHANGED <<now, weather, ever, lostAt, seenAt, reported, markAt, flushed, lake_vars>>

(* The clean stop: SHUTDOWN, then a forced flush of every writer.          *)
Stop ==
    /\ up /\ Idle /\ Meets("stop")
    /\ Add("events", Event("SHUTDOWN", "collector", now))
    /\ closing' = TRUE /\ flushing' = TRUE
    /\ UNCHANGED <<now, up, wire_vars, markAt, flushed, due, lake_vars, weather, died>>

(***************************************************************************)
(* The socket (StreamManager.run, _on_stream_event, _on_message).          *)
(***************************************************************************)

(* The first message of a connection comes within the beat.                *)
Arrive(t) ==
    /\ seenAt' = t
    /\ buf' = [buf EXCEPT !["book"] = IF disk["book"][t] > 0 THEN @ ELSE @ \cup {t}]

Connect ==
    /\ up /\ Idle /\ wire = "down"
    /\ wire' = "up" /\ ever' = TRUE /\ lostAt' = 0 /\ reported' = FALSE /\ seenAt' = now
    /\ LET event == IF ever THEN Event("RECONNECT", "book", IF lostAt = 0 THEN now ELSE lostAt)
                    ELSE Event("CONNECT", "book", IF lostAt = 0 THEN now ELSE lostAt)
       IN buf' = [buf EXCEPT !["events"] = @ \cup {event},
                             !["book"] = IF disk["book"][now] > 0 THEN @ ELSE @ \cup {now}]
    /\ UNCHANGED <<now, up, markAt, flushed, flushing, closing, due, lake_vars, past_vars>>

(* The connection ends, or an attempt to connect fails, and run sees it.   *)
Lose ==
    /\ up /\ Idle
    /\ \/ wire = "half" /\ UNCHANGED met
       \/ wire \in {"up", "down"} /\ Meets("drop")
    /\ wire' = "down"
    /\ lostAt' = IF lostAt = 0 THEN now ELSE lostAt
    /\ Add("events", Event("DISCONNECT", "book", now))
    /\ UNCHANGED <<now, up, ever, seenAt, reported, markAt, flushed, flushing, closing, due,
                   lake_vars, weather, died>>

(* Nothing comes any more, and the socket stays open: until a ping goes    *)
(* unanswered ("half"), or for as long as the venue sends nothing ("mute") *)
Silent(kind) ==
    /\ up /\ Idle /\ wire = "up" /\ Meets(kind)
    /\ wire' = kind
    /\ UNCHANGED <<now, up, ever, lostAt, seenAt, reported, markAt, held_vars, lake_vars,
                   weather, died>>

Resume ==
    /\ up /\ Idle /\ wire = "mute" /\ wire' = "up" /\ Arrive(now)
    /\ UNCHANGED <<now, up, ever, lostAt, reported, markAt, flushed, flushing, closing, due,
                   lake_vars, past_vars>>

(* MarkPricePoller.fetch: the venue's time again is no row.                *)
Poll ==
    /\ up /\ Idle /\ now > markAt
    /\ markAt' = now /\ Add("mark", now)
    /\ UNCHANGED <<now, up, wire_vars, flushed, flushing, closing, due, lake_vars, past_vars>>

(***************************************************************************)
(* The heartbeat (_heartbeat_loop).                                        *)
(***************************************************************************)

(* _check_staleness of the socket's dataset                                *)
TurnsStale == wire # "down" /\ now - seenAt > Silence /\ ~reported

Beat ==
    /\ up /\ ~flushing /\ due
    /\ due' = FALSE /\ flushing' = TRUE
    /\ reported' = (TurnsStale \/ (reported /\ (wire = "down" \/ now - seenAt > Silence)))
    /\ IF TurnsStale THEN Add("events", Event("STALE", "book", seenAt)) ELSE UNCHANGED buf
    /\ UNCHANGED <<now, up, wire, ever, lostAt, seenAt, markAt, flushed, closing, lake_vars,
                   past_vars>>

(* maybe_flush: the buffer of the events is never empty at a heartbeat     *)
Flushes(w) == IF closing THEN buf[w] # {}
              ELSE (buf[w] # {} \/ w = "events") /\ now - flushed[w] >= FlushEvery

(* _flush_all goes through the writers in turn, the events last.           *)
Turn(w) == /\ flushing /\ Flushes(w)
           /\ w = "mark" => ~Flushes("book")
           /\ w = "events" => ~Flushes("book") /\ ~Flushes("mark")

First(w) == {t \in buf[w] : \A u \in buf[w] : (t \div Day) <= (u \div Day)}

(* flush: one partition after the other, each dropped from the buffer as   *)
(* it lands                                                                *)
WritePart(w) ==
    /\ Turn(w)
    /\ disk' = [disk EXCEPT ![w] = [t \in Time |-> IF t \in First(w) THEN @[t] + 1 ELSE @[t]]]
    /\ buf' = [buf EXCEPT ![w] = @ \ First(w)]
    /\ flushed' = IF buf'[w] = {} THEN [flushed EXCEPT ![w] = now] ELSE flushed
    /\ UNCHANGED <<now, up, wire_vars, markAt, flushing, closing, due, state, log, past_vars>>

WriteEvents ==
    /\ Turn("events")
    /\ log' = log \cup buf["events"] /\ buf' = [buf EXCEPT !["events"] = {}]
    /\ flushed' = [flushed EXCEPT !["events"] = now]
    /\ UNCHANGED <<now, up, wire_vars, markAt, flushing, closing, due, state, disk, past_vars>>

(* The disk is full: the heartbeat says so and tries again at the next;    *)
(* the clean stop ends in the error.                                       *)
CannotWrite ==
    /\ \E w \in Writer : Turn(w)
    /\ Meets("full")
    /\ \/ /\ ~closing /\ flushing' = FALSE
          /\ Add("events", Event("STALE", "collector", now))
          /\ UNCHANGED <<up, wire, closing, due, died>>
       \/ closing /\ Die
    /\ UNCHANGED <<now, weather, ever, lostAt, seenAt, reported, markAt, flushed, lake_vars>>

(* _write_state, or _clear_state at the end of a clean stop                *)
WriteState ==
    /\ flushing /\ \A w \in Writer : ~Flushes(w)
    /\ flushing' = FALSE /\ closing' = FALSE
    /\ state' = IF closing THEN 0 ELSE now
    /\ up' = ~closing /\ wire' = IF closing THEN "down" ELSE wire
    /\ UNCHANGED <<now, ever, lostAt, seenAt, reported, markAt, buf, flushed, due, disk, log,
                   past_vars>>

(***************************************************************************)
(* Time, from the first start on.  Rows flow while the socket is open, the *)
(* mark price is polled, and an attempt to connect ends within the beat.   *)
(***************************************************************************)

Tick ==
    /\ Idle /\ now < MaxTime
    /\ now = 1 => up
    /\ up /\ wire = "down" => lostAt # 0
    /\ wire = "half" => now + 1 - seenAt <= Detect
    /\ now' = now + 1 /\ due' = up
    /\ seenAt' = IF wire = "up" THEN now + 1 ELSE seenAt
    /\ markAt' = IF up THEN now + 1 ELSE markAt
    /\ buf' = [buf EXCEPT !["book"] = IF wire = "up" THEN @ \cup {now + 1} ELSE @,
                          !["mark"] = IF up THEN @ \cup {now + 1} ELSE @]
    /\ UNCHANGED <<up, wire, ever, lostAt, reported, flushed, flushing, closing, lake_vars,
                   past_vars>>

Flush == (\E w \in Stream : WritePart(w)) \/ WriteEvents \/ CannotWrite \/ WriteState

CNext ==
    \/ Start \/ Crash \/ Stop \/ Connect \/ Lose \/ Silent("half") \/ Silent("mute")
    \/ Resume \/ Poll \/ Beat \/ Flush \/ Tick

(***************************************************************************)
(* The gap report (detect_tick_gaps, explain_gaps) of a market that always *)
(* trades.                                                                 *)
(***************************************************************************)

Rows == {t \in Time : disk["book"][t] > 0}

Gaps == {g \in Rows \X Rows : g[2] - g[1] > Threshold
                              /\ \A t \in Rows : t <= g[1] \/ g[2] <= t}

Recovery == {"RECONNECT", "CONNECT", "RESTART"}

(* _closing_times: c is a recovery that closes what e opened               *)
Closes(c, e) == c.kind \in Recovery /\ c.at > e.at /\ c.stream \in {"collector", e.stream}

(* _accounts_for: is the stretch e speaks for, with a cushion, as long?    *)
(* The cap of a day on what nothing closed is longer than any run here.    *)
AccountsFor(e, gap, cushion) ==
    IF e.kind \in {"RESTART", "RECONNECT"} THEN e.at - e.from + cushion >= gap[2] - gap[1]
    ELSE \A c \in {x \in log : Closes(x, e)} : c.at - e.from + cushion >= gap[2] - gap[1]

(* explain_gaps: some record that accounts for the gap overlaps it.        *)
Explained(gap, cushion) ==
    \E e \in log : /\ AccountsFor(e, gap, cushion)
                   /\ e.from - Tolerance <= gap[2] /\ e.at + Tolerance >= gap[1]

(* A report when every event has been written.                             *)
Reported == IF buf["events"] = {} THEN Gaps ELSE {}

(* What a reader of the events, and of those that were lost with their     *)
(* process, would know; and what came, whether it was written or not.      *)
EventsEver == log \cup died.events
Came == Rows \cup died.book \cup buf["book"]

Stretches == {g \in Came \X Came : g[1] < g[2] /\ \A t \in Came : t <= g[1] \/ g[2] <= t}

(* How long nothing may come before the collector can tell                 *)
Unnoticed == IF Silence > Detect THEN Silence ELSE Detect

(* Does e speak for beat t of a stretch without rows?  A RESTART and a     *)
(* RECONNECT measured what was behind them; what opens an outage in the    *)
(* stretch speaks for it until a recovery closes it.                       *)
SpeaksFor(e, t, stretch) ==
    /\ e.from - Unnoticed <= t
    /\ \/ e.kind \in {"RESTART", "RECONNECT"} /\ t <= e.at + Tolerance
       \/ /\ e.kind \in {"DISCONNECT", "STALE", "SHUTDOWN"}
          /\ stretch[1] <= e.at /\ e.at <= stretch[2]
          /\ \A c \in {x \in EventsEver : Closes(x, e)} : t <= c.at + Tolerance


(* collector.HEARTBEAT_INTERVAL_S: the exit criterion "zero *unexplained*  *)
(* gaps", for a collector that lost nothing it had taken in.               *)
NoneUnexplained ==
    died.book = {} /\ died.events = {} => \A gap \in Reported : Explained(gap, 2 * Tolerance)

(* gaps._ONGOING_KINDS: a shutdown is "never closed at all", so it explains *)
(* the stretch without a process that it lies in.                          *)
ShutdownExplains ==
    \A gap \in Reported :
        (\E e \in log : e.kind = "SHUTDOWN" /\ gap[1] <= e.at /\ e.at <= gap[2])
            => Explained(gap, 2 * Tolerance)

(* Each row of a stream is read once: neither a flush that failed half-way *)
(* nor a restart writes it again (writer.flush, MarkPricePoller).          *)
RowsOnce == \A s \in Stream, t \in Time : disk[s][t] <= 1
=============================================================================
