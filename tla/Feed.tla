-------------------------------- MODULE Feed --------------------------------
(***************************************************************************)
(* The market data of a live session, from the venue to the engine:        *)
(* LiveFeed (perplab.live.feed), whose pollers and mark stream learn of a  *)
(* bar, a minute of marks or a funding settlement only after it happened;  *)
(* ReorderBuffer (perplab.engine.reorder), which holds every event until   *)
(* no slower source can still have an earlier one; and the session's       *)
(* dispatch of what it releases (PaperSession._drain_to_engine).           *)
(* Time is counted in ticks.  The venue's clock is tick; the host's clock  *)
(* may be ahead of it until it is stepped back.  A source fails by doing   *)
(* nothing: no step below is forced to happen.                             *)
(***************************************************************************)
EXTENDS Integers, FiniteSets, FiniteSetsExt

CONSTANTS Symbol,
          Lineup,       \* the sessions to look at: the symbols each slow source
                        \*   covers, whether trades arrive, the host's lead
          Minute,       \* ticks in a bar, and in a minute of marks
          FundingEvery, \* ticks between two funding settlements
          Window,       \* how long the buffer holds any event
          Stale,        \* per slow source: silence that ends its hold
          Grace,        \* how long a settlement's row is waited for
          Delay,        \* how old an answer may be when it is handled
          Latency,      \* from an event to what the engine schedules after it
          FirstTick,    \* the session's first tick
          LastTick      \* bound: the last tick

Slow == {"klines", "markPrice", "funding"}

ASSUME FeedAssumption ==
    /\ Symbol # {} /\ IsFiniteSet(Symbol)
    /\ {Minute, FundingEvery, Latency, FirstTick} \subseteq Nat \ {0}
    /\ Minute > 1 /\ FundingEvery > 1
    /\ {Window, Grace, Delay, LastTick} \subseteq Nat /\ FirstTick >= Delay
    /\ Stale \in [Slow -> Nat \ {0}]
    /\ Lineup \subseteq [covers : [Slow -> SUBSET Symbol], trades : BOOLEAN, ahead : {0, 1}]
    /\ \A u \in Lineup : u.covers["funding"] \subseteq u.covers["markPrice"]

VARIABLES lineup,       \* the sources of this session
          tick, ahead,  \* the venue's clock; how far the host's is ahead
          cover,        \* per source and symbol: complete through, said when
          source,       \* per source: complete through, last reported when
          held,         \* the events in the reorder buffer
          watermark,    \* the buffer has released everything up to here
          lastBar, seeded, pendingBars,             \* _poll_klines
          bucket, nextFunding,                      \* the mark stream
          fundingDue, settled, fundingSeeded,       \* _poll_funding
          lastTrade,                                \* the socket's order
          clock, timers,    \* the engine: its last event, what it scheduled
          over,             \* the session has ended
          excused,          \* history: per source, how far the watermark had
                            \*   gone while it was presumed silent
          unseen,           \* history: the first mark sample, before which a
                            \*   settlement passes without being noticed
          skipped,          \* history: the settlements the mark stream has
                            \*   gone past and the feed does not remember
          wronged,          \* history: sources with an event dropped as late
                            \*   past that
          refused           \* history: the engine's queue refused an event

klines_vars  == <<lastBar, seeded, pendingBars>>
mark_vars    == <<bucket, nextFunding, unseen, skipped>>
funding_vars == <<fundingDue, settled, fundingSeeded>>
report_vars  == <<cover, source, excused>>
engine_vars  == <<clock, timers, refused>>
feed_vars == <<lineup, tick, ahead, report_vars, held, watermark, klines_vars,
               mark_vars, funding_vars, lastTrade, engine_vars, over, wronged>>

Wall == tick + ahead

MarketEvent == [stream : Slow \cup {"aggTrades"}, symbol : Symbol, ts : Nat]

NoSettlement == [at |-> 0, noticed |-> 0]

FeedTypeOK ==
    /\ tick \in FirstTick .. LastTick /\ ahead \in {0, 1}
    /\ \A p \in Slow : /\ source[p].through \in Nat /\ source[p].reported \in 0 .. LastTick + 1
                       /\ \A s \in Symbol : cover[p][s].through \in Nat
                                            /\ cover[p][s].at \in 0 .. LastTick + 1
    /\ held \subseteq MarketEvent
    /\ \A e \in held : e.ts > watermark
    /\ watermark \in Int /\ clock \in Int /\ timers \subseteq Nat
    /\ lastBar \in [Symbol -> Int] /\ seeded \subseteq Symbol
    /\ pendingBars \subseteq Nat \X Symbol

FeedInit ==
    /\ lineup \in Lineup /\ tick = FirstTick /\ ahead = lineup.ahead
    /\ cover = [p \in Slow |-> [s \in Symbol |-> [through |-> 0, at |-> 0]]]
    /\ source = [p \in Slow |-> [through |-> 0, reported |-> 0]]
    /\ held = {} /\ watermark = -1
    /\ lastBar = [s \in Symbol |-> -1] /\ seeded = {} /\ pendingBars = {}
    /\ bucket = [s \in Symbol |-> -1] /\ nextFunding = [s \in Symbol |-> 0]
    /\ fundingDue = [s \in Symbol |-> NoSettlement]
    /\ settled = [s \in Symbol |-> 0] /\ fundingSeeded = {}
    /\ lastTrade = FirstTick - 1
    /\ clock = -1 /\ timers = {} /\ over = FALSE
    /\ unseen = [s \in Symbol |-> 0] /\ skipped = [s \in Symbol |-> {}]
    /\ excused = [p \in Slow |-> -1] /\ wronged = {} /\ refused = FALSE

-----------------------------------------------------------------------------
(* The host's clock is corrected.                                           *)

StepBack ==
    /\ ~ over /\ ahead = 1
    /\ ahead' = 0
    /\ UNCHANGED <<lineup, tick, report_vars, held, watermark, klines_vars, mark_vars,
                   funding_vars, lastTrade, engine_vars, over, wronged>>

-----------------------------------------------------------------------------
(* The buffer's intake.                                                    *)

IsLate(e) == e.ts <= watermark

(* A settlement the feed has no way to know of until its row arrives       *)
Overlooked(s, ts) == ts <= unseen[s] \/ ts \in skipped[s]

(* PaperSession._offer, ReorderBuffer.offer: an event at or before the     *)
(* watermark is dropped and counted.                                       *)
Offer(events) ==
    /\ held' = held \cup {e \in events : ~ IsLate(e)}
    /\ wronged' = wronged \cup {e.stream : e \in {x \in events :
                        IsLate(x) /\ x.stream \in Slow /\ x.ts > excused[x.stream]
                        /\ ~ (x.stream = "funding" /\ Overlooked(x.symbol, x.ts))}}

(* Mutants: the first symbol speaks for all; a silent one is waited for.   *)
Report_First(p, s, ts, excuse) ==
    LET all == lineup.covers[p]
        started == \E z \in all : cover[p][z].at # 0
        was == [z \in Symbol |-> IF started THEN cover[p][z]
                                            ELSE [through |-> 0, at |-> Wall]]
        covered == [was EXCEPT ![s] = [through |-> Max({was[s].through, ts}), at |-> Wall]]
        speaking == {z \in all : Wall - covered[z].at <= Stale[p]}
        least == Max({covered[z].through : z \in speaking})
        passed == IF speaking = all THEN excuse ELSE least
    IN  /\ cover' = [cover EXCEPT ![p] = covered]
        /\ IF least = 0
             THEN UNCHANGED source /\ excused' = [excused EXCEPT ![p] = Max({@, excuse})]
             ELSE /\ source' = [source EXCEPT ![p] =
                        [through |-> Max({@.through, least}), reported |-> Max({@.reported, Wall})]]
                  /\ excused' = [excused EXCEPT ![p] = Max({@, excuse, passed})]

Report_Waits(p, s, ts, excuse) ==
    LET all == lineup.covers[p]
        started == \E z \in all : cover[p][z].at # 0
        was == [z \in Symbol |-> IF started THEN cover[p][z]
                                            ELSE [through |-> 0, at |-> Wall]]
        covered == [was EXCEPT ![s] = [through |-> Max({was[s].through, ts}), at |-> Wall]]
        speaking == all
        least == Min({covered[z].through : z \in speaking})
        passed == IF speaking = all THEN excuse ELSE least
    IN  /\ cover' = [cover EXCEPT ![p] = covered]
        /\ IF least = 0
             THEN UNCHANGED source /\ excused' = [excused EXCEPT ![p] = Max({@, excuse})]
             ELSE /\ source' = [source EXCEPT ![p] =
                        [through |-> Max({@.through, least}), reported |-> Max({@.reported, Wall})]]
                  /\ excused' = [excused EXCEPT ![p] = Max({@, excuse, passed})]

(* LiveFeed._report_complete, ReorderBuffer.complete_through: a source is  *)
(* complete through the least its symbols are, those silent past its bound *)
(* left out; a symbol yet to speak holds the report back.  excuse is what  *)
(* the source has itself given up waiting for.                             *)
Report(p, s, ts, excuse) ==
    LET all == lineup.covers[p]
        started == \E z \in all : cover[p][z].at # 0
        was == [z \in Symbol |-> IF started THEN cover[p][z]
                                            ELSE [through |-> 0, at |-> Wall]]
        covered == [was EXCEPT ![s] = [through |-> Max({was[s].through, ts}), at |-> Wall]]
        speaking == {z \in all : Wall - covered[z].at <= Stale[p]}
        least == Min({covered[z].through : z \in speaking})
        passed == IF speaking = all THEN excuse ELSE least
    IN  /\ cover' = [cover EXCEPT ![p] = covered]
        /\ IF least = 0
             THEN UNCHANGED source /\ excused' = [excused EXCEPT ![p] = Max({@, excuse})]
             ELSE /\ source' = [source EXCEPT ![p] =
                        [through |-> Max({@.through, least}), reported |-> Max({@.reported, Wall})]]
                  /\ excused' = [excused EXCEPT ![p] = Max({@, excuse, passed})]

-----------------------------------------------------------------------------
(* The sources.  An answer is the venue's state at some instant a.         *)

Instants == (tick - Delay) .. tick

CloseOf(b) == b * Minute + Minute - 1

(* One symbol's turn in _poll_klines, with _offer_bar: of the last three   *)
(* bars the last is still open; the first page only seeds; a bar is        *)
(* published once every symbol has it, and what older bars lack is given   *)
(* up.                                                                     *)
PollKlines(s) ==
    \E a \in Instants :
      LET open == a \div Minute
          fresh == {b \in {open - 2, open - 1} : b >= 0 /\ b > lastBar[s]}
          pending == pendingBars \cup (IF s \in seeded THEN fresh \X {s} ELSE {})
          full == {b \in fresh : {b} \X lineup.covers["klines"] \subseteq pending}
      IN  /\ ~ over /\ s \in lineup.covers["klines"]
          /\ lastBar' = [lastBar EXCEPT ![s] = Max(fresh \cup {@})]
          /\ seeded' = seeded \cup {s}
          /\ pendingBars' = {x \in pending : \A b \in full : x[1] > b}
          /\ Offer({[stream |-> "klines", symbol |-> CHOOSE z \in Symbol : TRUE,
                     ts |-> CloseOf(b)] : b \in full})
          /\ Report("klines", s, CloseOf(open) - 1, -1)
          /\ UNCHANGED <<lineup, tick, ahead, watermark, mark_vars, funding_vars,
                         lastTrade, engine_vars, over>>

(* _note_next_funding: the announcement moves on when a settlement has     *)
(* just passed; the earliest one outstanding is remembered, and no other.  *)
NoteNextFunding(s, announced) ==
    /\ fundingDue' =
            IF nextFunding[s] # 0 /\ announced > nextFunding[s] /\ fundingDue[s] = NoSettlement
              THEN [fundingDue EXCEPT ![s] = [at |-> nextFunding[s], noticed |-> Wall]]
              ELSE fundingDue
    /\ nextFunding' = [nextFunding EXCEPT ![s] = announced]
    /\ skipped' = [skipped EXCEPT ![s] = @ \cup
            {f \in nextFunding[s] .. announced - 1 :
                nextFunding[s] # 0 /\ f % FundingEvery = 0 /\ f # fundingDue'[s].at}]

(* A mark sample, from the stream or the poller: _absorb_mark with         *)
(* MarkAggregator.offer.  A sample of a later minute closes the minute     *)
(* before it.                                                              *)
MarkSample(s) ==
    \E ts \in Instants :
      LET b == ts \div Minute
      IN  /\ ~ over /\ s \in lineup.covers["markPrice"]
          /\ NoteNextFunding(s, (ts \div FundingEvery + 1) * FundingEvery)
          /\ bucket' = [bucket EXCEPT ![s] = Max({@, b})]
          /\ Offer(IF bucket[s] # -1 /\ b > bucket[s]
                     THEN {[stream |-> "markPrice", symbol |-> s, ts |-> CloseOf(bucket[s])]}
                     ELSE {})
          /\ Report("markPrice", s, CloseOf(b) - 1, -1)
          /\ unseen' = [unseen EXCEPT ![s] = IF nextFunding[s] = 0 THEN ts ELSE @]
          /\ UNCHANGED <<lineup, tick, ahead, watermark, klines_vars, settled, fundingSeeded,
                         lastTrade, engine_vars, over>>

(* _funding_horizon: how far the funding source claims to be complete, and *)
(* whether it gave up on the settlement it was waiting for.                *)
GivesUp(s, through) ==
    /\ fundingDue[s] # NoSettlement /\ through < fundingDue[s].at
    /\ Wall - fundingDue[s].noticed > Grace

Awaits(s, through) ==
    fundingDue[s] # NoSettlement /\ through < fundingDue[s].at /\ ~ GivesUp(s, through)

Horizon(s, through) ==
    IF Awaits(s, through) THEN Min({Wall, fundingDue[s].at - 1})
    ELSE IF nextFunding[s] = 0 THEN 0
    ELSE Min({Wall, nextFunding[s] - 1})

(* One symbol's turn in _poll_funding: the last two rows; the first page   *)
(* only seeds.                                                             *)
PollFunding(s) ==
    \E a \in Instants :
      LET last == a \div FundingEvery
          rows == {f * FundingEvery : f \in {last - 1, last} \cap Nat} \ {0}
          fresh == {ts \in rows : ts > settled[s]}
          through == Max(rows \cup {settled[s]})
          horizon == Horizon(s, through)
          excuse == IF GivesUp(s, through) THEN fundingDue[s].at ELSE -1
      IN  /\ ~ over /\ s \in lineup.covers["funding"]
          /\ settled' = [settled EXCEPT ![s] = through]
          /\ fundingSeeded' = fundingSeeded \cup {s}
          /\ Offer({[stream |-> "funding", symbol |-> s, ts |-> ts] :
                        ts \in IF s \in fundingSeeded THEN fresh ELSE {}})
          /\ fundingDue' = IF Awaits(s, through) THEN fundingDue
                           ELSE [fundingDue EXCEPT ![s] = NoSettlement]
          /\ IF horizon = 0 THEN UNCHANGED report_vars
                            ELSE Report("funding", s, horizon, excuse)
          /\ UNCHANGED <<lineup, tick, ahead, watermark, klines_vars, mark_vars,
                         lastTrade, engine_vars, over>>

(* A trade from the socket, which keeps the order of one symbol's trades.  *)
TradeArrives ==
    \E ts \in Instants :
      /\ ~ over /\ lineup.trades /\ ts > lastTrade
      /\ lastTrade' = ts
      /\ Offer({[stream |-> "aggTrades", symbol |-> CHOOSE z \in Symbol : TRUE, ts |-> ts]})
      /\ UNCHANGED <<lineup, tick, ahead, report_vars, watermark, klines_vars, mark_vars,
                     funding_vars, engine_vars, over>>

-----------------------------------------------------------------------------
(* Release and dispatch.                                                   *)

IsSilent(p) == source[p].reported # 0 /\ Wall - source[p].reported > Stale[p]

Holds(p) == IF source[p].reported = 0 THEN Wall - Stale[p] ELSE source[p].through

Cutoff == Min({Wall - Window} \cup {Holds(p) : p \in {x \in Slow : lineup.covers[x] # {} /\ ~ IsSilent(x)}})

(* EventQueue.push and pop, as _drain_to_engine drives them: an event at   *)
(* or before the last one processed is refused; what the engine schedules  *)
(* waits until market data has reached its instant (a trade may make it    *)
(* schedule an order's arrival).                                           *)
Dispatch(out, horizon) ==
    \E extra \in {{}} \cup {{e.ts + Latency} : e \in {x \in out : x.stream = "aggTrades"}} :
      LET ready == {t \in timers \cup extra : t <= horizon}
      IN  /\ refused' = (refused \/ \E e \in out : e.ts <= clock)
          /\ clock' = Max({clock} \cup ready \cup {e.ts : e \in out})
          /\ timers' = (timers \cup extra) \ ready

(* One pass of PaperSession._pump and the tick it sleeps: what             *)
(* ReorderBuffer.release_records lets go is dispatched.  (An answer        *)
(* handled later in a tick is one that is a tick old in the next.)         *)
Pump ==
    LET w == Max({watermark, Cutoff})
        out == {e \in held : e.ts <= w}
    IN  /\ ~ over /\ tick < LastTick
        /\ tick' = tick + 1
        /\ watermark' = w
        /\ held' = held \ out
        /\ Dispatch(out, w)
        /\ excused' = [p \in Slow |-> IF IsSilent(p) \/ source[p].reported = 0
                                        THEN Max({excused[p], w}) ELSE excused[p]]
        /\ UNCHANGED <<lineup, ahead, cover, source, klines_vars, mark_vars,
                       funding_vars, lastTrade, over, wronged>>

(* PaperSession._end: the minutes in progress are flushed, the buffer      *)
(* drained, and everything scheduled runs.                                 *)
End ==
    LET flushed == {[stream |-> "markPrice", symbol |-> s, ts |-> CloseOf(bucket[s])] :
                        s \in {z \in Symbol : bucket[z] # -1}}
        out == held \cup {e \in flushed : ~ IsLate(e)}
    IN  /\ ~ over /\ over' = TRUE
        /\ held' = {}
        /\ watermark' = Max({watermark} \cup {e.ts : e \in out})
        /\ wronged' = wronged \cup {e.stream : e \in {x \in flushed :
                                        IsLate(x) /\ x.ts > excused["markPrice"]}}
        /\ refused' = (refused \/ \E e \in out : e.ts <= clock)
        /\ clock' = Max({clock} \cup timers \cup {e.ts : e \in out})
        /\ timers' = {}
        /\ UNCHANGED <<lineup, tick, ahead, report_vars, klines_vars, mark_vars,
                       funding_vars, lastTrade>>

FeedNext ==
    \/ StepBack \/ TradeArrives \/ Pump \/ End
    \/ \E s \in Symbol : PollKlines(s) \/ MarkSample(s) \/ PollFunding(s)

FeedSpec == FeedInit /\ [][FeedNext]_feed_vars

-----------------------------------------------------------------------------
(* A bar, a minute of marks or a settlement is dropped as late only where  *)
(* the watermark passed it while its source (or one of its symbols) was    *)
(* presumed silent (SLOW_SOURCES, ReorderBuffer.expect).                   *)
(* And the engine's queue refuses nothing the buffer releases: neither a   *)
(* clock stepped back nor an order scheduled ahead lets the engine run     *)
(* past what is still to come (_drain_to_engine, EventQueue.push).         *)
LateMeansSilent == wronged = {}
NothingRefused  == ~ refused
NothingIsLost   == LateMeansSilent /\ NothingRefused

(* The mark stream says that a settlement has passed, within the silence   *)
(* that is allowed to it.                                                  *)
SettlementsAnnounced == \A s \in lineup.covers["funding"] :
    /\ Wall - nextFunding[s] <= Stale["markPrice"] + Delay \/ nextFunding[s] = 0
    /\ fundingDue[s].noticed - fundingDue[s].at <= Stale["markPrice"] + Delay

(* Two silences (a symbol's, then its source's), an old answer that ends   *)
(* with a bar, a clock ahead; and of a settlement, the silence it was      *)
(* announced in and the wait for its row.                                  *)
Lag(p) == 2 * Stale[p] + Delay + 1 + lineup.ahead
          + (IF p = "funding" THEN Stale["markPrice"] + Grace ELSE 0)

MaxLag == Max({Window} \cup {Lag(p) : p \in {x \in Slow : lineup.covers[x] # {}}})

(* While settlements are announced, no source that stops holds the engine  *)
(* back for longer than its bound (ReorderBuffer.expect).                  *)
NotFrozen == [][Pump /\ SettlementsAnnounced => watermark' >= Wall - MaxLag]_feed_vars

(* The same, whatever stops: what ReorderBuffer.expect promises of any     *)
(* source (live/feed.py:598 and engine/reorder.py:297).                    *)
NeverFrozen == [][Pump => watermark' >= Wall - MaxLag]_feed_vars
=============================================================================
