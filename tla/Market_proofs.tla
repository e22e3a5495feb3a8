---------------------------- MODULE Market_proofs ----------------------------
(***************************************************************************)
(* Proofs about the lake, for any days, any number of fetching threads and *)
(* any weather: the collector's rows, the archives of the ingests, and     *)
(* what keeps them apart.                                                  *)
(***************************************************************************)
EXTENDS Lake, Feed, NaturalsInduction, WellFoundedInduction, TLAPS

-----------------------------------------------------------------------------
(* The least and the greatest of a bounded set of integers.                *)

LEMMA LeastNatural ==
    ASSUME NEW S \in SUBSET Nat, S # {}
    PROVE  \E x \in S : \A y \in S : x <= y
<1>1. PICK x \in S : \A y \in S : ~(<<y, x>> \in OpToRel(<, Nat))
  BY NatLessThanWellFounded, WFMin
<1>2. \A y \in S : x <= y
  <2> SUFFICES ASSUME NEW y \in S PROVE x <= y
    OBVIOUS
  <2>1. <<y, x>> \in Nat \X Nat /\ x \in Nat /\ y \in Nat
    OBVIOUS
  <2>2. ~(y < x)
    BY <1>1, <2>1 DEF OpToRel
  <2> QED  BY <2>1, <2>2
<1> QED  BY <1>2

LEMMA LeastOf ==
    ASSUME NEW S \in SUBSET Int, S # {}, NEW a \in Int, \A x \in S : a <= x
    PROVE  Min(S) \in S /\ \A x \in S : Min(S) <= x
<1> DEFINE T == {x - a : x \in S}
<1>1. T \in SUBSET Nat /\ T # {}
  <2>1. \A x \in S : x \in Int /\ a <= x
    OBVIOUS
  <2>2. \A x \in S : x - a \in Nat
    BY <2>1
  <2>3. T # {}
    OBVIOUS
  <2> QED  BY <2>2, <2>3
<1>2. PICK t \in T : \A u \in T : t <= u
  <2> HIDE DEF T
  <2> QED  BY <1>1, LeastNatural
<1>3. PICK m \in S : t = m - a
  BY <1>2
<1>4. \A x \in S : m <= x
  <2> SUFFICES ASSUME NEW x \in S PROVE m <= x
    OBVIOUS
  <2>1. x - a \in T
    OBVIOUS
  <2>2. t <= x - a
    <3> HIDE DEF T
    <3> QED  BY <2>1, <1>2
  <2>3. m \in Int /\ x \in Int
    OBVIOUS
  <2> HIDE DEF T
  <2> QED  BY <2>2, <2>3, <1>3
<1> QED  BY <1>3, <1>4 DEF Min

LEMMA GreatestOf ==
    ASSUME NEW S \in SUBSET Int, S # {}, NEW b \in Int, \A x \in S : x <= b
    PROVE  Max(S) \in S /\ \A x \in S : x <= Max(S)
<1> DEFINE T == {b - x : x \in S}
<1>1. T \in SUBSET Nat /\ T # {}
  <2>1. \A x \in S : x \in Int /\ x <= b
    OBVIOUS
  <2>2. \A x \in S : b - x \in Nat
    BY <2>1
  <2>3. T # {}
    OBVIOUS
  <2> QED  BY <2>2, <2>3
<1>2. PICK t \in T : \A u \in T : t <= u
  <2> HIDE DEF T
  <2> QED  BY <1>1, LeastNatural
<1>3. PICK m \in S : t = b - m
  BY <1>2
<1>4. \A x \in S : x <= m
  <2> SUFFICES ASSUME NEW x \in S PROVE x <= m
    OBVIOUS
  <2>1. b - x \in T
    OBVIOUS
  <2>2. t <= b - x
    <3> HIDE DEF T
    <3> QED  BY <2>1, <1>2
  <2>3. m \in Int /\ x \in Int
    OBVIOUS
  <2> HIDE DEF T
  <2> QED  BY <2>2, <2>3, <1>3
<1> QED  BY <1>3, <1>4 DEF Max

-----------------------------------------------------------------------------
(* The ingests.  A period is one thread's: it is queued once, and taken    *)
(* off the queue by who works on it; so the file a receipt is about to be  *)
(* written for is the one its thread renamed, and the receipt's size is    *)
(* that of the version it is about.                                        *)

Working(f) == step[f] # "free"

OneThreadEach ==
    \A f \in Fetcher : Working(f) =>
        /\ at[f] \notin todo
        /\ \A g \in Fetcher \ {f} : Working(g) => at[g] # at[f]

NoJobNoWork == job = "none" => todo = {} /\ \A f \in Fetcher : ~Working(f)

WrittenIsThere == \A f \in Fetcher : step[f] = "written" => file[at[f]] = got[f]

IngestInv ==
    /\ Bulk!BTypeOK
    /\ OneThreadEach /\ NoJobNoWork /\ WrittenIsThere
    /\ bytes = receipt

(* The queue of a thread is not empty when it takes from it.               *)
LEMMA FirstOfQueue ==
    ASSUME NEW S \in SUBSET Days, S # {}
    PROVE  Bulk!Min(S) \in S
<1>1. Days \subseteq Int /\ \A d \in Days : Min(Days) <= d
  BY LakeAssumption
<1>2. Min(S) \in S
  BY <1>1, LakeAssumption, LeastOf
<1> QED  BY <1>2 DEF Min, Bulk!Min

LEMMA IngestInit == Init => IngestInv
<1> SUFFICES ASSUME Init PROVE IngestInv
  OBVIOUS
<1>1. Bulk!Max(Days) \in Days
  BY LakeAssumption DEF Max, Bulk!Max
<1>2. Bulk!BTypeOK
  BY <1>1, LakeAssumption
     DEF Init, Bulk!BInit, Bulk!BTypeOK, Bulk!Zero, Bulk!Versions
<1>3. OneThreadEach /\ NoJobNoWork /\ WrittenIsThere /\ bytes = receipt
  BY DEF Init, Bulk!BInit, Bulk!Zero, OneThreadEach, NoJobNoWork, WrittenIsThere, Working
<1> QED  BY <1>2, <1>3 DEF IngestInv

(* What a thread does to its own period.                                   *)
LEMMA ThreadKeeps ==
    ASSUME IngestInv, NEW f \in Fetcher, Bulk!Thread(f)
    PROVE  IngestInv'
<1> USE DEF IngestInv, Bulk!BTypeOK
<1> at[f] \in Days /\ got[f] \in Bulk!Versions
  OBVIOUS
<1>1. CASE Bulk!Take(f)
  <2>1. Bulk!Min(todo) \in todo
    BY <1>1, FirstOfQueue DEF Bulk!Take
  <2>2. Bulk!BTypeOK'
    BY <1>1, <2>1 DEF Bulk!Take, Bulk!lake
  <2>3. OneThreadEach'
    BY <1>1, <2>1 DEF Bulk!Take, OneThreadEach, Working
  <2>4. NoJobNoWork' /\ WrittenIsThere' /\ (bytes = receipt)'
    BY <1>1 DEF Bulk!Take, Bulk!lake, NoJobNoWork, WrittenIsThere, Working
  <2> QED  BY <2>2, <2>3, <2>4
<1>2. ASSUME NEW what \in {"none", "missing", "malformed", "failed"}, Bulk!Ends(f, what),
             step[f] # "free", UNCHANGED file,
             bytes' = receipt', bytes' \in [Days -> Bulk!Versions]
      PROVE  IngestInv'
  <2>1. Bulk!BTypeOK'
    BY <1>2 DEF Bulk!Ends
  <2>2. OneThreadEach'
    BY <1>2 DEF Bulk!Ends, OneThreadEach, Working
  <2>3. NoJobNoWork' /\ WrittenIsThere'
    BY <1>2 DEF Bulk!Ends, NoJobNoWork, WrittenIsThere, Working
  <2> QED  BY <2>1, <2>2, <2>3, <1>2
<1>3. CASE Bulk!Declined(f) \/ Bulk!Missing(f) \/ Bulk!Flaky(f) \/ Bulk!Malformed(f)
  <2>1. /\ step[f] # "free" /\ UNCHANGED Bulk!lake
        /\ \E what \in {"none", "missing", "malformed", "failed"} : Bulk!Ends(f, what)
    BY <1>3 DEF Bulk!Declined, Bulk!Missing, Bulk!Flaky, Bulk!Malformed, Bulk!Wanted
  <2> QED  BY <2>1, <1>2 DEF Bulk!lake
<1>4. CASE Bulk!Download(f)
  <2>1. venue[at[f]] \in Bulk!Versions
    OBVIOUS
  <2>2. Bulk!BTypeOK'
    BY <1>4, <2>1 DEF Bulk!Download, Bulk!lake
  <2>3. OneThreadEach' /\ NoJobNoWork' /\ WrittenIsThere' /\ (bytes = receipt)'
    BY <1>4 DEF Bulk!Download, Bulk!Wanted, Bulk!lake, OneThreadEach, NoJobNoWork,
                WrittenIsThere, Working
  <2> QED  BY <2>2, <2>3
<1>5. CASE Bulk!WriteArchive(f)
  <2>1. Bulk!BTypeOK'
    BY <1>5 DEF Bulk!WriteArchive
  <2>2. OneThreadEach' /\ NoJobNoWork' /\ (bytes = receipt)'
    BY <1>5 DEF Bulk!WriteArchive, OneThreadEach, NoJobNoWork, Working
  <2>3. WrittenIsThere'
    <3>1. ASSUME NEW g \in Fetcher \ {f}, step[g] = "written" PROVE at[g] # at[f]
      BY <1>5, <3>1 DEF Bulk!WriteArchive, OneThreadEach, Working
    <3> QED  BY <1>5, <3>1 DEF Bulk!WriteArchive, WrittenIsThere
  <2> QED  BY <2>1, <2>2, <2>3
<1>6. CASE Bulk!WriteReceipt(f)
  <2>1. file[at[f]] = got[f]
    BY <1>6 DEF Bulk!WriteReceipt, WrittenIsThere
  <2>2. bytes' = receipt' /\ bytes' \in [Days -> Bulk!Versions]
    BY <1>6, <2>1 DEF Bulk!WriteReceipt
  <2> QED  BY <1>2, <1>6, <2>2 DEF Bulk!WriteReceipt
<1> QED  BY <1>1, <1>3, <1>4, <1>5, <1>6 DEF Bulk!Thread

LEMMA IngestNext == IngestInv /\ [Bulk!BNext]_bulk_vars => IngestInv'
<1> SUFFICES ASSUME IngestInv, [Bulk!BNext]_bulk_vars PROVE IngestInv'
  OBVIOUS
<1> USE DEF IngestInv, Bulk!BTypeOK
<1> DEFINE Threads == OneThreadEach /\ NoJobNoWork /\ WrittenIsThere
<1>1. ASSUME UNCHANGED <<Bulk!lake, Bulk!job_vars>>, Bulk!BTypeOK' PROVE IngestInv'
  BY <1>1 DEF Bulk!lake, Bulk!job_vars, OneThreadEach, NoJobNoWork, WrittenIsThere, Working
<1>2. ASSUME NEW p \in Days, Bulk!Publish(p) \/ Bulk!Replace(p) PROVE IngestInv'
  <2>1. Bulk!BTypeOK'
    BY <1>2 DEF Bulk!Publish, Bulk!Replace, Bulk!lake, Bulk!job_vars, Bulk!Versions
  <2>2. UNCHANGED <<Bulk!lake, Bulk!job_vars>>
    BY <1>2 DEF Bulk!Publish, Bulk!Replace
  <2> QED  BY <1>1, <2>1, <2>2
<1>3. CASE Bulk!Settle
  <2>1. sure' \in [file : [Days -> Bulk!Versions], receipt : [Days -> Bulk!Versions]]
    BY <1>3 DEF Bulk!Settle
  <2>2. Bulk!BTypeOK'
    BY <1>3, <2>1 DEF Bulk!Settle, Bulk!lake, Bulk!job_vars
  <2> QED  BY <1>1, <1>3, <2>2 DEF Bulk!Settle
<1>4. CASE Bulk!Refresh \/ \E p \in Days : Bulk!Force(p)
  <2>1. /\ job = "none" /\ job' \in {"refresh", "force"} /\ todo' \subseteq Days
        /\ outcome' = [p \in Days |-> "none"]
        /\ UNCHANGED <<venue, Bulk!lake, sure, barren, step, at, got, faults>>
    BY <1>4 DEF Bulk!Refresh, Bulk!Force
  <2>2. \A f \in Fetcher : step[f] = "free"
    BY <2>1 DEF NoJobNoWork, Working
  <2>3. Bulk!BTypeOK'
    BY <2>1 DEF Bulk!lake
  <2>4. Threads' /\ (bytes = receipt)'
    BY <2>1, <2>2 DEF Bulk!lake, OneThreadEach, NoJobNoWork, WrittenIsThere, Working
  <2> QED  BY <2>3, <2>4
<1>5. CASE Bulk!Halt
  <2>1. faults' \in 0 .. MaxFaults
    BY <1>5, LakeAssumption DEF Bulk!Halt, Bulk!Meets
  <2>2. Bulk!BTypeOK'
    BY <1>5, <2>1 DEF Bulk!Halt, Bulk!lake
  <2>3. Threads' /\ (bytes = receipt)'
    BY <1>5 DEF Bulk!Halt, Bulk!lake, OneThreadEach, NoJobNoWork, WrittenIsThere, Working
  <2> QED  BY <2>2, <2>3
<1>6. ASSUME NEW f \in Fetcher, Bulk!Thread(f) PROVE IngestInv'
  BY <1>6, ThreadKeeps
<1>7. CASE Bulk!Finish
  <2>1. barren' \subseteq Days
    BY <1>7 DEF Bulk!Finish, Bulk!Unfetchable
  <2>2. Bulk!BTypeOK'
    BY <1>7, <2>1 DEF Bulk!Finish, Bulk!lake
  <2>3. Threads' /\ (bytes = receipt)'
    BY <1>7 DEF Bulk!Finish, Bulk!lake, OneThreadEach, NoJobNoWork, WrittenIsThere, Working
  <2> QED  BY <2>2, <2>3
<1>8. ASSUME Bulk!Reset, faults' \in 0 .. MaxFaults, UNCHANGED sure,
             file' \in [Days -> Bulk!Versions], receipt' \in [Days -> Bulk!Versions],
             bytes' = receipt'
      PROVE  IngestInv'
  <2>1. Bulk!BTypeOK'
    BY <1>8 DEF Bulk!Reset
  <2>2. Threads'
    BY <1>8 DEF Bulk!Reset, OneThreadEach, NoJobNoWork, WrittenIsThere, Working
  <2> QED  BY <1>8, <2>1, <2>2
<1>9. CASE Bulk!Killed
  <2>1. faults' \in 0 .. MaxFaults
    BY <1>9, LakeAssumption DEF Bulk!Killed, Bulk!Meets
  <2> QED  BY <1>8, <1>9, <2>1 DEF Bulk!Killed, Bulk!lake
<1>10. CASE Bulk!PowerCut
  <2>1. faults' \in 0 .. MaxFaults
    BY <1>10, LakeAssumption DEF Bulk!PowerCut, Bulk!Meets
  <2>2. file' \in [Days -> Bulk!Versions] /\ receipt' \in [Days -> Bulk!Versions]
    BY <1>10 DEF Bulk!PowerCut
  <2>3. bytes' = receipt'
    <3>1. bytes' = [p \in Days |-> IF receipt'[p] = receipt[p] THEN bytes[p] ELSE receipt'[p]]
      BY <1>10 DEF Bulk!PowerCut
    <3>2. \A p \in Days : bytes'[p] = receipt'[p]
      BY <3>1
    <3> QED  BY <3>1, <3>2, <2>2
  <2> QED  BY <1>8, <1>10, <2>1, <2>2, <2>3 DEF Bulk!PowerCut
<1>11. CASE UNCHANGED bulk_vars
  <2>1. Bulk!BTypeOK'
    BY <1>11 DEF bulk_vars
  <2> QED  BY <1>1, <1>11, <2>1 DEF bulk_vars, Bulk!lake, Bulk!job_vars
<1> QED
  BY <1>2, <1>3, <1>4, <1>5, <1>6, <1>7, <1>9, <1>10, <1>11 DEF Bulk!BNext, Bulk!Proceeds

(* What the planner takes for ingested is whole, and is the archive its    *)
(* receipt is about, for any days and threads, through crashes, power cuts *)
(* and forced ingests (is_ingested, the order in ingest_archive).          *)
THEOREM ReceiptMeansWholeHolds == Spec => []ReceiptMeansWhole
<1>1. IngestInv => ReceiptMeansWhole
  BY DEF IngestInv, ReceiptMeansWhole, Bulk!ReceiptMeansWhole, Bulk!Ingested
<1>2. [Next]_vars => [Bulk!BNext]_bulk_vars
  BY DEF Next, Collects, Ingests, vars
<1>3. IngestInv /\ [Next]_vars => IngestInv'
  BY <1>2, IngestNext
<1> QED  BY <1>1, <1>3, IngestInit, PTL DEF Spec

-----------------------------------------------------------------------------
(* The collector.  Its types need what is true of its rows: the poller     *)
(* starts from the newest row on disk.                                     *)

FlagsOK ==
    /\ {up, ever, reported, flushing, closing, due} \subseteq BOOLEAN
    /\ flushing => up

ClocksOK ==
    /\ now \in Time /\ weather \in Weather /\ met \in 0 .. weather.most
    /\ wire \in {"down", "up", "half", "mute"}
    /\ lostAt \in 0 .. now /\ seenAt \in 0 .. now /\ state \in 0 .. now
    /\ flushed \in [Writer -> 0 .. now]

EventsOK == buf["events"] \subseteq Events /\ log \subseteq Events

DiedOK == died \in [book : SUBSET (0 .. now), events : SUBSET Events, unseen : SUBSET (0 .. now)]

(* A row is in the buffer or on disk, never in both, and on disk once; the *)
(* poller has seen every mark there is.                                    *)
RowsOK ==
    /\ DOMAIN buf = Writer /\ markAt \in 0 .. now
    /\ disk \in [Stream -> [Time -> 0 .. 1]]
    /\ \A s \in Stream : \A t \in buf[s] : t \in 0 .. now /\ disk[s][t] = 0
    /\ \A s \in Stream, t \in Time : disk[s][t] = 1 => t <= now
    /\ up => \A t \in Time : t \in buf["mark"] \/ disk["mark"][t] = 1 => t <= markAt

CollectorInv == FlagsOK /\ ClocksOK /\ EventsOK /\ RowsOK /\ DiedOK

LEMMA CollectorInvMeans == CollectorInv => CTypeOK /\ RowsOnce
<1> SUFFICES ASSUME CollectorInv PROVE CTypeOK /\ RowsOnce
  OBVIOUS
<1> USE DEF CollectorInv, FlagsOK, ClocksOK, EventsOK, RowsOK, DiedOK
<1>1. disk \in [Stream -> [Time -> 0 .. 2]] /\ RowsOnce
  BY DEF RowsOnce
<1>2. /\ \A s \in Stream : buf[s] \subseteq 0 .. now
      /\ {lostAt, seenAt, markAt, state} \subseteq 0 .. now
  OBVIOUS
<1> QED  BY <1>1, <1>2 DEF CTypeOK

LEMMA CollectorInit == Init => CollectorInv
<1> SUFFICES ASSUME Init PROVE CollectorInv
  OBVIOUS
<1>0. weather \in Weather
  BY LakeAssumption DEF Init
<1>1. FlagsOK
  BY DEF Init, CInit, FlagsOK
<1>2. ClocksOK
  BY <1>0, CollectorAssumption DEF Init, CInit, ClocksOK, Time
<1>3. EventsOK
  BY DEF Init, CInit, EventsOK, Writer
<1>4. RowsOK
  BY CollectorAssumption DEF Init, CInit, RowsOK, Writer, Stream, Time
<1>5. DiedOK
  BY DEF Init, CInit, DiedOK
<1> QED  BY <1>1, <1>2, <1>3, <1>4, <1>5 DEF CollectorInv

LEMMA FlagsNext == FlagsOK /\ [CNext]_cvars => FlagsOK'
<1> SUFFICES ASSUME FlagsOK, [CNext]_cvars PROVE FlagsOK'
  OBVIOUS
<1> USE DEF FlagsOK
<1>1. CASE Start \/ Crash \/ Stop
  BY <1>1, Zenon DEF Start, Crash, Stop, Die, wire_vars
<1>2. CASE Connect \/ Lose \/ Silent("half") \/ Silent("mute") \/ Resume \/ Poll
  BY <1>2, Zenon DEF Connect, Lose, Silent, Resume, Poll, held_vars, wire_vars
<1>3. CASE Beat
  <2>1. reported' \in BOOLEAN
    BY <1>3 DEF Beat
  <2> QED  BY <1>3, <2>1, Zenon DEF Beat
<1>4. CASE Flush
  <2>1. CASE WriteState
    <3>1. up' \in BOOLEAN
      BY <2>1 DEF WriteState
    <3> QED  BY <2>1, <3>1, Zenon DEF WriteState
  <2>2. ASSUME NEW w \in Stream, WritePart(w) PROVE FlagsOK'
    BY <2>2, Zenon DEF WritePart, wire_vars
  <2>3. CASE WriteEvents
    BY <2>3, Zenon DEF WriteEvents, wire_vars
  <2>4. CASE CannotWrite
    <3>1. CASE Die
      BY <2>4, <3>1, Zenon DEF CannotWrite, Die
    <3>2. CASE flushing' = FALSE /\ UNCHANGED <<up, closing, due>>
      BY <2>4, <3>2, Zenon DEF CannotWrite
    <3> QED  BY <2>4, <3>1, <3>2 DEF CannotWrite
  <2> QED  BY <1>4, <2>1, <2>2, <2>3, <2>4 DEF Flush
<1>5. CASE Tick
  BY <1>5, Zenon DEF Tick
<1>6. CASE UNCHANGED cvars
  BY <1>6, Zenon DEF cvars, held_vars, wire_vars
<1> QED  BY <1>1, <1>2, <1>3, <1>4, <1>5, <1>6 DEF CNext

LEMMA ClocksNext == ClocksOK /\ [CNext]_cvars => ClocksOK'
<1> SUFFICES ASSUME ClocksOK, [CNext]_cvars PROVE ClocksOK'
  OBVIOUS
<1> USE DEF ClocksOK, Time
<1>0. weather.most \in Nat /\ MaxTime \in Nat
  BY CollectorAssumption
<1>1. ASSUME NEW kind, Meets(kind), UNCHANGED weather PROVE met' \in 0 .. weather'.most
  BY <1>0, <1>1 DEF Meets
<1>2. CASE Start
  BY <1>2, <1>0 DEF Start, lake_vars, past_vars
<1>3. CASE Crash
  BY <1>3, <1>0, <1>1 DEF Crash, Die, lake_vars
<1>4. CASE Stop
  BY <1>4, <1>0, <1>1 DEF Stop, wire_vars, lake_vars
<1>5. CASE Connect
  BY <1>5, <1>0 DEF Connect, lake_vars, past_vars
<1>6. CASE Lose
  <2>1. met' \in 0 .. weather'.most
    BY <1>6, <1>1 DEF Lose
  <2> QED  BY <1>6, <1>0, <2>1 DEF Lose, lake_vars
<1>7. CASE Silent("half") \/ Silent("mute")
  BY <1>7, <1>0, <1>1 DEF Silent, lake_vars, held_vars
<1>8. CASE Resume
  BY <1>8, <1>0 DEF Resume, Arrive, lake_vars, past_vars
<1>9. CASE Poll \/ Beat
  BY <1>9, <1>0 DEF Poll, Beat, wire_vars, lake_vars, past_vars
<1>10. CASE Flush
  <2>0. ASSUME NEW w \in Writer PROVE [flushed EXCEPT ![w] = now] \in [Writer -> 0 .. now]
    BY <1>0
  <2>1. ASSUME NEW w \in Stream, WritePart(w) PROVE ClocksOK'
    <3>1. flushed' \in {flushed, [flushed EXCEPT ![w] = now]}
      BY <2>1 DEF WritePart
    <3>2. flushed' \in [Writer -> 0 .. now]
      BY <3>1, <2>0 DEF Writer
    <3> QED  BY <2>1, <3>2 DEF WritePart, wire_vars, past_vars
  <2>2. CASE WriteEvents
    <3>1. flushed' \in [Writer -> 0 .. now]
      BY <2>2, <2>0 DEF WriteEvents, Writer
    <3> QED  BY <2>2, <3>1 DEF WriteEvents, wire_vars, past_vars
  <2>3. CASE CannotWrite
    <3>1. met' \in 0 .. weather'.most
      BY <2>3, <1>1 DEF CannotWrite
    <3>2. wire' \in {wire, "down"}
      BY <2>3 DEF CannotWrite, Die
    <3>3. UNCHANGED <<now, weather, lostAt, seenAt, state, flushed>>
      BY <2>3 DEF CannotWrite, lake_vars
    <3> QED  BY <3>1, <3>2, <3>3, <1>0
  <2>4. CASE WriteState
    BY <2>4, <1>0 DEF WriteState, past_vars
  <2> QED  BY <1>10, <2>1, <2>2, <2>3, <2>4 DEF Flush
<1>11. CASE Tick
  <2>1. now' \in Time /\ 0 .. now \subseteq 0 .. now' /\ now' \in 0 .. now'
    BY <1>11, <1>0 DEF Tick
  <2>2. UNCHANGED <<wire, lostAt, flushed, state, weather, met>>
    BY <1>11 DEF Tick, lake_vars, past_vars
  <2>3. seenAt' \in 0 .. now'
    BY <1>11, <2>1 DEF Tick
  <2>4. flushed' \in [Writer -> 0 .. now']
    BY <2>1, <2>2
  <2> QED  BY <2>1, <2>2, <2>3, <2>4
<1>12. CASE UNCHANGED cvars
  BY <1>12 DEF cvars, held_vars, wire_vars, lake_vars, past_vars
<1> QED
  BY <1>2, <1>3, <1>4, <1>5, <1>6, <1>7, <1>8, <1>9, <1>10, <1>11, <1>12 DEF CNext

LEMMA EventsNext == ClocksOK /\ RowsOK /\ EventsOK /\ [CNext]_cvars => EventsOK'
<1> SUFFICES ASSUME ClocksOK, RowsOK, EventsOK, [CNext]_cvars PROVE EventsOK'
  OBVIOUS
<1>0. ASSUME NEW kind \in Kind, NEW stream \in {"collector", "book"}, NEW from \in 0 .. now
      PROVE  Event(kind, stream, from) \in Events
  BY <1>0, CollectorAssumption DEF Event, Events, ClocksOK, Time
<1>1. /\ DOMAIN buf = Writer /\ "events" \in Writer /\ "book" \in Writer /\ "mark" \in Writer
      /\ now \in 0 .. now /\ lostAt \in 0 .. now /\ seenAt \in 0 .. now /\ state \in 0 .. now
  BY CollectorAssumption DEF RowsOK, ClocksOK, Writer, Stream, Time
<1> HIDE DEF Events
<1>2. CASE Start
  <2>1. PICK event \in Events : buf' = [w \in Writer |-> IF w = "events" THEN {event} ELSE {}]
    BY <1>2, <1>0, <1>1 DEF Start, Kind
  <2> QED  BY <1>2, <1>1, <2>1 DEF Start, EventsOK, lake_vars
<1>3. CASE Crash \/ (CannotWrite /\ closing)
  BY <1>3, <1>1 DEF Crash, CannotWrite, Die, EventsOK, lake_vars
<1>4. CASE Stop \/ Lose \/ Beat \/ (CannotWrite /\ ~closing)
  <2>1. UNCHANGED buf \/ \E event \in Events : buf' = [buf EXCEPT !["events"] = @ \cup {event}]
    <3>1. CASE Stop
      BY <3>1, <1>0, <1>1 DEF Stop, Add, Kind
    <3>2. CASE Lose
      BY <3>2, <1>0, <1>1 DEF Lose, Add, Kind
    <3>3. CASE Beat
      BY <3>3, <1>0, <1>1 DEF Beat, Add, Kind
    <3>4. CASE CannotWrite /\ ~closing
      BY <3>4, <1>0, <1>1 DEF CannotWrite, Add, Kind
    <3> QED  BY <1>4, <3>1, <3>2, <3>3, <3>4
  <2>2. UNCHANGED log
    BY <1>4 DEF Stop, Lose, Beat, CannotWrite, lake_vars
  <2> QED  BY <1>1, <2>1, <2>2 DEF EventsOK
<1>5. CASE Connect
  <2>1. PICK event \in Events :
            buf' = [buf EXCEPT !["events"] = @ \cup {event},
                               !["book"] = IF disk["book"][now] > 0 THEN @ ELSE @ \cup {now}]
    BY <1>5, <1>0, <1>1 DEF Connect, Kind
  <2> QED  BY <1>5, <1>1, <2>1 DEF Connect, EventsOK, lake_vars
<1>6. CASE Silent("half") \/ Silent("mute") \/ Resume \/ Poll \/ WriteState
  BY <1>6, <1>1 DEF Silent, Resume, Arrive, Poll, Add, WriteState, EventsOK, lake_vars, held_vars
<1>7. ASSUME NEW w \in Stream, WritePart(w) PROVE EventsOK'
  BY <1>7, <1>1 DEF WritePart, Stream, EventsOK
<1>8. CASE WriteEvents
  BY <1>8, <1>1 DEF WriteEvents, EventsOK
<1>9. CASE Tick
  BY <1>9, <1>1 DEF Tick, EventsOK, lake_vars
<1>10. CASE UNCHANGED cvars
  BY <1>10 DEF cvars, held_vars, lake_vars, EventsOK
<1> QED
  BY <1>2, <1>3, <1>4, <1>5, <1>6, <1>7, <1>8, <1>9, <1>10 DEF CNext, Flush

(* Rows the socket brings within a beat; what is lost is lost.             *)
LEMMA RowsArrive ==
    ASSUME ClocksOK, RowsOK, UNCHANGED <<now, disk, markAt>>, up' => up,
           DOMAIN buf' = Writer, buf'["mark"] \subseteq buf["mark"],
           buf'["book"] \subseteq buf["book"] \cup (IF disk["book"][now] = 0 THEN {now} ELSE {})
    PROVE  RowsOK'
<1> USE DEF RowsOK
<1>0. now \in 0 .. now
  BY CollectorAssumption DEF ClocksOK, Time
<1>1. \A s \in Stream : \A t \in buf'[s] : t \in 0 .. now /\ disk[s][t] = 0
  BY <1>0 DEF Stream
<1>2. \A t \in Time : t \in buf'["mark"] \/ disk["mark"][t] = 1
                         => t \in buf["mark"] \/ disk["mark"][t] = 1
  OBVIOUS
<1> QED  BY <1>1, <1>2

LEMMA StartRows ==
    ASSUME ClocksOK, RowsOK, Start
    PROVE  RowsOK'
<1> USE DEF RowsOK
<1>0. MaxTime \in Nat /\ now \in 0 .. now
  BY CollectorAssumption DEF ClocksOK, Time
<1>1. /\ DOMAIN buf' = Writer /\ \A s \in Stream : buf'[s] = {}
      /\ UNCHANGED <<now, disk>> /\ markAt' = ResumeFrom
  BY DEF Start, lake_vars, Writer, Stream
<1>2. \A t \in Recorded : t \in 0 .. now
  BY <1>0 DEF Recorded, Time, Stream
<1>3. CASE Recorded = {}
  <2>1. markAt' = 0 /\ \A t \in Time : disk["mark"][t] # 1
    BY <1>1, <1>3 DEF Recorded, ResumeFrom, Stream
  <2> QED  BY <1>0, <1>1, <2>1 DEF Stream
<1>4. CASE Recorded # {}
  <2>1. Max(Recorded) \in Recorded /\ \A t \in Recorded : t <= Max(Recorded)
    <3>1. Recorded \in SUBSET Int /\ now \in Int /\ \A t \in Recorded : t <= now
      BY <1>0, <1>2 DEF Recorded, Time, ClocksOK
    <3> QED  BY <3>1, <1>4, GreatestOf
  <2>2. markAt' \in 0 .. now /\ \A t \in Recorded : t <= markAt'
    BY <1>1, <1>2, <1>4, <2>1 DEF ResumeFrom
  <2>3. \A t \in Time : disk["mark"][t] = 1 => t \in Recorded
    BY DEF Recorded, Stream
  <2> QED  BY <1>1, <2>2, <2>3 DEF Stream
<1> QED  BY <1>3, <1>4

LEMMA PollRows ==
    ASSUME ClocksOK, RowsOK, Poll
    PROVE  RowsOK'
<1> USE DEF RowsOK
<1>0. MaxTime \in Nat /\ now \in 0 .. now /\ now \in Time
  BY CollectorAssumption DEF ClocksOK, Time
<1>1. disk["mark"][now] = 0
  BY <1>0 DEF Poll, Stream, ClocksOK
<1>2. /\ UNCHANGED <<now, disk>> /\ markAt' = now /\ now > markAt /\ up
      /\ DOMAIN buf' = Writer /\ buf'["mark"] = buf["mark"] \cup {now}
      /\ buf'["book"] = buf["book"]
  BY DEF Poll, Add, lake_vars, Writer, Stream
<1>3. \A s \in Stream : \A t \in buf'[s] : t \in 0 .. now /\ disk[s][t] = 0
  BY <1>0, <1>1, <1>2 DEF Stream
<1>4. \A t \in Time : t \in buf'["mark"] \/ disk["mark"][t] = 1 => t <= now
  BY <1>0, <1>2 DEF Stream
<1> QED  BY <1>0, <1>2, <1>3, <1>4

LEMMA WriteRows ==
    ASSUME ClocksOK, RowsOK, NEW w \in Stream, WritePart(w)
    PROVE  RowsOK'
<1> USE DEF RowsOK
<1>0. MaxTime \in Nat /\ 0 .. now \subseteq Time
  BY CollectorAssumption DEF ClocksOK, Time
<1>1. First(w) \subseteq buf[w] /\ w \in Writer
  BY DEF First, Writer
<1>2. /\ disk' = [disk EXCEPT ![w] =
                    [t \in Time |-> IF t \in First(w) THEN disk[w][t] + 1 ELSE disk[w][t]]]
      /\ buf' = [buf EXCEPT ![w] = buf[w] \ First(w)]
      /\ UNCHANGED <<now, up, markAt>>
  BY DEF WritePart
<1> HIDE DEF First
<1>3. DOMAIN buf' = Writer /\ \A s \in Stream : buf'[s] \subseteq buf[s]
  BY <1>1, <1>2 DEF Writer
<1>4. \A t \in Time : disk'[w][t] = IF t \in First(w) THEN 1 ELSE disk[w][t]
  BY <1>1, <1>2
<1>5. \A s \in Stream \ {w} : disk'[s] = disk[s]
  BY <1>2
<1>6. disk' \in [Stream -> [Time -> 0 .. 1]]
  <2>1. [t \in Time |-> IF t \in First(w) THEN disk[w][t] + 1 ELSE disk[w][t]]
            \in [Time -> 0 .. 1]
    BY <1>1
  <2> QED  BY <1>2, <2>1
<1>7. \A s \in Stream : \A t \in buf'[s] : t \in 0 .. now /\ disk'[s][t] = 0
  <2> SUFFICES ASSUME NEW s \in Stream, NEW t \in buf'[s]
               PROVE  t \in 0 .. now /\ disk'[s][t] = 0
    OBVIOUS
  <2>1. t \in buf[s] /\ t \in 0 .. now /\ t \in Time /\ disk[s][t] = 0
    BY <1>0, <1>3
  <2>2. s = w => t \notin First(w)
    BY <1>1, <1>2
  <2> QED  BY <1>4, <1>5, <2>1, <2>2
<1>8. \A s \in Stream, t \in Time : disk'[s][t] = 1 => disk[s][t] = 1 \/ t \in buf[s]
  BY <1>1, <1>4, <1>5
<1>9. \A s \in Stream, t \in Time : disk'[s][t] = 1 => t <= now
  BY <1>8, <1>0
<1>10. up => \A t \in Time : t \in buf'["mark"] \/ disk'["mark"][t] = 1 => t <= markAt
  BY <1>3, <1>8 DEF Stream
<1> QED  BY <1>2, <1>3, <1>6, <1>7, <1>9, <1>10

LEMMA TickRows ==
    ASSUME ClocksOK, RowsOK, Tick
    PROVE  RowsOK'
<1> USE DEF RowsOK
<1>0. MaxTime \in Nat /\ now \in Nat /\ now + 1 \in Time
  BY CollectorAssumption DEF ClocksOK, Time, Tick
<1>1. /\ now' = now + 1 /\ UNCHANGED <<up, disk>>
      /\ markAt' = IF up THEN now + 1 ELSE markAt
  BY DEF Tick, lake_vars
<1>2. /\ DOMAIN buf' = Writer
      /\ buf'["book"] \subseteq buf["book"] \cup {now + 1}
      /\ buf'["mark"] \subseteq buf["mark"] \cup {now + 1}
  BY DEF Tick, Writer, Stream
<1>3. \A s \in Stream : disk[s][now + 1] = 0
  BY <1>0
<1>4. \A s \in Stream : \A t \in buf'[s] : t \in 0 .. now + 1 /\ disk[s][t] = 0
  <2> SUFFICES ASSUME NEW s \in Stream, NEW t \in buf'[s]
               PROVE  t \in 0 .. now + 1 /\ disk[s][t] = 0
    OBVIOUS
  <2>1. t \in buf[s] \/ t = now + 1
    BY <1>2 DEF Stream
  <2> QED  BY <1>0, <1>3, <2>1
<1>5. \A s \in Stream, t \in Time : disk[s][t] = 1 => t <= now + 1
  BY <1>0 DEF Time
<1>6. \A t \in Time : t \in buf'["mark"] \/ disk["mark"][t] = 1 => t <= now + 1
  BY <1>0, <1>4, <1>5 DEF Stream
<1>7. markAt' \in 0 .. now + 1
  BY <1>0, <1>1
<1> QED  BY <1>1, <1>2, <1>4, <1>5, <1>6, <1>7

LEMMA RowsNext == FlagsOK /\ ClocksOK /\ RowsOK /\ [CNext]_cvars => RowsOK'
<1> SUFFICES ASSUME FlagsOK, ClocksOK, RowsOK, [CNext]_cvars PROVE RowsOK'
  OBVIOUS
<1>0. /\ DOMAIN buf = Writer /\ "events" \in Writer /\ "book" \in Writer /\ "mark" \in Writer
      /\ disk["book"][now] \in 0 .. 1
  BY CollectorAssumption DEF RowsOK, ClocksOK, Writer, Stream
<1>1. CASE Crash \/ CannotWrite
  BY <1>0, <1>1, RowsArrive DEF Crash, CannotWrite, Die, Add, lake_vars
<1>2. CASE Stop \/ Lose \/ Beat \/ WriteEvents
  <2>1. UNCHANGED <<now, disk, markAt, up>>
    BY <1>2 DEF Stop, Lose, Beat, WriteEvents, lake_vars
  <2>2. DOMAIN buf' = Writer /\ buf'["book"] = buf["book"] /\ buf'["mark"] = buf["mark"]
    BY <1>0, <1>2 DEF Stop, Lose, Beat, WriteEvents, Add
  <2> QED  BY <2>1, <2>2, RowsArrive
<1>3. CASE Connect \/ Resume
  <2>1. UNCHANGED <<now, disk, markAt, up>>
    BY <1>3 DEF Connect, Resume, lake_vars
  <2>2. DOMAIN buf' = Writer /\ buf'["mark"] = buf["mark"]
    BY <1>0, <1>3 DEF Connect, Resume, Arrive
  <2>3. buf'["book"] = IF disk["book"][now] > 0 THEN buf["book"] ELSE buf["book"] \cup {now}
    BY <1>0, <1>3 DEF Connect, Resume, Arrive
  <2> QED  BY <1>0, <2>1, <2>2, <2>3, RowsArrive
<1>4. CASE Silent("half") \/ Silent("mute") \/ WriteState \/ UNCHANGED cvars
  <2>1. UNCHANGED <<now, disk, markAt, buf>>
    BY <1>4 DEF Silent, WriteState, cvars, lake_vars, held_vars
  <2>2. up' => up
    <3>1. CASE WriteState
      BY <3>1 DEF WriteState, FlagsOK
    <3>2. CASE Silent("half") \/ Silent("mute") \/ UNCHANGED cvars
      BY <3>2 DEF Silent, cvars
    <3> QED  BY <1>4, <3>1, <3>2
  <2> QED  BY <1>0, <2>1, <2>2, RowsArrive
<1> QED
  BY <1>1, <1>2, <1>3, <1>4, StartRows, PollRows, WriteRows, TickRows DEF CNext, Flush

(* What was lost with a process is what it had buffered.                   *)
LEMMA DiedNext == ClocksOK /\ EventsOK /\ RowsOK /\ DiedOK /\ [CNext]_cvars => DiedOK'
<1> SUFFICES ASSUME ClocksOK, EventsOK, RowsOK, DiedOK, [CNext]_cvars PROVE DiedOK'
  OBVIOUS
<1>0. 0 .. now \subseteq 0 .. now + 1 /\ now \in 0 .. now /\ buf["book"] \subseteq 0 .. now
  BY CollectorAssumption DEF ClocksOK, RowsOK, Time, Stream
<1>1. ASSUME Die, UNCHANGED now PROVE DiedOK'
  <2>1. died.unseen \cup (IF state = 0 THEN {now} ELSE {}) \subseteq 0 .. now
    BY <1>0 DEF DiedOK
  <2>2. died.book \cup buf["book"] \subseteq 0 .. now /\ died.events \cup buf["events"] \subseteq Events
    BY <1>0 DEF DiedOK, EventsOK
  <2> QED  BY <1>1, <2>1, <2>2 DEF Die, DiedOK
<1>2. ASSUME UNCHANGED died, now' \in {now, now + 1} PROVE DiedOK'
  BY <1>0, <1>2 DEF DiedOK
<1>3. CASE Start \/ Stop \/ Connect \/ Lose \/ Silent("half") \/ Silent("mute") \/ Resume \/ Poll \/ Beat
  BY <1>2, <1>3, Zenon DEF Start, Stop, Connect, Lose, Silent, Resume, Poll, Beat, past_vars
<1>4. CASE Crash
  BY <1>1, <1>4 DEF Crash
<1>5. CASE CannotWrite
  BY <1>1, <1>2, <1>5 DEF CannotWrite
<1>6. CASE Tick \/ WriteEvents \/ WriteState \/ \E w \in Stream : WritePart(w)
  BY <1>2, <1>6 DEF Tick, WriteEvents, WriteState, WritePart, past_vars
<1>7. CASE UNCHANGED cvars
  BY <1>2, <1>7 DEF cvars, past_vars
<1> QED  BY <1>3, <1>4, <1>5, <1>6, <1>7 DEF CNext, Flush

LEMMA CollectorNext == CollectorInv /\ [CNext]_cvars => CollectorInv'
BY FlagsNext, ClocksNext, EventsNext, RowsNext, DiedNext DEF CollectorInv

(* Whatever the days, threads, weather and faults: the types.              *)
THEOREM TypeCorrect == Spec => []TypeOK
<1> DEFINE Inv == CollectorInv /\ IngestInv /\ lot \in Lots
<1>1. Init => Inv
  BY CollectorInit, IngestInit DEF Init
<1>2. Inv /\ [Next]_vars => Inv'
  <2> SUFFICES ASSUME Inv, [Next]_vars PROVE Inv'
    OBVIOUS
  <2>1. [CNext]_cvars /\ [Bulk!BNext]_bulk_vars
    BY DEF Next, Collects, Ingests, vars
  <2>2. UNCHANGED lot
    <3>1. CASE UNCHANGED bulk_vars
      BY <3>1 DEF bulk_vars
    <3>2. CASE Bulk!BNext
      BY <3>2 DEF Bulk!BNext, Bulk!Publish, Bulk!Replace, Bulk!Force, Bulk!Refresh,
         Bulk!Halt, Bulk!Proceeds, Bulk!Thread, Bulk!Take, Bulk!Declined, Bulk!Missing,
         Bulk!Flaky, Bulk!Download, Bulk!Malformed, Bulk!WriteArchive, Bulk!WriteReceipt,
         Bulk!Finish, Bulk!Killed, Bulk!Settle, Bulk!PowerCut, Bulk!Ends, Bulk!Reset
    <3> QED  BY <2>1, <3>1, <3>2
  <2> QED  BY <2>1, <2>2, CollectorNext, IngestNext
<1>3. Inv => TypeOK
  BY CollectorInvMeans DEF IngestInv, TypeOK
<1> QED  BY <1>1, <1>2, <1>3, PTL DEF Spec

-----------------------------------------------------------------------------
(* No row is in the lake twice.                                            *)

(* Neither a flush that failed half-way nor a restart writes a row again,  *)
(* whatever the collector goes through (writer.flush, MarkPricePoller).    *)
THEOREM RowsOnceHolds == Spec => []RowsOnce
<1>1. CollectorInv /\ [Next]_vars => CollectorInv'
  BY CollectorNext DEF Next, Collects, Ingests, vars
<1> QED  BY <1>1, CollectorInit, CollectorInvMeans, PTL DEF Spec

LEMMA DaysInOrder ==
    ASSUME NEW a \in Nat, NEW b \in Nat, a <= b
    PROVE  a \div Day <= b \div Day
<1>0. Day \in Nat \ {0}
  BY CollectorAssumption
<1> DEFINE p == a \div Day
           q == b \div Day
<1>1. p \in Int /\ q \in Int /\ Day * p <= a /\ b < Day * q + Day
  BY <1>0
<1> HIDE DEF p, q
<1>2. q + 1 <= p => Day * (q + 1) <= Day * p
  BY <1>0, <1>1
<1>3. Day * (q + 1) = Day * q + Day
  BY <1>0, <1>1
<1>4. ~(q + 1 <= p)
  BY <1>0, <1>1, <1>2, <1>3
<1>5. p <= q
  BY <1>1, <1>4
<1> QED  BY <1>5 DEF p, q

(* The venue publishes a day's archive when the collector has no row of    *)
(* that day left to write: hours after midnight, and a flush is due every  *)
(* half minute.                                                            *)
Settled ==
    \A p \in Days : venue[p] = 0 /\ venue'[p] # 0 => \A t \in buf["book"] : t \div Day # p

(* A published day is over, and the collector's rows of it are on disk.    *)
PublishedIsPast ==
    \A p \in Days : venue[p] # 0 =>
        p < now \div Day /\ \A t \in buf["book"] : t \div Day # p

(* What was ingested, the power cut's version included, was published, and *)
(* the collector has nothing of it.                                        *)
IngestedIsApart ==
    \A p \in Days : file[p] # 0 \/ sure.file[p] # 0 => venue[p] # 0 /\ p \notin PartDays

FetchedIsPublished ==
    \A f \in Fetcher : step[f] \in {"fetched", "written"} => venue[at[f]] # 0

ApartInv == PublishedIsPast /\ IngestedIsApart /\ FetchedIsPublished

(* What a step of the collector does to the rows of the book.              *)
LEMMA BookRows ==
    ASSUME CollectorInv, [CNext]_cvars
    PROVE  /\ now <= now' /\ now \in Nat /\ now' \in Nat
           /\ buf'["book"] \subseteq buf["book"] \cup {now'}
           /\ Rows' \subseteq Rows \cup buf["book"]
<1> USE DEF CollectorInv, ClocksOK, RowsOK
<1>0. /\ MaxTime \in Nat /\ now \in Nat
      /\ DOMAIN buf = Writer /\ "book" \in Writer /\ "mark" \in Writer
      /\ "book" \in Stream /\ "mark" \in Stream
  BY CollectorAssumption DEF Time, Writer, Stream
<1>1. CASE Tick
  BY <1>0, <1>1 DEF Tick, lake_vars, Rows
<1>2. ASSUME NEW w \in Stream, WritePart(w)
      PROVE  buf'["book"] \subseteq buf["book"] /\ Rows' \subseteq Rows \cup buf["book"]
  <2>1. First(w) \subseteq buf[w]
    BY DEF First
  <2>2. disk' = [disk EXCEPT ![w] =
                    [t \in Time |-> IF t \in First(w) THEN disk[w][t] + 1 ELSE disk[w][t]]]
    BY <1>2 DEF WritePart
  <2>3. buf' = [buf EXCEPT ![w] = buf[w] \ First(w)]
    BY <1>2 DEF WritePart
  <2> HIDE DEF First
  <2>4. buf'["book"] \subseteq buf["book"]
    BY <1>0, <2>3
  <2>5. \A t \in Time : disk'["book"][t] > 0 => disk["book"][t] > 0 \/ t \in buf["book"]
    BY <1>0, <2>1, <2>2
  <2> QED  BY <2>4, <2>5 DEF Rows
<1>3. CASE Start
  BY <1>0, <1>3 DEF Start, lake_vars, Rows
<1>4. CASE Crash \/ CannotWrite
  <2>1. CASE Die
    BY <1>0, <1>4, <2>1 DEF Crash, CannotWrite, Die, lake_vars, Rows
  <2>2. CASE Add("events", Event("STALE", "collector", now))
    BY <1>0, <1>4, <2>2 DEF Crash, CannotWrite, Add, lake_vars, Rows
  <2> QED  BY <1>4, <2>1, <2>2 DEF Crash, CannotWrite
<1>5. CASE Stop \/ Lose \/ Beat \/ WriteEvents \/ Poll
  BY <1>0, <1>5 DEF Stop, Lose, Beat, WriteEvents, Poll, Add, lake_vars, Rows
<1>6. CASE Connect \/ Resume
  BY <1>0, <1>6 DEF Connect, Resume, Arrive, lake_vars, Rows
<1>7. CASE Silent("half") \/ Silent("mute") \/ WriteState \/ UNCHANGED cvars
  BY <1>0, <1>7 DEF Silent, WriteState, cvars, lake_vars, held_vars, Rows
<1>8. \A w \in Stream : WritePart(w) => UNCHANGED now
  BY DEF WritePart
<1> QED
  BY <1>0, <1>1, <1>2, <1>3, <1>4, <1>5, <1>6, <1>7, <1>8 DEF CNext, Flush

LEMMA CollectorKeepsApart ==
    ASSUME CollectorInv, IngestInv, ApartInv, [CNext]_cvars, UNCHANGED bulk_vars
    PROVE  ApartInv'
<1> Days \subseteq Int /\ Day \in Nat \ {0}
  BY LakeAssumption, CollectorAssumption
<1>1. UNCHANGED <<venue, file, sure, step, at>>
  BY DEF bulk_vars
<1>2. /\ now <= now' /\ now \in Nat /\ now' \in Nat
      /\ buf'["book"] \subseteq buf["book"] \cup {now'}
      /\ Rows' \subseteq Rows \cup buf["book"]
  BY BookRows
<1> DEFINE today    == now \div Day
           tomorrow == now' \div Day
<1>3. today <= tomorrow /\ today \in Int /\ tomorrow \in Int
  <2>1. today <= tomorrow
    BY <1>2, DaysInOrder
  <2>2. today \in Int /\ tomorrow \in Int
    BY <1>2
  <2> QED  BY <2>1, <2>2
<1>4. PublishedIsPast'
  <2> SUFFICES ASSUME NEW p \in Days, venue[p] # 0
               PROVE  p < tomorrow /\ \A t \in buf'["book"] : t \div Day # p
    BY <1>1 DEF PublishedIsPast
  <2>1. p < today /\ \A t \in buf["book"] : t \div Day # p
    BY DEF ApartInv, PublishedIsPast
  <2> p \in Int
    OBVIOUS
  <2> HIDE DEF today, tomorrow
  <2>2. p < tomorrow
    BY <1>3, <2>1
  <2>3. tomorrow # p
    BY <1>3, <2>2
  <2>4. now' \div Day # p
    BY <2>3 DEF tomorrow
  <2>5. \A t \in buf'["book"] : t \div Day # p
    BY <1>2, <2>1, <2>4
  <2> QED  BY <2>2, <2>5
<1>5. \A p \in Days : venue[p] # 0 /\ p \notin PartDays => p \notin PartDays'
  BY <1>2 DEF ApartInv, PublishedIsPast, PartDays
<1>6. IngestedIsApart' /\ FetchedIsPublished'
  BY <1>1, <1>5 DEF ApartInv, IngestedIsApart, FetchedIsPublished
<1> QED  BY <1>4, <1>6 DEF ApartInv

LEMMA IngestKeepsApart ==
    ASSUME CollectorInv, IngestInv, ApartInv, Bulk!BNext, UNCHANGED cvars, Settled
    PROVE  ApartInv'
<1> USE DEF IngestInv, Bulk!BTypeOK
<1>0. UNCHANGED <<now, buf, disk>> /\ Rows' = Rows /\ PartDays' = PartDays
  BY DEF cvars, held_vars, lake_vars, Rows, PartDays
<1> HIDE DEF PartDays
<1>1. ASSUME UNCHANGED venue PROVE PublishedIsPast'
  BY <1>0, <1>1 DEF ApartInv, PublishedIsPast
<1>2. ASSUME UNCHANGED <<file, sure>>, \A p \in Days : venue[p] # 0 => venue'[p] # 0
      PROVE  IngestedIsApart'
  BY <1>0, <1>2 DEF ApartInv, IngestedIsApart
<1>3. ASSUME UNCHANGED venue,
             \A f \in Fetcher : step'[f] \in {"fetched", "written"} =>
                 step[f] \in {"fetched", "written"} /\ at'[f] = at[f]
      PROVE  FetchedIsPublished'
  BY <1>3 DEF ApartInv, FetchedIsPublished
<1>4. ASSUME NEW p \in Days, Bulk!Publish(p) \/ Bulk!Replace(p) PROVE ApartInv'
  <2>1. /\ \A q \in Days : venue[q] # 0 => venue'[q] # 0
        /\ UNCHANGED <<file, sure, step, at>>
    BY <1>4 DEF Bulk!Publish, Bulk!Replace, Bulk!lake, Bulk!job_vars
  <2>2. PublishedIsPast'
    <3>1. \A q \in Days : venue'[q] # 0 => venue[q] # 0 \/ q \in DaysOver
      BY <1>4 DEF Bulk!Publish, Bulk!Replace
    <3> QED  BY <1>0, <3>1 DEF DaysOver, Settled, ApartInv, PublishedIsPast
  <2>3. FetchedIsPublished'
    BY <2>1 DEF ApartInv, FetchedIsPublished
  <2> QED  BY <1>2, <2>1, <2>2, <2>3 DEF ApartInv
<1>5. ASSUME NEW f \in Fetcher, Bulk!Thread(f) PROVE ApartInv'
  <2>0. UNCHANGED <<venue, sure>>
    BY <1>5 DEF Bulk!Thread, Bulk!Take, Bulk!Declined, Bulk!Missing, Bulk!Flaky,
                Bulk!Download, Bulk!Malformed, Bulk!WriteArchive, Bulk!WriteReceipt, Bulk!Ends
  <2>1. CASE Bulk!WriteArchive(f)
    <3>1. at[f] \in Days /\ venue[at[f]] # 0 /\ at[f] \notin PartDays
      BY <2>1 DEF Bulk!WriteArchive, Bulk!Owned, ApartInv, FetchedIsPublished
    <3>2. \A p \in Days \ {at[f]} : file'[p] = file[p]
      BY <2>1 DEF Bulk!WriteArchive
    <3>3. IngestedIsApart'
      BY <1>0, <2>0, <3>1, <3>2 DEF ApartInv, IngestedIsApart
    <3>4. FetchedIsPublished'
      BY <1>3, <2>0, <2>1 DEF Bulk!WriteArchive
    <3> QED  BY <1>1, <2>0, <3>3, <3>4 DEF ApartInv
  <2>2. CASE Bulk!Download(f)
    <3>1. IngestedIsApart'
      BY <1>2, <2>0, <2>2 DEF Bulk!Download, Bulk!lake
    <3>2. FetchedIsPublished'
      BY <2>0, <2>2 DEF Bulk!Download, ApartInv, FetchedIsPublished
    <3> QED  BY <1>1, <2>0, <3>1, <3>2 DEF ApartInv
  <2>3. CASE Bulk!Take(f)
    <3>1. IngestedIsApart'
      BY <1>2, <2>0, <2>3 DEF Bulk!Take, Bulk!lake
    <3>2. FetchedIsPublished'
      BY <1>3, <2>0, <2>3 DEF Bulk!Take
    <3> QED  BY <1>1, <2>0, <3>1, <3>2 DEF ApartInv
  <2>4. CASE \/ Bulk!Declined(f) \/ Bulk!Missing(f) \/ Bulk!Flaky(f) \/ Bulk!Malformed(f)
             \/ Bulk!WriteReceipt(f)
    <3>1. /\ UNCHANGED <<file, at>> /\ step' = [step EXCEPT ![f] = "free"]
      BY <2>4 DEF Bulk!Declined, Bulk!Missing, Bulk!Flaky, Bulk!Malformed,
                  Bulk!WriteReceipt, Bulk!Ends, Bulk!lake
    <3>2. FetchedIsPublished'
      BY <1>3, <2>0, <3>1
    <3> QED  BY <1>1, <1>2, <2>0, <3>1, <3>2 DEF ApartInv
  <2> QED  BY <1>5, <2>1, <2>2, <2>3, <2>4 DEF Bulk!Thread
<1>6. CASE Bulk!Refresh \/ Bulk!Halt \/ Bulk!Finish \/ \E p \in Days : Bulk!Force(p)
  <2>1. UNCHANGED <<venue, file, sure, step, at>>
    BY <1>6 DEF Bulk!Refresh, Bulk!Halt, Bulk!Finish, Bulk!Force, Bulk!lake
  <2> QED  BY <1>1, <1>2, <1>3, <2>1 DEF ApartInv
<1>7. CASE Bulk!Killed
  <2>1. UNCHANGED <<venue, file, sure>> /\ step' = [f \in Fetcher |-> "free"]
    BY <1>7 DEF Bulk!Killed, Bulk!Reset, Bulk!lake
  <2> QED  BY <1>1, <1>2, <1>3, <2>1 DEF ApartInv
<1>8. CASE Bulk!Settle
  <2>1. UNCHANGED <<venue, file, step, at>>
    BY <1>8 DEF Bulk!Settle, Bulk!lake, Bulk!job_vars
  <2>2. sure'.file = sure.file \/ sure'.file = file
    BY <1>8 DEF Bulk!Settle
  <2>3. IngestedIsApart'
    BY <1>0, <2>1, <2>2 DEF ApartInv, IngestedIsApart
  <2> QED  BY <1>1, <1>3, <2>1, <2>3 DEF ApartInv
<1>9. CASE Bulk!PowerCut
  <2>1. UNCHANGED <<venue, sure>> /\ file' = sure.file /\ step' = [f \in Fetcher |-> "free"]
    BY <1>9 DEF Bulk!PowerCut, Bulk!Reset
  <2>2. IngestedIsApart'
    BY <1>0, <2>1 DEF ApartInv, IngestedIsApart
  <2> QED  BY <1>1, <1>3, <2>1, <2>2 DEF ApartInv
<1> QED
  BY <1>4, <1>5, <1>6, <1>7, <1>8, <1>9 DEF Bulk!BNext, Bulk!Proceeds

(* No row of the market is in the lake twice, neither from the collector   *)
(* alone nor from an archive beside its part-files, for a venue that       *)
(* publishes a day when its rows have been flushed (writer.flush,          *)
(* ingest_bulk._refuse_collector_overlap).                                 *)
THEOREM NoRowTwiceHolds == Spec /\ [][Settled]_vars => []NoRowTwice
<1> DEFINE Inv == CollectorInv /\ IngestInv /\ ApartInv
<1>1. Init => Inv
  <2>1. ASSUME Init PROVE ApartInv
    BY <2>1 DEF Init, Bulk!BInit, Bulk!Zero, ApartInv, PublishedIsPast, IngestedIsApart,
                FetchedIsPublished
  <2> QED  BY <2>1, CollectorInit, IngestInit
<1>2. Inv /\ [Next]_vars /\ [Settled]_vars => Inv'
  <2> SUFFICES ASSUME Inv, [Next]_vars, [Settled]_vars PROVE Inv'
    OBVIOUS
  <2>1. [CNext]_cvars /\ [Bulk!BNext]_bulk_vars
    BY DEF Next, Collects, Ingests, vars
  <2>2. CollectorInv' /\ IngestInv'
    BY <2>1, CollectorNext, IngestNext
  <2>3. CASE CNext /\ UNCHANGED bulk_vars
    BY <2>1, <2>2, <2>3, CollectorKeepsApart
  <2>4. CASE UNCHANGED vars
    <3>1. UNCHANGED bulk_vars
      BY <2>4 DEF vars
    <3> QED  BY <2>1, <2>2, <3>1, CollectorKeepsApart
  <2>5. CASE Bulk!BNext /\ UNCHANGED cvars /\ Settled
    BY <2>2, <2>5, IngestKeepsApart
  <2> QED  BY <2>2, <2>3, <2>4, <2>5 DEF Next, Collects, Ingests
<1>3. Inv => NoRowTwice
  <2>1. IngestedIsApart => Bulk!OneSource
    BY DEF IngestedIsApart, Bulk!OneSource
  <2> QED  BY <2>1, CollectorInvMeans DEF ApartInv, NoRowTwice
<1> QED  BY <1>1, <1>2, <1>3, PTL DEF Spec

-----------------------------------------------------------------------------
(* The live feed.  The watermark has gone no further than a source said it *)
(* was complete, or than it is excused for; what a source says is what     *)
(* each of its symbols said, or what it is excused for; and no symbol has  *)
(* said it is complete past what it may still publish.                     *)

FeedTypes ==
    /\ lineup \in Lineup
    /\ tick \in Nat /\ FirstTick <= tick /\ ahead \in {0, 1}
    /\ cover \in [Slow -> [Symbol -> [through : Nat, at : Nat]]]
    /\ source \in [Slow -> [through : Nat, reported : Int]]
    /\ excused \in [Slow -> Int]
    /\ lastBar \in [Symbol -> Int] /\ bucket \in [Symbol -> Int]
    /\ nextFunding \in [Symbol -> Nat] /\ settled \in [Symbol -> Nat]
    /\ fundingDue \in [Symbol -> [at : Nat, noticed : Int]]
    /\ unseen \in [Symbol -> Nat] /\ skipped \in [Symbol -> SUBSET Nat]
    /\ watermark \in Int /\ clock \in Int /\ timers \subseteq Int

(* What the buffer holds, and what the engine has seen.                    *)
BufferOK ==
    /\ \A e \in held : e.ts \in Int /\ e.ts > watermark
    /\ clock <= watermark

Within(p, ts, said) == ts <= excused[p] \/ ts <= said

SourcesOK == \A p \in Slow :
    /\ lineup.covers[p] # {} => Within(p, watermark, source[p].through)
    /\ \A s \in lineup.covers[p] : Within(p, source[p].through, cover[p][s].through)
    /\ \A s \in Symbol : cover[p][s].at = 0 => cover[p][s].through = 0

(* The next bar, or the minute in progress, ends later than its symbol's   *)
(* word.                                                                   *)
BarsOK == \A s \in Symbol :
    /\ lastBar[s] >= -1
    /\ cover["klines"][s].through < CloseOf(lastBar[s] + 1)

MarksOK == \A s \in Symbol :
    IF bucket[s] = -1
      THEN cover["markPrice"][s].through = 0
      ELSE /\ bucket[s] >= 0 /\ s \in lineup.covers["markPrice"]
           /\ cover["markPrice"][s].through < CloseOf(bucket[s])

(* A settlement is published, overlooked, given up, or the one that is     *)
(* waited for, as soon as the mark stream has gone past it; and the        *)
(* funding source's word never covers the last of these.                   *)
IsSettlement(f) == \E k \in Nat \ {0} : f = k * FundingEvery

Known(s, f) == f <= settled[s] \/ Overlooked(s, f) \/ f <= excused["funding"]

FundingOK == \A s \in Symbol :
    /\ \A f \in Nat : IsSettlement(f) =>
          /\ f <= cover["funding"][s].through => Known(s, f)
          /\ f < nextFunding[s] \/ f <= fundingDue[s].at
                => Known(s, f) \/ f = fundingDue[s].at
    /\ fundingDue[s] # NoSettlement => nextFunding[s] # 0 /\ fundingDue[s].at # 0
    /\ IF nextFunding[s] = 0 THEN unseen[s] = 0 ELSE nextFunding[s] > 1

FeedInv ==
    /\ NothingIsLost
    /\ ~over => FeedTypes /\ BufferOK /\ SourcesOK /\ BarsOK /\ MarksOK /\ FundingOK

LEMMA GreaterOfTwo ==
    ASSUME NEW a \in Int, NEW b \in Int
    PROVE  Max({a, b}) \in {a, b} /\ a <= Max({a, b}) /\ b <= Max({a, b})
<1>1. CASE a <= b
  <2> {a, b} \in SUBSET Int /\ {a, b} # {} /\ \A x \in {a, b} : x <= b
    BY <1>1
  <2> QED  BY GreatestOf
<1>2. CASE ~(a <= b)
  <2> {a, b} \in SUBSET Int /\ {a, b} # {} /\ \A x \in {a, b} : x <= a
    BY <1>2
  <2> QED  BY GreatestOf
<1> QED  BY <1>1, <1>2

LEMMA GreatestOfThree ==
    ASSUME NEW a \in Int, NEW b \in Int, NEW c \in Int
    PROVE  /\ Max({a, b, c}) \in {a, b, c}
           /\ a <= Max({a, b, c}) /\ b <= Max({a, b, c}) /\ c <= Max({a, b, c})
<1> DEFINE m == Max({a, b})  n == Max({m, c})
<1>1. m \in {a, b} /\ a <= m /\ b <= m
  BY GreaterOfTwo
<1>2. n \in {m, c} /\ m <= n /\ c <= n
  <2> m \in Int
    BY <1>1
  <2> HIDE DEF m
  <2> QED  BY GreaterOfTwo
<1> HIDE DEF m, n
<1>3. {a, b, c} \in SUBSET Int /\ {a, b, c} # {} /\ n \in Int /\ \A x \in {a, b, c} : x <= n
  BY <1>1, <1>2
<1> QED  BY <1>3, GreatestOf

LEMMA LesserOfTwo ==
    ASSUME NEW a \in Int, NEW b \in Int
    PROVE  Min({a, b}) \in {a, b} /\ Min({a, b}) <= a /\ Min({a, b}) <= b
<1>1. CASE a <= b
  <2> {a, b} \in SUBSET Int /\ {a, b} # {} /\ \A x \in {a, b} : a <= x
    BY <1>1
  <2> QED  BY LeastOf
<1>2. CASE ~(a <= b)
  <2> {a, b} \in SUBSET Int /\ {a, b} # {} /\ \A x \in {a, b} : b <= x
    BY <1>2
  <2> QED  BY LeastOf
<1> QED  BY <1>1, <1>2

(* A later bar closes later.                                               *)
LEMMA LaterCloses ==
    ASSUME NEW b \in Int, NEW c \in Int, b <= c
    PROVE  CloseOf(b) \in Int /\ CloseOf(c) \in Int /\ CloseOf(b) <= CloseOf(c)
<1>1. Minute \in Nat
  BY FeedAssumption
<1>2. b * Minute <= c * Minute
  <2>1. (c - b) * Minute >= 0
    BY <1>1
  <2>2. (c - b) * Minute = c * Minute - b * Minute
    BY <1>1
  <2> QED  BY <2>1, <2>2, <1>1
<1> QED  BY <1>1, <1>2 DEF CloseOf

(* The host's clock has started.                                           *)
LEMMA WallRuns ==
    ASSUME FeedTypes
    PROVE  Wall \in Nat /\ Wall # 0
<1>1. tick \in Nat /\ FirstTick <= tick /\ ahead \in {0, 1}
  BY DEF FeedTypes
<1>2. FirstTick \in Nat \ {0}
  BY FeedAssumption
<1> QED  BY <1>1, <1>2 DEF Wall

(* A minute's mark, or a bar, of a moment of the session.                  *)
LEMMA InstantsOK ==
    ASSUME FeedTypes, NEW a \in Instants
    PROVE  /\ a \in Nat /\ a \div Minute \in Nat
           /\ CloseOf(a \div Minute) \in Nat /\ CloseOf(a \div Minute) - 1 \in Nat
<1>1. Minute \in Nat /\ Minute > 1 /\ Delay \in Nat /\ FirstTick >= Delay /\ FirstTick \in Nat
  BY FeedAssumption
<1>2. a \in Nat
  BY <1>1 DEF FeedTypes, Instants
<1>3. a \div Minute \in Nat
  BY <1>1, <1>2
<1> DEFINE b == a \div Minute
<1>4. b * Minute \in Nat
  <2> HIDE DEF b
  <2> QED  BY <1>1, <1>3 DEF b
<1> QED  BY <1>1, <1>2, <1>3, <1>4 DEF CloseOf

(* Of the settlements, the moment's announcement is the next.              *)
LEMMA NextIsAnnounced ==
    ASSUME NEW ts \in Nat
    PROVE  LET announced == (ts \div FundingEvery + 1) * FundingEvery IN
           /\ announced \in Nat /\ announced > 1
           /\ \A f \in Nat : IsSettlement(f) /\ f < announced => f <= ts
<1> DEFINE F == FundingEvery  q == ts \div F
<1>1. F \in Nat /\ F > 1
  BY FeedAssumption
<1>2. q \in Nat /\ q * F <= ts
  BY <1>1
<1> HIDE DEF F, q
<1>3. (q + 1) * F = q * F + F /\ q * F \in Nat
  BY <1>1, <1>2
<1>4. ASSUME NEW f \in Nat, IsSettlement(f), f < (q + 1) * F
      PROVE  f <= ts
  <2>1. PICK k \in Nat \ {0} : f = k * F
    BY <1>4 DEF IsSettlement, F
  <2>2. k <= q
    <3>1. CASE k >= q + 1
      <4>1. (k - (q + 1)) * F >= 0
        BY <3>1, <1>1, <1>2
      <4>2. (k - (q + 1)) * F = k * F - (q + 1) * F
        BY <1>1, <1>2
      <4>3. k * F \in Nat /\ (q + 1) * F \in Nat
        BY <1>1, <1>2
      <4> QED  BY <4>1, <4>2, <4>3, <2>1, <1>4
    <3> QED  BY <3>1, <1>2
  <2>3. (q - k) * F >= 0
    BY <2>2, <1>1, <1>2
  <2>4. (q - k) * F = q * F - k * F
    BY <1>1, <1>2
  <2>5. k * F \in Nat /\ q * F \in Nat
    BY <1>1, <1>2
  <2> QED  BY <2>1, <2>3, <2>4, <2>5, <1>2
<1> QED  BY <1>1, <1>2, <1>3, <1>4 DEF F, q

LEMMA SettlementsDivide ==
    ASSUME NEW f \in Nat, IsSettlement(f)
    PROVE  f % FundingEvery = 0 /\ f # 0
<1>1. PICK k \in Nat \ {0} : f = k * FundingEvery
  BY DEF IsSettlement
<1>2. FundingEvery \in Nat \ {0}
  BY FeedAssumption
<1> QED  BY <1>1, <1>2

(* What a source says anew is no less than before, and no more than each   *)
(* of its symbols says, except where it is excused.                        *)
LEMMA ReportSays ==
    ASSUME FeedTypes, SourcesOK, lineup' = lineup, watermark' = watermark,
           NEW p \in Slow, NEW s \in Symbol, s \in lineup.covers[p],
           NEW ts \in Nat, NEW excuse \in Int, Report(p, s, ts, excuse)
    PROVE  /\ cover' \in [Slow -> [Symbol -> [through : Nat, at : Nat]]]
           /\ source' \in [Slow -> [through : Nat, reported : Int]]
           /\ excused' \in [Slow -> Int]
           /\ \A q \in Slow : excused[q] <= excused'[q]
           /\ excuse <= excused'[p]
           /\ \A q \in Slow \ {p} : cover'[q] = cover[q]
           /\ \A z \in Symbol \ {s} : cover'[p][z].through <= cover[p][z].through
           /\ cover'[p][s].through \in {cover[p][s].through, ts}
           /\ SourcesOK'
<1> DEFINE all == lineup.covers[p]
           started == \E z \in all : cover[p][z].at # 0
           was == [z \in Symbol |-> IF started THEN cover[p][z]
                                               ELSE [through |-> 0, at |-> Wall]]
           covered == [was EXCEPT ![s] = [through |-> Max({was[s].through, ts}), at |-> Wall]]
           speaking == {z \in all : Wall - covered[z].at <= Stale[p]}
           least == Min({covered[z].through : z \in speaking})
           passed == IF speaking = all THEN excuse ELSE least
<1>1. /\ cover' = [cover EXCEPT ![p] = covered]
      /\ IF least = 0
           THEN UNCHANGED source /\ excused' = [excused EXCEPT ![p] = Max({@, excuse})]
           ELSE /\ source' = [source EXCEPT ![p] =
                      [through |-> Max({@.through, least}), reported |-> Max({@.reported, Wall})]]
                /\ excused' = [excused EXCEPT ![p] = Max({@, excuse, passed})]
  BY DEF Report
<1>2. /\ Wall \in Nat /\ Wall # 0 /\ Stale[p] \in Nat
      /\ all \subseteq Symbol
  BY FeedAssumption, WallRuns DEF FeedTypes
<1>3. /\ was \in [Symbol -> [through : Nat, at : Nat]]
      /\ \A z \in Symbol : was[z].at = 0 => was[z].through = 0
      /\ \A z \in all : was[z].through = cover[p][z].through
      /\ \A z \in Symbol : was[z].through \in {0, cover[p][z].through}
  <2>1. CASE started
    BY <1>2, <2>1 DEF FeedTypes, SourcesOK
  <2>2. CASE ~started
    BY <1>2, <2>2 DEF FeedTypes, SourcesOK
  <2> QED  BY <2>1, <2>2
<1> HIDE DEF was
<1>4. /\ covered \in [Symbol -> [through : Nat, at : Nat]]
      /\ covered[s].through \in {was[s].through, ts}
      /\ was[s].through <= covered[s].through
      /\ covered[s].at = Wall
      /\ \A z \in Symbol \ {s} : covered[z] = was[z]
  <2> DEFINE x == was[s].through
  <2>0. x \in Int /\ ts \in Int
    BY <1>3
  <2>1. Max({x, ts}) \in {x, ts} /\ x <= Max({x, ts})
    <3> HIDE DEF x
    <3> QED  BY <2>0, GreaterOfTwo
  <2> QED  BY <2>1, <1>2, <1>3
<1> HIDE DEF covered
<1>5. s \in speaking /\ speaking \subseteq all
  BY <1>2, <1>4
<1>6. least \in Nat /\ \A z \in speaking : least <= covered[z].through
  <2> DEFINE W == {covered[z].through : z \in speaking}
  <2>1. W \in SUBSET Int /\ W # {} /\ \A x \in W : 0 <= x
    BY <1>2, <1>4, <1>5
  <2>2. Min(W) \in W /\ \A x \in W : Min(W) <= x
    <3> HIDE DEF W
    <3> 0 \in Int
      OBVIOUS
    <3> QED  BY <2>1, LeastOf
  <2> QED  BY <2>2, <1>2, <1>4, <1>5
<1> HIDE DEF least, speaking
<1>7. passed \in Int
  BY <1>6
<1> HIDE DEF passed, all, started
<1>8. /\ excused' \in [Slow -> Int] /\ excused[p] <= excused'[p] /\ excuse <= excused'[p]
      /\ \A q \in Slow \ {p} : excused'[q] = excused[q]
      /\ least # 0 => passed <= excused'[p]
  <2> DEFINE x == excused[p]
  <2>1. x \in Int
    BY DEF FeedTypes
  <2>2. CASE least = 0
    <3>1. Max({x, excuse}) \in {x, excuse} /\ x <= Max({x, excuse}) /\ excuse <= Max({x, excuse})
      <4> HIDE DEF x
      <4> QED  BY <2>1, GreaterOfTwo
    <3> QED  BY <2>1, <2>2, <3>1, <1>1 DEF FeedTypes
  <2>3. CASE least # 0
    <3> DEFINE m == Max({x, excuse, passed})
    <3>1. m \in {x, excuse, passed} /\ x <= m /\ excuse <= m /\ passed <= m
      <4> HIDE DEF x
      <4> QED  BY <2>1, <1>7, GreatestOfThree
    <3> QED  BY <2>1, <2>3, <3>1, <1>1, <1>7 DEF FeedTypes
  <2> QED  BY <2>2, <2>3
<1>9. /\ source' \in [Slow -> [through : Nat, reported : Int]]
      /\ \A q \in Slow \ {p} : source'[q] = source[q]
      /\ source[p].through <= source'[p].through
      /\ \/ source'[p].through = source[p].through
         \/ source'[p].through = least /\ least # 0
  <2>1. CASE least = 0
    BY <2>1, <1>1 DEF FeedTypes
  <2>2. CASE least # 0
    <3> DEFINE x == source[p].through  y == source[p].reported
               m == Max({x, least})  n == Max({y, Wall})
    <3>1. x \in Nat /\ y \in Int /\ Wall \in Int
      BY <1>2 DEF FeedTypes
    <3>2. m \in {x, least} /\ x <= m
      <4> HIDE DEF x
      <4> QED  BY <3>1, <1>6, GreaterOfTwo
    <3>3. n \in {y, Wall}
      <4> HIDE DEF y
      <4> QED  BY <3>1, GreaterOfTwo
    <3>4. source' = [source EXCEPT ![p] = [through |-> m, reported |-> n]]
      BY <2>2, <1>1
    <3>5. m \in Nat /\ n \in Int
      BY <3>1, <3>2, <3>3, <1>6
    <3> HIDE DEF m, n
    <3>6. /\ source' \in [Slow -> [through : Nat, reported : Int]]
          /\ \A q \in Slow \ {p} : source'[q] = source[q]
          /\ source'[p].through = m
      BY <3>4, <3>5 DEF FeedTypes
    <3> QED  BY <2>2, <3>1, <3>2, <3>6
  <2> QED  BY <2>1, <2>2
<1>10. /\ cover' \in [Slow -> [Symbol -> [through : Nat, at : Nat]]]
       /\ \A q \in Slow \ {p} : cover'[q] = cover[q]
       /\ cover'[p] = covered
  BY <1>1, <1>4 DEF FeedTypes
<1>11. \A z \in all : cover[p][z].through <= covered[z].through
  <2>1. \A z \in Symbol : was[z].through \in Nat /\ was[z].through <= covered[z].through
    BY <1>3, <1>4
  <2> QED  BY <2>1, <1>2, <1>3
<1>12. \A z \in all : Within(p, source[p].through, cover[p][z].through)
  BY DEF SourcesOK, all
<1>13. \A z \in all : Within(p, source[p].through, cover[p][z].through)'
  <2> SUFFICES ASSUME NEW z \in all
               PROVE  source'[p].through <= excused'[p] \/ source'[p].through <= covered[z].through
    BY <1>10 DEF Within
  <2>1. /\ source[p].through \in Nat /\ excused[p] \in Int /\ cover[p][z].through \in Nat
        /\ covered[z].through \in Nat
    BY <1>2, <1>4 DEF FeedTypes
  <2>2. CASE source'[p].through = source[p].through
    BY <2>1, <2>2, <1>8, <1>11, <1>12 DEF Within
  <2>3. CASE source'[p].through = least /\ least # 0
    <3>1. CASE speaking = all
      BY <2>3, <3>1, <1>6
    <3>2. CASE speaking # all
      BY <2>3, <3>2, <1>6, <1>8 DEF passed
    <3> QED  BY <3>1, <3>2
  <2> QED  BY <2>2, <2>3, <1>9
<1>14. SourcesOK'
  <2> SUFFICES ASSUME NEW q \in Slow
               PROVE  /\ lineup.covers[q] # {} => Within(q, watermark, source[q].through)'
                      /\ \A z \in lineup.covers[q] : Within(q, source[q].through, cover[q][z].through)'
                      /\ \A z \in Symbol : cover'[q][z].at = 0 => cover'[q][z].through = 0
    BY DEF SourcesOK
  <2>1. CASE q = p
    <3>1. lineup.covers[p] # {} => Within(p, watermark, source[p].through)'
      <4>1. /\ watermark \in Int /\ excused[p] \in Int /\ excused'[p] \in Int
            /\ source[p].through \in Nat /\ source'[p].through \in Nat
        BY <1>8, <1>9 DEF FeedTypes
      <4>2. lineup.covers[p] # {} => Within(p, watermark, source[p].through)
        BY DEF SourcesOK
      <4> QED  BY <4>1, <4>2, <1>8, <1>9 DEF Within
    <3>2. \A z \in Symbol : covered[z].at = 0 => covered[z].through = 0
      BY <1>2, <1>3, <1>4
    <3> QED  BY <2>1, <3>1, <3>2, <1>10, <1>13 DEF all
  <2>2. CASE q # p
    BY <2>2, <1>8, <1>9, <1>10 DEF SourcesOK, Within
  <2> QED  BY <2>1, <2>2
<1>15. \A z \in Symbol \ {s} : cover'[p][z].through <= cover[p][z].through
  <2>1. \A z \in Symbol : cover[p][z].through \in Nat
    BY DEF FeedTypes
  <2>2. \A z \in Symbol : was[z].through <= cover[p][z].through
    BY <2>1, <1>3
  <2> QED  BY <2>2, <1>4, <1>10
<1>16. cover'[p][s].through \in {cover[p][s].through, ts}
  BY <1>3, <1>4, <1>10 DEF all
<1> QED  BY <1>8, <1>9, <1>10, <1>14, <1>15, <1>16

(* What is dropped as late is excused, or no later than its symbol's word. *)
LEMMA LateIsSaid ==
    ASSUME FeedTypes, SourcesOK, NEW p \in Slow, NEW s \in Symbol, s \in lineup.covers[p],
           NEW ts \in Int, ts <= watermark
    PROVE  ts <= excused[p] \/ ts <= cover[p][s].through
<1>1. /\ watermark \in Int /\ excused[p] \in Int /\ source[p].through \in Nat
      /\ cover[p][s].through \in Nat
  BY DEF FeedTypes
<1>2. Within(p, watermark, source[p].through) /\ Within(p, source[p].through, cover[p][s].through)
  BY DEF SourcesOK
<1> QED  BY <1>1, <1>2 DEF Within

(* The buffer's intake wrongs no source that offers nothing late but what  *)
(* is excused or overlooked.                                               *)
LEMMA OfferKeeps ==
    ASSUME BufferOK, wronged = {}, UNCHANGED <<watermark, clock>>, NEW events, Offer(events),
           \A e \in events : e.ts \in Int,
           watermark \in Int,
           \A e \in events : e.ts <= watermark /\ e.stream \in Slow /\ e.ts > excused[e.stream]
                => e.stream = "funding" /\ Overlooked(e.symbol, e.ts)
    PROVE  BufferOK' /\ wronged' = {}
<1>1. wronged' = {}
  BY DEF Offer, IsLate
<1>2. \A e \in held' : e.ts \in Int /\ e.ts > watermark
  BY DEF Offer, IsLate, BufferOK
<1> QED  BY <1>1, <1>2 DEF BufferOK

(* Where nothing of a settlement changes but the excuse.                   *)
LEMMA FundingStays ==
    ASSUME FundingOK, FeedTypes, excused' \in [Slow -> Int],
           excused["funding"] <= excused'["funding"],
           cover'["funding"] = cover["funding"],
           UNCHANGED <<settled, nextFunding, fundingDue, unseen, skipped>>
    PROVE  FundingOK'
<1>1. \A s \in Symbol, f \in Nat : Known(s, f) => Known(s, f)'
  BY DEF Known, Overlooked, Slow, FeedTypes
<1> QED  BY <1>1 DEF FundingOK

(* One poll of the bars: those that were fresh are below the next.         *)
LEMMA FreshBars ==
    ASSUME NEW open \in Nat, NEW last \in Int, last >= -1
    PROVE  LET fresh == {b \in {open - 2, open - 1} : b >= 0 /\ b > last}
               m == Max(fresh \cup {last})
           IN  m \in Int /\ last <= m /\ open - 1 <= m
<1> DEFINE fresh == {b \in {open - 2, open - 1} : b >= 0 /\ b > last}
           S == fresh \cup {last}
           m == Max(S)
           top == IF open - 1 >= last THEN open - 1 ELSE last
<1>1. S \in SUBSET Int /\ S # {} /\ top \in Int /\ \A x \in S : x <= top
  OBVIOUS
<1>2. m \in S /\ \A x \in S : x <= m
  <2> HIDE DEF S, top
  <2> QED  BY <1>1, GreatestOf
<1>3. open - 1 \in S \/ open - 1 <= last
  OBVIOUS
<1>4. last \in S /\ S \subseteq Int
  OBVIOUS
<1>5. m \in Int /\ last <= m /\ open - 1 <= m
  <2> HIDE DEF S, m
  <2> QED  BY <1>2, <1>3, <1>4
<1> QED  BY <1>5

LEMMA KlinesKeep ==
    ASSUME FeedInv, NEW s \in Symbol, PollKlines(s)
    PROVE  FeedInv'
<1> DEFINE p == "klines"
<1>1. PICK a \in Instants :
        LET open == a \div Minute
            fresh == {b \in {open - 2, open - 1} : b >= 0 /\ b > lastBar[s]}
            pending == pendingBars \cup (IF s \in seeded THEN fresh \X {s} ELSE {})
            full == {b \in fresh : {b} \X lineup.covers["klines"] \subseteq pending}
        IN  /\ ~ over /\ s \in lineup.covers["klines"]
            /\ lastBar' = [lastBar EXCEPT ![s] = Max(fresh \cup {@})]
            /\ Offer({[stream |-> "klines", symbol |-> CHOOSE z \in Symbol : TRUE,
                       ts |-> CloseOf(b)] : b \in full})
            /\ Report("klines", s, CloseOf(open) - 1, -1)
            /\ UNCHANGED <<lineup, tick, ahead, watermark, mark_vars, funding_vars,
                           lastTrade, engine_vars, over>>
  BY DEF PollKlines
<1> DEFINE open == a \div Minute
           fresh == {b \in {open - 2, open - 1} : b >= 0 /\ b > lastBar[s]}
           pending == pendingBars \cup (IF s \in seeded THEN fresh \X {s} ELSE {})
           full == {b \in fresh : {b} \X lineup.covers["klines"] \subseteq pending}
           bars == {[stream |-> "klines", symbol |-> CHOOSE z \in Symbol : TRUE,
                     ts |-> CloseOf(b)] : b \in full}
           said == CloseOf(open) - 1
<1>2. ~over /\ FeedTypes /\ BufferOK /\ SourcesOK /\ BarsOK /\ MarksOK /\ FundingOK
      /\ wronged = {} /\ ~refused
  BY <1>1 DEF FeedInv, NothingIsLost, LateMeansSilent, NothingRefused
<1>3. /\ s \in lineup.covers[p] /\ p \in Slow
      /\ lastBar' = [lastBar EXCEPT ![s] = Max(fresh \cup {@})]
      /\ Offer(bars)
      /\ Report(p, s, said, -1)
      /\ UNCHANGED <<lineup, tick, ahead, watermark, mark_vars, funding_vars,
                     lastTrade, engine_vars, over>>
  BY <1>1 DEF Slow
<1>4. open \in Nat /\ said \in Nat /\ CloseOf(open) \in Nat
  BY <1>2, InstantsOK
<1>5. lastBar[s] \in Int /\ lastBar[s] >= -1
  BY <1>2 DEF FeedTypes, BarsOK
<1>6. \A b \in full : b \in Int /\ b >= lastBar[s] + 1
  BY <1>4, <1>5
<1>7. \A b \in full : CloseOf(b) \in Int /\ CloseOf(lastBar[s] + 1) <= CloseOf(b)
  <2> TAKE b \in full
  <2> HIDE DEF full
  <2> QED  BY <1>5, <1>6, LaterCloses
<1> HIDE DEF full, said
<1>8. BufferOK' /\ wronged' = {}
  <2>1. \A e \in bars : e.ts \in Int /\ e.stream = p
    BY <1>7
  <2>2. ASSUME NEW e \in bars, e.ts <= watermark, e.ts > excused[p]
        PROVE  FALSE
    <3>1. PICK b \in full : e.ts = CloseOf(b)
      OBVIOUS
    <3>2. e.ts <= cover[p][s].through
      <4>1. e.ts \in Int /\ excused[p] \in Int
        BY <2>1, <1>2, <1>3 DEF FeedTypes
      <4> HIDE DEF bars, p
      <4>2. e.ts <= excused[p] \/ e.ts <= cover[p][s].through
        BY <4>1, <2>2, <1>2, <1>3, LateIsSaid
      <4> QED  BY <4>1, <4>2, <2>2
    <3>3. cover[p][s].through < CloseOf(lastBar[s] + 1) /\ cover[p][s].through \in Nat
      BY <1>2, <1>3 DEF BarsOK, FeedTypes
    <3>4. CloseOf(lastBar[s] + 1) \in Int
      <4>1. lastBar[s] + 1 \in Int
        BY <1>5
      <4> QED  BY <4>1, LaterCloses
    <3> QED  BY <3>1, <3>2, <3>3, <3>4, <1>7
  <2>3. watermark \in Int /\ UNCHANGED <<watermark, clock>>
    BY <1>2, <1>3 DEF FeedTypes, engine_vars
  <2> HIDE DEF bars
  <2> QED  BY <2>1, <2>2, <2>3, <1>2, <1>3, OfferKeeps
<1>9. /\ cover' \in [Slow -> [Symbol -> [through : Nat, at : Nat]]]
      /\ source' \in [Slow -> [through : Nat, reported : Int]]
      /\ excused' \in [Slow -> Int]
      /\ \A q \in Slow : excused[q] <= excused'[q]
      /\ \A q \in Slow \ {p} : cover'[q] = cover[q]
      /\ \A z \in Symbol \ {s} : cover'[p][z].through <= cover[p][z].through
      /\ cover'[p][s].through \in {cover[p][s].through, said}
      /\ SourcesOK'
  <2>1. lineup' = lineup /\ watermark' = watermark /\ -1 \in Int
    BY <1>3
  <2> HIDE DEF p
  <2> QED  BY <2>1, <1>2, <1>3, <1>4, ReportSays
<1> DEFINE m == lastBar'[s]
<1>10. /\ lastBar' \in [Symbol -> Int]
       /\ \A z \in Symbol \ {s} : lastBar'[z] = lastBar[z]
       /\ m \in Int /\ lastBar[s] <= m /\ open - 1 <= m
  <2> DEFINE n == Max(fresh \cup {lastBar[s]})
  <2>1. n \in Int /\ lastBar[s] <= n /\ open - 1 <= n
    <3> HIDE DEF open
    <3> QED  BY <1>4, <1>5, FreshBars
  <2>2. lastBar' = [lastBar EXCEPT ![s] = n]
    BY <1>3
  <2>3. lastBar \in [Symbol -> Int]
    BY <1>2 DEF FeedTypes
  <2> HIDE DEF n
  <2> QED  BY <2>1, <2>2, <2>3
<1> HIDE DEF open, m
<1>11. FeedTypes'
  BY <1>2, <1>3, <1>9, <1>10 DEF FeedTypes, mark_vars, funding_vars, engine_vars
<1>12. BarsOK'
  <2> SUFFICES ASSUME NEW z \in Symbol
               PROVE  lastBar'[z] >= -1 /\ cover'[p][z].through < CloseOf(lastBar'[z] + 1)
    BY DEF BarsOK, CloseOf
  <2>1. /\ cover[p][z].through < CloseOf(lastBar[z] + 1) /\ lastBar[z] \in Int /\ lastBar[z] >= -1
        /\ cover[p][z].through \in Nat /\ cover'[p][z].through \in Nat
    BY <1>2, <1>3, <1>9 DEF FeedTypes, BarsOK
  <2>2. CloseOf(lastBar[z] + 1) \in Int
    <3>1. lastBar[z] + 1 \in Int
      BY <2>1
    <3> QED  BY <3>1, LaterCloses
  <2>3. CASE z # s
    BY <2>1, <2>2, <2>3, <1>9, <1>10
  <2>4. CASE z = s
    <3>1. CloseOf(open) <= CloseOf(m + 1) /\ CloseOf(lastBar[s] + 1) <= CloseOf(m + 1)
          /\ CloseOf(m + 1) \in Int
      <4>1. m + 1 \in Int /\ lastBar[s] + 1 \in Int /\ open \in Int /\ open <= m + 1
            /\ lastBar[s] + 1 <= m + 1
        BY <1>4, <1>5, <1>10
      <4> QED  BY <4>1, LaterCloses
    <3>2. m >= -1
      BY <1>5, <1>10
    <3> QED  BY <2>1, <2>2, <2>4, <3>1, <3>2, <1>4, <1>9 DEF m, said
  <2> QED  BY <2>3, <2>4
<1>13. MarksOK'
  <2>1. cover'["markPrice"] = cover["markPrice"]
    BY <1>9 DEF Slow
  <2> QED  BY <2>1, <1>2, <1>3 DEF MarksOK, mark_vars, CloseOf
<1>14. FundingOK'
  <2>1. cover'["funding"] = cover["funding"] /\ excused["funding"] <= excused'["funding"]
    BY <1>9 DEF Slow
  <2>2. UNCHANGED <<settled, nextFunding, fundingDue, unseen, skipped>>
    BY <1>3 DEF mark_vars, funding_vars
  <2> QED  BY <2>1, <2>2, <1>2, <1>9, FundingStays
<1>15. NothingIsLost'
  BY <1>2, <1>3, <1>8 DEF NothingIsLost, LateMeansSilent, NothingRefused, engine_vars
<1> QED  BY <1>8, <1>9, <1>11, <1>12, <1>13, <1>14, <1>15 DEF FeedInv

(* The mark stream's announcement moves on.                                *)
LEMMA NoteKeeps ==
    ASSUME FeedTypes, FundingOK, NEW s \in Symbol, NEW ts \in Nat,
           NoteNextFunding(s, (ts \div FundingEvery + 1) * FundingEvery),
           unseen' = [unseen EXCEPT ![s] = IF nextFunding[s] = 0 THEN ts ELSE @],
           settled' = settled, cover'["funding"] = cover["funding"],
           excused' \in [Slow -> Int], excused["funding"] <= excused'["funding"]
    PROVE  /\ FundingOK'
           /\ nextFunding' \in [Symbol -> Nat] /\ unseen' \in [Symbol -> Nat]
           /\ skipped' \in [Symbol -> SUBSET Nat]
           /\ fundingDue' \in [Symbol -> [at : Nat, noticed : Int]]
<1> DEFINE announced == (ts \div FundingEvery + 1) * FundingEvery
           old == nextFunding[s]
           moves == old # 0 /\ announced > old /\ fundingDue[s] = NoSettlement
           passed == {f \in old .. announced - 1 :
                         old # 0 /\ f % FundingEvery = 0 /\ f # fundingDue'[s].at}
<1>1. /\ announced \in Nat /\ announced > 1
      /\ \A f \in Nat : IsSettlement(f) /\ f < announced => f <= ts
  BY NextIsAnnounced
<1>2. /\ fundingDue' = IF moves THEN [fundingDue EXCEPT ![s] = [at |-> old, noticed |-> Wall]]
                       ELSE fundingDue
      /\ nextFunding' = [nextFunding EXCEPT ![s] = announced]
      /\ skipped' = [skipped EXCEPT ![s] = @ \cup passed]
  BY DEF NoteNextFunding
<1> HIDE DEF announced
<1>3. old \in Nat /\ Wall \in Int /\ settled \in [Symbol -> Nat] /\ excused["funding"] \in Int
      /\ excused'["funding"] \in Int
  BY DEF FeedTypes, Wall, Slow
<1>4. /\ \A z \in Symbol \ {s} : fundingDue'[z] = fundingDue[z]
      /\ fundingDue'[s] = IF moves THEN [at |-> old, noticed |-> Wall] ELSE fundingDue[s]
      /\ fundingDue' \in [Symbol -> [at : Nat, noticed : Int]]
  <2>1. fundingDue \in [Symbol -> [at : Nat, noticed : Int]]
    BY DEF FeedTypes
  <2> HIDE DEF moves, old
  <2> QED  BY <2>1, <1>2, <1>3
<1>5. /\ nextFunding' \in [Symbol -> Nat]
      /\ nextFunding'[s] = announced
      /\ \A z \in Symbol \ {s} : nextFunding'[z] = nextFunding[z]
  BY <1>1, <1>2 DEF FeedTypes
<1>6. /\ unseen' \in [Symbol -> Nat]
      /\ unseen'[s] = IF old = 0 THEN ts ELSE unseen[s]
      /\ \A z \in Symbol \ {s} : unseen'[z] = unseen[z]
  BY DEF FeedTypes
<1>7. passed \subseteq Nat
  BY <1>1, <1>3
<1> HIDE DEF passed
<1>8. /\ skipped' \in [Symbol -> SUBSET Nat]
      /\ skipped'[s] = skipped[s] \cup passed
      /\ \A z \in Symbol \ {s} : skipped'[z] = skipped[z]
  BY <1>2, <1>7 DEF FeedTypes
<1>9. \A z \in Symbol : unseen[z] <= unseen'[z] /\ skipped[z] \subseteq skipped'[z]
  <2>1. old = 0 => unseen[s] = 0
    BY DEF FundingOK
  <2>2. unseen \in [Symbol -> Nat]
    BY DEF FeedTypes
  <2> QED  BY <2>1, <2>2, <1>6, <1>8
<1>10. \A z \in Symbol, f \in Nat : Known(z, f) => Known(z, f)'
  <2> SUFFICES ASSUME NEW z \in Symbol, NEW f \in Nat, Known(z, f) PROVE Known(z, f)'
    OBVIOUS
  <2>1. unseen[z] \in Nat /\ unseen'[z] \in Nat
    BY <1>6 DEF FeedTypes
  <2> QED  BY <2>1, <1>3, <1>9 DEF Known, Overlooked
<1>11. ASSUME NEW f \in Nat, IsSettlement(f), f < announced \/ f <= fundingDue'[s].at
       PROVE  Known(s, f)' \/ f = fundingDue'[s].at
  <2>1. f < old \/ f <= fundingDue[s].at => Known(s, f) \/ f = fundingDue[s].at
    BY <1>11 DEF FundingOK
  <2>2. fundingDue[s].at \in Nat
    BY DEF FeedTypes
  <2>3. f # 0
    BY <1>11, SettlementsDivide
  <2>4. f % FundingEvery = 0
    BY <1>11, SettlementsDivide
  <2>5. CASE old = 0
    <3>1. fundingDue'[s] = NoSettlement
      BY <2>5, <1>4 DEF FundingOK
    <3>2. f <= ts
      BY <3>1, <2>3, <1>1, <1>11 DEF NoSettlement
    <3> QED  BY <3>2, <2>5, <1>6 DEF Known, Overlooked
  <2>6. CASE old # 0 /\ f < announced /\ old <= f
    <3>1. f \in passed \/ f = fundingDue'[s].at
      BY <2>4, <2>6, <1>1, <1>3 DEF passed
    <3> QED  BY <3>1, <1>8 DEF Known, Overlooked
  <2>7. CASE old # 0 /\ moves /\ ~(f < announced /\ old <= f)
    <3>1. fundingDue'[s].at = old /\ fundingDue[s].at = 0
      BY <2>7, <1>4 DEF NoSettlement
    <3>2. f < old
      BY <3>1, <2>7, <1>1, <1>3, <1>11
    <3> QED  BY <3>1, <3>2, <2>1, <2>3, <1>10
  <2>8. CASE old # 0 /\ ~moves /\ ~(f < announced /\ old <= f)
    <3>1. fundingDue'[s] = fundingDue[s]
      BY <2>8, <1>4
    <3>2. f < old \/ f <= fundingDue[s].at
      BY <3>1, <2>8, <1>1, <1>3, <1>11
    <3> QED  BY <3>1, <3>2, <2>1, <1>10
  <2> QED  BY <2>5, <2>6, <2>7, <2>8
<1>12. FundingOK'
  <2> SUFFICES ASSUME NEW z \in Symbol
               PROVE  /\ \A f \in Nat : IsSettlement(f) =>
                            /\ f <= cover'["funding"][z].through => Known(z, f)'
                            /\ f < nextFunding'[z] \/ f <= fundingDue'[z].at
                                  => Known(z, f)' \/ f = fundingDue'[z].at
                      /\ fundingDue'[z] # NoSettlement
                            => nextFunding'[z] # 0 /\ fundingDue'[z].at # 0
                      /\ IF nextFunding'[z] = 0 THEN unseen'[z] = 0 ELSE nextFunding'[z] > 1
    BY DEF FundingOK, IsSettlement, NoSettlement
  <2>1. \A f \in Nat : IsSettlement(f) /\ f <= cover'["funding"][z].through => Known(z, f)'
    BY <1>10 DEF FundingOK
  <2>2. CASE z # s
    BY <2>1, <2>2, <1>4, <1>5, <1>6, <1>10 DEF FundingOK
  <2>3. CASE z = s
    <3>1. fundingDue'[s] # NoSettlement => fundingDue'[s].at # 0
      BY <1>4 DEF FundingOK
    <3> QED  BY <2>1, <2>3, <3>1, <1>1, <1>5, <1>11
  <2> QED  BY <2>2, <2>3
<1> QED  BY <1>4, <1>5, <1>6, <1>8, <1>12

LEMMA MarksKeep ==
    ASSUME FeedInv, NEW s \in Symbol, MarkSample(s)
    PROVE  FeedInv'
<1> DEFINE p == "markPrice"
<1>1. PICK ts \in Instants :
        LET b == ts \div Minute
        IN  /\ ~ over /\ s \in lineup.covers["markPrice"]
            /\ NoteNextFunding(s, (ts \div FundingEvery + 1) * FundingEvery)
            /\ bucket' = [bucket EXCEPT ![s] = Max({@, b})]
            /\ Offer(IF bucket[s] # -1 /\ b > bucket[s]
                       THEN {[stream |-> "markPrice", symbol |-> s, ts |-> CloseOf(bucket[s])]}
                       ELSE {})
            /\ Report("markPrice", s, CloseOf(b) - 1, -1)
            /\ unseen' = [unseen EXCEPT ![s] = IF nextFunding[s] = 0 THEN ts ELSE @]
            /\ UNCHANGED <<lineup, tick, ahead, watermark, klines_vars, settled, fundingSeeded,
                           lastTrade, engine_vars, over>>
  BY DEF MarkSample
<1> DEFINE b == ts \div Minute
           said == CloseOf(b) - 1
           marks == IF bucket[s] # -1 /\ b > bucket[s]
                      THEN {[stream |-> "markPrice", symbol |-> s, ts |-> CloseOf(bucket[s])]}
                      ELSE {}
<1>2. ~over /\ FeedTypes /\ BufferOK /\ SourcesOK /\ BarsOK /\ MarksOK /\ FundingOK
      /\ wronged = {} /\ ~refused
  BY <1>1 DEF FeedInv, NothingIsLost, LateMeansSilent, NothingRefused
<1>3. /\ s \in lineup.covers[p] /\ p \in Slow
      /\ NoteNextFunding(s, (ts \div FundingEvery + 1) * FundingEvery)
      /\ bucket' = [bucket EXCEPT ![s] = Max({@, b})]
      /\ Offer(marks)
      /\ Report(p, s, said, -1)
      /\ unseen' = [unseen EXCEPT ![s] = IF nextFunding[s] = 0 THEN ts ELSE @]
      /\ UNCHANGED <<lineup, tick, ahead, watermark, klines_vars, settled, fundingSeeded,
                     lastTrade, engine_vars, over>>
  BY <1>1 DEF Slow
<1>4. ts \in Nat /\ b \in Nat /\ said \in Nat /\ CloseOf(b) \in Nat
  BY <1>2, InstantsOK
<1> HIDE DEF b
<1>5. /\ bucket[s] \in Int /\ cover[p][s].through \in Nat
      /\ bucket[s] # -1 => bucket[s] >= 0 /\ cover[p][s].through < CloseOf(bucket[s])
      /\ bucket[s] = -1 => cover[p][s].through = 0
      /\ CloseOf(bucket[s]) \in Int
  <2>1. bucket[s] \in Int
    BY <1>2 DEF FeedTypes
  <2>2. CloseOf(bucket[s]) \in Int
    BY <2>1, LaterCloses
  <2> QED  BY <2>1, <2>2, <1>2, <1>3 DEF FeedTypes, MarksOK
<1> HIDE DEF said
<1>6. BufferOK' /\ wronged' = {}
  <2>1. \A e \in marks : e.ts \in Int /\ e.stream = p
    BY <1>5
  <2>2. ASSUME NEW e \in marks, e.ts <= watermark, e.ts > excused[p]
        PROVE  FALSE
    <3>1. e.ts = CloseOf(bucket[s]) /\ bucket[s] # -1
      OBVIOUS
    <3>2. e.ts <= cover[p][s].through
      <4>1. e.ts \in Int /\ excused[p] \in Int
        BY <2>1, <1>2, <1>3 DEF FeedTypes
      <4> HIDE DEF marks, p
      <4>2. e.ts <= excused[p] \/ e.ts <= cover[p][s].through
        BY <4>1, <2>2, <1>2, <1>3, LateIsSaid
      <4> QED  BY <4>1, <4>2, <2>2
    <3> QED  BY <3>1, <3>2, <1>5
  <2>3. watermark \in Int /\ UNCHANGED <<watermark, clock>>
    BY <1>2, <1>3 DEF FeedTypes, engine_vars
  <2> HIDE DEF marks
  <2> QED  BY <2>1, <2>2, <2>3, <1>2, <1>3, OfferKeeps
<1>7. /\ cover' \in [Slow -> [Symbol -> [through : Nat, at : Nat]]]
      /\ source' \in [Slow -> [through : Nat, reported : Int]]
      /\ excused' \in [Slow -> Int]
      /\ \A q \in Slow : excused[q] <= excused'[q]
      /\ \A q \in Slow \ {p} : cover'[q] = cover[q]
      /\ \A z \in Symbol \ {s} : cover'[p][z].through <= cover[p][z].through
      /\ cover'[p][s].through \in {cover[p][s].through, said}
      /\ SourcesOK'
  <2>1. lineup' = lineup /\ watermark' = watermark /\ -1 \in Int
    BY <1>3
  <2> HIDE DEF p
  <2> QED  BY <2>1, <1>2, <1>3, <1>4, ReportSays
<1>8. /\ FundingOK'
      /\ nextFunding' \in [Symbol -> Nat] /\ unseen' \in [Symbol -> Nat]
      /\ skipped' \in [Symbol -> SUBSET Nat]
      /\ fundingDue' \in [Symbol -> [at : Nat, noticed : Int]]
  <2>1. cover'["funding"] = cover["funding"] /\ excused["funding"] <= excused'["funding"]
        /\ settled' = settled
    BY <1>3, <1>7 DEF Slow
  <2> QED  BY <2>1, <1>2, <1>3, <1>4, <1>7, NoteKeeps
<1> DEFINE m == bucket'[s]
<1>9. /\ bucket' \in [Symbol -> Int]
      /\ \A z \in Symbol \ {s} : bucket'[z] = bucket[z]
      /\ m \in {bucket[s], b} /\ bucket[s] <= m /\ b <= m
  <2> DEFINE x == bucket[s]  n == Max({x, b})
  <2>1. n \in {x, b} /\ x <= n /\ b <= n
    <3>1. x \in Int /\ b \in Int
      BY <1>4, <1>5
    <3> HIDE DEF x
    <3> QED  BY <3>1, GreaterOfTwo
  <2>2. bucket' = [bucket EXCEPT ![s] = n]
    BY <1>3
  <2>3. bucket \in [Symbol -> Int]
    BY <1>2 DEF FeedTypes
  <2> HIDE DEF n
  <2> QED  BY <2>1, <2>2, <2>3, <1>4
<1>10. FeedTypes'
  BY <1>2, <1>3, <1>7, <1>8, <1>9 DEF FeedTypes, klines_vars, engine_vars
<1>11. MarksOK'
  <2> SUFFICES ASSUME NEW z \in Symbol
               PROVE  IF bucket'[z] = -1
                        THEN cover'[p][z].through = 0
                        ELSE /\ bucket'[z] >= 0 /\ z \in lineup.covers[p]
                             /\ cover'[p][z].through < CloseOf(bucket'[z])
    BY <1>3 DEF MarksOK, CloseOf
  <2>1. CASE z # s
    <3>1. cover'[p][z].through \in Nat /\ cover[p][z].through \in Nat
          /\ cover'[p][z].through <= cover[p][z].through /\ bucket'[z] = bucket[z]
          /\ bucket[z] \in Int
      BY <2>1, <1>2, <1>3, <1>7, <1>9 DEF FeedTypes
    <3>2. CloseOf(bucket[z]) \in Int
      BY <3>1, LaterCloses
    <3> QED  BY <3>1, <3>2, <1>2 DEF MarksOK
  <2>2. CASE z = s
    <3>1. m >= 0 /\ m \in Int
      BY <1>4, <1>5, <1>9
    <3>2. CloseOf(b) <= CloseOf(m) /\ CloseOf(bucket[s]) <= CloseOf(m) /\ CloseOf(m) \in Int
      BY <3>1, <1>4, <1>5, <1>9, LaterCloses
    <3>3. said < CloseOf(m) /\ 0 < CloseOf(m)
      BY <3>2, <1>4 DEF said
    <3>4. cover'[p][s].through < CloseOf(m)
      BY <3>2, <3>3, <1>4, <1>5, <1>7
    <3> QED  BY <2>2, <3>1, <3>4, <1>3 DEF m
  <2> QED  BY <2>1, <2>2
<1>12. BarsOK'
  <2>1. cover'["klines"] = cover["klines"]
    BY <1>7 DEF Slow
  <2> QED  BY <2>1, <1>2, <1>3 DEF BarsOK, klines_vars, CloseOf
<1>13. NothingIsLost'
  BY <1>2, <1>3, <1>6 DEF NothingIsLost, LateMeansSilent, NothingRefused, engine_vars
<1> QED  BY <1>6, <1>7, <1>8, <1>10, <1>11, <1>12, <1>13 DEF FeedInv

(* What a poll of the settlements has seen: through, the last row of the   *)
(* page or of an earlier one.                                              *)
LEMMA RowsOfPage ==
    ASSUME NEW a \in Nat, NEW last \in Nat
    PROVE  LET rows == {f * FundingEvery : f \in {a \div FundingEvery - 1, a \div FundingEvery} \cap Nat} \ {0}
               through == Max(rows \cup {last})
           IN  /\ \A ts \in rows : ts \in Nat /\ IsSettlement(ts) /\ ts <= through
               /\ through \in Nat /\ last <= through
<1> DEFINE F == FundingEvery
           q == a \div F
           rows == {f * F : f \in {q - 1, q} \cap Nat} \ {0}
           S == rows \cup {last}
<1>1. F \in Nat /\ F > 1
  BY FeedAssumption
<1>2. q \in Nat
  BY <1>1
<1> HIDE DEF F, q
<1>3. \A f \in Nat : f * F \in Nat
  BY <1>1
<1>4. ASSUME NEW ts \in rows
      PROVE  ts \in Nat /\ IsSettlement(ts)
  <2>1. PICK f \in Nat : ts = f * F /\ ts # 0
    OBVIOUS
  <2>2. f # 0
    BY <2>1, <1>1
  <2> QED  BY <2>1, <2>2, <1>3 DEF IsSettlement, F
<1>5. (q - 1) * F \in Int /\ q * F \in Int
  BY <1>1, <1>2
<1> DEFINE top == Max({q * F, last})
<1>6. top \in Int /\ q * F <= top /\ last <= top
  <2> DEFINE x == q * F  n == Max({x, last})
  <2>1. x \in Int /\ last \in Int
    BY <1>5
  <2>2. n \in {x, last} /\ x <= n /\ last <= n
    <3> HIDE DEF x
    <3> QED  BY <2>1, GreaterOfTwo
  <2>3. n \in Int
    <3> HIDE DEF x, n
    <3> QED  BY <2>1, <2>2
  <2> QED  BY <2>2, <2>3
<1>7. (q - 1) * F <= q * F
  BY <1>1, <1>2
<1>8. \A x \in S : x \in Nat /\ x <= top
  <2>1. \A f \in {q - 1, q} \cap Nat : f * F <= top
    <3> HIDE DEF top
    <3> QED  BY <1>5, <1>6, <1>7
  <2> HIDE DEF top
  <2> QED  BY <2>1, <1>4, <1>6
<1>9. Max(S) \in S /\ \A x \in S : x <= Max(S)
  <2>1. S \in SUBSET Int /\ S # {} /\ top \in Int
    <3> HIDE DEF top
    <3> QED  BY <1>8, <1>6
  <2>2. \A x \in S : x <= top
    BY <1>8
  <2> HIDE DEF S, top
  <2> QED  BY <2>1, <2>2, GreatestOf
<1>10. \A ts \in rows : ts \in Nat /\ IsSettlement(ts)
  BY <1>4
<1>11. rows \subseteq S /\ last \in S
  OBVIOUS
<1> DEFINE m == Max(S)
<1>12. /\ \A ts \in rows : ts \in Nat /\ IsSettlement(ts) /\ ts <= m
       /\ m \in Nat /\ last <= m
  <2> HIDE DEF rows, S
  <2>1. m \in S /\ \A x \in S : x <= m
    BY <1>9
  <2>2. \A x \in S : x \in Nat
    BY <1>8
  <2> HIDE DEF m
  <2> QED  BY <2>1, <2>2, <1>10, <1>11
<1> QED  BY <1>12 DEF F, q

(* The funding source's word: past nothing it waits for, nor a settlement  *)
(* that is still to come.                                                  *)
LEMMA HorizonHolds ==
    ASSUME FeedTypes, FundingOK, NEW s \in Symbol, NEW through \in Nat,
           settled[s] <= through
    PROVE  LET h == Horizon(s, through)
               excuse == IF GivesUp(s, through) THEN fundingDue[s].at ELSE -1
           IN  /\ h \in Nat /\ excuse \in Int
               /\ ~Awaits(s, through) /\ fundingDue[s] # NoSettlement => h # 0
               /\ \A f \in Nat : IsSettlement(f) /\ f <= h =>
                     Known(s, f) \/ f <= through \/ f <= excuse
               /\ ~Awaits(s, through) =>
                     \A f \in Nat : IsSettlement(f) /\ f < nextFunding[s] =>
                        Known(s, f) \/ f <= through \/ f <= excuse
<1> DEFINE h == Horizon(s, through)
           excuse == IF GivesUp(s, through) THEN fundingDue[s].at ELSE -1
           at_ == fundingDue[s].at
           next == nextFunding[s]
<1>1. at_ \in Nat /\ next \in Nat /\ excuse \in Int /\ Wall \in Nat /\ Wall # 0
  <2>1. at_ \in Nat /\ next \in Nat
    BY DEF FeedTypes
  <2>2. Wall \in Nat /\ Wall # 0
    BY WallRuns
  <2> HIDE DEF at_
  <2> QED  BY <2>1, <2>2 DEF at_
<1>2. /\ fundingDue[s] # NoSettlement => next # 0 /\ at_ # 0
      /\ next # 0 => next > 1
      /\ \A f \in Nat : IsSettlement(f) /\ (f < next \/ f <= at_) => Known(s, f) \/ f = at_
  BY DEF FundingOK
<1>3. \A f \in Nat : IsSettlement(f) => f # 0
  BY SettlementsDivide
<1>4. ~Awaits(s, through) => at_ = 0 \/ at_ <= through \/ at_ <= excuse
  BY <1>1 DEF Awaits, GivesUp, NoSettlement
<1>5. CASE Awaits(s, through)
  <2> DEFINE x == at_ - 1
  <2>1. fundingDue[s] # NoSettlement
    BY <1>5 DEF Awaits
  <2>2. x \in Nat
    BY <2>1, <1>1, <1>2
  <2>3. h = Min({Wall, x})
    BY <1>5 DEF Horizon
  <2>4. h \in {Wall, x} /\ h <= x
    <3>1. x \in Int /\ Wall \in Int
      BY <2>2, <1>1
    <3> HIDE DEF x, h
    <3> QED  BY <2>3, <3>1, LesserOfTwo
  <2> HIDE DEF h, excuse
  <2> QED  BY <2>2, <2>4, <1>1, <1>2, <1>5 DEF h, excuse
<1>6. CASE ~Awaits(s, through) /\ next = 0
  <2>1. h = 0
    BY <1>6 DEF Horizon
  <2> HIDE DEF h, excuse
  <2> QED  BY <2>1, <1>1, <1>2, <1>3, <1>6 DEF h, excuse
<1>7. CASE ~Awaits(s, through) /\ next # 0
  <2> DEFINE x == next - 1
  <2>1. x \in Nat /\ x # 0
    BY <1>1, <1>2, <1>7
  <2>2. h = Min({Wall, x})
    BY <1>7 DEF Horizon
  <2>3. h \in {Wall, x} /\ h <= x
    <3> HIDE DEF x, h
    <3> QED  BY <2>1, <2>2, <1>1, LesserOfTwo
  <2>4. h \in Nat /\ h # 0
    <3> HIDE DEF h
    <3> QED  BY <2>1, <2>3, <1>1
  <2>5. \A f \in Nat : IsSettlement(f) /\ f < next => Known(s, f) \/ f <= through \/ f <= excuse
    <3> HIDE DEF excuse
    <3> QED  BY <1>1, <1>2, <1>3, <1>4, <1>7
  <2>6. \A f \in Nat : f <= h => f < next
    <3> HIDE DEF h
    <3> QED  BY <2>1, <2>3, <2>4, <1>1
  <2> HIDE DEF h, excuse
  <2> QED  BY <2>4, <2>5, <2>6, <1>1 DEF h, excuse
<1> QED  BY <1>5, <1>6, <1>7

LEMMA FundingKeeps ==
    ASSUME FeedInv, NEW s \in Symbol, PollFunding(s)
    PROVE  FeedInv'
<1> DEFINE p == "funding"
<1>1. PICK a \in Instants :
      LET last == a \div FundingEvery
          rows == {f * FundingEvery : f \in {last - 1, last} \cap Nat} \ {0}
          fresh == {ts \in rows : ts > settled[s]}
          through == Max(rows \cup {settled[s]})
          horizon == Horizon(s, through)
          excuse == IF GivesUp(s, through) THEN fundingDue[s].at ELSE -1
      IN  /\ ~ over /\ s \in lineup.covers["funding"]
          /\ settled' = [settled EXCEPT ![s] = through]
          /\ Offer({[stream |-> "funding", symbol |-> s, ts |-> ts] :
                        ts \in IF s \in fundingSeeded THEN fresh ELSE {}})
          /\ fundingDue' = IF Awaits(s, through) THEN fundingDue
                           ELSE [fundingDue EXCEPT ![s] = NoSettlement]
          /\ IF horizon = 0 THEN UNCHANGED report_vars
                            ELSE Report("funding", s, horizon, excuse)
          /\ UNCHANGED <<lineup, tick, ahead, watermark, klines_vars, mark_vars,
                         lastTrade, engine_vars, over>>
  BY DEF PollFunding
<1> DEFINE last == a \div FundingEvery
           rows == {f * FundingEvery : f \in {last - 1, last} \cap Nat} \ {0}
           fresh == {ts \in rows : ts > settled[s]}
           through == Max(rows \cup {settled[s]})
           horizon == Horizon(s, through)
           excuse == IF GivesUp(s, through) THEN fundingDue[s].at ELSE -1
           published == {[stream |-> "funding", symbol |-> s, ts |-> ts] :
                           ts \in IF s \in fundingSeeded THEN fresh ELSE {}}
<1>2. ~over /\ FeedTypes /\ BufferOK /\ SourcesOK /\ BarsOK /\ MarksOK /\ FundingOK
      /\ wronged = {} /\ ~refused
  BY <1>1 DEF FeedInv, NothingIsLost, LateMeansSilent, NothingRefused
<1>3. /\ s \in lineup.covers[p] /\ p \in Slow
      /\ settled' = [settled EXCEPT ![s] = through]
      /\ Offer(published)
      /\ fundingDue' = IF Awaits(s, through) THEN fundingDue
                       ELSE [fundingDue EXCEPT ![s] = NoSettlement]
      /\ IF horizon = 0 THEN UNCHANGED report_vars
                        ELSE Report(p, s, horizon, excuse)
      /\ UNCHANGED <<lineup, tick, ahead, watermark, klines_vars, mark_vars,
                     lastTrade, engine_vars, over>>
  BY <1>1 DEF Slow
<1>4. a \in Nat /\ settled[s] \in Nat /\ settled \in [Symbol -> Nat]
  BY <1>2, InstantsOK DEF FeedTypes
<1>5. /\ \A ts \in rows : ts \in Nat /\ IsSettlement(ts) /\ ts <= through
      /\ through \in Nat /\ settled[s] <= through
  <2> DEFINE now_ == settled[s]
  <2> HIDE DEF now_
  <2> QED  BY <1>4, RowsOfPage DEF now_
<1> HIDE DEF rows, through
<1>6. /\ horizon \in Nat /\ excuse \in Int
      /\ ~Awaits(s, through) /\ fundingDue[s] # NoSettlement => horizon # 0
      /\ \A f \in Nat : IsSettlement(f) /\ f <= horizon =>
            Known(s, f) \/ f <= through \/ f <= excuse
      /\ ~Awaits(s, through) =>
            \A f \in Nat : IsSettlement(f) /\ f < nextFunding[s] =>
               Known(s, f) \/ f <= through \/ f <= excuse
  BY <1>2, <1>5, HorizonHolds
<1> HIDE DEF horizon, excuse
<1>7. BufferOK' /\ wronged' = {}
  <2>1. \A e \in published : /\ e.ts \in Nat /\ IsSettlement(e.ts) /\ e.ts > settled[s]
                             /\ e.stream = p /\ e.symbol = s
    BY <1>5
  <2> HIDE DEF published
  <2>2. ASSUME NEW e \in published, e.ts <= watermark, e.ts > excused[p]
        PROVE  Overlooked(s, e.ts)
    <3>1. e.ts \in Int /\ e.ts \in Nat /\ IsSettlement(e.ts) /\ e.ts > settled[s]
      BY <2>1
    <3>2. excused[p] \in Int
      BY <1>2, <1>3 DEF FeedTypes
    <3>3. e.ts <= excused[p] \/ e.ts <= cover[p][s].through
      <4> HIDE DEF p
      <4> QED  BY <3>1, <2>2, <1>2, <1>3, LateIsSaid
    <3>4. Known(s, e.ts)
      BY <3>1, <3>2, <3>3, <2>2, <1>2 DEF FundingOK
    <3> QED  BY <3>1, <3>2, <3>4, <2>2, <1>4 DEF Known
  <2>3. watermark \in Int /\ UNCHANGED <<watermark, clock>>
    BY <1>2, <1>3 DEF FeedTypes, engine_vars
  <2>4. /\ \A e \in published : e.ts \in Int
        /\ \A e \in published : e.ts <= watermark /\ e.stream \in Slow /\ e.ts > excused[e.stream]
                => e.stream = "funding" /\ Overlooked(e.symbol, e.ts)
    BY <2>1, <2>2
  <2> QED  BY <2>3, <2>4, <1>2, <1>3, OfferKeeps
<1>8. /\ cover' \in [Slow -> [Symbol -> [through : Nat, at : Nat]]]
      /\ source' \in [Slow -> [through : Nat, reported : Int]]
      /\ excused' \in [Slow -> Int]
      /\ \A q \in Slow : excused[q] <= excused'[q]
      /\ horizon # 0 => excuse <= excused'[p]
      /\ \A q \in Slow \ {p} : cover'[q] = cover[q]
      /\ \A z \in Symbol \ {s} : cover'[p][z].through <= cover[p][z].through
      /\ \/ cover'[p][s].through = cover[p][s].through
         \/ cover'[p][s].through = horizon /\ horizon # 0
      /\ SourcesOK'
  <2>1. lineup' = lineup /\ watermark' = watermark
    BY <1>3
  <2>2. CASE horizon = 0
    <3>1. UNCHANGED <<cover, source, excused>>
      BY <2>2, <1>3 DEF report_vars
    <3>2. SourcesOK'
      BY <3>1, <2>1, <1>2 DEF SourcesOK, Within
    <3>3. /\ \A q \in Slow : excused[q] \in Int
          /\ \A z \in Symbol : cover[p][z].through \in Nat
      BY <1>2, <1>3 DEF FeedTypes
    <3>4. /\ cover' \in [Slow -> [Symbol -> [through : Nat, at : Nat]]]
          /\ source' \in [Slow -> [through : Nat, reported : Int]]
          /\ excused' \in [Slow -> Int]
      BY <3>1, <1>2 DEF FeedTypes
    <3> QED  BY <3>1, <3>2, <3>3, <3>4, <2>2
  <2>3. CASE horizon # 0
    <3>1. Report(p, s, horizon, excuse)
      BY <2>3, <1>3
    <3> HIDE DEF p
    <3> QED  BY <2>1, <2>3, <3>1, <1>2, <1>3, <1>6, ReportSays
  <2> QED  BY <2>2, <2>3
<1>9. /\ settled' \in [Symbol -> Nat] /\ settled'[s] = through
      /\ \A z \in Symbol \ {s} : settled'[z] = settled[z]
      /\ \A z \in Symbol : settled[z] <= settled'[z]
  BY <1>3, <1>4, <1>5
<1>10. /\ fundingDue' \in [Symbol -> [at : Nat, noticed : Int]]
       /\ \A z \in Symbol \ {s} : fundingDue'[z] = fundingDue[z]
       /\ fundingDue'[s] = IF Awaits(s, through) THEN fundingDue[s] ELSE NoSettlement
  <2>1. NoSettlement \in [at : Nat, noticed : Int]
    BY DEF NoSettlement
  <2>2. fundingDue \in [Symbol -> [at : Nat, noticed : Int]]
    BY <1>2 DEF FeedTypes
  <2> QED  BY <2>1, <2>2, <1>3
<1>11. UNCHANGED <<nextFunding, unseen, skipped>>
  BY <1>3 DEF mark_vars
<1>12. excused["funding"] \in Int /\ excused'["funding"] \in Int
       /\ excused["funding"] <= excused'["funding"]
  BY <1>2, <1>3, <1>8 DEF FeedTypes
<1>13. \A z \in Symbol, f \in Nat : Known(z, f) => Known(z, f)'
  <2> SUFFICES ASSUME NEW z \in Symbol, NEW f \in Nat, Known(z, f) PROVE Known(z, f)'
    OBVIOUS
  <2>1. settled[z] \in Nat /\ settled'[z] \in Nat
    BY <1>4, <1>9
  <2> QED  BY <2>1, <1>9, <1>11, <1>12 DEF Known, Overlooked
<1>14. ASSUME NEW f \in Nat, Known(s, f) \/ f <= through \/ f <= excuse, horizon # 0
       PROVE  Known(s, f)'
  <2>1. CASE Known(s, f)
    BY <2>1, <1>13
  <2>2. CASE f <= through
    BY <2>2, <1>9 DEF Known
  <2>3. CASE f <= excuse
    BY <2>3, <1>14, <1>6, <1>8, <1>12 DEF Known
  <2> QED  BY <2>1, <2>2, <2>3, <1>14
<1>15. FundingOK'
  <2> SUFFICES ASSUME NEW z \in Symbol
               PROVE  /\ \A f \in Nat : IsSettlement(f) =>
                            /\ f <= cover'[p][z].through => Known(z, f)'
                            /\ f < nextFunding'[z] \/ f <= fundingDue'[z].at
                                  => Known(z, f)' \/ f = fundingDue'[z].at
                      /\ fundingDue'[z] # NoSettlement
                            => nextFunding'[z] # 0 /\ fundingDue'[z].at # 0
                      /\ IF nextFunding'[z] = 0 THEN unseen'[z] = 0 ELSE nextFunding'[z] > 1
    BY DEF FundingOK, IsSettlement, NoSettlement
  <2>1. /\ fundingDue'[z] # NoSettlement
              => nextFunding'[z] # 0 /\ fundingDue'[z].at # 0
        /\ IF nextFunding'[z] = 0 THEN unseen'[z] = 0 ELSE nextFunding'[z] > 1
    BY <1>2, <1>10, <1>11 DEF FundingOK
  <2>2. ASSUME NEW f \in Nat, IsSettlement(f), f <= cover'[p][z].through
        PROVE  Known(z, f)'
    <3>1. cover[p][z].through \in Nat /\ cover'[p][z].through \in Nat
      BY <1>2, <1>3, <1>8 DEF FeedTypes
    <3>2. CASE f <= cover[p][z].through
      BY <2>2, <3>2, <1>2, <1>13 DEF FundingOK
    <3>3. CASE ~(f <= cover[p][z].through)
      <4>1. z = s /\ f <= horizon /\ horizon # 0
        BY <2>2, <3>1, <3>3, <1>8
      <4> QED  BY <4>1, <2>2, <1>6, <1>14
    <3> QED  BY <3>2, <3>3
  <2>3. ASSUME NEW f \in Nat, IsSettlement(f), f < nextFunding[z] \/ f <= fundingDue'[z].at
        PROVE  Known(z, f)' \/ f = fundingDue'[z].at
    <3>1. CASE fundingDue'[z] = fundingDue[z]
      BY <2>3, <3>1, <1>2, <1>13 DEF FundingOK
    <3>2. CASE fundingDue'[z] # fundingDue[z]
      <4>1. z = s /\ ~Awaits(s, through) /\ fundingDue[s] # NoSettlement
            /\ fundingDue'[s] = NoSettlement
        BY <3>2, <1>10
      <4>2. f # 0
        BY <2>3, SettlementsDivide
      <4>3. f < nextFunding[s]
        BY <4>1, <4>2, <2>3 DEF NoSettlement
      <4> QED  BY <4>1, <4>3, <2>3, <1>6, <1>14
    <3> QED  BY <3>1, <3>2
  <2> QED  BY <2>1, <2>2, <2>3, <1>11
<1>16. FeedTypes'
  BY <1>2, <1>3, <1>8, <1>9, <1>10 DEF FeedTypes, klines_vars, mark_vars, engine_vars
<1>17. MarksOK' /\ BarsOK'
  <2>1. cover'["markPrice"] = cover["markPrice"] /\ cover'["klines"] = cover["klines"]
    BY <1>8 DEF Slow
  <2> QED  BY <2>1, <1>2, <1>3 DEF MarksOK, BarsOK, mark_vars, klines_vars, CloseOf
<1>18. NothingIsLost'
  BY <1>2, <1>3, <1>7 DEF NothingIsLost, LateMeansSilent, NothingRefused, engine_vars
<1> QED  BY <1>7, <1>8, <1>15, <1>16, <1>17, <1>18 DEF FeedInv

LEMMA TradeKeeps == ASSUME FeedInv, TradeArrives PROVE FeedInv'
<1>1. PICK ts \in Instants :
        /\ ~ over
        /\ Offer({[stream |-> "aggTrades", symbol |-> CHOOSE z \in Symbol : TRUE, ts |-> ts]})
        /\ UNCHANGED <<lineup, tick, ahead, report_vars, watermark, klines_vars, mark_vars,
                       funding_vars, engine_vars, over>>
  BY DEF TradeArrives
<1> DEFINE trades == {[stream |-> "aggTrades", symbol |-> CHOOSE z \in Symbol : TRUE, ts |-> ts]}
<1>2. ~over /\ FeedTypes /\ BufferOK /\ SourcesOK /\ BarsOK /\ MarksOK /\ FundingOK
      /\ wronged = {} /\ ~refused
  BY <1>1 DEF FeedInv, NothingIsLost, LateMeansSilent, NothingRefused
<1>3. ts \in Nat
  BY <1>2, InstantsOK
<1>4. BufferOK' /\ wronged' = {}
  <2>1. \A e \in trades : e.ts \in Int /\ e.stream \notin Slow
    BY <1>3 DEF Slow
  <2>2. watermark \in Int /\ UNCHANGED <<watermark, clock>> /\ Offer(trades)
    BY <1>1, <1>2 DEF FeedTypes, engine_vars
  <2> HIDE DEF trades
  <2> QED  BY <2>1, <2>2, <1>2, OfferKeeps
<1>5. FeedTypes'
  BY <1>1, <1>2 DEF FeedTypes, report_vars, klines_vars, mark_vars, funding_vars, engine_vars
<1>6. SourcesOK' /\ BarsOK' /\ MarksOK'
  BY <1>1, <1>2
     DEF SourcesOK, Within, BarsOK, MarksOK, CloseOf, report_vars, klines_vars, mark_vars
<1>7. FundingOK'
  BY <1>1, <1>2
     DEF FundingOK, IsSettlement, Known, Overlooked, report_vars, mark_vars, funding_vars
<1>8. NothingIsLost'
  BY <1>1, <1>2, <1>4 DEF NothingIsLost, LateMeansSilent, NothingRefused, engine_vars
<1> QED  BY <1>4, <1>5, <1>6, <1>7, <1>8 DEF FeedInv

LEMMA StepBackKeeps == ASSUME FeedInv, StepBack PROVE FeedInv'
<1>1. ~over /\ FeedTypes /\ BufferOK /\ SourcesOK /\ BarsOK /\ MarksOK /\ FundingOK
      /\ wronged = {} /\ ~refused
  BY DEF StepBack, FeedInv, NothingIsLost, LateMeansSilent, NothingRefused
<1>2. ahead' = 0
      /\ UNCHANGED <<lineup, tick, report_vars, held, watermark, klines_vars, mark_vars,
                     funding_vars, lastTrade, engine_vars, over, wronged>>
  BY DEF StepBack
<1>3. FeedTypes'
  BY <1>1, <1>2 DEF FeedTypes, report_vars, klines_vars, mark_vars, funding_vars, engine_vars
<1>4. SourcesOK' /\ BarsOK' /\ MarksOK' /\ BufferOK'
  BY <1>1, <1>2 DEF SourcesOK, Within, BarsOK, MarksOK, BufferOK, CloseOf, report_vars,
                    klines_vars, mark_vars, engine_vars
<1>5. FundingOK'
  BY <1>1, <1>2
     DEF FundingOK, IsSettlement, Known, Overlooked, report_vars, mark_vars, funding_vars
<1>6. NothingIsLost'
  BY <1>1, <1>2 DEF NothingIsLost, LateMeansSilent, NothingRefused, engine_vars
<1> QED  BY <1>3, <1>4, <1>5, <1>6 DEF FeedInv

(* The cutoff waits for every source that has spoken and is not silent.    *)
LEMMA CutoffWaits ==
    ASSUME FeedTypes
    PROVE  /\ Cutoff \in Int
           /\ \A p \in Slow : lineup.covers[p] # {} /\ ~IsSilent(p) => Cutoff <= Holds(p)
           /\ \/ Cutoff = Wall - Window
              \/ \E p \in Slow : lineup.covers[p] # {} /\ ~IsSilent(p) /\ Cutoff = Holds(p)
<1> DEFINE active == {x \in Slow : lineup.covers[x] # {} /\ ~IsSilent(x)}
           S == {Wall - Window} \cup {Holds(p) : p \in active}
           low == 0 - (Window + Stale["klines"] + Stale["markPrice"] + Stale["funding"])
<1>1. /\ Wall \in Nat /\ Window \in Nat
      /\ Stale["klines"] \in Nat /\ Stale["markPrice"] \in Nat /\ Stale["funding"] \in Nat
  BY FeedAssumption, WallRuns DEF Slow
<1>2. \A p \in Slow : Holds(p) \in Int /\ low <= Holds(p)
  <2> TAKE p \in Slow
  <2>1. source[p].through \in Nat
    BY DEF FeedTypes
  <2>2. Stale[p] \in Nat /\ low <= 0 - Stale[p]
    BY <1>1 DEF Slow
  <2>3. low \in Int /\ low <= 0
    BY <1>1
  <2> HIDE DEF low
  <2> QED  BY <2>1, <2>2, <2>3, <1>1 DEF Holds
<1>3. low \in Int /\ Wall - Window \in Int /\ low <= Wall - Window
  BY <1>1
<1> HIDE DEF low
<1>4. S \in SUBSET Int /\ S # {} /\ \A x \in S : low <= x
  <2> HIDE DEF active
  <2>1. active \subseteq Slow
    BY DEF active
  <2> QED  BY <2>1, <1>2, <1>3
<1>5. Min(S) \in S /\ \A x \in S : Min(S) <= x
  <2> HIDE DEF S
  <2> QED  BY <1>3, <1>4, LeastOf
<1>6. Cutoff = Min(S)
  BY DEF Cutoff
<1>7. \A p \in active : Holds(p) \in S
  OBVIOUS
<1>8. \A x \in S : x = Wall - Window \/ \E p \in active : x = Holds(p)
  OBVIOUS
<1> HIDE DEF S
<1> QED  BY <1>4, <1>5, <1>6, <1>7, <1>8

LEMMA PumpKeeps == ASSUME FeedInv, Pump PROVE FeedInv'
<1> DEFINE w == Max({watermark, Cutoff})
           out == {e \in held : e.ts <= w}
<1>1. ~over /\ FeedTypes /\ BufferOK /\ SourcesOK /\ BarsOK /\ MarksOK /\ FundingOK
      /\ wronged = {} /\ ~refused
  BY DEF Pump, FeedInv, NothingIsLost, LateMeansSilent, NothingRefused
<1>2. /\ tick' = tick + 1
      /\ watermark' = w
      /\ held' = held \ out
      /\ Dispatch(out, w)
      /\ excused' = [p \in Slow |-> IF IsSilent(p) \/ source[p].reported = 0
                                      THEN Max({excused[p], w}) ELSE excused[p]]
      /\ UNCHANGED <<lineup, ahead, cover, source, klines_vars, mark_vars,
                     funding_vars, lastTrade, over, wronged>>
  BY DEF Pump
<1>3. /\ w \in Int /\ watermark <= w /\ w \in {watermark, Cutoff}
      /\ watermark \in Int /\ Cutoff \in Int
  <2>1. watermark \in Int /\ Cutoff \in Int
    BY <1>1, CutoffWaits DEF FeedTypes
  <2>2. w \in {watermark, Cutoff} /\ watermark <= w
    BY <2>1, GreaterOfTwo
  <2> HIDE DEF w
  <2> QED  BY <2>1, <2>2
<1> HIDE DEF w
<1>4. \A e \in held : e.ts \in Int /\ e.ts > watermark
  BY <1>1 DEF BufferOK
<1>5. clock \in Int /\ clock <= watermark /\ timers \subseteq Int
  BY <1>1 DEF BufferOK, FeedTypes
<1>6. ~refused' /\ clock' \in Int /\ clock' <= w /\ timers' \subseteq Int
  <2>1. PICK extra \in {{}} \cup {{e.ts + Latency} : e \in {x \in out : x.stream = "aggTrades"}} :
          LET ready == {t \in timers \cup extra : t <= w}
          IN  /\ refused' = (refused \/ \E e \in out : e.ts <= clock)
              /\ clock' = Max({clock} \cup ready \cup {e.ts : e \in out})
              /\ timers' = (timers \cup extra) \ ready
    BY <1>2 DEF Dispatch
  <2> DEFINE ready == {t \in timers \cup extra : t <= w}
             S == {clock} \cup ready \cup {e.ts : e \in out}
  <2>2. extra \subseteq Int
    <3>1. Latency \in Int
      BY FeedAssumption
    <3> QED  BY <3>1, <1>4
  <2>3. /\ S \in SUBSET Int /\ S # {} /\ \A x \in S : x <= w
    <3>1. ready \subseteq Int /\ \A t \in ready : t <= w
      BY <2>2, <1>5
    <3>2. \A e \in out : e.ts \in Int /\ e.ts <= w
      BY <1>4
    <3>3. clock <= w
      BY <1>3, <1>5
    <3> HIDE DEF ready, out
    <3> QED  BY <3>1, <3>2, <3>3, <1>5
  <2>4. Max(S) \in S
    <3> HIDE DEF S
    <3> QED  BY <2>3, <1>3, GreatestOf
  <2>5. clock' = Max(S)
    BY <2>1
  <2>6. ~refused'
    <3>1. \A e \in out : ~(e.ts <= clock)
      BY <1>3, <1>4, <1>5
    <3> HIDE DEF out
    <3> QED  BY <3>1, <2>1, <1>1
  <2>7. timers' \subseteq Int
    BY <2>1, <2>2, <1>5
  <2> HIDE DEF S
  <2> QED  BY <2>3, <2>4, <2>5, <2>6, <2>7
<1>7. BufferOK'
  BY <1>2, <1>3, <1>4, <1>6 DEF BufferOK
<1>8. /\ excused' \in [Slow -> Int]
      /\ \A p \in Slow : excused[p] \in Int /\ excused[p] <= excused'[p]
      /\ \A p \in Slow : IsSilent(p) \/ source[p].reported = 0 => w <= excused'[p]
  <2>1. \A p \in Slow : excused[p] \in Int
    BY <1>1 DEF FeedTypes
  <2>2. \A p \in Slow : LET m == Max({excused[p], w})
                        IN  m \in {excused[p], w} /\ excused[p] <= m /\ w <= m
    <3> TAKE p \in Slow
    <3> DEFINE x == excused[p]
    <3>1. x \in Int
      BY <2>1
    <3> HIDE DEF x
    <3>2. Max({x, w}) \in {x, w} /\ x <= Max({x, w}) /\ w <= Max({x, w})
      BY <3>1, <1>3, GreaterOfTwo
    <3> QED  BY <3>2 DEF x
  <2> DEFINE m(p) == Max({excused[p], w})
  <2>3. \A p \in Slow : m(p) \in Int /\ excused[p] <= m(p) /\ w <= m(p)
    <3> HIDE DEF m
    <3> QED  BY <2>1, <2>2, <1>3 DEF m
  <2>4. excused' = [p \in Slow |-> IF IsSilent(p) \/ source[p].reported = 0
                                     THEN m(p) ELSE excused[p]]
    BY <1>2
  <2> HIDE DEF m
  <2> QED  BY <2>1, <2>3, <2>4
<1>9. FeedTypes'
  <2>1. tick + 1 \in Nat /\ FirstTick <= tick + 1
    BY <1>1, FeedAssumption DEF FeedTypes
  <2> QED  BY <2>1, <1>1, <1>2, <1>3, <1>6, <1>8
           DEF FeedTypes, klines_vars, mark_vars, funding_vars
<1>10. SourcesOK'
  <2> SUFFICES ASSUME NEW p \in Slow
               PROVE  /\ lineup.covers[p] # {} => Within(p, watermark, source[p].through)'
                      /\ \A s \in lineup.covers[p] : Within(p, source[p].through, cover[p][s].through)'
                      /\ \A s \in Symbol : cover[p][s].at = 0 => cover[p][s].through = 0
    BY <1>2 DEF SourcesOK
  <2>1. excused[p] \in Int /\ excused'[p] \in Int /\ excused[p] <= excused'[p]
        /\ source[p].through \in Nat /\ (\A s \in lineup.covers[p] : cover[p][s].through \in Nat)
    <3>1. lineup.covers[p] \subseteq Symbol
      BY <1>1, FeedAssumption DEF FeedTypes
    <3> QED  BY <3>1, <1>1, <1>8 DEF FeedTypes
  <2>2. \A s \in lineup.covers[p] : Within(p, source[p].through, cover[p][s].through)'
    BY <2>1, <1>1, <1>2 DEF SourcesOK, Within
  <2>3. ASSUME lineup.covers[p] # {}
        PROVE  Within(p, watermark, source[p].through)'
    <3>1. CASE w = watermark
      <4>1. Within(p, watermark, source[p].through)
        BY <2>3, <1>1 DEF SourcesOK
      <4> QED  BY <4>1, <3>1, <2>1, <1>2, <1>3 DEF Within
    <3>2. CASE w = Cutoff /\ (IsSilent(p) \/ source[p].reported = 0)
      BY <3>2, <1>2, <1>8 DEF Within
    <3>3. CASE w = Cutoff /\ ~IsSilent(p) /\ source[p].reported # 0
      <4>1. Cutoff <= Holds(p)
        BY <2>3, <3>3, <1>1, CutoffWaits
      <4> QED  BY <4>1, <3>3, <1>2 DEF Within, Holds
    <3> QED  BY <3>1, <3>2, <3>3, <1>3
  <2> QED  BY <2>2, <2>3, <1>1 DEF SourcesOK
<1>11. BarsOK' /\ MarksOK'
  BY <1>1, <1>2 DEF BarsOK, MarksOK, CloseOf, klines_vars, mark_vars
<1>12. FundingOK'
  <2>1. /\ cover' = cover /\ excused["funding"] <= excused'["funding"]
        /\ UNCHANGED <<settled, nextFunding, fundingDue, unseen, skipped>>
    BY <1>2, <1>8 DEF mark_vars, funding_vars, Slow
  <2> QED  BY <2>1, <1>1, <1>8, FundingStays
<1>13. NothingIsLost'
  BY <1>1, <1>2, <1>6 DEF NothingIsLost, LateMeansSilent, NothingRefused
<1> QED  BY <1>7, <1>9, <1>10, <1>11, <1>12, <1>13 DEF FeedInv

(* The end: the minutes in progress are flushed, and none of them is late. *)
LEMMA EndKeeps == ASSUME FeedInv, End PROVE FeedInv'
<1> DEFINE p == "markPrice"
           minutes == {[stream |-> "markPrice", symbol |-> s, ts |-> CloseOf(bucket[s])] :
                          s \in {z \in Symbol : bucket[z] # -1}}
           out == held \cup {e \in minutes : ~ IsLate(e)}
<1>1. ~over /\ FeedTypes /\ BufferOK /\ SourcesOK /\ MarksOK
      /\ wronged = {} /\ ~refused
  BY DEF End, FeedInv, NothingIsLost, LateMeansSilent, NothingRefused
<1>2. /\ over' = TRUE
      /\ wronged' = wronged \cup {e.stream : e \in {x \in minutes :
                                        IsLate(x) /\ x.ts > excused["markPrice"]}}
      /\ refused' = (refused \/ \E e \in out : e.ts <= clock)
  BY DEF End
<1>3. watermark \in Int /\ clock \in Int /\ clock <= watermark /\ excused[p] \in Int
  BY <1>1 DEF FeedTypes, BufferOK, Slow
<1>4. ASSUME NEW e \in minutes
      PROVE  e.ts \in Int /\ ~(IsLate(e) /\ e.ts > excused[p])
  <2>1. PICK z \in Symbol : bucket[z] # -1 /\ e.ts = CloseOf(bucket[z])
    BY <1>4
  <2>2. bucket[z] \in Int
    BY <1>1 DEF FeedTypes
  <2>3. CloseOf(bucket[z]) \in Int
    BY <2>2, LaterCloses
  <2>4. z \in lineup.covers[p] /\ cover[p][z].through < CloseOf(bucket[z])
    BY <2>1, <1>1 DEF MarksOK
  <2>5. cover[p][z].through \in Nat
    BY <1>1 DEF FeedTypes, Slow
  <2>6. ASSUME e.ts <= watermark, e.ts > excused[p] PROVE FALSE
    <3>1. p \in Slow /\ e.ts \in Int
      BY <2>1, <2>3 DEF Slow
    <3>2. e.ts <= excused[p] \/ e.ts <= cover[p][z].through
      <4> HIDE DEF p
      <4> QED  BY <2>4, <2>6, <3>1, <1>1, LateIsSaid
    <3> QED  BY <3>1, <3>2, <2>1, <2>3, <2>4, <2>5, <2>6, <1>3
  <2> QED  BY <2>1, <2>3, <2>6 DEF IsLate
<1> HIDE DEF minutes
<1>5. wronged' = {}
  BY <1>1, <1>2, <1>4
<1>6. \A e \in out : e.ts \in Int /\ e.ts > watermark
  BY <1>1, <1>3, <1>4 DEF BufferOK, IsLate
<1>7. ~refused'
  <2> HIDE DEF out
  <2>1. \A e \in out : ~(e.ts <= clock)
    BY <1>3, <1>6
  <2> QED  BY <2>1, <1>1, <1>2, Zenon
<1> QED  BY <1>2, <1>5, <1>7 DEF FeedInv, NothingIsLost, LateMeansSilent, NothingRefused

LEMMA FeedStarts == FeedInit => FeedInv
<1> SUFFICES ASSUME FeedInit PROVE FeedInv
  OBVIOUS
<1>1. FirstTick \in Nat /\ Minute \in Nat /\ Minute > 1
  BY FeedAssumption
<1>2. lineup \in Lineup /\ ahead \in {0, 1}
  BY FeedAssumption DEF FeedInit
<1>3. FeedTypes
  BY <1>1, <1>2 DEF FeedInit, FeedTypes, NoSettlement
<1>4. BufferOK
  BY DEF FeedInit, BufferOK
<1>5. SourcesOK
  <2>1. \A p \in Slow : lineup.covers[p] \subseteq Symbol
    BY <1>2, FeedAssumption
  <2> QED  BY <2>1 DEF FeedInit, SourcesOK, Within
<1>6. BarsOK /\ MarksOK
  <2>1. CloseOf(-1 + 1) > 0
    BY <1>1 DEF CloseOf
  <2> QED  BY <2>1 DEF FeedInit, BarsOK, MarksOK, Slow
<1>7. FundingOK
  <2>1. \A f \in Nat : IsSettlement(f) => f # 0
    BY SettlementsDivide
  <2> QED  BY <2>1 DEF FeedInit, FundingOK, NoSettlement, Slow
<1>8. NothingIsLost
  BY DEF FeedInit, NothingIsLost, LateMeansSilent, NothingRefused
<1> QED  BY <1>3, <1>4, <1>5, <1>6, <1>7, <1>8 DEF FeedInv

LEMMA FeedKeeps == FeedInv /\ [FeedNext]_feed_vars => FeedInv'
<1> SUFFICES ASSUME FeedInv, [FeedNext]_feed_vars PROVE FeedInv'
  OBVIOUS
<1>1. CASE StepBack
  BY <1>1, StepBackKeeps
<1>2. CASE TradeArrives
  BY <1>2, TradeKeeps
<1>3. CASE Pump
  BY <1>3, PumpKeeps
<1>4. CASE End
  BY <1>4, EndKeeps
<1>5. ASSUME NEW s \in Symbol, PollKlines(s) PROVE FeedInv'
  BY <1>5, KlinesKeep
<1>6. ASSUME NEW s \in Symbol, MarkSample(s) PROVE FeedInv'
  BY <1>6, MarksKeep
<1>7. ASSUME NEW s \in Symbol, PollFunding(s) PROVE FeedInv'
  BY <1>7, FundingKeeps
<1>8. CASE UNCHANGED feed_vars
  <2>1. UNCHANGED <<lineup, tick, ahead, cover, source, excused, held, watermark>>
        /\ UNCHANGED <<klines_vars, mark_vars, funding_vars, engine_vars, over, wronged>>
    BY <1>8 DEF feed_vars, report_vars
  <2>2. NothingIsLost'
    BY <2>1 DEF FeedInv, NothingIsLost, LateMeansSilent, NothingRefused, engine_vars
  <2>3. ASSUME ~over
        PROVE  (FeedTypes /\ BufferOK /\ SourcesOK /\ BarsOK /\ MarksOK /\ FundingOK)'
    <3>1. FeedTypes /\ BufferOK /\ SourcesOK /\ BarsOK /\ MarksOK /\ FundingOK
      BY <2>3 DEF FeedInv
    <3>2. FeedTypes'
      BY <3>1, <2>1 DEF FeedTypes, klines_vars, mark_vars, funding_vars, engine_vars
    <3>3. (BufferOK /\ SourcesOK /\ BarsOK /\ MarksOK)'
      BY <3>1, <2>1 DEF BufferOK, SourcesOK, Within, BarsOK, MarksOK, CloseOf,
                        klines_vars, mark_vars, engine_vars
    <3>4. FundingOK'
      BY <3>1, <2>1 DEF FundingOK, IsSettlement, Known, Overlooked, mark_vars, funding_vars
    <3> QED  BY <3>2, <3>3, <3>4
  <2> QED  BY <2>1, <2>2, <2>3 DEF FeedInv
<1> QED  BY <1>1, <1>2, <1>3, <1>4, <1>5, <1>6, <1>7, <1>8 DEF FeedNext

(* Whatever the sources do, and however the host's clock is corrected: a   *)
(* bar, a minute of marks or a settlement is dropped as late only where    *)
(* the watermark passed it while its source was presumed silent, and the   *)
(* engine's queue refuses nothing the buffer lets go (ReorderBuffer,       *)
(* LiveFeed._report_complete, PaperSession._drain_to_engine).              *)
THEOREM NothingIsLostHolds == FeedSpec => []NothingIsLost
<1>1. FeedInv => NothingIsLost
  BY DEF FeedInv
<1> QED  BY <1>1, FeedStarts, FeedKeeps, PTL DEF FeedSpec

-----------------------------------------------------------------------------
(* The feed in time.  What a bar's or a mark's source says is not much     *)
(* older than when it says it.  What the settlements' source says may be:  *)
(* it stops short of the settlement that is waited for, or of the next     *)
(* one, so it is as old as the announcement of that one is late.           *)

Prompt == {"klines", "markPrice"}

Age == Delay + 1 + lineup.ahead

SymbolsInTime == \A p \in Prompt : \A s \in lineup.covers[p] :
    cover[p][s].through # 0 => cover[p][s].at <= cover[p][s].through + Age

SourcesInTime == \A p \in Prompt :
    source[p].reported # 0 => source[p].reported <= source[p].through + Stale[p] + Age

(* Short of f, or as late as it was said.                                  *)
UpTo(word, f) == word.at <= word.through \/ f <= word.through + 1

SettlementsInTime == \A s \in lineup.covers["funding"] :
    LET word == cover["funding"][s]
    IN  word.through # 0 =>
          /\ word.at <= Wall
          /\ IF fundingDue[s] # NoSettlement
               THEN UpTo(word, fundingDue[s].at) /\ word.at <= fundingDue[s].noticed + Grace
               ELSE nextFunding[s] # 0 /\ UpTo(word, nextFunding[s])

(* The word of the source is that of one of its symbols, and nobody who is *)
(* still to speak can take it back.                                        *)
FundingSpeaks == source["funding"].reported # 0 =>
    /\ source["funding"].reported <= Wall
    /\ \E z \in lineup.covers["funding"] :
          /\ cover["funding"][z].through # 0
          /\ cover["funding"][z].through <= source["funding"].through
          /\ source["funding"].reported <= cover["funding"][z].at + Stale["funding"]
    /\ \A z \in lineup.covers["funding"] : cover["funding"][z].through = 0 =>
          cover["funding"][z].at + Stale["funding"] < source["funding"].reported

TimeInv == ~over =>
    /\ ahead <= lineup.ahead
    /\ SymbolsInTime /\ SourcesInTime
    /\ lineup.ahead = 0 => SettlementsInTime /\ FundingSpeaks

(* Settlements are looked at only where the host's clock is not ahead, so  *)
(* that it is never stepped back.                                          *)
ClockIsSteady == \A u \in Lineup : u.covers["funding"] # {} => u.ahead = 0

(* What a report changes: its symbol's word, and that of the source, which *)
(* is then one symbol's that is not silent; unless one of them is still to *)
(* speak.                                                                  *)
LEMMA ReportTells ==
    ASSUME FeedTypes, SourcesOK,
           NEW p \in Slow, NEW s \in Symbol, s \in lineup.covers[p],
           NEW ts \in Nat, NEW excuse \in Int, Report(p, s, ts, excuse)
    PROVE  /\ \A q \in Slow \ {p} : cover'[q] = cover[q] /\ source'[q] = source[q]
           /\ cover'[p] \in [Symbol -> [through : Nat, at : Nat]]
           /\ cover'[p][s].at = Wall /\ ts <= cover'[p][s].through
           /\ cover'[p][s].through \in {cover[p][s].through, ts}
           /\ \A z \in lineup.covers[p] \ {s} :
                 \/ cover'[p][z] = cover[p][z]
                 \/ cover'[p][z].through = 0 /\ \A y \in lineup.covers[p] : cover[p][y].through = 0
           /\ \/ /\ source' = source
                 /\ \E z \in lineup.covers[p] \ {s} : /\ Wall - cover'[p][z].at <= Stale[p]
                                                      /\ cover'[p][z].through = 0
                                                      /\ \/ cover'[p][z] = cover[p][z]
                                                         \/ \A y \in lineup.covers[p] : cover[p][y].through = 0
              \/ /\ source' = source /\ cover'[p][s].through = 0
              \/ /\ source'[p].reported \in {source[p].reported, Wall}
                 /\ source[p].reported <= source'[p].reported /\ Wall <= source'[p].reported
                 /\ source'[p].through \in Nat /\ source[p].through <= source'[p].through
                 /\ \A z \in lineup.covers[p] : Wall - cover'[p][z].at <= Stale[p] =>
                        cover'[p][z].through # 0
                 /\ \E z \in lineup.covers[p] : /\ Wall - cover'[p][z].at <= Stale[p]
                                                /\ cover'[p][z].through # 0
                                                /\ cover'[p][z].through <= source'[p].through
<1> DEFINE all == lineup.covers[p]
           started == \E z \in all : cover[p][z].at # 0
           was == [z \in Symbol |-> IF started THEN cover[p][z]
                                               ELSE [through |-> 0, at |-> Wall]]
           covered == [was EXCEPT ![s] = [through |-> Max({was[s].through, ts}), at |-> Wall]]
           speaking == {z \in all : Wall - covered[z].at <= Stale[p]}
           least == Min({covered[z].through : z \in speaking})
<1>1. /\ cover' = [cover EXCEPT ![p] = covered]
      /\ IF least = 0
           THEN source' = source
           ELSE source' = [source EXCEPT ![p] =
                      [through |-> Max({@.through, least}), reported |-> Max({@.reported, Wall})]]
  BY DEF Report
<1>2. /\ Wall \in Nat /\ Wall # 0 /\ Stale[p] \in Nat
      /\ all \subseteq Symbol
  BY FeedAssumption, WallRuns DEF FeedTypes
<1>3. /\ was \in [Symbol -> [through : Nat, at : Nat]]
      /\ was[s].through = cover[p][s].through
      /\ \A z \in all : \/ was[z] = cover[p][z]
                        \/ was[z].through = 0 /\ \A y \in all : cover[p][y].through = 0
  <2>1. CASE started
    BY <1>2, <2>1 DEF FeedTypes
  <2>2. CASE ~started
    <3>1. \A y \in all : cover[p][y].through = 0
      BY <1>2, <2>2 DEF SourcesOK
    <3> QED  BY <1>2, <2>2, <3>1
  <2> QED  BY <2>1, <2>2
<1> HIDE DEF was
<1>4. /\ covered \in [Symbol -> [through : Nat, at : Nat]]
      /\ covered[s].through \in {was[s].through, ts}
      /\ ts <= covered[s].through
      /\ covered[s].at = Wall
      /\ \A z \in Symbol \ {s} : covered[z] = was[z]
  <2> DEFINE x == was[s].through
  <2>0. x \in Int /\ ts \in Int
    BY <1>3
  <2>1. Max({x, ts}) \in {x, ts} /\ ts <= Max({x, ts})
    <3> HIDE DEF x
    <3> QED  BY <2>0, GreaterOfTwo
  <2> QED  BY <2>1, <1>2, <1>3
<1> HIDE DEF covered
<1>5. s \in speaking /\ speaking \subseteq all
  BY <1>2, <1>4
<1>6. /\ least \in Nat
      /\ \A z \in speaking : least <= covered[z].through
      /\ \E z \in speaking : least = covered[z].through
  <2> DEFINE W == {covered[z].through : z \in speaking}
  <2>1. W \in SUBSET Int /\ W # {} /\ \A x \in W : 0 <= x
    BY <1>2, <1>4, <1>5
  <2>2. Min(W) \in W /\ \A x \in W : Min(W) <= x
    <3> HIDE DEF W
    <3> 0 \in Int
      OBVIOUS
    <3> QED  BY <2>1, LeastOf
  <2> QED  BY <2>2, <1>2, <1>4, <1>5
<1> HIDE DEF least, started
<1>7. /\ \A q \in Slow \ {p} : cover'[q] = cover[q]
      /\ cover'[p] = covered
  BY <1>1, <1>4 DEF FeedTypes
<1>8. \A z \in all \ {s} :
          \/ covered[z] = cover[p][z]
          \/ covered[z].through = 0 /\ \A y \in all : cover[p][y].through = 0
  BY <1>2, <1>3, <1>4
<1>9. CASE least = 0
  <2>1. source' = source
    BY <1>1, <1>9
  <2>2. PICK z \in speaking : covered[z].through = 0
    <3> HIDE DEF speaking
    <3> QED  BY <1>6, <1>9
  <2>3. CASE z = s
    BY <2>1, <2>2, <2>3, <1>3, <1>4, <1>7, <1>8
  <2>4. CASE z # s
    <3>1. z \in all \ {s} /\ Wall - covered[z].at <= Stale[p]
      BY <2>4, <1>5
    <3>2. \/ covered[z] = cover[p][z]
          \/ \A y \in all : cover[p][y].through = 0
      BY <3>1, <1>8
    <3> HIDE DEF speaking
    <3> QED  BY <2>1, <2>2, <3>1, <3>2, <1>3, <1>4, <1>7, <1>8
  <2> QED  BY <2>3, <2>4
<1>10. CASE least # 0
  <2> DEFINE x == source[p].through  y == source[p].reported
             m == Max({x, least})  n == Max({y, Wall})
  <2>1. x \in Nat /\ y \in Int /\ Wall \in Int
    BY <1>2 DEF FeedTypes
  <2>2. m \in {x, least} /\ x <= m /\ least <= m
    <3>1. x \in Int /\ least \in Int
      BY <2>1, <1>6
    <3> HIDE DEF x
    <3> QED  BY <3>1, GreaterOfTwo
  <2>3. n \in {y, Wall} /\ y <= n /\ Wall <= n
    <3> HIDE DEF y
    <3> QED  BY <2>1, GreaterOfTwo
  <2>4. source' = [source EXCEPT ![p] = [through |-> m, reported |-> n]]
    BY <1>10, <1>1
  <2>5. m \in Nat
    BY <2>1, <2>2, <1>6
  <2> HIDE DEF m, n
  <2>6. /\ \A q \in Slow \ {p} : source'[q] = source[q]
        /\ source'[p].through = m /\ source'[p].reported = n
    BY <2>4 DEF FeedTypes
  <2>7. PICK z \in speaking : least = covered[z].through
    <3> HIDE DEF speaking
    <3> QED  BY <1>6
  <2>8. /\ z \in all /\ Wall - covered[z].at <= Stale[p] /\ covered[z].through # 0
        /\ covered[z].through <= m
    BY <2>7, <1>10, <1>5, <2>2
  <2>9. \A u \in all : Wall - covered[u].at <= Stale[p] => covered[u].through # 0
    BY <1>6, <1>10
  <2> HIDE DEF speaking
  <2> QED  BY <2>2, <2>3, <2>5, <2>6, <2>8, <2>9, <1>3, <1>4, <1>7, <1>8
<1> QED  BY <1>9, <1>10

LEMMA LineupOK ==
    ASSUME FeedTypes
    PROVE  /\ lineup.ahead \in {0, 1} /\ Age \in Nat /\ Grace \in Nat /\ Delay \in Nat
           /\ \A p \in Slow : lineup.covers[p] \subseteq Symbol /\ Stale[p] \in Nat
           /\ \A p \in Slow : source[p].through \in Nat /\ source[p].reported \in Int
           /\ \A p \in Slow, s \in Symbol : /\ cover[p][s].through \in Nat
                                            /\ cover[p][s].at \in Nat
           /\ tick \in Nat /\ ahead \in {0, 1} /\ Wall \in Nat
<1>1. lineup.ahead \in {0, 1} /\ \A p \in Slow : lineup.covers[p] \subseteq Symbol
  BY FeedAssumption DEF FeedTypes
<1>2. Delay \in Nat /\ Grace \in Nat /\ \A p \in Slow : Stale[p] \in Nat
  BY FeedAssumption
<1>3. /\ \A p \in Slow : source[p].through \in Nat /\ source[p].reported \in Int
      /\ \A p \in Slow, s \in Symbol : cover[p][s].through \in Nat /\ cover[p][s].at \in Nat
      /\ tick \in Nat /\ ahead \in {0, 1}
  BY DEF FeedTypes
<1> QED  BY <1>1, <1>2, <1>3, WallRuns DEF Age

(* A bar, or a mark, is told of in time.                                   *)
LEMMA ToldInTime ==
    ASSUME FeedTypes, ahead <= lineup.ahead, NEW a \in Instants
    PROVE  Wall <= CloseOf(a \div Minute) - 1 + Age
<1> DEFINE M == Minute  q == a \div M  r == a % M
<1>1. M \in Nat \ {0} /\ a \in Nat
  BY FeedAssumption, InstantsOK
<1>2. q \in Nat /\ r \in 0 .. M - 1 /\ a = M * q + r
  BY <1>1
<1>3. CloseOf(q) = M * q + M - 1
  <2> HIDE DEF q
  <2> QED  BY <1>1, <1>2 DEF CloseOf
<1>4. M * q \in Nat
  <2> HIDE DEF q, M
  <2> QED  BY <1>1, <1>2
<1>5. a <= CloseOf(q)
  <2> DEFINE t == M * q
  <2> HIDE DEF q, r, t
  <2> QED  BY <1>1, <1>2, <1>3, <1>4 DEF t
<1>6. tick - Delay <= a /\ CloseOf(q) \in Int
  BY InstantsOK DEF Instants
<1>7. /\ lineup.ahead \in {0, 1} /\ Delay \in Nat /\ tick \in Nat /\ ahead \in {0, 1}
      /\ Wall = tick + ahead /\ Age = Delay + 1 + lineup.ahead
  BY LineupOK DEF Wall, Age
<1> HIDE DEF q
<1>8. Wall <= CloseOf(q) - 1 + Age
  BY <1>1, <1>5, <1>6, <1>7
<1> QED  BY <1>8 DEF q, M

LEMMA PromptReport ==
    ASSUME FeedTypes, SourcesOK, SymbolsInTime, SourcesInTime, lineup' = lineup,
           NEW p \in Prompt, NEW s \in Symbol, s \in lineup.covers[p],
           NEW ts \in Nat, NEW excuse \in Int, Report(p, s, ts, excuse),
           Wall <= ts + Age
    PROVE  /\ SymbolsInTime' /\ SourcesInTime'
           /\ cover'["funding"] = cover["funding"] /\ source'["funding"] = source["funding"]
<1> DEFINE all == lineup.covers[p]  c == cover[p]  d == cover'[p]
<1>1. p \in Slow /\ p # "funding" /\ "funding" \in Slow
  BY DEF Prompt, Slow
<1>2. /\ \A q \in Slow \ {p} : cover'[q] = cover[q] /\ source'[q] = source[q]
      /\ d \in [Symbol -> [through : Nat, at : Nat]]
      /\ d[s].at = Wall /\ ts <= d[s].through
      /\ \A z \in all \ {s} : d[z] = c[z] \/ d[z].through = 0
  BY <1>1, ReportTells
<1>3. \/ source'[p] = source[p]
      \/ /\ source'[p].reported \in {source[p].reported, Wall}
         /\ source'[p].through \in Nat /\ source[p].through <= source'[p].through
         /\ \E z \in all : /\ Wall - d[z].at <= Stale[p]
                           /\ d[z].through # 0
                           /\ d[z].through <= source'[p].through
  BY <1>1, ReportTells
<1>4. /\ Age \in Nat /\ Age' = Age /\ Wall \in Nat /\ Stale[p] \in Nat /\ all \subseteq Symbol
      /\ source[p].through \in Nat /\ source[p].reported \in Int
  BY <1>1, LineupOK DEF Age
<1>5. \A z \in all : d[z].through # 0 => d[z].at <= d[z].through + Age
  <2> TAKE z \in all
  <2>1. d[z].through \in Nat /\ d[z].at \in Nat
    BY <1>2, <1>4
  <2>2. CASE z = s
    <3> HIDE DEF d
    <3> QED  BY <2>1, <2>2, <1>2, <1>4
  <2>3. CASE z # s
    <3>1. c[z].through # 0 => c[z].at <= c[z].through + Age
      BY DEF SymbolsInTime
    <3> HIDE DEF d, c
    <3> QED  BY <2>1, <2>3, <3>1, <1>2
  <2> QED  BY <2>2, <2>3
<1>6. source'[p].reported # 0 => source'[p].reported <= source'[p].through + Stale[p] + Age
  <2>1. source[p].reported # 0 => source[p].reported <= source[p].through + Stale[p] + Age
    BY DEF SourcesInTime
  <2>2. CASE source'[p] = source[p]
    BY <2>1, <2>2
  <2>3. CASE source'[p] # source[p]
    <3>1. PICK z \in all : /\ Wall - d[z].at <= Stale[p]
                           /\ d[z].through # 0
                           /\ d[z].through <= source'[p].through
      BY <2>3, <1>3
    <3>2. d[z].through \in Nat /\ d[z].at \in Nat /\ d[z].at <= d[z].through + Age
      BY <3>1, <1>2, <1>4, <1>5
    <3>3. /\ source'[p].reported \in {source[p].reported, Wall}
          /\ source'[p].through \in Nat /\ source[p].through <= source'[p].through
      BY <2>3, <1>3
    <3> HIDE DEF d
    <3> QED  BY <3>1, <3>2, <3>3, <2>1, <1>4
  <2> QED  BY <2>2, <2>3
<1>7. SymbolsInTime'
  <2> SUFFICES ASSUME NEW q \in Prompt
               PROVE  \A z \in lineup.covers[q] : cover'[q][z].through # 0 =>
                          cover'[q][z].at <= cover'[q][z].through + Age
    BY <1>4 DEF SymbolsInTime
  <2>1. CASE q = p
    BY <2>1, <1>5
  <2>2. CASE q # p
    <3>1. cover'[q] = cover[q]
      BY <2>2, <1>2 DEF Prompt, Slow
    <3> QED  BY <3>1 DEF SymbolsInTime
  <2> QED  BY <2>1, <2>2
<1>8. SourcesInTime'
  <2> SUFFICES ASSUME NEW q \in Prompt
               PROVE  source'[q].reported # 0 =>
                          source'[q].reported <= source'[q].through + Stale[q] + Age
    BY <1>4 DEF SourcesInTime
  <2>1. CASE q = p
    BY <2>1, <1>6
  <2>2. CASE q # p
    <3>1. source'[q] = source[q]
      BY <2>2, <1>2 DEF Prompt, Slow
    <3> QED  BY <3>1 DEF SourcesInTime
  <2> QED  BY <2>1, <2>2
<1> QED  BY <1>1, <1>2, <1>7, <1>8

(* Where nothing is said of settlements, and none is noticed.              *)
LEMMA SettlementsStay ==
    ASSUME SettlementsInTime, FundingSpeaks,
           UNCHANGED <<lineup, tick, ahead, fundingDue, nextFunding>>,
           cover'["funding"] = cover["funding"], source'["funding"] = source["funding"]
    PROVE  SettlementsInTime' /\ FundingSpeaks'
<1>1. Wall' = Wall
  BY DEF Wall
<1> QED  BY <1>1 DEF SettlementsInTime, FundingSpeaks, UpTo

LEMMA KlinesInTime ==
    ASSUME FeedInv, TimeInv, NEW s \in Symbol, PollKlines(s)
    PROVE  TimeInv'
<1>1. PICK a \in Instants :
        /\ ~ over /\ s \in lineup.covers["klines"]
        /\ Report("klines", s, CloseOf(a \div Minute) - 1, -1)
        /\ UNCHANGED <<lineup, tick, ahead, watermark, mark_vars, funding_vars,
                       lastTrade, engine_vars, over>>
  BY DEF PollKlines
<1>2. /\ FeedTypes /\ SourcesOK
      /\ ahead <= lineup.ahead /\ SymbolsInTime /\ SourcesInTime
      /\ lineup.ahead = 0 => SettlementsInTime /\ FundingSpeaks
  BY <1>1 DEF FeedInv, TimeInv
<1>3. CloseOf(a \div Minute) - 1 \in Nat /\ Wall <= CloseOf(a \div Minute) - 1 + Age
  BY <1>2, InstantsOK, ToldInTime
<1>4. UNCHANGED <<lineup, tick, ahead, fundingDue, nextFunding, over>>
  BY <1>1 DEF mark_vars, funding_vars
<1>5. /\ SymbolsInTime' /\ SourcesInTime'
      /\ cover'["funding"] = cover["funding"] /\ source'["funding"] = source["funding"]
  <2>1. "klines" \in Prompt /\ "klines" \in Slow /\ -1 \in Int
    BY DEF Prompt, Slow
  <2> QED  BY <2>1, <1>1, <1>2, <1>3, <1>4, PromptReport
<1>6. lineup'.ahead = 0 => SettlementsInTime' /\ FundingSpeaks'
  BY <1>2, <1>4, <1>5, SettlementsStay
<1> QED  BY <1>1, <1>2, <1>4, <1>5, <1>6 DEF TimeInv

(* A settlement is noticed after the last word on it.                      *)
LEMMA NoticedInTime ==
    ASSUME FeedTypes, SettlementsInTime, NEW s \in Symbol, NEW announced \in Nat,
           announced # 0, NoteNextFunding(s, announced),
           UNCHANGED <<lineup, tick, ahead>>,
           cover'["funding"] = cover["funding"]
    PROVE  SettlementsInTime'
<1> SUFFICES ASSUME NEW z \in lineup.covers["funding"],
                    cover["funding"][z].through # 0
             PROVE  LET word == cover["funding"][z]
                    IN  /\ word.at <= Wall
                        /\ IF fundingDue'[z] # NoSettlement
                             THEN /\ UpTo(word, fundingDue'[z].at)
                                  /\ word.at <= fundingDue'[z].noticed + Grace
                             ELSE nextFunding'[z] # 0 /\ UpTo(word, nextFunding'[z])
  BY DEF SettlementsInTime, Wall, UpTo
<1> DEFINE word == cover["funding"][z]
<1>1. /\ word.at \in Nat /\ word.through \in Nat /\ Wall \in Nat /\ Grace \in Nat
      /\ z \in Symbol
  BY LineupOK DEF Slow
<1>2. /\ word.at <= Wall
      /\ IF fundingDue[z] # NoSettlement
           THEN UpTo(word, fundingDue[z].at) /\ word.at <= fundingDue[z].noticed + Grace
           ELSE nextFunding[z] # 0 /\ UpTo(word, nextFunding[z])
  BY DEF SettlementsInTime
<1>3. /\ fundingDue' =
            IF nextFunding[s] # 0 /\ announced > nextFunding[s] /\ fundingDue[s] = NoSettlement
              THEN [fundingDue EXCEPT ![s] = [at |-> nextFunding[s], noticed |-> Wall]]
              ELSE fundingDue
      /\ nextFunding' = [nextFunding EXCEPT ![s] = announced]
  BY DEF NoteNextFunding
<1>4. /\ DOMAIN fundingDue = Symbol /\ nextFunding \in [Symbol -> Nat]
  BY DEF FeedTypes
<1> HIDE DEF word
<1>5. CASE z # s \/ fundingDue[z] # NoSettlement
  <2>1. fundingDue'[z] = fundingDue[z]
    BY <1>1, <1>3, <1>4, <1>5
  <2>2. CASE fundingDue[z] # NoSettlement
    BY <2>1, <2>2, <1>2 DEF word
  <2>3. CASE z # s
    <3>1. nextFunding'[z] = nextFunding[z]
      BY <2>3, <1>1, <1>3, <1>4
    <3> QED  BY <2>1, <3>1, <1>2 DEF word
  <2> QED  BY <2>2, <2>3, <1>5
<1>6. CASE z = s /\ fundingDue[z] = NoSettlement /\ announced > nextFunding[z]
  <2>1. nextFunding[z] # 0 /\ UpTo(word, nextFunding[z])
    BY <1>2, <1>6
  <2>2. fundingDue'[z] = [at |-> nextFunding[z], noticed |-> Wall]
    BY <2>1, <1>1, <1>3, <1>4, <1>6
  <2>3. fundingDue'[z] # NoSettlement
    BY <2>1, <2>2 DEF NoSettlement
  <2>4. word.at <= Wall + Grace
    BY <1>1, <1>2
  <2> QED  BY <2>1, <2>2, <2>3, <2>4, <1>2 DEF word
<1>7. CASE z = s /\ fundingDue[z] = NoSettlement /\ ~(announced > nextFunding[z])
  <2>1. nextFunding[z] # 0 /\ UpTo(word, nextFunding[z])
    BY <1>2, <1>7
  <2>2. fundingDue'[z] = NoSettlement
    BY <1>3, <1>7
  <2>3. nextFunding'[z] = announced /\ announced <= nextFunding[z] /\ nextFunding[z] \in Nat
    BY <1>1, <1>3, <1>4, <1>7
  <2>4. UpTo(word, announced)
    BY <2>1, <2>3, <1>1 DEF UpTo
  <2> QED  BY <2>2, <2>3, <2>4, <1>2 DEF word
<1> QED  BY <1>5, <1>6, <1>7

LEMMA MarksInTime ==
    ASSUME FeedInv, TimeInv, NEW s \in Symbol, MarkSample(s)
    PROVE  TimeInv'
<1>1. PICK ts \in Instants :
        /\ ~ over /\ s \in lineup.covers["markPrice"]
        /\ NoteNextFunding(s, (ts \div FundingEvery + 1) * FundingEvery)
        /\ Report("markPrice", s, CloseOf(ts \div Minute) - 1, -1)
        /\ UNCHANGED <<lineup, tick, ahead, watermark, klines_vars, settled, fundingSeeded,
                       lastTrade, engine_vars, over>>
  BY DEF MarkSample
<1>2. /\ FeedTypes /\ SourcesOK
      /\ ahead <= lineup.ahead /\ SymbolsInTime /\ SourcesInTime
      /\ lineup.ahead = 0 => SettlementsInTime /\ FundingSpeaks
  BY <1>1 DEF FeedInv, TimeInv
<1>3. CloseOf(ts \div Minute) - 1 \in Nat /\ Wall <= CloseOf(ts \div Minute) - 1 + Age
      /\ ts \in Nat
  BY <1>2, InstantsOK, ToldInTime
<1>4. UNCHANGED <<lineup, tick, ahead, over>>
  BY <1>1
<1>5. /\ SymbolsInTime' /\ SourcesInTime'
      /\ cover'["funding"] = cover["funding"] /\ source'["funding"] = source["funding"]
  <2>1. "markPrice" \in Prompt /\ "markPrice" \in Slow /\ -1 \in Int
    BY DEF Prompt, Slow
  <2> QED  BY <2>1, <1>1, <1>2, <1>3, <1>4, PromptReport
<1>6. lineup'.ahead = 0 => SettlementsInTime' /\ FundingSpeaks'
  <2> SUFFICES ASSUME lineup.ahead = 0
               PROVE  SettlementsInTime' /\ FundingSpeaks'
    BY <1>4
  <2>1. SettlementsInTime'
    <3> DEFINE announced == (ts \div FundingEvery + 1) * FundingEvery
    <3>1. announced \in Nat /\ announced # 0
      BY <1>3, NextIsAnnounced
    <3>2. NoteNextFunding(s, announced)
      BY <1>1
    <3> HIDE DEF announced
    <3> QED  BY <3>1, <3>2, <1>2, <1>4, <1>5, NoticedInTime
  <2>2. FundingSpeaks'
    BY <1>2, <1>4, <1>5 DEF FundingSpeaks, Wall
  <2> QED  BY <2>1, <2>2
<1> QED  BY <1>1, <1>2, <1>4, <1>5, <1>6 DEF TimeInv

(* How far a source of settlements says it is complete.                    *)
LEMMA HorizonReaches ==
    ASSUME FeedTypes, NEW s \in Symbol, NEW through \in Nat, NEW h \in Nat,
           h = Horizon(s, through), h # 0
    PROVE  IF Awaits(s, through)
             THEN /\ h = Wall \/ fundingDue[s].at <= h + 1
                  /\ Wall <= fundingDue[s].noticed + Grace
             ELSE nextFunding[s] # 0 /\ (h = Wall \/ nextFunding[s] <= h + 1)
<1> DEFINE due_ == fundingDue[s].at  next == nextFunding[s]  said == fundingDue[s].noticed
<1>1. due_ \in Nat /\ next \in Nat /\ said \in Int
  BY DEF FeedTypes
<1>2. Wall \in Nat /\ Grace \in Nat
  BY LineupOK
<1>3. CASE Awaits(s, through)
  <2> DEFINE x == due_ - 1
  <2>1. h = Min({Wall, x})
    BY <1>3 DEF Horizon
  <2>2. h \in {Wall, x}
    <3>1. x \in Int /\ Wall \in Int
      BY <1>1, <1>2
    <3> HIDE DEF x
    <3> QED  BY <2>1, <3>1, LesserOfTwo
  <2>3. Wall - said <= Grace
    BY <1>1, <1>2, <1>3 DEF Awaits, GivesUp
  <2>4. h = Wall \/ due_ <= h + 1
    <3> HIDE DEF due_
    <3> QED  BY <2>2, <1>1, <1>2
  <2>5. Wall <= said + Grace
    <3> HIDE DEF said
    <3> QED  BY <2>3, <1>1, <1>2
  <2> QED  BY <2>4, <2>5, <1>3
<1>4. CASE ~Awaits(s, through)
  <2> DEFINE x == next - 1
  <2>1. next # 0 /\ h = Min({Wall, x})
    BY <1>4 DEF Horizon
  <2>2. h \in {Wall, x}
    <3>1. x \in Int /\ Wall \in Int
      BY <1>1, <1>2
    <3> HIDE DEF x
    <3> QED  BY <2>1, <3>1, LesserOfTwo
  <2>3. h = Wall \/ next <= h + 1
    <3> HIDE DEF next
    <3> QED  BY <2>2, <1>1, <1>2
  <2> QED  BY <2>1, <2>3, <1>4
<1> QED  BY <1>3, <1>4

(* A report of settlements speaks for one symbol that was heard.           *)
LEMMA ReportOfFunding ==
    ASSUME FeedTypes, SourcesOK, FundingSpeaks, UNCHANGED <<lineup, tick, ahead>>,
           NEW s \in Symbol, s \in lineup.covers["funding"],
           NEW ts \in Nat, ts # 0, NEW excuse \in Int, Report("funding", s, ts, excuse)
    PROVE  FundingSpeaks'
<1> DEFINE p == "funding"  all == lineup.covers[p]  c == cover[p]  d == cover'[p]  hold == Stale[p]
           r == source[p].reported  rr == source'[p].reported
<1>1. p \in Slow
  BY DEF Slow
<1>2. /\ all \subseteq Symbol /\ hold \in Nat /\ r \in Int /\ Wall \in Nat /\ Wall # 0
      /\ \A z \in all : c[z].through \in Nat /\ c[z].at \in Nat
      /\ Wall' = Wall
  BY <1>1, LineupOK, WallRuns DEF Wall
<1>3. /\ d \in [Symbol -> [through : Nat, at : Nat]]
      /\ d[s].at = Wall /\ ts <= d[s].through
  BY <1>1, ReportTells
<1>4. \/ /\ source' = source
         /\ \E z \in all \ {s} : /\ Wall - d[z].at <= hold
                                 /\ d[z].through = 0
                                 /\ d[z] = c[z] \/ \A y \in all : c[y].through = 0
      \/ /\ source' = source /\ d[s].through = 0
      \/ /\ rr \in {r, Wall} /\ Wall <= rr
         /\ \A z \in all : Wall - d[z].at <= hold => d[z].through # 0
         /\ \E z \in all : /\ Wall - d[z].at <= hold
                           /\ d[z].through # 0
                           /\ d[z].through <= source'[p].through
  BY <1>1, ReportTells
<1>5. r # 0 => /\ r <= Wall
               /\ \E z \in all : c[z].through # 0
               /\ \A z \in all : c[z].through = 0 => c[z].at + hold < r
  BY DEF FundingSpeaks
<1>6. \A z \in all : d[z].through \in Nat /\ d[z].at \in Nat
  BY <1>2, <1>3
<1> SUFFICES ASSUME rr # 0
             PROVE  /\ rr <= Wall
                    /\ \E z \in all : /\ d[z].through # 0 /\ d[z].through <= source'[p].through
                                      /\ rr <= d[z].at + hold
                    /\ \A z \in all : d[z].through = 0 => d[z].at + hold < rr
  BY <1>2 DEF FundingSpeaks
<1>7. CASE /\ source' = source
           /\ \E z \in all \ {s} : /\ Wall - d[z].at <= hold
                                   /\ d[z].through = 0
                                   /\ d[z] = c[z] \/ \A y \in all : c[y].through = 0
  <2>1. PICK z \in all \ {s} : /\ Wall - d[z].at <= hold
                               /\ d[z].through = 0
                               /\ d[z] = c[z] \/ \A y \in all : c[y].through = 0
    BY <1>7
  <2>2. r # 0 /\ r = rr
    BY <1>7
  <2>3. d[z] = c[z]
    BY <2>1, <2>2, <1>5
  <2>4. d[z].at + hold < r /\ r <= Wall
    BY <2>1, <2>2, <2>3, <1>5
  <2>5. d[z].at \in Nat
    BY <1>6
  <2> HIDE DEF d, hold, r
  <2> QED  BY <2>1, <2>4, <2>5, <1>2
<1>8. CASE source' = source /\ d[s].through = 0
  BY <1>8, <1>3
<1>9. CASE /\ rr \in {r, Wall} /\ Wall <= rr
           /\ \A z \in all : Wall - d[z].at <= hold => d[z].through # 0
           /\ \E z \in all : /\ Wall - d[z].at <= hold
                             /\ d[z].through # 0
                             /\ d[z].through <= source'[p].through
  <2>1. rr = Wall
    <3>1. r # 0 => r <= Wall
      BY <1>5
    <3> HIDE DEF r, rr
    <3> QED  BY <3>1, <1>2, <1>9
  <2>2. PICK z \in all : /\ Wall - d[z].at <= hold
                         /\ d[z].through # 0
                         /\ d[z].through <= source'[p].through
    BY <1>9
  <2>3. rr <= d[z].at + hold
    <3>1. d[z].at \in Nat
      BY <1>6
    <3> HIDE DEF d, rr, hold
    <3> QED  BY <3>1, <2>1, <2>2, <1>2
  <2>4. ASSUME NEW u \in all, d[u].through = 0
        PROVE  d[u].at + hold < rr
    <3>1. ~(Wall - d[u].at <= hold) /\ d[u].at \in Nat
      BY <2>4, <1>6, <1>9
    <3> HIDE DEF d, rr, hold
    <3> QED  BY <3>1, <2>1, <1>2
  <2>5. rr <= Wall
    BY <2>1, <1>2
  <2> HIDE DEF d, rr, hold, all
  <2> QED  BY <2>2, <2>3, <2>4, <2>5
<1> HIDE DEF d, c, r, rr, hold, all
<1> QED  BY <1>4, <1>7, <1>8, <1>9

LEMMA FundingInTime ==
    ASSUME FeedInv, TimeInv, NEW s \in Symbol, PollFunding(s)
    PROVE  TimeInv'
<1> DEFINE p == "funding"
<1>1. PICK a \in Instants :
      LET last == a \div FundingEvery
          rows == {f * FundingEvery : f \in {last - 1, last} \cap Nat} \ {0}
          through == Max(rows \cup {settled[s]})
          horizon == Horizon(s, through)
          excuse == IF GivesUp(s, through) THEN fundingDue[s].at ELSE -1
      IN  /\ ~ over /\ s \in lineup.covers["funding"]
          /\ fundingDue' = IF Awaits(s, through) THEN fundingDue
                           ELSE [fundingDue EXCEPT ![s] = NoSettlement]
          /\ IF horizon = 0 THEN UNCHANGED report_vars
                            ELSE Report("funding", s, horizon, excuse)
          /\ UNCHANGED <<lineup, tick, ahead, watermark, klines_vars, mark_vars,
                         lastTrade, engine_vars, over>>
  BY DEF PollFunding
<1> DEFINE last == a \div FundingEvery
           rows == {f * FundingEvery : f \in {last - 1, last} \cap Nat} \ {0}
           through == Max(rows \cup {settled[s]})
           horizon == Horizon(s, through)
           excuse == IF GivesUp(s, through) THEN fundingDue[s].at ELSE -1
           c == cover[p]  d == cover'[p]
<1>2. /\ ~over /\ FeedTypes /\ SourcesOK /\ FundingOK
      /\ ahead <= lineup.ahead /\ SymbolsInTime /\ SourcesInTime
      /\ lineup.ahead = 0 => SettlementsInTime /\ FundingSpeaks
  BY <1>1 DEF FeedInv, TimeInv
<1>3. /\ s \in lineup.covers[p] /\ p \in Slow
      /\ fundingDue' = IF Awaits(s, through) THEN fundingDue
                       ELSE [fundingDue EXCEPT ![s] = NoSettlement]
      /\ IF horizon = 0 THEN UNCHANGED report_vars
                        ELSE Report(p, s, horizon, excuse)
      /\ UNCHANGED <<lineup, tick, ahead, nextFunding, over>>
  BY <1>1 DEF Slow, mark_vars
<1>4. a \in Nat /\ settled[s] \in Nat
  BY <1>2, InstantsOK DEF FeedTypes
<1>5. through \in Nat /\ settled[s] <= through
  <2> DEFINE now_ == settled[s]
  <2> HIDE DEF now_
  <2> QED  BY <1>4, RowsOfPage DEF now_
<1> HIDE DEF rows, through
<1>6. /\ horizon \in Nat /\ excuse \in Int
      /\ ~Awaits(s, through) /\ fundingDue[s] # NoSettlement => horizon # 0
  BY <1>2, <1>5, HorizonHolds
<1>7. horizon # 0 => IF Awaits(s, through)
                       THEN /\ horizon = Wall \/ fundingDue[s].at <= horizon + 1
                            /\ Wall <= fundingDue[s].noticed + Grace
                       ELSE nextFunding[s] # 0 /\ (horizon = Wall \/ nextFunding[s] <= horizon + 1)
  <2> DEFINE h == horizon
  <2>1. h = Horizon(s, through) /\ h \in Nat
    BY <1>6
  <2> HIDE DEF h
  <2>2. h # 0 => IF Awaits(s, through)
                   THEN /\ h = Wall \/ fundingDue[s].at <= h + 1
                        /\ Wall <= fundingDue[s].noticed + Grace
                   ELSE nextFunding[s] # 0 /\ (h = Wall \/ nextFunding[s] <= h + 1)
    BY <2>1, <1>2, <1>5, HorizonReaches
  <2> QED  BY <2>2 DEF h
<1> HIDE DEF horizon, excuse
<1>8. /\ horizon # 0 => /\ \A q \in Slow \ {p} : cover'[q] = cover[q] /\ source'[q] = source[q]
                        /\ d \in [Symbol -> [through : Nat, at : Nat]]
                        /\ d[s].at = Wall /\ horizon <= d[s].through
                        /\ \A z \in lineup.covers[p] \ {s} : d[z] = c[z] \/ d[z].through = 0
      /\ horizon = 0 => cover' = cover /\ source' = source
  <2>1. CASE horizon = 0
    BY <2>1, <1>3 DEF report_vars
  <2>2. CASE horizon # 0
    <3>1. Report(p, s, horizon, excuse)
      BY <2>2, <1>3
    <3> HIDE DEF p
    <3> QED  BY <3>1, <2>2, <1>2, <1>3, <1>6, ReportTells
  <2> QED  BY <2>1, <2>2
<1>9. SymbolsInTime' /\ SourcesInTime'
  <2>1. \A q \in Prompt : cover'[q] = cover[q] /\ source'[q] = source[q]
    BY <1>8 DEF Prompt, Slow
  <2> QED  BY <2>1, <1>2, <1>3 DEF SymbolsInTime, SourcesInTime, Age
<1>10. ASSUME lineup.ahead = 0
       PROVE  SettlementsInTime'
  <2>1. SettlementsInTime /\ Wall' = Wall
    BY <1>2, <1>3, <1>10 DEF Wall
  <2> SUFFICES ASSUME NEW z \in lineup.covers[p], d[z].through # 0
               PROVE  /\ d[z].at <= Wall
                      /\ IF fundingDue'[z] # NoSettlement
                           THEN /\ UpTo(d[z], fundingDue'[z].at)
                                /\ d[z].at <= fundingDue'[z].noticed + Grace
                           ELSE nextFunding[z] # 0 /\ UpTo(d[z], nextFunding[z])
    BY <2>1, <1>3 DEF SettlementsInTime
  <2>2. c[z].through # 0 =>
          /\ c[z].at <= Wall
          /\ IF fundingDue[z] # NoSettlement
               THEN UpTo(c[z], fundingDue[z].at) /\ c[z].at <= fundingDue[z].noticed + Grace
               ELSE nextFunding[z] # 0 /\ UpTo(c[z], nextFunding[z])
    BY <2>1 DEF SettlementsInTime
  <2>3. z \in Symbol /\ Wall \in Nat /\ DOMAIN fundingDue = Symbol
    BY <1>2, <1>3, LineupOK DEF FeedTypes
  <2>4. CASE z # s
    <3>1. fundingDue'[z] = fundingDue[z]
      BY <2>3, <2>4, <1>3
    <3>2. d[z] = c[z]
      BY <2>4, <1>8
    <3> HIDE DEF d, c
    <3> QED  BY <3>1, <3>2, <2>2
  <2>5. CASE z = s /\ horizon = 0
    <3>1. d[z] = c[z]
      BY <2>5, <1>8
    <3>2. fundingDue'[z] = fundingDue[z]
      <4>1. CASE Awaits(s, through)
        BY <4>1, <1>3
      <4>2. CASE ~Awaits(s, through)
        BY <4>2, <2>3, <2>5, <1>3, <1>6
      <4> QED  BY <4>1, <4>2
    <3> HIDE DEF d, c
    <3> QED  BY <3>1, <3>2, <2>2
  <2>6. CASE z = s /\ horizon # 0
    <3>1. d[s].at = Wall /\ horizon <= d[s].through /\ d[s].through \in Nat
      BY <2>3, <2>6, <1>8
    <3>2. CASE Awaits(s, through)
      <4>1. fundingDue'[s] = fundingDue[s] /\ fundingDue[s] # NoSettlement
        BY <3>2, <1>3 DEF Awaits
      <4>2. fundingDue[s].at \in Nat
        BY <1>2 DEF FeedTypes
      <4>3. UpTo(d[s], fundingDue[s].at)
        <5> HIDE DEF d
        <5> QED  BY <3>1, <3>2, <4>2, <2>3, <2>6, <1>6, <1>7 DEF UpTo
      <4>4. d[s].at <= fundingDue[s].noticed + Grace
        BY <3>1, <3>2, <2>6, <1>7
      <4>5. d[s].at <= Wall
        BY <3>1, <2>3
      <4> HIDE DEF d
      <4> QED  BY <4>1, <4>3, <4>4, <4>5, <2>6
    <3>3. CASE ~Awaits(s, through)
      <4>1. fundingDue'[s] = NoSettlement
        BY <3>3, <2>3, <1>3
      <4>2. nextFunding[s] \in Nat
        BY <1>2 DEF FeedTypes
      <4>3. nextFunding[s] # 0 /\ UpTo(d[s], nextFunding[s])
        <5> HIDE DEF d
        <5> QED  BY <3>1, <3>3, <4>2, <2>3, <2>6, <1>6, <1>7 DEF UpTo
      <4>4. d[s].at <= Wall
        BY <3>1, <2>3
      <4> HIDE DEF d
      <4> QED  BY <4>1, <4>3, <4>4, <2>6
    <3> QED  BY <3>2, <3>3
  <2> QED  BY <2>4, <2>5, <2>6
<1>11. ASSUME lineup.ahead = 0
       PROVE  FundingSpeaks'
  <2>1. FundingSpeaks
    BY <1>2, <1>11
  <2>2. CASE horizon = 0
    BY <2>1, <2>2, <1>3, <1>8 DEF FundingSpeaks, Wall
  <2>3. CASE horizon # 0
    BY <2>1, <2>3, <1>2, <1>3, <1>6, ReportOfFunding
  <2> QED  BY <2>2, <2>3
<1> QED  BY <1>2, <1>3, <1>9, <1>10, <1>11 DEF TimeInv

LEMMA FeedStartsInTime == FeedInit => TimeInv
<1> SUFFICES ASSUME FeedInit PROVE TimeInv
  OBVIOUS
<1>1. /\ \A p \in Slow : lineup.covers[p] \subseteq Symbol
      /\ ahead = lineup.ahead /\ lineup.ahead \in {0, 1}
      /\ cover = [p \in Slow |-> [s \in Symbol |-> [through |-> 0, at |-> 0]]]
      /\ source = [p \in Slow |-> [through |-> 0, reported |-> 0]]
  BY FeedAssumption DEF FeedInit
<1>2. SymbolsInTime /\ SourcesInTime
  BY <1>1 DEF SymbolsInTime, SourcesInTime, Prompt, Slow
<1>3. SettlementsInTime /\ FundingSpeaks
  BY <1>1 DEF SettlementsInTime, FundingSpeaks, Slow
<1> QED  BY <1>1, <1>2, <1>3 DEF TimeInv

LEMMA FeedKeepsTime == FeedInv /\ TimeInv /\ [FeedNext]_feed_vars => TimeInv'
<1> SUFFICES ASSUME FeedInv, TimeInv, [FeedNext]_feed_vars PROVE TimeInv'
  OBVIOUS
<1>1. ASSUME NEW s \in Symbol, PollKlines(s) PROVE TimeInv'
  BY <1>1, KlinesInTime
<1>2. ASSUME NEW s \in Symbol, MarkSample(s) PROVE TimeInv'
  BY <1>2, MarksInTime
<1>3. ASSUME NEW s \in Symbol, PollFunding(s) PROVE TimeInv'
  BY <1>3, FundingInTime
<1>4. CASE End
  BY <1>4 DEF End, TimeInv
<1>5. ASSUME UNCHANGED <<lineup, ahead, cover, source, over, fundingDue, nextFunding>>,
             ~over => Wall' \in Int /\ Wall <= Wall'
      PROVE  TimeInv'
  <2> SUFFICES ASSUME ~over PROVE TimeInv'
    BY <1>5 DEF TimeInv
  <2>1. /\ FeedTypes /\ ahead <= lineup.ahead /\ SymbolsInTime /\ SourcesInTime
        /\ lineup.ahead = 0 => SettlementsInTime /\ FundingSpeaks
    BY DEF FeedInv, TimeInv
  <2>2. SymbolsInTime' /\ SourcesInTime'
    BY <2>1, <1>5 DEF SymbolsInTime, SourcesInTime, Age
  <2>3. /\ Wall \in Nat /\ Wall' \in Int
        /\ source["funding"].reported \in Int
        /\ \A s \in lineup.covers["funding"] : cover["funding"][s].at \in Nat
    BY <2>1, <1>5, LineupOK DEF Slow
  <2>4. lineup.ahead = 0 => SettlementsInTime'
    <3> SUFFICES ASSUME SettlementsInTime PROVE SettlementsInTime'
      BY <2>1
    <3> QED  BY <2>3, <1>5 DEF SettlementsInTime, UpTo
  <2>5. lineup.ahead = 0 => FundingSpeaks'
    <3> SUFFICES ASSUME FundingSpeaks PROVE FundingSpeaks'
      BY <2>1
    <3> QED  BY <2>3, <1>5 DEF FundingSpeaks
  <2> QED  BY <2>1, <2>2, <2>4, <2>5, <1>5 DEF TimeInv
<1>6. CASE TradeArrives \/ Pump \/ UNCHANGED feed_vars
  <2>1. UNCHANGED <<lineup, ahead, cover, source, over, fundingDue, nextFunding>>
    BY <1>6 DEF TradeArrives, Pump, feed_vars, report_vars, mark_vars, funding_vars
  <2>2. tick' = tick \/ tick' = tick + 1
    BY <1>6 DEF TradeArrives, Pump, feed_vars
  <2>3. ~over => Wall' \in Int /\ Wall <= Wall'
    <3>1. ~over => tick \in Nat /\ ahead \in {0, 1}
      BY DEF FeedInv, FeedTypes
    <3> QED  BY <2>1, <2>2, <3>1 DEF Wall
  <2> QED  BY <2>1, <2>3, <1>5
<1>7. CASE StepBack
  <2>1. ~over /\ ahead = 1 /\ ahead' = 0
        /\ UNCHANGED <<lineup, cover, source, over>>
    BY <1>7 DEF StepBack, report_vars
  <2>2. /\ FeedTypes /\ ahead <= lineup.ahead /\ SymbolsInTime /\ SourcesInTime
    BY <2>1 DEF FeedInv, TimeInv
  <2>3. lineup.ahead = 1
    BY <2>1, <2>2, LineupOK
  <2>4. SymbolsInTime' /\ SourcesInTime'
    BY <2>1, <2>2 DEF SymbolsInTime, SourcesInTime, Age
  <2> QED  BY <2>1, <2>3, <2>4 DEF TimeInv
<1> QED  BY <1>1, <1>2, <1>3, <1>4, <1>6, <1>7 DEF FeedNext

(* The longest lag is no shorter than any.                                 *)
LEMMA LagsOK ==
    ASSUME FeedTypes
    PROVE  /\ MaxLag \in Int /\ Window <= MaxLag
           /\ \A p \in Slow : Lag(p) \in Nat
           /\ \A p \in Slow : lineup.covers[p] # {} => Lag(p) <= MaxLag
<1> DEFINE seen == {x \in Slow : lineup.covers[x] # {}}
           S == {Window} \cup {Lag(p) : p \in seen}
           high == Window + Lag("klines") + Lag("markPrice") + Lag("funding")
<1>1. /\ Window \in Nat /\ Grace \in Nat /\ Delay \in Nat /\ lineup.ahead \in {0, 1}
      /\ \A p \in Slow : Stale[p] \in Nat
  BY FeedAssumption, LineupOK
<1>2. \A p \in Slow : Lag(p) \in Nat
  <2> TAKE p \in Slow
  <2>1. Stale[p] \in Nat /\ Stale["markPrice"] \in Nat
    BY <1>1 DEF Slow
  <2> QED  BY <2>1, <1>1 DEF Lag
<1>3. high \in Int /\ Window <= high /\ \A p \in Slow : Lag(p) <= high
  BY <1>1, <1>2 DEF Slow
<1> HIDE DEF high
<1>4. S \in SUBSET Int /\ S # {} /\ \A x \in S : x <= high
  <2>1. seen \subseteq Slow
    OBVIOUS
  <2> HIDE DEF seen
  <2> QED  BY <2>1, <1>1, <1>2, <1>3
<1>5. Max(S) \in S /\ \A x \in S : x <= Max(S)
  <2> HIDE DEF S
  <2> QED  BY <1>3, <1>4, GreatestOf
<1>6. MaxLag = Max(S)
  BY DEF MaxLag
<1>7. Window \in S /\ \A p \in seen : Lag(p) \in S
  OBVIOUS
<1> HIDE DEF S
<1> QED  BY <1>2, <1>4, <1>5, <1>6, <1>7

(* No source holds the watermark for longer than its lag.                  *)
LEMMA HoldsInTime ==
    ASSUME FeedTypes, TimeInv, ~over, ClockIsSteady, SettlementsAnnounced,
           NEW p \in Slow, lineup.covers[p] # {}, ~IsSilent(p)
    PROVE  Holds(p) \in Int /\ Wall - Lag(p) <= Holds(p)
<1> DEFINE r == source[p].reported  t == source[p].through  hold == Stale[p]
<1>1. /\ r \in Int /\ t \in Nat /\ Wall \in Nat /\ hold \in Nat /\ Grace \in Nat /\ Delay \in Nat
      /\ lineup.ahead \in {0, 1} /\ Age = Delay + 1 + lineup.ahead
      /\ Stale["markPrice"] \in Nat
  BY LineupOK DEF Age, Slow
<1>2. /\ ahead <= lineup.ahead /\ SymbolsInTime /\ SourcesInTime
      /\ lineup.ahead = 0 => SettlementsInTime /\ FundingSpeaks
  BY DEF TimeInv
<1>3. Lag(p) = 2 * hold + Age + (IF p = "funding" THEN Stale["markPrice"] + Grace ELSE 0)
  BY <1>1 DEF Lag
<1>4. r # 0 => Wall - r <= hold
  <2>1. ~(r # 0 /\ Wall - r > hold)
    BY DEF IsSilent
  <2> HIDE DEF r, hold
  <2> QED  BY <2>1, <1>1
<1>5. Holds(p) = IF r = 0 THEN Wall - hold ELSE t
  BY DEF Holds
<1>6. CASE r = 0
  <2> HIDE DEF r, t, hold
  <2> QED  BY <1>1, <1>3, <1>5, <1>6
<1>7. CASE r # 0 /\ p # "funding"
  <2>1. r <= t + hold + Age
    BY <1>2, <1>7 DEF SourcesInTime, Prompt, Slow
  <2> HIDE DEF r, t, hold
  <2> QED  BY <2>1, <1>1, <1>3, <1>4, <1>5, <1>7
<1>8. CASE r # 0 /\ p = "funding"
  <2>1. lineup.ahead = 0
    <3>1. lineup \in Lineup
      BY DEF FeedTypes
    <3> QED  BY <3>1, <1>8 DEF ClockIsSteady
  <2>2. PICK z \in lineup.covers["funding"] :
          /\ cover["funding"][z].through # 0
          /\ cover["funding"][z].through <= t
          /\ r <= cover["funding"][z].at + hold
    BY <2>1, <1>2, <1>8 DEF FundingSpeaks
  <2> DEFINE word == cover["funding"][z]  mark == Stale["markPrice"]
  <2>3. /\ word.at <= Wall
        /\ IF fundingDue[z] # NoSettlement
             THEN UpTo(word, fundingDue[z].at) /\ word.at <= fundingDue[z].noticed + Grace
             ELSE nextFunding[z] # 0 /\ UpTo(word, nextFunding[z])
    BY <2>1, <2>2, <1>2 DEF SettlementsInTime
  <2>4. /\ Wall - nextFunding[z] <= mark + Delay \/ nextFunding[z] = 0
        /\ fundingDue[z].noticed - fundingDue[z].at <= mark + Delay
    BY DEF SettlementsAnnounced
  <2>5. z \in Symbol /\ word.at \in Nat /\ word.through \in Nat
    BY LineupOK DEF Slow
  <2>6. nextFunding[z] \in Nat /\ fundingDue[z].at \in Nat /\ fundingDue[z].noticed \in Int
    BY <2>5 DEF FeedTypes
  <2> DEFINE next == nextFunding[z]  due_ == fundingDue[z].at  said == fundingDue[z].noticed
  <2>7. word.at <= word.through + mark + Delay + Grace + 1
    <3>1. CASE fundingDue[z] # NoSettlement
      <4>1. (word.at <= word.through \/ due_ <= word.through + 1) /\ word.at <= said + Grace
            /\ said - due_ <= mark + Delay
        BY <3>1, <2>3, <2>4 DEF UpTo
      <4> HIDE DEF word, mark, due_, said
      <4> QED  BY <4>1, <2>5, <2>6, <1>1 DEF mark, due_, said
    <3>2. CASE fundingDue[z] = NoSettlement
      <4>1. (word.at <= word.through \/ next <= word.through + 1) /\ word.at <= Wall
            /\ Wall - next <= mark + Delay
        BY <3>2, <2>3, <2>4 DEF UpTo
      <4> HIDE DEF word, mark, next
      <4> QED  BY <4>1, <2>5, <2>6, <1>1 DEF mark, next
    <3> QED  BY <3>1, <3>2
  <2>8. word.through <= t /\ r <= word.at + hold
    BY <2>2
  <2>9. Lag(p) = 2 * hold + Delay + 1 + mark + Grace /\ mark \in Nat /\ Holds(p) = t
    BY <2>1, <1>1, <1>3, <1>5, <1>8
  <2> HIDE DEF word, mark, r, t, hold
  <2> QED  BY <2>5, <2>7, <2>8, <2>9, <1>1, <1>4, <1>8
<1> QED  BY <1>6, <1>7, <1>8

(* While settlements are announced in time, the watermark is never behind  *)
(* by more than two silences, an old answer and the wait for a settlement, *)
(* whichever sources, or symbols of a source, have stopped                 *)
(* (ReorderBuffer.expect, LiveFeed._report_complete).                      *)
THEOREM NotFrozenHolds == ClockIsSteady => (FeedSpec => NotFrozen)
<1> SUFFICES ASSUME ClockIsSteady PROVE FeedSpec => NotFrozen
  OBVIOUS
<1>1. ASSUME FeedInv, TimeInv, Pump, SettlementsAnnounced
      PROVE  watermark' >= Wall - MaxLag
  <2>1. ~over /\ FeedTypes
    BY <1>1 DEF Pump, FeedInv
  <2>2. watermark' = Max({watermark, Cutoff})
    BY <1>1 DEF Pump
  <2>3. /\ watermark \in Int /\ Cutoff \in Int
        /\ \/ Cutoff = Wall - Window
           \/ \E p \in Slow : lineup.covers[p] # {} /\ ~IsSilent(p) /\ Cutoff = Holds(p)
    BY <2>1, CutoffWaits DEF FeedTypes
  <2>4. watermark' \in Int /\ Cutoff <= watermark'
    BY <2>2, <2>3, GreaterOfTwo
  <2>5. Wall \in Nat /\ MaxLag \in Int /\ Window <= MaxLag /\ Window \in Nat
    BY <2>1, LagsOK, LineupOK, FeedAssumption
  <2>6. Wall - MaxLag <= Cutoff
    <3>1. CASE Cutoff = Wall - Window
      BY <3>1, <2>5
    <3>2. CASE Cutoff # Wall - Window
      <4>1. PICK p \in Slow : lineup.covers[p] # {} /\ ~IsSilent(p) /\ Cutoff = Holds(p)
        BY <3>2, <2>3
      <4>2. Wall - Lag(p) <= Cutoff
        BY <4>1, <2>1, <1>1, HoldsInTime
      <4>3. Lag(p) \in Nat /\ Lag(p) <= MaxLag
        BY <4>1, <2>1, LagsOK
      <4> QED  BY <4>2, <4>3, <2>3, <2>5
    <3> QED  BY <3>1, <3>2
  <2> QED  BY <2>3, <2>4, <2>5, <2>6
<1>2. FeedInv /\ TimeInv => (Pump /\ SettlementsAnnounced => watermark' >= Wall - MaxLag)
  BY <1>1
<1> QED  BY <1>2, FeedStarts, FeedKeeps, FeedStartsInTime, FeedKeepsTime, PTL
         DEF FeedSpec, NotFrozen
=============================================================================
