-------------------------------- MODULE Tape --------------------------------
(***************************************************************************)
(* The tape of a paper or live session (engine/tape.py of src/perplab):    *)
(* the market events a session records before it dispatches them           *)
(* (live/session.py), the seal of a session that ended, and what a shadow  *)
(* backtest reads back (engine/source.py), through crashes of the process, *)
(* power cuts and a full disk.  A line of market.jsonl is a record, or the *)
(* beginning of one; exchange.jsonl is written and forced alike.           *)
(***************************************************************************)
EXTENDS Integers, Sequences

LOCAL INSTANCE SequencesExt

CONSTANT Ahead      \* the records the feed will release, in order

\* EventKind: what the market says; the others the engine derives.
MARK == 0  FUNDING == 1  BOOK == 3  TRADE == 4  BARCLOSE == 6
Market == {MARK, FUNDING, BOOK, TRADE, BARCLOSE}

VARIABLES
    session,    \* "none", "reads", "steps", "raised", "ended", or "gone"
    next,       \* the place in Ahead of the next record released
    batch,      \* how many records of this release are still to be recorded
    queue,      \* EventQueue: recorded, and to be dispatched
    ran,        \* the records dispatched
    kept,       \* the records that were recorded whole, in order
    buffer,     \* a line whose write failed, in the handle's buffer
    lines,      \* market.jsonl as the system has it
    torn,       \* it ends in a line without a newline
    synced,     \* how many lines the platter has
    meta,       \* meta.json: absent, or sealed or not, or emptied by a power cut
    oldMeta,    \* the one a power cut may bring back
    cut         \* a power cut has happened

tape == <<lines, torn, synced, meta, oldMeta>>
vars == <<session, next, batch, queue, ran, kept, buffer, tape, cut>>

Absent == [is |-> "absent", rows |-> 0]
Emptied == [is |-> "emptied", rows |-> 0]
Meta(is, rows) == [is |-> is, rows |-> rows]

TypeOK ==
    /\ session \in {"none", "reads", "steps", "raised", "ended", "gone"}
    /\ next \in 1 .. Len(Ahead) + 1 /\ batch \in 0 .. Len(Ahead)
    /\ \A s \in {queue, ran, kept} : \A i \in DOMAIN s : s[i] \in Range(Ahead)
    /\ Len(buffer) <= 1 /\ synced \in 0 .. Len(lines)
    /\ \A b \in {torn, cut} : b \in BOOLEAN
    /\ {meta.is, oldMeta.is} \subseteq {"absent", "emptied", "unsealed", "sealed"}

-----------------------------------------------------------------------------
(* The rows.  An event is [at, kind, seq, id, is, stamp, data], where is    *)
(* and stamp are its payload's type and own instant; a ladder has also the  *)
(* instant it was received, and funding may have the next settlement's.     *)

PayloadOf(kind) ==
    CASE kind = MARK     -> {"MarkBar"}
      [] kind = FUNDING  -> {"FundingPoint"}
      [] kind = BOOK     -> {"TopOfBook", "DepthSnapshot"}
      [] kind = TRADE    -> {"TradePrint"}
      [] kind = BARCLOSE -> {"BarStep"}
      [] OTHER           -> {}

\* _market_payload: no decision of the engine, no payload of another type, and
\* none with an instant of its own (_require_ts).
Taped(e) == e.is \in PayloadOf(e.kind) /\ e.stamp = e.at

\* append_market and _book_payload: the instant is written once, and that of
\* arrival; a book says which of the two it is.
Row(e, recv) ==
    [t |-> e.at, k |-> e.kind, s |-> e.seq, d |-> e.id, r |-> recv, p |-> e.data,
     w |-> CASE e.is = "TopOfBook" -> "top" [] e.is = "DepthSnapshot" -> "ladder" [] OTHER -> ""]

\* _event_from_row, _book_from_payload.
Event(row) ==
    LET is == IF row.k = BOOK
              THEN IF row.w = "top" THEN "TopOfBook" ELSE "DepthSnapshot"
              ELSE CHOOSE x \in PayloadOf(row.k) : TRUE IN
    [at |-> row.t, kind |-> row.k, seq |-> row.s, id |-> row.d, is |-> is, stamp |-> row.t,
     data |-> row.p, recv |-> IF is = "DepthSnapshot" THEN row.r ELSE 0]

Line(record) == Row(record.event, record.recv)

-----------------------------------------------------------------------------
(* The writer.                                                             *)

Init ==
    /\ session = "none" /\ next = 1 /\ batch = 0
    /\ queue = <<>> /\ ran = <<>> /\ kept = <<>> /\ buffer = <<>>
    /\ lines = <<>> /\ torn = FALSE /\ synced = 0
    /\ meta = Absent /\ oldMeta = Absent /\ cut = FALSE

\* _write_meta, by a temporary file and a rename that nothing forces.
WriteMeta(is) == meta' = Meta(is, Len(kept)) /\ oldMeta' \in {oldMeta, meta}

\* TapeWriter.__init__, in a directory without a tape: the metadata is there
\* before the first row.
Open ==
    /\ session = "none" /\ session' = "reads"
    /\ WriteMeta("unsealed")
    /\ UNCHANGED <<next, batch, queue, ran, kept, buffer, lines, torn, synced, cut>>

\* _drain_to_engine takes what the window has matured, which may be nothing.
Release ==
    /\ session = "reads" /\ batch = 0
    /\ batch' \in 1 .. Len(Ahead) - next + 1
    /\ UNCHANGED <<session, next, queue, ran, kept, buffer, tape, cut>>

\* append_market and _write: an older line in the handle's buffer goes first, and
\* the files are forced when it is time; then the queue takes the event, or
\* refuses it as late.
Record ==
    /\ session = "reads" /\ batch > 0
    /\ LET record == Ahead[next] IN
       /\ lines' = lines \o Append(buffer, Line(record))
       /\ kept' = Append(kept, record)
       /\ queue' \in {queue, Append(queue, record)}
    /\ torn' = FALSE /\ buffer' = <<>> /\ synced' \in {synced, Len(lines')}
    /\ next' = next + 1 /\ batch' = batch - 1
    /\ UNCHANGED <<session, ran, meta, oldMeta, cut>>

\* The disk is full: some of the line is written, the rest stays in the buffer,
\* and with the exception the rest of the release is gone.  One line waits.
RecordFails ==
    /\ session = "reads" /\ batch > 0 /\ buffer = <<>>
    /\ buffer' = <<Line(Ahead[next])>> /\ torn' = TRUE
    /\ session' = "raised" /\ next' = next + batch /\ batch' = 0
    /\ UNCHANGED <<queue, ran, kept, lines, synced, meta, oldMeta, cut>>

-----------------------------------------------------------------------------
(* The session.                                                            *)

\* All that was released is recorded, and is dispatched.
Steps ==
    /\ session = "reads" /\ batch = 0 /\ queue # <<>> /\ session' = "steps"
    /\ UNCHANGED <<next, batch, queue, ran, kept, buffer, tape, cut>>

\* An event may halt the engine, or its handler raise.
Dispatch ==
    /\ session = "steps" /\ queue # <<>>
    /\ ran' = Append(ran, Head(queue)) /\ queue' = Tail(queue)
    /\ session' \in {IF queue' = <<>> THEN "reads" ELSE "steps", "raised"}
    /\ UNCHANGED <<next, batch, kept, buffer, tape, cut>>

\* The final drain: what an ending releases is recorded and dispatched too.
EndOf ==
    /\ session = "raised" \/ (session = "reads" /\ batch = 0)
    /\ session' = "ended"
    /\ UNCHANGED <<next, batch, queue, ran, kept, buffer, tape, cut>>
DrainsOn ==
    /\ session = "raised" /\ session' = "reads"
    /\ UNCHANGED <<next, batch, queue, ran, kept, buffer, tape, cut>>

\* Wrong variant of Seal: the metadata is written first.
Seal_Unforced ==
    /\ session = "ended" /\ meta.is = "unsealed"
    /\ WriteMeta("sealed") /\ session' = "gone"
    /\ UNCHANGED <<next, batch, queue, ran, kept, buffer, lines, torn, synced, cut>>

\* seal, on every path of the worker: the rows are forced, then the metadata is
\* replaced.  Neither forces what a failed write left in the buffer; close may
\* get it written.
Seal ==
    /\ session = "ended" /\ meta.is = "unsealed"
    /\ synced' = Len(lines) /\ session' = "gone"
    /\ \/ WriteMeta("sealed")
       \/ UNCHANGED <<meta, oldMeta>>
    /\ \/ lines' = lines \o buffer /\ torn' = FALSE
       \/ buffer # <<>> /\ UNCHANGED <<lines, torn>>
    /\ buffer' = <<>>
    /\ UNCHANGED <<next, batch, queue, ran, kept, cut>>

\* The process dies, perhaps within a write.
Crash ==
    /\ session \in {"reads", "steps", "raised", "ended"}
    /\ session' = "gone" /\ buffer' = <<>>
    /\ torn' \in {torn, torn \/ batch > 0}
    /\ UNCHANGED <<next, batch, queue, ran, kept, lines, synced, meta, oldMeta, cut>>

\* The machine loses power: of what was not forced, any beginning is left.
PowerCut ==
    /\ session # "none" /\ ~ cut
    /\ session' = "gone" /\ buffer' = <<>> /\ cut' = TRUE
    /\ \E n \in synced .. Len(lines) :
          /\ lines' = SubSeq(lines, 1, n) /\ synced' = n
          /\ torn' \in IF n < Len(lines) \/ torn THEN BOOLEAN ELSE {FALSE}
    /\ meta' \in {meta, oldMeta, Emptied} /\ oldMeta' = meta'
    /\ UNCHANGED <<next, batch, queue, ran, kept>>

Next ==
    \/ Open \/ Release \/ Record \/ RecordFails \/ Steps \/ Dispatch
    \/ EndOf \/ DrainsOn \/ Seal \/ Crash \/ PowerCut

Spec == Init /\ [][Next]_vars

-----------------------------------------------------------------------------
(* The reader.                                                             *)

\* meta, sealed and TapeSource.prepare: a tape without metadata is none, one
\* without a seal is refused unless the caller takes it as it is.
Refused(allowUnsealed) ==
    \/ meta.is \in {"absent", "emptied"}
    \/ meta.is = "unsealed" /\ ~ allowUnsealed

\* events and _rows: a line without its newline is the last and is dropped.
Replayed == [i \in DOMAIN lines |-> Event(lines[i])]

-----------------------------------------------------------------------------
\* What a record is after it has been on the tape: the funding's next instant
\* and nothing else is lost.
As(record) ==
    LET e == record.event IN
    [at |-> e.at, kind |-> e.kind, seq |-> e.seq, id |-> e.id, is |-> e.is, stamp |-> e.stamp,
     data |-> e.data, recv |-> IF e.is = "DepthSnapshot" THEN record.recv ELSE 0]
AsAll(records) == [i \in DOMAIN records |-> As(records[i])]
Scattered(s, t) ==
    \E at \in [DOMAIN s -> DOMAIN t] :
        \A i \in DOMAIN s : s[i] = t[at[i]] /\ (i > 1 => at[i - 1] < at[i])

\* A tape that is sealed replays every event that the session dispatched, in its
\* order, and every row it kept, whatever cut the power and when; a crash of the
\* process costs none of them either, and a power cut nothing but the end of what
\* had been recorded.  What is replayed was released, in that order.
SealedIsWhole ==
    /\ session = "gone" /\ ~ Refused(TRUE) => Scattered(Replayed, AsAll(SubSeq(Ahead, 1, next - 1)))
    /\ session = "gone" /\ ~ Refused(FALSE) =>
          /\ Scattered(AsAll(ran), Replayed)
          /\ Scattered(AsAll(kept), Replayed)
          /\ meta.rows = Len(kept)
    /\ session = "gone" /\ ~ Refused(TRUE) =>
          IF cut THEN \E n \in 0 .. Len(kept) : Scattered(AsAll(SubSeq(kept, 1, n)), Replayed)
          ELSE Scattered(AsAll(ran), Replayed)
=============================================================================
