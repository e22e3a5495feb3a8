-------------------------------- MODULE Lake --------------------------------
(***************************************************************************)
(* The market data lake: what the collector writes while it runs, and what *)
(* bulk ingests add to the days that are over, with what each looks at of  *)
(* the other (the part-files of a day, the collector's state file).        *)
(***************************************************************************)
EXTENDS Collector

CONSTANTS Days,      \* the days of the venue's archives; the collector starts
                     \*   on day 0
          Fetcher, MaxFaults,
          Lots,      \* what may befall the ingest, and whether the collector runs
          StaleState \* stale_after_ms of require_collector_idle

ASSUME LakeAssumption ==
    /\ {Min(Days), Max(Days)} \subseteq Int /\ Days = Min(Days) .. Max(Days) /\ Days # {}
    /\ MaxFaults \in Nat
    /\ \A l \in Lots : l.under \subseteq Weather

VARIABLES lot, venue, file, receipt, bytes, sure, barren, job, todo, outcome, step, at, got,
          faults

(* The days with a part-file: what _refuse_collector_overlap looks for.    *)
PartDays == {t \div Day : t \in Rows}

DaysOver == {d \in Days : d < now \div Day}

(* require_collector_idle: no state file, or a fresh heartbeat in it       *)
Coping == state = 0 \/ now - state <= StaleState

Bulk == INSTANCE Ingest WITH Period <- Days, over <- DaysOver, parts <- PartDays,
                             coping <- Coping

bulk_vars == <<lot, venue, file, receipt, bytes, sure, barren, job, todo, outcome, step, at, got,
               faults>>
vars == <<cvars, bulk_vars>>

TypeOK == CTypeOK /\ Bulk!BTypeOK /\ lot \in Lots

Init == CInit /\ Bulk!BInit /\ lot \in Lots
        /\ weather \in lot.under

Collects == "collector" \in lot.runs /\ CNext /\ UNCHANGED bulk_vars
Ingests(act) == "ingest" \in lot.runs /\ act /\ UNCHANGED cvars

Next == Collects \/ Ingests(Bulk!BNext)

Spec == Init /\ [][Next]_vars

(* A top-up is started again and again, its process runs, and a download   *)
(* that can succeed does not fail for ever.  Nothing is asked of the       *)
(* collector or the venue.                                                 *)
FairSpec ==
    /\ Spec
    /\ WF_vars(Ingests(Bulk!Refresh)) /\ WF_vars(Ingests(Bulk!Finish))
    /\ \A f \in Fetcher : /\ WF_vars(Ingests(Bulk!Thread(f)))
                          /\ SF_vars(Ingests(Bulk!Download(f)))

(***************************************************************************)
(* Properties.                                                             *)
(***************************************************************************)

(* No row of the market is in the lake twice: not by a second write of the *)
(* collector's (writer.flush, MarkPricePoller), not by an archive beside   *)
(* its part-files (ingest_bulk._refuse_collector_overlap), whatever order  *)
(* the day's end, its publication and the ingest come in.                  *)
NoRowTwice == RowsOnce /\ Bulk!OneSource

(* What a refresh takes for ingested is whole, and what the receipt says.  *)
ReceiptMeansWhole == Bulk!ReceiptMeansWhole

(* An archive that is published in its turn, and can be parsed, is         *)
(* ingested in the end, through transient failures, stops, crashes and     *)
(* power cuts; unless the day is the collector's, or its state file says   *)
(* that it runs and does not cope (refresh_worker._record_unfetchable,     *)
(* refresh.plan_refresh).                                                  *)
EverythingArrives ==
    \A d \in Days : (venue[d] # 0 /\ d \notin lot.bad)
                       ~> (Bulk!Ingested(d) \/ d \in PartDays \/ ~Coping)

(* refresh.BARREN_NAME, for a venue that publishes a day after a later one *)
BarrenIsAbsent == Bulk!BarrenIsAbsent
=============================================================================
