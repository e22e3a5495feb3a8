------------------------------- MODULE Ingest -------------------------------
(***************************************************************************)
(* Bulk archives of one dataset (perplab.data.ingest_bulk) and the         *)
(* refreshes that top the lake up from them (perplab.data.refresh,         *)
(* refresh_worker): periods that are already ingested, those the collector *)
(* owns, those recorded as barren; the threads of ingest_range; the order  *)
(* in which an archive and its receipt reach the disk.                     *)
(* An archive is its version, and each version has a size of its own.      *)
(***************************************************************************)
EXTENDS Integers, FiniteSets, FiniteSetsExt

CONSTANTS Period,      \* days, in order
          Fetcher,     \* the threads of ingest_range
          MaxFaults    \* crashes, power cuts and stops

VARIABLES lot,         \* what this behaviour's venue publishes, refuses, and
                       \*   what befalls the ingest
          over,        \* the days that are over
          parts,       \* the periods with the collector's part-files
          coping,      \* require_collector_idle lets a refresh start
          venue,       \* the published version of a period's archive, or 0
          file,        \* the version in data.parquet, or 0
          receipt,     \* the version its receipt is about, or 0
          bytes,       \* and parquet_bytes of the receipt
          sure,        \* the entries of file and receipt a power cut keeps
          barren,      \* the record of what cannot be fetched
          job,         \* "none", or how the ingest that runs was started
          todo,        \* the queue of periods
          outcome,     \* the outcomes that count later
          step,        \* where a thread stands
          at,          \* its period
          got,         \* the version it downloaded
          faults

lake     == <<file, receipt, bytes>>
job_vars == <<job, todo, outcome, step, at, got>>
bvars    == <<lot, venue, lake, sure, barren, job_vars, faults>>

Versions == 0 .. 2

Fault == {"crash", "cut", "flaky", "stop", "force", "late"}

BTypeOK ==
    /\ venue \in [Period -> Versions]
    /\ {file, receipt, bytes} \subseteq [Period -> Versions]
    /\ sure \in [file : [Period -> Versions], receipt : [Period -> Versions]]
    /\ barren \subseteq Period /\ todo \subseteq Period
    /\ job \in {"none", "refresh", "force"}
    /\ outcome \in [Period -> {"none", "missing", "malformed", "failed"}]
    /\ step \in [Fetcher -> {"free", "chosen", "fetched", "written"}]
    /\ at \in [Fetcher -> Period] /\ got \in [Fetcher -> Versions]
    /\ faults \in 0 .. MaxFaults

Meets(fault) == fault \in lot.met /\ faults < MaxFaults /\ faults' = faults + 1

Zero == [p \in Period |-> 0]

BInit ==
    /\ venue = Zero /\ file = Zero /\ receipt = Zero /\ bytes = Zero
    /\ sure = [file |-> Zero, receipt |-> Zero]
    /\ barren = {} /\ job = "none" /\ todo = {} /\ faults = 0
    /\ outcome = [p \in Period |-> "none"]
    /\ step = [f \in Fetcher |-> "free"]
    /\ at = [f \in Fetcher |-> Max(Period)] /\ got = [f \in Fetcher |-> 0]

(***************************************************************************)
(* The venue (outside this program).  A day's archive appears once the day *)
(* is over, after those before it, or late; it may be replaced once.       *)
(***************************************************************************)

Publish(p) ==
    /\ p \in lot.comes /\ p \in over /\ venue[p] = 0
    /\ "late" \in lot.met \/ \A q \in lot.comes : q < p => venue[q] # 0
    /\ venue' = [venue EXCEPT ![p] = 1]
    /\ UNCHANGED <<lot, lake, sure, barren, job_vars, faults>>

Replace(p) ==
    /\ "force" \in lot.met /\ venue[p] = 1
    /\ venue' = [venue EXCEPT ![p] = 2]
    /\ UNCHANGED <<lot, lake, sure, barren, job_vars, faults>>

(***************************************************************************)
(* One archive (ingest_archive).                                           *)
(***************************************************************************)

(* Mutant: a receipt and some file will do. *)
Ingested_AnyFile(p) == receipt[p] # 0 /\ file[p] # 0

(* is_ingested: a receipt, and the file it names is there with its size    *)
Ingested(p) == receipt[p] # 0 /\ file[p] # 0 /\ file[p] = bytes[p]

(* A thread takes the next period (the worker of ingest_range).            *)
Take(f) ==
    /\ step[f] = "free" /\ todo # {}
    /\ at' = [at EXCEPT ![f] = Min(todo)] /\ todo' = todo \ {Min(todo)}
    /\ step' = [step EXCEPT ![f] = "chosen"]
    /\ UNCHANGED <<lot, venue, lake, sure, barren, job, outcome, got, faults>>

Ends(f, what) ==
    /\ step' = [step EXCEPT ![f] = "free"]
    /\ outcome' = [outcome EXCEPT ![at[f]] = what]
    /\ UNCHANGED <<lot, venue, sure, barren, job, todo, at, got, faults>>

Owned(p) == p \in parts

(* SKIPPED: it is in the lake already; CONFLICT: it is the collector's,    *)
(* looked for before the first byte and again before the file is named     *)
Declined(f) ==
    /\ \/ step[f] = "chosen" /\ job # "force" /\ Ingested(at[f])
       \/ step[f] \in {"chosen", "fetched"} /\ Owned(at[f])
    /\ Ends(f, "none") /\ UNCHANGED lake

Wanted(f) ==
    /\ step[f] = "chosen" /\ ~Owned(at[f]) /\ (job = "force" \/ ~Ingested(at[f]))

(* _fetch_checksum finds a 404, inside the published coverage.             *)
Missing(f) ==
    /\ Wanted(f) /\ venue[at[f]] = 0
    /\ Ends(f, "missing") /\ UNCHANGED lake

(* A time-out, a 5xx or a checksum that does not match, to the last try    *)
Flaky(f) ==
    /\ Wanted(f) /\ "flaky" \in lot.met
    /\ Ends(f, "failed") /\ UNCHANGED lake

(* The archive arrives, matches its checksum ...                           *)
Download(f) ==
    /\ Wanted(f) /\ venue[at[f]] # 0
    /\ got' = [got EXCEPT ![f] = venue[at[f]]]
    /\ step' = [step EXCEPT ![f] = "fetched"]
    /\ UNCHANGED <<lot, venue, lake, sure, barren, job, todo, outcome, at, faults>>

(* ... and is refused on its contents: MalformedArchive                    *)
Malformed(f) ==
    /\ step[f] = "fetched" /\ at[f] \in lot.bad
    /\ Ends(f, "malformed") /\ UNCHANGED lake

(* _write_archive: the temporary file is synced and replaces the old one   *)
WriteArchive(f) ==
    /\ step[f] = "fetched" /\ at[f] \notin lot.bad /\ ~Owned(at[f])
    /\ file' = [file EXCEPT ![at[f]] = got[f]]
    /\ step' = [step EXCEPT ![f] = "written"]
    /\ UNCHANGED <<lot, venue, receipt, bytes, sure, barren, job, todo, outcome, at, got, faults>>

(* the receipt, last, with the size the file has now                       *)
WriteReceipt(f) ==
    /\ step[f] = "written"
    /\ receipt' = [receipt EXCEPT ![at[f]] = got[f]]
    /\ bytes' = [bytes EXCEPT ![at[f]] = file[at[f]]]
    /\ UNCHANGED file
    /\ Ends(f, "none")

Thread(f) == Take(f) \/ Declined(f) \/ Missing(f) \/ Flaky(f) \/ Download(f)
             \/ Malformed(f) \/ WriteArchive(f) \/ WriteReceipt(f)

(***************************************************************************)
(* Jobs.                                                                   *)
(***************************************************************************)

(* discover_frontier: the newest archive there is                          *)
Published == {p \in Period : venue[p] # 0}

Lacking == {p \in Period : /\ Published # {} /\ p <= Max(Published)
                           /\ ~Ingested(p) /\ p \notin barren}

(* A refresh asks for the first lacking period to the last, and so for     *)
(* whatever lies between (plan_refresh, refresh_worker._run).              *)
Refresh ==
    /\ job = "none" /\ coping /\ Lacking # {}
    /\ job' = "refresh"
    /\ todo' = {p \in Period : Min(Lacking) <= p /\ p <= Max(Lacking)}
    /\ outcome' = [p \in Period |-> "none"]
    /\ UNCHANGED <<lot, venue, lake, sure, barren, step, at, got, faults>>

(* perplab ingest --force of a period                                      *)
Force(p) ==
    /\ "force" \in lot.met /\ job = "none" /\ venue[p] = 2 /\ file[p] = 1
    /\ job' = "force" /\ todo' = {p}
    /\ outcome' = [q \in Period |-> "none"]
    /\ UNCHANGED <<lot, venue, lake, sure, barren, step, at, got, faults>>

(* The stop file, or an address ban: no thread takes another period.       *)
Halt ==
    /\ Meets("stop") /\ job # "none" /\ todo # {} /\ todo' = {}
    /\ UNCHANGED <<lot, venue, lake, sure, barren, job, outcome, step, at, got>>

(* Mutant: whatever failed once is not worth another attempt. *)
Unfetchable_Failed == {p \in Period : outcome[p] # "none"}

(* _record_unfetchable: a 404, or an archive whose contents are refused    *)
Unfetchable == {p \in Period : outcome[p] \in {"missing", "malformed"}}

(* Every thread is through; only a refresh keeps a record.                 *)
Finish ==
    /\ job # "none" /\ todo = {} /\ \A f \in Fetcher : step[f] = "free"
    /\ barren' = IF job = "refresh" THEN barren \cup Unfetchable ELSE barren
    /\ job' = "none" /\ outcome' = [p \in Period |-> "none"]
    /\ UNCHANGED <<lot, venue, lake, sure, todo, step, at, got, faults>>

Reset ==
    /\ job' = "none" /\ todo' = {}
    /\ outcome' = [p \in Period |-> "none"]
    /\ step' = [f \in Fetcher |-> "free"]
    /\ UNCHANGED <<lot, venue, barren, at, got>>

(* The process ends at any point.                                          *)
Killed == Meets("crash") /\ job # "none" /\ Reset /\ UNCHANGED <<lake, sure>>

(* The names os.replace gave reach the disk when the system pleases ...    *)
Settle ==
    /\ "cut" \in lot.met /\ sure # [file |-> file, receipt |-> receipt]
    /\ \/ sure' = [sure EXCEPT !.file = file]
       \/ sure' = [sure EXCEPT !.receipt = receipt]
    /\ UNCHANGED <<lot, venue, lake, barren, job_vars, faults>>

(* ... and those that have not are lost when the power goes.               *)
PowerCut ==
    /\ Meets("cut")
    /\ sure # [file |-> file, receipt |-> receipt]
    /\ file' = sure.file
    /\ receipt' = sure.receipt
    /\ bytes' = [p \in Period |-> IF receipt'[p] = receipt[p] THEN bytes[p] ELSE receipt'[p]]
    /\ Reset /\ UNCHANGED sure

Proceeds == (\E f \in Fetcher : Thread(f)) \/ Finish

BNext ==
    \/ \E p \in Period : Publish(p) \/ Replace(p) \/ Force(p)
    \/ Refresh \/ Halt \/ Proceeds \/ Killed \/ Settle \/ PowerCut

(***************************************************************************)
(* Properties.                                                             *)
(***************************************************************************)

(* What the planner takes for ingested is in the lake, and is the archive  *)
(* the receipt is about: after a crash between the two, a forced ingest of *)
(* an archive that was replaced, and a power cut that kept one name and    *)
(* not the other (is_ingested, the order in ingest_archive).               *)
ReceiptMeansWhole == \A p \in Period : Ingested(p) => file[p] = receipt[p]

(* No day has both the collector's rows and an archive's: they would be    *)
(* read twice (_refuse_collector_overlap).                                 *)
OneSource == \A p \in Period : file[p] # 0 => p \notin parts

(* refresh.BARREN_NAME: "A daily 404 is not on its own grounds for this    *)
(* record": nothing that can be ingested is in it.                         *)
BarrenIsAbsent == \A p \in barren : venue[p] = 0 \/ p \in lot.bad
=============================================================================
