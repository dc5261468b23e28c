------------------------------- MODULE Landing -------------------------------
(***************************************************************************)
(* Rows on their way from the publisher's files to gold: ingest, bronze,   *)
(* silver and gold as the DAG runs them, one after the other, night after  *)
(* night, with the rows themselves and the contracts evaluated on them.    *)
(*                                                                         *)
(* Columns that go the same way as one that is here are left out.  A time  *)
(* is a day; amounts, ages and coordinates are small numbers.              *)
(***************************************************************************)
EXTENDS Integers, FiniteSets, Sequences, FiniteSetsExt, Sums, TLC

CONSTANTS
    Null,
    Absent,      \* no file, no manifest
    Splits,      \* "train" and "test"
    RawRow,      \* rows as Sparkov publishes them
    Versions,    \* what the publisher may serve: rows for each split
    ValidIds,    \* the trans_num values of 32 hex characters
    CategoryRef, \* bronze.category_ref_raw: the channel of each category
    Categories,  \* CATEGORIES
    MaxAmt, MaxLat, MaxDistance, MaxAge, Year,
    MinRows, MaxRows,             \* row_count of the bronze and silver contracts
    MaxRejectPercent,             \* MAX_REJECT_RATE
    PeriodEnd, FreshFor,          \* as_of(), max_age of the freshness checks
    MaxLoads, MaxCrashes          \* bounds

RawColumns == {"trans_num", "trans_date_trans_time", "cc_num", "category", "amt", "dob",
               "lat", "merch_lat", "is_fraud", "merch_zipcode"}

ASSUME LandingAssumption ==
    /\ Splits = {"train", "test"}
    /\ IsFiniteSet(RawRow)
    /\ \A r \in RawRow :
        /\ DOMAIN r = RawColumns
        /\ {r.trans_date_trans_time, r.amt, r.merch_lat} \subseteq Int \cup {Null}
    /\ Versions \subseteq [Splits -> SUBSET RawRow]
    /\ {MinRows, MaxRows, MaxAmt, MaxLat, FreshFor, MaxLoads, MaxCrashes} \subseteq Nat
    /\ PeriodEnd \in Int /\ MaxRejectPercent \in 0 .. 100
    /\ Null \notin ValidIds /\ Null \notin Categories
    /\ Null \notin Int /\ Null \notin Splits
    /\ Absent \notin [big : BOOLEAN, rows : SUBSET RawRow]

\* The expressions of the gold contract.
Eval(expr, r) ==
    CASE expr = "txns > 0"           -> r.txns > 0
      [] expr = "fraud_txns <= txns" -> IF r.fraud_txns = Null THEN Null
                                        ELSE r.fraud_txns <= r.txns
      [] expr = "total_amt >= 0"     -> IF r.total_amt = Null THEN Null
                                        ELSE r.total_amt >= 0

INSTANCE ContractChecks

VARIABLES
    upstream,    \* the version the publisher serves now
    disk,        \* the files in data/raw
    manifest,    \* data/raw/_manifest.json: the rows of each file
    bronze, quarantine, staging, silver,  \* tables
    hourly, velocity,                     \* two gold tables
    conformed,   \* the rows the silver stage has cached, with their reject reason
    pc, force,   \* the stage's next step, ingest's --force
    loads,       \* history: the files of each bronze load
    served,      \* history: the load silver was last published from
    shortServed, \* history: the publisher once sent a short response
    crashes

files == <<upstream, disk, manifest>>
tables == <<bronze, quarantine, staging, silver, hourly, velocity>>
history == <<loads, served, shortServed, crashes>>
vars == <<files, tables, conformed, pc, force, history>>

Init ==
    /\ upstream \in Versions
    /\ disk = [s \in Splits |-> Absent] /\ manifest = Absent
    /\ bronze = {} /\ quarantine = {} /\ staging = {} /\ silver = {}
    /\ hourly = {} /\ velocity = {}
    /\ conformed = {}
    /\ pc = "idle" /\ force = FALSE
    /\ loads = <<>> /\ served = 0 /\ shortServed = FALSE /\ crashes = 0

-----------------------------------------------------------------------------
(* The rows: transforms.py. *)

\* withColumn(): a row with more columns, or other values in those it has.
With(r, more) ==
    [c \in DOMAIN r \cup DOMAIN more |-> IF c \in DOMAIN more THEN more[c] ELSE r[c]]

AddIngestionMetadata(r, s, n) ==
    With(r, [source_split |-> s, batch_id |-> n, ingested_at |-> n])

Distance(a, b) ==
    IF a = Null \/ b = Null THEN Null ELSE IF a < b THEN b - a ELSE a - b

\* rename_to_silver, haversine_km, mask_card_number, derive_age, strip_home_coordinates.
Conform(r) ==
    [trans_num      |-> r.trans_num,
     trans_time     |-> r.trans_date_trans_time,
     cc_num_hash    |-> IF r.cc_num = Null THEN Null ELSE <<"sha2", r.cc_num>>,
     category       |-> r.category,
     amt            |-> r.amt,
     cardholder_age |-> IF r.dob = Null \/ r.trans_date_trans_time = Null THEN Null
                        ELSE (r.trans_date_trans_time - r.dob) \div Year,
     merch_lat      |-> r.merch_lat,
     distance_km    |-> Distance(r.lat, r.merch_lat),
     is_fraud       |-> r.is_fraud,
     merch_zipcode  |-> r.merch_zipcode,
     source_split   |-> r.source_split,
     batch_id       |-> r.batch_id,
     ingested_at    |-> r.ingested_at]

Rules == <<"invalid_trans_num", "missing_timestamp", "non_positive_amount",
           "implausible_amount", "invalid_category", "invalid_is_fraud_flag",
           "invalid_merchant_coordinates">>

ASSUME NullIsNoReason == \A i \in DOMAIN Rules : Rules[i] # Null

\* A NULL category is not in the list, and not outside it either.
Breaks(rule, r) ==
    \/ rule = "invalid_trans_num"     /\ r.trans_num \notin ValidIds
    \/ rule = "missing_timestamp"     /\ r.trans_time = Null
    \/ rule = "non_positive_amount"   /\ (r.amt = Null \/ r.amt <= 0)
    \/ rule = "implausible_amount"    /\ r.amt # Null /\ r.amt > MaxAmt
    \/ rule = "invalid_category"      /\ r.category # Null /\ r.category \notin Categories
    \/ rule = "invalid_is_fraud_flag" /\ r.is_fraud \notin {0, 1}
    \/ /\ rule = "invalid_merchant_coordinates"
       /\ r.merch_lat = Null \/ r.merch_lat < -MaxLat \/ r.merch_lat > MaxLat

\* Mutant: no upper bound on the amount.
RejectReasonLax(r) ==
    LET hit == {i \in DOMAIN Rules \ {4} : Breaks(Rules[i], r)} IN
    IF hit = {} THEN Null ELSE Rules[Min(hit)]

\* The first rule a row breaks.
RejectReason(r) ==
    LET hit == {i \in DOMAIN Rules : Breaks(Rules[i], r)} IN
    IF hit = {} THEN Null ELSE Rules[Min(hit)]

\* The left join with the category reference.
EnrichWithCategory(r) ==
    With(r, [channel |-> IF r.category \in DOMAIN CategoryRef
                         THEN CategoryRef[r.category] ELSE Null])

\* Mutant: the oldest row of each transaction.
NewestAscending(rows, t) ==
    {r \in rows : r.trans_num = t
        /\ \A q \in rows : q.trans_num = t => r.ingested_at <= q.ingested_at}

Newest(rows, t) ==
    {r \in rows : r.trans_num = t
        /\ \A q \in rows : q.trans_num = t => q.ingested_at <= r.ingested_at}

\* row_number() = 1: one row per transaction, newest ingestion first.  Rows of one load tie
\* on ingested_at and batch_id, and either may come first.
Deduped(rows) ==
    LET ids == {r.trans_num : r \in rows} IN
    {{f[t] : t \in ids} : f \in {g \in [ids -> rows] : \A t \in ids : g[t] \in Newest(rows, t)}}

-----------------------------------------------------------------------------
(* The contracts: conf/contracts. *)

RowCount == [type |-> "row_count", severity |-> "error", min |-> MinRows, max |-> MaxRows]
Unique(columns, severity) ==
    [type |-> "unique", severity |-> severity, columns |-> columns]
Fresh(column) ==
    [type |-> "freshness", severity |-> "error", column |-> column, max_age |-> FreshFor]
Ranged(column, min, max, severity) ==
    [type |-> "accepted_range", severity |-> severity, column |-> column,
     min |-> min, max |-> max]
Values(column, values) ==
    [type |-> "accepted_values", severity |-> "error", column |-> column, values |-> values]
Expression(expr) == [type |-> "expression", severity |-> "error", expr |-> expr]

Lineage == {"source_split", "batch_id", "ingested_at"}

BronzeContract ==
    [columns  |-> {"trans_num", "trans_date_trans_time", "cc_num", "category", "amt",
                   "is_fraud"} \cup Lineage,
     required |-> {"trans_num"} \cup Lineage,
     strict   |-> FALSE,
     checks   |-> <<RowCount, Unique({"trans_num"}, "warn"), Fresh("trans_date_trans_time")>>]

SilverRequired == {"trans_num", "trans_time", "cc_num_hash", "category", "channel", "amt",
                   "merch_lat", "is_fraud"} \cup Lineage
SilverColumns == SilverRequired \cup {"cardholder_age", "distance_km", "merch_zipcode"}

SilverContract ==
    [columns  |-> SilverColumns,
     required |-> SilverRequired,
     strict   |-> TRUE,
     checks   |-> <<Unique({"trans_num"}, "error"),
                    RowCount,
                    [type |-> "not_null", severity |-> "error", columns |-> {"cc_num_hash"}],
                    Ranged("amt", 0, MaxAmt, "error"),
                    Values("category", Categories),
                    Values("is_fraud", {0, 1}),
                    Ranged("merch_lat", -MaxLat, MaxLat, "error"),
                    Ranged("cardholder_age", 0, MaxAge, "warn"),
                    Ranged("distance_km", 0, MaxDistance, "warn"),
                    [type |-> "null_rate", severity |-> "error",
                     column |-> "merch_zipcode", max |-> 30],
                    Fresh("trans_time")>>]

HourlyColumns == {"trans_hour_ts", "category", "txns", "fraud_txns", "total_amt"}

\* But its row_count, which is about how much data there is, and fraud_rate, which is
\* fraud_txns over txns.
HourlyContract ==
    [columns  |-> HourlyColumns,
     required |-> HourlyColumns,
     strict   |-> TRUE,
     checks   |-> <<Unique({"trans_hour_ts", "category"}, "error"),
                    Expression("txns > 0"),
                    Expression("fraud_txns <= txns"),
                    Expression("total_amt >= 0"),
                    Fresh("trans_hour_ts")>>]

ColumnsIn(rows) == UNION {DOMAIN r : r \in rows}
BronzeTable == [cols |-> ColumnsIn(bronze), rows |-> bronze]
StagingTable ==
    [cols |-> IF staging = {} THEN SilverColumns ELSE ColumnsIn(staging), rows |-> staging]
HourlyTable == [cols |-> HourlyColumns, rows |-> hourly]

-----------------------------------------------------------------------------
(* The stages. *)

\* On to the next step, or the end of the run: the flag is ingest's, the cache silver's.
GoTo(step) ==
    /\ pc' = step
    /\ force' = (force /\ step \in {"test", "gate"})
    /\ conformed' = IF step \in {"idle", "gold"} THEN {} ELSE conformed

\* The publisher replaces its files, between two runs.
Publish ==
    /\ pc = "idle" /\ Len(loads) < MaxLoads
    /\ upstream' \in Versions \ {upstream}
    /\ UNCHANGED <<disk, manifest, tables, conformed, pc, force, history>>

\* A night's run, or an operator's with --force.
Begin ==
    /\ pc = "idle" /\ Len(loads) < MaxLoads
    /\ pc' = "train" /\ force' \in BOOLEAN
    /\ UNCHANGED <<files, tables, conformed, history>>

AfterFile(s) == IF s = "train" THEN "test" ELSE "gate"

\* ingest: a file that is there is left alone.
SkipDownload(s) ==
    /\ pc = s /\ disk[s] # Absent /\ ~force
    /\ GoTo(AfterFile(s))
    /\ UNCHANGED <<files, tables, history>>

\* _download: the whole file, renamed into place.
Download(s) ==
    /\ pc = s /\ (disk[s] = Absent \/ force)
    /\ disk' = [disk EXCEPT ![s] = [big |-> TRUE, rows |-> upstream[s]]]
    /\ GoTo(AfterFile(s))
    /\ UNCHANGED <<upstream, manifest, tables, history>>

\* The publisher answers with something that is not the file, and far too small.
DownloadShort(s) ==
    /\ pc = s /\ (disk[s] = Absent \/ force)
    /\ disk' = [disk EXCEPT ![s] = [big |-> FALSE, rows |-> {}]]
    /\ GoTo(AfterFile(s))
    /\ shortServed' = TRUE
    /\ UNCHANGED <<upstream, manifest, tables, loads, served, crashes>>

\* Mutant: downloads to the final path.
BreakOffInPlace(s) ==
    /\ pc = s /\ (disk[s] = Absent \/ force)
    /\ disk' = [disk EXCEPT ![s] = [big |-> FALSE, rows |-> {}]]
    /\ GoTo("idle")
    /\ UNCHANGED <<upstream, manifest, tables, history>>

\* The connection breaks: a .part file that the next download overwrites.
DownloadBreaks(s) ==
    /\ pc = s /\ (disk[s] = Absent \/ force)
    /\ GoTo("idle")
    /\ UNCHANGED <<files, tables, history>>

\* Mutant: only the train file is gated.
TrainIsBig == disk["train"].big

BigEnough == \A s \in Splits : disk[s].big

\* The size gates, and the manifest, last.
Gate ==
    /\ pc = "gate"
    /\ IF BigEnough
       THEN manifest' = [s \in Splits |-> disk[s].rows] /\ GoTo("bronze")
       ELSE GoTo("idle") /\ UNCHANGED manifest
    /\ UNCHANGED <<upstream, disk, tables, history>>

\* unionByName of the two splits.
Incoming ==
    UNION {{AddIngestionMetadata(r, s, Len(loads) + 1) : r \in disk[s].rows} : s \in Splits}

\* Mutant: append().
Appended == bronze \cup Incoming

\* overwritePartitions(): the days of the new rows, a NULL day among them, are replaced.
Overwritten ==
    LET days == {n.trans_date_trans_time : n \in Incoming} IN
    {r \in bronze : r.trans_date_trans_time \notin days} \cup Incoming

LoadBronze ==
    /\ pc = "bronze"
    /\ bronze' = Overwritten
    /\ loads' = Append(loads, [s \in Splits |-> disk[s].rows])
    /\ GoTo("check")
    /\ UNCHANGED <<files, quarantine, staging, silver, hourly, velocity,
                   served, shortServed, crashes>>

CheckBronze ==
    /\ pc = "check"
    /\ GoTo(IF Raises(BronzeContract, BronzeTable, PeriodEnd) THEN "idle" ELSE "quarantine")
    /\ UNCHANGED <<files, tables, history>>

\* Mutant: deduplicates before it rejects.
DedupFirst ==
    \E D \in Deduped({Conform(r) : r \in bronze}) :
        conformed' = {With(r, [reject_reason |-> RejectReason(r)]) : r \in D}

\* The cached, conformed rows.
ConformAll ==
    conformed' = {With(c, [reject_reason |-> RejectReason(c)]) :
                  c \in {Conform(r) : r \in bronze}}

Rejected(rows) == {r \in rows : r.reject_reason # Null}

\* silver: conform, and write what is rejected, whatever happens next.
Quarantine ==
    /\ pc = "quarantine"
    /\ ConformAll
    /\ quarantine' = {[trans_num |-> r.trans_num, reject_reason |-> r.reject_reason,
                       batch_id |-> r.batch_id, source_split |-> r.source_split] :
                      r \in Rejected(conformed')}
    /\ pc' = "rate"
    /\ UNCHANGED <<files, bronze, staging, silver, hourly, velocity, force, history>>

RejectGate ==
    /\ pc = "rate"
    /\ GoTo(IF 100 * Cardinality(Rejected(conformed)) > MaxRejectPercent * Cardinality(conformed)
             THEN "idle" ELSE "stage")
    /\ UNCHANGED <<files, tables, history>>

\* select(*SILVER_COLUMNS)
Selected(r) == [c \in SilverColumns |-> EnrichWithCategory(r)[c]]

\* _write_audited, up to the staging table.
Stage ==
    /\ pc = "stage"
    /\ \E D \in Deduped(conformed \ Rejected(conformed)) : staging' = {Selected(r) : r \in D}
    /\ GoTo("audit")
    /\ UNCHANGED <<files, bronze, quarantine, silver, hourly, velocity, history>>

Audit ==
    /\ pc = "audit"
    /\ GoTo(IF Raises(SilverContract, StagingTable, PeriodEnd) THEN "idle" ELSE "publish")
    /\ UNCHANGED <<files, tables, history>>

PublishSilver ==
    /\ pc = "publish"
    /\ silver' = staging /\ served' = Len(loads)
    /\ GoTo("gold")
    /\ UNCHANGED <<files, bronze, quarantine, staging, hourly, velocity,
                   loads, shortServed, crashes>>

\* A sum over a column without NULLs or negative values: audited silver has none in these.
Sum(rows, c) == SumOf([r \in rows |-> r[c]])

\* category_hourly_fraud: one row per time and category.
CategoryHourly ==
    {LET G == {r \in silver : r.trans_time = k[1] /\ r.category = k[2]} IN
     [trans_hour_ts |-> k[1], category |-> k[2], txns |-> Cardinality(G),
      fraud_txns |-> Sum(G, "is_fraud"), total_amt |-> Sum(G, "amt")] :
     k \in {<<r.trans_time, r.category>> : r \in silver}}

DailyPerCard ==
    {[card |-> k[1], day |-> k[2],
      txns_that_day |-> Cardinality({r \in silver : <<r.cc_num_hash, r.trans_time>> = k})] :
     k \in {<<r.cc_num_hash, r.trans_time>> : r \in silver}}

\* Mutant: rowsBetween(-6, 0), the last seven days on which the card was used.
LastSevenRows(d) ==
    {e \in DailyPerCard : e.card = d.card /\ e.day <= d.day
        /\ Cardinality({f \in DailyPerCard :
               f.card = d.card /\ e.day < f.day /\ f.day <= d.day}) <= 6}

\* rangeBetween(-6, 0) over the day number.
Trailing(d) ==
    {e \in DailyPerCard : e.card = d.card /\ d.day - 6 <= e.day /\ e.day <= d.day}

CardVelocity ==
    {With(d, [txns_trailing_7d |-> Sum(Trailing(d), "txns_that_day")]) : d \in DailyPerCard}

Gold ==
    /\ pc = "gold"
    /\ hourly' = CategoryHourly /\ velocity' = CardVelocity
    /\ GoTo("goldcheck")
    /\ UNCHANGED <<files, bronze, quarantine, staging, silver, history>>

\* Both outcomes end the run.
CheckGold ==
    /\ pc = "goldcheck"
    /\ GoTo("idle")
    /\ UNCHANGED <<files, tables, history>>

\* The process of a stage dies; the DAG runs again another night.
Crash ==
    /\ pc # "idle" /\ crashes < MaxCrashes
    /\ GoTo("idle") /\ crashes' = crashes + 1
    /\ UNCHANGED <<files, tables, loads, served, shortServed>>

Files(s) == SkipDownload(s) \/ Download(s) \/ DownloadShort(s) \/ DownloadBreaks(s)

Stages ==
    \/ Begin \/ Gate \/ LoadBronze \/ CheckBronze \/ Quarantine \/ RejectGate
    \/ Stage \/ Audit \/ PublishSilver \/ Gold \/ CheckGold

Next == Publish \/ Stages \/ Crash \/ \E s \in Splits : Files(s)

\* Nights come and stages run on; a download that is tried again and again works some day.
Spec ==
    /\ Init /\ [][Next]_vars
    /\ WF_vars(Stages)
    /\ \A s \in Splits : WF_vars(Files(s)) /\ SF_vars(Download(s))

-----------------------------------------------------------------------------
Steps == {"idle", "train", "test", "gate", "bronze", "check", "quarantine", "rate", "stage",
          "audit", "publish", "gold", "goldcheck"}

TypeOK ==
    /\ upstream \in Versions
    /\ disk \in [Splits -> {Absent} \cup [big : BOOLEAN, rows : SUBSET RawRow]]
    /\ manifest = Absent \/ manifest \in [Splits -> SUBSET RawRow]
    /\ \A r \in staging \cup silver : DOMAIN r = SilverColumns
    /\ \A r \in bronze \cup conformed : r.ingested_at \in 1 .. Len(loads)
    /\ pc \in Steps /\ force \in BOOLEAN
    /\ loads \in Seq([Splits -> SUBSET RawRow]) /\ Len(loads) <= MaxLoads
    /\ served \in 0 .. Len(loads)
    /\ shortServed \in BOOLEAN /\ crashes \in 0 .. MaxCrashes

\* A load takes what the manifest describes, and both files are whole: a truncated file
\* never gets past ingest, whatever earlier runs left in data/raw (ingest.py, "a
\* half-finished download can never be mistaken for a good file").
LoadedAsDescribed ==
    pc = "bronze" => /\ manifest = [s \in Splits |-> disk[s].rows]
                     /\ \A s \in Splits : disk[s].rows \in {v[s] : v \in Versions}

\* The rows of a load, as silver sees them.
LoadedRows(n) ==
    UNION {{Conform(AddIngestionMetadata(r, s, n)) : r \in loads[n][s]} : s \in Splits}

\* The last of the first n loads that had rows of a day.
LastLoadOf(d, n) == Max({i \in 1 .. n : \E r \in LoadedRows(i) : r.trans_time = d})

\* Silver has one row for every transaction of which a valid copy is left, and it comes
\* from the most recent load holding a valid one: no copy of an earlier load, no copy that
\* a later load of its day replaced, and no rejected copy takes its place.
SilverIsNewest ==
    LET live == UNION {{r \in LoadedRows(i) : LastLoadOf(r.trans_time, served) = i} :
                       i \in 1 .. served}
        valid == {r \in live : RejectReason(r) = Null}
    IN served > 0 =>
        /\ {r.trans_num : r \in silver} = {r.trans_num : r \in valid}
        /\ \A r \in silver :
            /\ \A q \in silver : q.trans_num = r.trans_num => q = r
            /\ \E v \in valid : Selected(v) = r
            /\ \A v \in valid : v.trans_num = r.trans_num => v.ingested_at <= r.ingested_at

\* No row vanishes between bronze and silver: it is in quarantine, or a row of its
\* transaction at least as new as itself is in silver ("moved, not dropped").
NothingDropped ==
    pc \in {"gold", "goldcheck"} =>
        \A b \in bronze :
            \/ \E q \in quarantine : q.trans_num = b.trans_num /\ q.batch_id = b.batch_id
                                     /\ q.source_split = b.source_split
            \/ \E r \in silver : r.trans_num = b.trans_num /\ r.ingested_at >= b.ingested_at

\* What the readers of silver may assume holds of whatever silver serves, at any time.
SilverIsClean ==
    served > 0 =>
        /\ Cardinality(silver) \in MinRows .. MaxRows
        /\ \E r \in silver : r.trans_time >= PeriodEnd - FreshFor
        /\ 10 * Cardinality({r \in silver : r.merch_zipcode = Null}) <= 3 * Cardinality(silver)
        /\ \A r \in silver :
            /\ \A c \in SilverRequired : r[c] # Null
            /\ r.amt \in 1 .. MaxAmt /\ r.category \in Categories /\ r.is_fraud \in {0, 1}
            /\ r.channel = CategoryRef[r.category]

\* The checks on single rows, row_count left aside.
RowChecks == 1 .. 9 \ {4}

\* A row that breaks the silver contract got through a hole in the quarantine rules (the
\* contract's own description): a NULL no rule looks at, or a category the reference lacks.
BreachIsAHole ==
    pc = "audit" =>
        \/ \E r \in staging : Null \in {r.cc_num_hash, r.category, r.channel}
        \/ Failed(SilverContract, StagingTable, PeriodEnd, "error") \cap RowChecks = {}

\* Gold computed from audited silver holds what its contract asks of its rows, and its numbers
\* are those of silver's: every row is in one group, and a card's trailing count is the number
\* of its rows of the last seven calendar days, gaps or not.
GoldFollowsSilver ==
    pc = "goldcheck" =>
        /\ Status(HourlyContract, HourlyTable, PeriodEnd) = "PASSED"
        /\ Sum(hourly, "txns") = Cardinality(silver)
        /\ \A d \in velocity :
            d.txns_trailing_7d = Cardinality({r \in silver :
                r.cc_num_hash = d.card /\ r.trans_time \in d.day - 6 .. d.day})

Bare(rows) == {[c \in DOMAIN r \ {"batch_id", "ingested_at"} |-> r[c]] : r \in rows}

\* Loading the same files again changes nothing but the lineage ("loading the same source
\* twice replaces those partitions instead of appending a second copy").
ReloadIsIdempotent ==
    [][LoadBronze /\ loads # <<>> /\ loads'[Len(loads')] = loads[Len(loads)]
        => Bare(bronze') = Bare(bronze) /\ Cardinality(bronze') = Cardinality(bronze)]_vars

\* As long as the publisher never sends a short response, ingest gets both files in the end:
\* a download that broke off, however often, needs no repair by hand.
HalfDownloadsHeal == [](~shortServed) => <>(manifest # Absent)
=============================================================================
