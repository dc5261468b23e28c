---------------------------- MODULE LandingProofs ----------------------------
(***************************************************************************)
(* Theorems about the rows on their way to gold, for any files the         *)
(* publisher serves, any bounds of the contracts, and any nights, short    *)
(* downloads, loads by hand and crashes.                                   *)
(***************************************************************************)
EXTENDS Landing, SequenceTheorems, SumsProofs

-----------------------------------------------------------------------------
(* Rows and their columns *)

LEMMA WithColumn ==
    ASSUME NEW r, NEW more
    PROVE  /\ DOMAIN With(r, more) = DOMAIN r \cup DOMAIN more
           /\ \A c \in DOMAIN r \ DOMAIN more : With(r, more)[c] = r[c]
           /\ \A c \in DOMAIN more : With(r, more)[c] = more[c]
  BY DEF With

LEMMA AddedColumns ==
    ASSUME NEW r \in RawRow, NEW s, NEW n, NEW b, b = AddIngestionMetadata(r, s, n)
    PROVE  /\ DOMAIN b = RawColumns \cup Lineage
           /\ \A c \in RawColumns : b[c] = r[c]
           /\ b.source_split = s /\ b.batch_id = n /\ b.ingested_at = n
<1> DEFINE more == [source_split |-> s, batch_id |-> n, ingested_at |-> n]
<1>1. DOMAIN more = Lineage /\ more.source_split = s /\ more.batch_id = n /\ more.ingested_at = n
  BY DEF Lineage
<1>2. DOMAIN r = RawColumns
  BY LandingAssumption
<1>3. RawColumns \cap Lineage = {}
  BY DEF RawColumns, Lineage
<1>4. "source_split" \in Lineage /\ "batch_id" \in Lineage /\ "ingested_at" \in Lineage
  BY DEF Lineage
<1> HIDE DEF more
<1>5. b = With(r, more)
  BY DEF AddIngestionMetadata, more
<1>6. DOMAIN b = RawColumns \cup Lineage
  BY <1>1, <1>2, <1>5, WithColumn
<1>7. ASSUME NEW c \in RawColumns PROVE b[c] = r[c]
  BY <1>1, <1>2, <1>3, <1>5 DEF With
<1>8. ASSUME NEW c \in Lineage PROVE b[c] = more[c]
  BY <1>1, <1>2, <1>3, <1>5 DEF With
<1> QED
  BY <1>1, <1>4, <1>6, <1>7, <1>8

LEMMA AddedDomain ==
    ASSUME NEW r \in RawRow, NEW s, NEW n
    PROVE  DOMAIN AddIngestionMetadata(r, s, n) = RawColumns \cup Lineage
  BY AddedColumns

LEMMA ConformedColumns ==
    ASSUME NEW b
    PROVE  DOMAIN Conform(b) = SilverColumns \ {"channel"}
  BY DEF Conform, SilverColumns, SilverRequired, Lineage

LEMMA ConformedLineage ==
    ASSUME NEW b
    PROVE  LET c == Conform(b) IN
           /\ c.trans_num = b.trans_num /\ c.trans_time = b.trans_date_trans_time
           /\ c.amt = b.amt /\ c.merch_lat = b.merch_lat
           /\ c.source_split = b.source_split /\ c.batch_id = b.batch_id
           /\ c.ingested_at = b.ingested_at
  BY DEF Conform

\* A row in the silver stage's cache: the conformed row and its reject reason.
WithReason(r, reason) == With(r, [reject_reason |-> reason])

LEMMA CachedRow ==
    ASSUME NEW r, DOMAIN r = SilverColumns \ {"channel"}, NEW reason
    PROVE  /\ \A col \in SilverColumns \ {"channel"} : WithReason(r, reason)[col] = r[col]
           /\ DOMAIN WithReason(r, reason) = (SilverColumns \ {"channel"}) \cup {"reject_reason"}
           /\ WithReason(r, reason).reject_reason = reason
           /\ WithReason(r, reason).trans_num = r.trans_num
           /\ WithReason(r, reason).batch_id = r.batch_id
           /\ WithReason(r, reason).source_split = r.source_split
           /\ WithReason(r, reason).ingested_at = r.ingested_at
<1> DEFINE more == [reject_reason |-> reason]
           c == WithReason(r, reason)
<1>1. DOMAIN more = {"reject_reason"} /\ more.reject_reason = reason
  OBVIOUS
<1>2. "reject_reason" \notin DOMAIN r
  BY DEF SilverColumns, SilverRequired, Lineage
<1>3. {"trans_num", "batch_id", "source_split", "ingested_at"} \subseteq DOMAIN r
  BY DEF SilverColumns, SilverRequired, Lineage
<1> HIDE DEF more
<1>4. c = With(r, more)
  BY DEF WithReason, more
<1> HIDE DEF c
<1>5. DOMAIN c = (SilverColumns \ {"channel"}) \cup {"reject_reason"}
  BY <1>1, <1>4, WithColumn
<1>6. ASSUME NEW col \in DOMAIN r PROVE c[col] = r[col]
  BY <1>1, <1>2, <1>4 DEF With
<1>7. c["reject_reason"] = more["reject_reason"]
  BY <1>1, <1>2, <1>4 DEF With
<1> QED
  BY <1>1, <1>3, <1>5, <1>6, <1>7 DEF c

LEMMA CachedReason ==
    ASSUME NEW r, DOMAIN r = SilverColumns \ {"channel"}, NEW reason
    PROVE  WithReason(r, reason).reject_reason = reason
  BY CachedRow

LEMMA MinIn ==
    ASSUME NEW S \in SUBSET Nat, S # {}
    PROVE  Min(S) \in S
<1>1. PICK m \in S : \A n \in S : m <= n
  BY LeastNatural
<1> QED
  BY <1>1 DEF Min

LEMMA ReasonIsNull ==
    ASSUME NEW r
    PROVE  RejectReason(r) = Null <=> \A i \in DOMAIN Rules : ~Breaks(Rules[i], r)
<1> DEFINE hit == {i \in DOMAIN Rules : Breaks(Rules[i], r)}
<1>1. DOMAIN Rules = 1 .. 7
  BY DEF Rules
<1>2. CASE hit = {}
  BY <1>2 DEF RejectReason
<1>3. CASE hit # {}
  <2>1. Min(hit) \in hit
    <3>1. hit \in SUBSET Nat
      BY <1>1
    <3> QED
      BY <1>3, <3>1, MinIn
  <2>2. Rules[Min(hit)] # Null
    BY <2>1, NullIsNoReason
  <2> QED
    BY <1>3, <2>1, <2>2 DEF RejectReason
<1> QED
  BY <1>2, <1>3

LEMMA KeptRow ==
    ASSUME NEW r, RejectReason(r) = Null
    PROVE  /\ r.trans_num \in ValidIds /\ r.trans_time # Null
           /\ r.amt # Null /\ ~(r.amt <= 0) /\ ~(r.amt > MaxAmt)
           /\ r.category # Null => r.category \in Categories
           /\ r.is_fraud \in {0, 1}
           /\ r.merch_lat # Null /\ ~(r.merch_lat < -MaxLat) /\ ~(r.merch_lat > MaxLat)
<1>1. \A i \in 1 .. 7 : ~Breaks(Rules[i], r)
  BY ReasonIsNull DEF Rules
<1>2. /\ Rules[1] = "invalid_trans_num" /\ Rules[2] = "missing_timestamp"
      /\ Rules[3] = "non_positive_amount" /\ Rules[4] = "implausible_amount"
      /\ Rules[5] = "invalid_category" /\ Rules[6] = "invalid_is_fraud_flag"
      /\ Rules[7] = "invalid_merchant_coordinates"
  BY DEF Rules
<1>3. r.trans_num \in ValidIds
  BY <1>1, <1>2 DEF Breaks
<1>4. r.trans_time # Null
  BY <1>1, <1>2 DEF Breaks
<1>5. r.amt # Null /\ ~(r.amt <= 0)
  BY <1>1, <1>2 DEF Breaks
<1>6. ~(r.amt > MaxAmt)
  BY <1>1, <1>2, <1>5 DEF Breaks
<1>7. r.category # Null => r.category \in Categories
  BY <1>1, <1>2 DEF Breaks
<1>8. r.is_fraud \in {0, 1}
  BY <1>1, <1>2 DEF Breaks
<1>9. r.merch_lat # Null /\ ~(r.merch_lat < -MaxLat) /\ ~(r.merch_lat > MaxLat)
  BY <1>1, <1>2 DEF Breaks
<1> QED
  BY <1>3, <1>4, <1>5, <1>6, <1>7, <1>8, <1>9

-----------------------------------------------------------------------------
LEMMA SilverChecks ==
    LET k == AllChecks(SilverContract) IN
    /\ DOMAIN k = 1 .. 13
    /\ k[1] = [type |-> "schema", severity |-> "error", columns |-> SilverColumns, strict |-> TRUE]
    /\ k[2] = [type |-> "not_null", severity |-> "error", columns |-> SilverRequired]
    /\ k[3] = Unique({"trans_num"}, "error")
    /\ k[4] = RowCount
    /\ k[5] = [type |-> "not_null", severity |-> "error", columns |-> {"cc_num_hash"}]
    /\ k[6] = Ranged("amt", 0, MaxAmt, "error")
    /\ k[7] = Values("category", Categories)
    /\ k[8] = Values("is_fraud", {0, 1})
    /\ k[9] = Ranged("merch_lat", -MaxLat, MaxLat, "error")
    /\ k[12] = [type |-> "null_rate", severity |-> "error", column |-> "merch_zipcode", max |-> 30]
    /\ k[13] = Fresh("trans_time")
  BY DEF AllChecks, SilverContract

LEMMA EachPasses ==
    ASSUME NEW T, ~Raises(SilverContract, T, PeriodEnd)
    PROVE  \A i \in {1, 2, 3, 4, 5, 6, 7, 8, 9, 12, 13} :
                Passes(AllChecks(SilverContract)[i], T, PeriodEnd)
<1>1. \A i \in {1, 2, 3, 4, 5, 6, 7, 8, 9, 12, 13} :
        /\ i \in DOMAIN AllChecks(SilverContract)
        /\ AllChecks(SilverContract)[i].severity = "error"
  BY SilverChecks DEF Unique, RowCount, Ranged, Values, Fresh
<1> QED
  BY <1>1 DEF Raises, Failed

\* Without NULLs: the check's count is a cardinality.
LEMMA NoNulls ==
    ASSUME NEW T, IsFiniteSet(T.rows), NEW c
    PROVE  NullsIn(T, c) = 0 <=> \A r \in T.rows : r[c] # Null
<1> DEFINE N == {r \in T.rows : r[c] = Null}
<1>1. IsFiniteSet(N)
  BY FS_Subset
<1>2. Cardinality(N) = 0 <=> N = {}
  BY <1>1, FS_EmptySet
<1> QED
  BY <1>2 DEF NullsIn

LEMMA PassedAudit ==
    ASSUME NEW T, IsFiniteSet(T.rows), ~Raises(SilverContract, T, PeriodEnd)
    PROVE  /\ \A c \in SilverRequired : \A r \in T.rows : r[c] # Null
           /\ Cardinality(T.rows) \in MinRows .. MaxRows
           /\ 10 * Cardinality({r \in T.rows : r.merch_zipcode = Null})
                    <= 3 * Cardinality(T.rows)
           /\ \A r \in T.rows : r.category \in Categories \cup {Null}
           /\ \E r \in T.rows : r.trans_time # Null /\ PeriodEnd - r.trans_time <= FreshFor
<1> DEFINE k == AllChecks(SilverContract)
<1>1. \A i \in {1, 2, 3, 4, 5, 6, 7, 8, 9, 12, 13} : Passes(k[i], T, PeriodEnd)
  BY EachPasses
<1>2. Cardinality(T.rows) \in Nat
  BY FS_CardinalityType
<1>3. \A c \in SilverRequired : \A r \in T.rows : r[c] # Null
  <2>1. NotNullPasses(k[2], T)
    BY <1>1, SilverChecks DEF Passes
  <2> QED
    BY <2>1, SilverChecks, NoNulls DEF NotNullPasses
<1>4. Cardinality(T.rows) \in MinRows .. MaxRows
  <2>1. RowCountPasses(k[4], T)
    BY <1>1, SilverChecks DEF Passes, RowCount
  <2>2. MinRows \in Nat /\ MaxRows \in Nat /\ MinRows # Null /\ MaxRows # Null
    BY LandingAssumption
  <2> QED
    BY <1>2, <2>1, <2>2, SilverChecks DEF RowCountPasses, RowCount, Total
<1>5. \A r \in T.rows : r.category \in Categories \cup {Null}
  <2>1. ValuesPasses(k[7], T)
    BY <1>1, SilverChecks DEF Passes, Values
  <2> QED
    BY <2>1, SilverChecks DEF ValuesPasses, Values
<1>6. 10 * Cardinality({r \in T.rows : r.merch_zipcode = Null}) <= 3 * Cardinality(T.rows)
  <2> DEFINE N == {r \in T.rows : r.merch_zipcode = Null}
  <2>1. NullRatePasses(k[12], T)
    BY <1>1, SilverChecks DEF Passes
  <2>2. 100 * Cardinality(N) <= 30 * (IF Cardinality(T.rows) = 0 THEN 1 ELSE Cardinality(T.rows))
    BY <2>1, SilverChecks DEF NullRatePasses, NullsIn, Total
  <2>3. IsFiniteSet(N) /\ Cardinality(N) \in Nat
    BY FS_Subset, FS_CardinalityType
  <2> HIDE DEF N
  <2>4. 10 * Cardinality(N) <= 3 * Cardinality(T.rows)
    BY <1>2, <2>2, <2>3
  <2> QED
    BY <2>4 DEF N
<1>7. \E r \in T.rows : r.trans_time # Null /\ PeriodEnd - r.trans_time <= FreshFor
  <2>1. FreshnessPasses(k[13], T, PeriodEnd)
    BY <1>1, SilverChecks DEF Passes, Fresh
  <2> QED
    BY <2>1, SilverChecks DEF FreshnessPasses, Fresh
<1> QED
  BY <1>3, <1>4, <1>5, <1>6, <1>7

LEMMA UniqueIds ==
    ASSUME NEW T, IsFiniteSet(T.rows), \A r, q \in T.rows : r.trans_num = q.trans_num => r = q
    PROVE  UniquePasses(Unique({"trans_num"}, "error"), T)
<1> DEFINE Key(r) == [c \in {"trans_num"} |-> r[c]]
           K == {Key(r) : r \in T.rows}
           f == [r \in T.rows |-> Key(r)]
<1>1. f \in [T.rows -> K] /\ \A t \in K : \E r \in T.rows : f[r] = t
  <2>1. \A r \in T.rows : Key(r) \in K /\ f[r] = Key(r)
    OBVIOUS
  <2>2. \A t \in K : \E r \in T.rows : Key(r) = t
    OBVIOUS
  <2>3. f = [r \in T.rows |-> f[r]]
    OBVIOUS
  <2> HIDE DEF f, K, Key
  <2> QED
    BY <2>1, <2>2, <2>3
<1>2. \A r, q \in T.rows : f[r] = f[q] => r = q
  <2>1. \A r \in T.rows : f[r]["trans_num"] = r.trans_num
    OBVIOUS
  <2> QED
    BY <2>1
<1>3. Cardinality(K) = Cardinality(T.rows)
  <2> HIDE DEF f, K
  <2> QED
    BY <1>1, <1>2, FiniteImage
<1> QED
  BY <1>3 DEF UniquePasses, Unique, Total

\* Rows without a NULL where one is forbidden, within every range, and of distinct
\* transactions pass the checks on single rows.
LEMMA RowsPass ==
    ASSUME NEW T, IsFiniteSet(T.rows), T.cols = SilverColumns,
           \A r, q \in T.rows : r.trans_num = q.trans_num => r = q,
           \A c \in SilverRequired : \A r \in T.rows : r[c] # Null,
           \A r \in T.rows : /\ ~(r.amt < 0) /\ ~(r.amt > MaxAmt)
                            /\ r.category \in Categories /\ r.is_fraud \in {0, 1}
                            /\ ~(r.merch_lat < -MaxLat) /\ ~(r.merch_lat > MaxLat)
    PROVE  Failed(SilverContract, T, PeriodEnd, "error") \cap RowChecks = {}
<1> DEFINE k == AllChecks(SilverContract)
<1>1. \A i \in RowChecks : i \in {1, 2, 3, 5, 6, 7, 8, 9}
  BY DEF RowChecks
<1>2. SilverRequired \subseteq SilverColumns /\ "trans_num" \in SilverRequired
      /\ "cc_num_hash" \in SilverRequired /\ "amt" \in SilverRequired
      /\ "category" \in SilverRequired /\ "is_fraud" \in SilverRequired
      /\ "merch_lat" \in SilverRequired
  BY DEF SilverRequired, SilverColumns
<1>3. Passes(k[1], T, PeriodEnd)
  BY SilverChecks DEF Passes, ColumnsOf, SchemaPasses
<1>4. Passes(k[2], T, PeriodEnd)
  <2>1. NotNullPasses(k[2], T)
    BY SilverChecks, NoNulls DEF NotNullPasses
  <2> QED
    BY <1>2, <2>1, SilverChecks DEF Passes, ColumnsOf
<1>5. Passes(k[3], T, PeriodEnd)
  <2>1. UniquePasses(k[3], T)
    BY SilverChecks, UniqueIds
  <2> QED
    BY <1>2, <2>1, SilverChecks DEF Passes, ColumnsOf, Unique
<1>6. Passes(k[5], T, PeriodEnd)
  <2>1. NotNullPasses(k[5], T)
    BY <1>2, SilverChecks, NoNulls DEF NotNullPasses
  <2> QED
    BY <1>2, <2>1, SilverChecks DEF Passes, ColumnsOf
<1>7. Passes(k[6], T, PeriodEnd)
  <2>1. RangePasses(k[6], T)
    BY SilverChecks DEF RangePasses, OutOfRange, Ranged
  <2> QED
    BY <1>2, <2>1, SilverChecks DEF Passes, ColumnsOf, Ranged
<1>8. Passes(k[7], T, PeriodEnd)
  BY <1>2, SilverChecks DEF Passes, ColumnsOf, Values, ValuesPasses
<1>9. Passes(k[8], T, PeriodEnd)
  BY <1>2, SilverChecks DEF Passes, ColumnsOf, Values, ValuesPasses
<1>10. Passes(k[9], T, PeriodEnd)
  <2>1. RangePasses(k[9], T)
    BY SilverChecks DEF RangePasses, OutOfRange, Ranged
  <2> QED
    BY <1>2, <2>1, SilverChecks DEF Passes, ColumnsOf, Ranged
<1> QED
  BY <1>1, <1>3, <1>4, <1>5, <1>6, <1>7, <1>8, <1>9, <1>10 DEF Failed
-----------------------------------------------------------------------------
(* Files *)

Downloading == pc \in {"train", "test", "gate", "bronze"}

\* What ingest has behind it at each of its steps, and what is on the disk whatever is under way.
FilesInv ==
    /\ Downloading => Len(loads) < MaxLoads
    /\ \A s \in Splits :
        disk[s] # Absent /\ disk[s].big => disk[s].rows \in {v[s] : v \in Versions}
    /\ pc \in {"test", "gate", "bronze"} => disk["train"] # Absent
    /\ pc \in {"gate", "bronze"} => disk["test"] # Absent
    /\ pc = "bronze" => BigEnough /\ manifest = [s \in Splits |-> disk[s].rows]

Typed == TypeOK /\ FilesInv

LEMMA InitTyped == Init => Typed
<1> SUFFICES ASSUME Init PROVE Typed
  OBVIOUS
<1>1. loads = <<>> /\ Len(loads) = 0 /\ <<>> \in Seq([Splits -> SUBSET RawRow])
  BY EmptySeq DEF Init
<1>2. MaxLoads \in Nat /\ MaxCrashes \in Nat
  BY LandingAssumption
<1>3. TypeOK
  <2>1. loads \in Seq([Splits -> SUBSET RawRow]) /\ Len(loads) <= MaxLoads
        /\ served \in 0 .. Len(loads) /\ crashes \in 0 .. MaxCrashes
    BY <1>1, <1>2 DEF Init
  <2>2. disk \in [Splits -> {Absent} \cup [big : BOOLEAN, rows : SUBSET RawRow]]
    BY DEF Init
  <2> QED
    BY <2>1, <2>2 DEF Init, TypeOK, Steps
<1>4. FilesInv
  BY LandingAssumption DEF Init, FilesInv, Downloading
<1> QED
  BY <1>3, <1>4 DEF Typed

\* Whatever a stage goes on to, the flag and the rows in its cache keep their types.
LEMMA GoToTyped ==
    ASSUME TypeOK, NEW step \in Steps, GoTo(step)
    PROVE  /\ pc' \in Steps /\ force' \in BOOLEAN
           /\ conformed' \subseteq conformed
  BY DEF TypeOK, GoTo

\* An action of a download: only one file changes, if any.
LEMMA DownloadTyped ==
    ASSUME Typed, NEW s \in Splits, pc = s, NEW step \in {"idle", AfterFile(s)}, GoTo(step),
           manifest' = manifest, upstream' = upstream,
           UNCHANGED tables, loads' = loads, served' = served, crashes' = crashes,
           shortServed' \in BOOLEAN,
           disk' \in [Splits -> {Absent} \cup [big : BOOLEAN, rows : SUBSET RawRow]],
           \A t \in Splits \ {s} : disk'[t] = disk[t],
           disk'[s] # Absent \/ (step = "idle" /\ disk'[s] = disk[s]),
           disk'[s] = disk[s] \/ ~disk'[s].big \/ disk'[s].rows \in {v[s] : v \in Versions}
    PROVE  Typed'
<1>1. Splits = {"train", "test"} /\ step \in {"idle", "test", "gate"} /\ step \in Steps
      /\ (step = "test" => s = "train") /\ (step = "gate" => s = "test")
  BY LandingAssumption DEF AfterFile, Steps
<1>2. TypeOK'
  <2>1. pc' \in Steps /\ force' \in BOOLEAN /\ conformed' \subseteq conformed
    BY <1>1, GoToTyped DEF Typed
  <2> QED
    BY <2>1 DEF Typed, TypeOK, tables
<1>3. FilesInv'
  <2>1. pc' = step /\ Len(loads)' < MaxLoads
    BY <1>1 DEF Typed, FilesInv, Downloading, GoTo
  <2>2. \A t \in Splits : (disk[t] # Absent /\ disk[t].big => disk[t].rows \in {v[t] : v \in Versions})'
    BY DEF Typed, FilesInv
  <2>3. step # "idle" => disk'["train"] # Absent
    BY <1>1 DEF Typed, FilesInv
  <2>4. step = "gate" => disk'["test"] # Absent
    BY <1>1 DEF Typed, FilesInv
  <2> QED
    BY <1>1, <2>1, <2>2, <2>3, <2>4 DEF FilesInv, Downloading
<1> QED
  BY <1>2, <1>3 DEF Typed

LEMMA FilesTyped ==
    ASSUME Typed, NEW s \in Splits, Files(s)
    PROVE  Typed'
<1> DEFINE File == [big : BOOLEAN, rows : SUBSET RawRow]
<1>1. disk \in [Splits -> {Absent} \cup File] /\ upstream \in Versions /\ Absent \notin File
  BY LandingAssumption DEF Typed, TypeOK
<1>2. upstream[s] \subseteq RawRow /\ upstream[s] \in {v[s] : v \in Versions}
  BY <1>1, LandingAssumption
<1>3. shortServed \in BOOLEAN
  BY DEF Typed, TypeOK
<1>4. CASE SkipDownload(s)
  BY <1>1, <1>3, <1>4, DownloadTyped DEF SkipDownload, files, history
<1>5. CASE Download(s)
  <2>1. [big |-> TRUE, rows |-> upstream[s]] \in File
    BY <1>2
  <2>2. disk'[s] = [big |-> TRUE, rows |-> upstream[s]] /\ \A t \in Splits \ {s} : disk'[t] = disk[t]
    BY <1>1, <1>5 DEF Download
  <2>3. disk' \in [Splits -> {Absent} \cup File] /\ disk'[s] # Absent
    BY <1>1, <1>5, <2>1, <2>2 DEF Download
  <2>4. disk'[s].rows \in {v[s] : v \in Versions}
    BY <1>2, <2>2
  <2> QED
    BY <1>3, <1>5, <2>2, <2>3, <2>4, DownloadTyped DEF Download, history
<1>6. CASE DownloadShort(s)
  <2>1. [big |-> FALSE, rows |-> {}] \in File
    OBVIOUS
  <2>2. disk'[s] = [big |-> FALSE, rows |-> {}] /\ \A t \in Splits \ {s} : disk'[t] = disk[t]
    BY <1>1, <1>6 DEF DownloadShort
  <2>3. disk' \in [Splits -> {Absent} \cup File] /\ disk'[s] # Absent
    BY <1>1, <1>6, <2>1, <2>2 DEF DownloadShort
  <2> QED
    BY <1>6, <2>2, <2>3, DownloadTyped DEF DownloadShort
<1>7. CASE DownloadBreaks(s)
  BY <1>1, <1>3, <1>7, DownloadTyped DEF DownloadBreaks, files, history
<1> QED
  BY <1>4, <1>5, <1>6, <1>7 DEF Files


\* A step of another stage: the files stay, and none is loaded.
LEMMA StageTyped ==
    ASSUME Typed, NEW step \in Steps \ {"train", "test", "gate", "bronze"}, GoTo(step),
           UNCHANGED files, loads' = loads, crashes' \in 0 .. MaxCrashes,
           served' \in 0 .. Len(loads), shortServed' = shortServed, bronze' = bronze,
           staging' = staging \/ \A r \in staging' : DOMAIN r = SilverColumns,
           silver' \in {silver, staging}
    PROVE  Typed'
<1>1. pc' = step /\ pc' \in Steps /\ force' \in BOOLEAN /\ conformed' \subseteq conformed
  BY GoToTyped DEF Typed, GoTo
<1>2. \A r \in (staging \cup silver)' : DOMAIN r = SilverColumns
  BY DEF Typed, TypeOK
<1>3. TypeOK'
  BY <1>1, <1>2 DEF Typed, TypeOK, files
<1>4. FilesInv'
  BY <1>1 DEF Typed, FilesInv, Downloading, files
<1> QED
  BY <1>3, <1>4 DEF Typed

LEMMA IncomingRows ==
    ASSUME Typed, pc = "bronze"
    PROVE  /\ \A s \in Splits : disk[s].rows \subseteq RawRow
           /\ [s \in Splits |-> disk[s].rows] \in [Splits -> SUBSET RawRow]
           /\ Len(loads) \in Nat
<1>1. \A s \in Splits : disk[s] # Absent
  BY LandingAssumption DEF Typed, FilesInv
<1> QED
  BY <1>1, LenProperties DEF Typed, TypeOK

LEMMA NextTyped ==
    ASSUME Typed, [Next]_vars
    PROVE  Typed'
<1>0. /\ Len(loads) \in Nat /\ served \in 0 .. Len(loads) /\ crashes \in 0 .. MaxCrashes
      /\ MaxCrashes \in Nat /\ MaxLoads \in Nat
  BY LenProperties, LandingAssumption DEF Typed, TypeOK
<1>1. CASE Publish
  <2>1. TypeOK'
    BY <1>1 DEF Typed, TypeOK, Publish, tables, history
  <2> QED
    BY <1>1, <2>1 DEF Typed, FilesInv, Publish, history, Downloading, BigEnough
<1>2. CASE Begin
  <2>1. TypeOK'
    BY <1>2 DEF Typed, TypeOK, Begin, files, tables, history, Steps
  <2> QED
    BY <1>2, <2>1 DEF Typed, FilesInv, Begin, files, history, Downloading
<1>3. CASE Gate
  <2>1. \/ pc' = "idle" /\ manifest' = manifest
        \/ BigEnough /\ pc' = "bronze" /\ manifest' = [s \in Splits |-> disk[s].rows]
    <3>1. CASE BigEnough
      BY <1>3, <3>1 DEF Gate, GoTo
    <3>2. CASE ~BigEnough
      BY <1>3, <3>2 DEF Gate, GoTo
    <3> QED
      BY <3>1, <3>2
  <2>2. pc' \in Steps /\ force' \in BOOLEAN /\ conformed' \subseteq conformed
    BY <1>3, GoToTyped DEF Typed, Gate, Steps
  <2>3. \A s \in Splits : disk[s] # Absent
    BY <1>3, LandingAssumption DEF Typed, FilesInv, Gate
  <2>4. [s \in Splits |-> disk[s].rows] \in [Splits -> SUBSET RawRow]
    BY <2>3 DEF Typed, TypeOK
  <2>5. disk' = disk /\ upstream' = upstream /\ loads' = loads
    BY <1>3 DEF Gate, history
  <2>6. TypeOK'
    BY <1>3, <2>1, <2>2, <2>4 DEF Typed, TypeOK, Gate, tables, history
  <2>7. FilesInv'
    BY <1>3, <2>1, <2>3, <2>5 DEF Typed, FilesInv, Gate, Downloading, BigEnough
  <2> QED
    BY <2>6, <2>7 DEF Typed
<1>4. CASE LoadBronze
  <2> DEFINE load == [s \in Splits |-> disk[s].rows]
  <2>1. /\ load \in [Splits -> SUBSET RawRow] /\ \A s \in Splits : disk[s].rows \subseteq RawRow
    BY <1>4, IncomingRows DEF LoadBronze
  <2>2. /\ loads' \in Seq([Splits -> SUBSET RawRow]) /\ Len(loads') = Len(loads) + 1
        /\ Len(loads) < MaxLoads
    <3>1. loads' = Append(loads, load) /\ loads \in Seq([Splits -> SUBSET RawRow])
      BY <1>4 DEF LoadBronze, Typed, TypeOK
    <3> HIDE DEF load
    <3> QED
      BY <1>4, <2>1, <3>1, AppendProperties DEF LoadBronze, Typed, FilesInv, Downloading
  <2>3. \A b \in Incoming : b.ingested_at = Len(loads) + 1
    BY <2>1, AddedColumns DEF Incoming
  <2>4. \A r \in (bronze \cup conformed)' : r.ingested_at \in 1 .. Len(loads')
    <3>1. bronze' \subseteq bronze \cup Incoming /\ conformed' \subseteq conformed
      BY <1>4 DEF LoadBronze, Overwritten, GoTo
    <3>2. \A r \in bronze \cup conformed : r.ingested_at \in 1 .. Len(loads)
      BY DEF Typed, TypeOK
    <3> QED
      BY <1>0, <2>2, <2>3, <3>1, <3>2
  <2>5. pc' = "check" /\ pc' \in Steps /\ force' \in BOOLEAN
    BY <1>4, GoToTyped DEF Typed, LoadBronze, Steps, GoTo
  <2>6. TypeOK'
    BY <1>0, <1>4, <2>2, <2>4, <2>5 DEF Typed, TypeOK, LoadBronze, files
  <2>7. FilesInv'
    BY <1>4, <2>5 DEF Typed, FilesInv, LoadBronze, Downloading, files
  <2> QED
    BY <2>6, <2>7 DEF Typed
<1>5. CASE CheckBronze
  <2>1. \E step \in {"idle", "quarantine"} : GoTo(step)
    BY <1>5 DEF CheckBronze
  <2> QED
    BY <1>0, <1>5, <2>1, StageTyped DEF CheckBronze, tables, history, Steps
<1>6. CASE Quarantine
  <2>1. \A c \in conformed' : \E b \in bronze : c.ingested_at = b.ingested_at
    <3>1. ASSUME NEW c \in conformed'
          PROVE  \E b \in bronze : c = WithReason(Conform(b), RejectReason(Conform(b)))
      BY <1>6 DEF Quarantine, ConformAll, WithReason
    <3>2. ASSUME NEW b \in bronze, NEW c,
                 c = WithReason(Conform(b), RejectReason(Conform(b)))
          PROVE  c.ingested_at = b.ingested_at
      BY <3>2, CachedRow, ConformedColumns, ConformedLineage
    <3> QED
      BY <3>1, <3>2
  <2>2. TypeOK'
    BY <1>6, <2>1 DEF Typed, TypeOK, Quarantine, files, history, Steps
  <2> QED
    BY <1>6, <2>2 DEF Typed, FilesInv, Quarantine, files, history, Downloading, BigEnough
<1>7. CASE RejectGate
  <2>1. \E step \in {"idle", "stage"} : GoTo(step)
    BY <1>7 DEF RejectGate
  <2> QED
    BY <1>0, <1>7, <2>1, StageTyped DEF RejectGate, tables, history, Steps
<1>8. CASE Stage
  <2>1. \A r \in staging' : DOMAIN r = SilverColumns
    BY <1>8 DEF Stage, Selected
  <2> QED
    BY <1>0, <1>8, <2>1, StageTyped DEF Stage, history, Steps
<1>9. CASE Audit
  <2>1. \E step \in {"idle", "publish"} : GoTo(step)
    BY <1>9 DEF Audit
  <2> QED
    BY <1>0, <1>9, <2>1, StageTyped DEF Audit, tables, history, Steps
<1>10. CASE PublishSilver
  BY <1>0, <1>10, StageTyped DEF PublishSilver, Steps
<1>11. CASE Gold
  BY <1>0, <1>11, StageTyped DEF Gold, history, Steps
<1>12. CASE CheckGold
  BY <1>0, <1>12, StageTyped DEF CheckGold, tables, history, Steps
<1>13. CASE Crash
  BY <1>0, <1>13, StageTyped DEF Crash, tables, Steps
<1>14. CASE \E s \in Splits : Files(s)
  BY <1>14, FilesTyped
<1>15. CASE UNCHANGED vars
  BY <1>15 DEF vars, files, tables, history, Typed, TypeOK, FilesInv, Downloading, BigEnough
<1> QED
  BY <1>1, <1>2, <1>3, <1>4, <1>5, <1>6, <1>7, <1>8, <1>9, <1>10, <1>11, <1>12, <1>13, <1>14,
     <1>15 DEF Next, Stages

\* The types of Landing's variables, and what ingest has behind it at each of its steps
\* (ingest.py: download, size gate, manifest last).
THEOREM TypeCorrect == Spec => [](TypeOK /\ FilesInv)
<1>1. Typed /\ [Next]_vars => Typed'
  BY NextTyped
<1> QED
  BY <1>1, InitTyped, PTL DEF Spec, Typed

\* A load takes what the manifest describes, and both files are whole: a truncated file
\* never gets past ingest (ingest.py run, bronze.py run).
THEOREM LoadedAsDescribedAlways == Spec => []LoadedAsDescribed
<1>1. TypeOK /\ FilesInv => LoadedAsDescribed
  BY LandingAssumption DEF FilesInv, LoadedAsDescribed, BigEnough
<1> QED
  BY <1>1, TypeCorrect, PTL

-----------------------------------------------------------------------------
(* Bronze: the rows of every load that no later load of their day replaced *)

\* The rows of load i, as bronze has them.
Loaded(i) == UNION {{AddIngestionMetadata(r, s, i) : r \in loads[i][s]} : s \in Splits}

DayIn(d, i) == \E b \in Loaded(i) : b.trans_date_trans_time = d

\* What n loads leave in bronze.
Lake(n) == UNION {{b \in Loaded(i) : \A j \in i + 1 .. n : ~DayIn(b.trans_date_trans_time, j)} :
                  i \in 1 .. n}

BronzeInv == bronze = Lake(Len(loads))

LEMMA LoadedRow ==
    ASSUME TypeOK, NEW i \in 1 .. Len(loads), NEW b \in Loaded(i)
    PROVE  /\ \E s \in Splits : \E r \in loads[i][s] :
                r \in RawRow /\ b = AddIngestionMetadata(r, s, i)
           /\ b.source_split \in Splits /\ b.batch_id = i /\ b.ingested_at = i
           /\ DOMAIN b = RawColumns \cup Lineage
           /\ {b.trans_date_trans_time, b.amt, b.merch_lat} \subseteq Int \cup {Null}
<1>1. loads[i] \in [Splits -> SUBSET RawRow]
  BY ElementOfSeq DEF TypeOK
<1>2. PICK s \in Splits : \E r \in loads[i][s] : b = AddIngestionMetadata(r, s, i)
  BY DEF Loaded
<1>3. PICK r \in RawRow : r \in loads[i][s] /\ b = AddIngestionMetadata(r, s, i)
  BY <1>1, <1>2
<1>4. DOMAIN b = RawColumns \cup Lineage
  BY <1>3, AddedDomain
<1>5. b.source_split = s /\ b.batch_id = i /\ b.ingested_at = i
  <2>1. b.source_split = s
    BY <1>3, AddedColumns
  <2>2. b.batch_id = i
    BY <1>3, AddedColumns
  <2>3. b.ingested_at = i
    BY <1>3, AddedColumns
  <2> QED
    BY <2>1, <2>2, <2>3
<1>6. \A c \in RawColumns : b[c] = r[c]
  BY <1>3, AddedColumns
<1>7. /\ b.trans_date_trans_time = r.trans_date_trans_time
      /\ b.amt = r.amt /\ b.merch_lat = r.merch_lat
  BY <1>6 DEF RawColumns
<1> QED
  BY <1>3, <1>4, <1>5, <1>7, LandingAssumption

LEMMA LakeRow ==
    ASSUME NEW n, NEW b
    PROVE  b \in Lake(n) <=> \E i \in 1 .. n : b \in Loaded(i)
                                /\ \A j \in i + 1 .. n : ~DayIn(b.trans_date_trans_time, j)
  BY DEF Lake

\* An earlier load stays what it was when another is appended.
LEMMA LoadedStays ==
    ASSUME TypeOK, NEW i \in 1 .. Len(loads), loads' = loads \/ \E l : loads' = Append(loads, l)
    PROVE  /\ loads'[i] = loads[i] /\ Loaded(i)' = Loaded(i) /\ LoadedRows(i)' = LoadedRows(i)
           /\ \A d : DayIn(d, i)' <=> DayIn(d, i)
<1>1. loads'[i] = loads[i]
  BY DEF TypeOK
<1> QED
  BY <1>1 DEF Loaded, LoadedRows, DayIn

LEMMA LakeStays ==
    ASSUME TypeOK, loads' = loads \/ \E l : loads' = Append(loads, l), NEW n \in 0 .. Len(loads)
    PROVE  Lake(n)' = Lake(n)
<1>0. Len(loads) \in Nat
  BY LenProperties DEF TypeOK
<1>1. \A i \in 1 .. n : /\ Loaded(i)' = Loaded(i)
                        /\ \A d : \A j \in i + 1 .. n : DayIn(d, j)' <=> DayIn(d, j)
  BY <1>0, LoadedStays
<1> QED
  BY <1>1 DEF Lake

LEMMA LoadReplacesDays ==
    ASSUME Typed, BronzeInv, LoadBronze
    PROVE  BronzeInv'
<1>0. PICK n \in Nat : n = Len(loads)
  BY LenProperties DEF Typed, TypeOK
<1> DEFINE load == [s \in Splits |-> disk[s].rows]
<1>1. loads' = Append(loads, load) /\ Len(loads') = n + 1 /\ loads'[n + 1] = load
  <2>1. loads' = Append(loads, load) /\ loads \in Seq([Splits -> SUBSET RawRow])
    BY DEF LoadBronze, Typed, TypeOK
  <2> HIDE DEF load
  <2> QED
    BY <1>0, <2>1, AppendProperties
<1>2. Loaded(n + 1)' = Incoming
  BY <1>0, <1>1 DEF Loaded, Incoming
<1>3. \A i \in 1 .. n : Loaded(i)' = Loaded(i) /\ \A d : DayIn(d, i)' <=> DayIn(d, i)
  BY <1>0, <1>1, LoadedStays DEF Typed
<1>4. \A d : DayIn(d, n + 1)' <=> d \in {b.trans_date_trans_time : b \in Incoming}
  BY <1>2 DEF DayIn
<1>5. ASSUME NEW b
      PROVE  b \in Overwritten <=> b \in Lake(n + 1)'
  <2>1. b \in Lake(n + 1)' <=>
            \E i \in 1 .. n + 1 : /\ b \in Loaded(i)'
                                  /\ \A j \in i + 1 .. n + 1 : ~DayIn(b.trans_date_trans_time, j)'
    BY DEF Lake
  <2>2. b \in Overwritten <=>
            \/ b \in Incoming
            \/ b \in Lake(n) /\ b.trans_date_trans_time \notin
                                    {q.trans_date_trans_time : q \in Incoming}
    BY <1>0 DEF Overwritten, BronzeInv
  <2>3. ASSUME b \in Incoming
        PROVE  b \in Lake(n + 1)'
    <3>1. \A j \in (n + 1) + 1 .. n + 1 : FALSE
      BY <1>0, <1>1
    <3> QED
      BY <1>1, <1>2, <2>1, <2>3, <3>1
  <2>4. ASSUME b \in Lake(n), b.trans_date_trans_time \notin
                                    {q.trans_date_trans_time : q \in Incoming}
        PROVE  b \in Lake(n + 1)'
    <3>1. PICK i \in 1 .. n : /\ b \in Loaded(i)
                              /\ \A j \in i + 1 .. n : ~DayIn(b.trans_date_trans_time, j)
      BY <2>4, LakeRow
    <3>2. ~DayIn(b.trans_date_trans_time, n + 1)'
      BY <1>4, <2>4
    <3>3. \A j \in i + 1 .. n + 1 : j = n + 1 \/ j \in i + 1 .. n
      BY <1>0, <1>1
    <3>4. \A j \in i + 1 .. n + 1 : ~DayIn(b.trans_date_trans_time, j)'
      BY <1>1, <1>3, <3>1, <3>2, <3>3
    <3> QED
      BY <1>1, <1>3, <2>1, <3>1, <3>4
  <2>5. ASSUME b \in Lake(n + 1)', b \notin Incoming
        PROVE  b \in Lake(n) /\ b.trans_date_trans_time \notin
                                    {q.trans_date_trans_time : q \in Incoming}
    <3>1. PICK i \in 1 .. n + 1 : /\ b \in Loaded(i)'
                                  /\ \A j \in i + 1 .. n + 1 : ~DayIn(b.trans_date_trans_time, j)'
      BY <2>1, <2>5
    <3>2. i \in 1 .. n
      BY <1>1, <1>2, <2>5, <3>1
    <3>3. \A j \in i + 1 .. n : ~DayIn(b.trans_date_trans_time, j)
      BY <1>1, <1>3, <3>1, <3>2
    <3>4. ~DayIn(b.trans_date_trans_time, n + 1)'
      BY <1>1, <3>1, <3>2
    <3> QED
      BY <1>3, <1>4, <3>1, <3>2, <3>3, <3>4, LakeRow
  <2> QED
    BY <2>2, <2>3, <2>4, <2>5
<1>6. bronze' = Overwritten
  BY DEF LoadBronze
<1>7. Lake(n + 1)' = Lake(Len(loads))'
  BY <1>0, <1>1 DEF Lake
<1> QED
  BY <1>5, <1>6, <1>7 DEF BronzeInv

-----------------------------------------------------------------------------
(* Silver: of every transaction the newest valid row *)

Live(n) == UNION {{r \in LoadedRows(i) : LastLoadOf(r.trans_time, n) = i} : i \in 1 .. n}
Valid(n) == {r \in Live(n) : RejectReason(r) = Null}

\* S has a row for every transaction with a valid one, and it is a newest.
NewestOf(S, n) ==
    /\ {r.trans_num : r \in S} = {r.trans_num : r \in Valid(n)}
    /\ \A r \in S :
        /\ \A q \in S : q.trans_num = r.trans_num => q = r
        /\ \E v \in Valid(n) : Selected(v) = r
        /\ \A v \in Valid(n) : v.trans_num = r.trans_num => v.ingested_at <= r.ingested_at

\* The rows the silver stage caches after n loads.
Cached(n) == {WithReason(c, RejectReason(c)) : c \in Live(n)}

LEMMA MaxIs ==
    ASSUME NEW n \in Nat, NEW S \in SUBSET (1 .. n), NEW i \in S
    PROVE  Max(S) = i <=> \A k \in S : k <= i
<1> DEFINE B == {n - k : k \in S}
<1>1. B \in SUBSET Nat /\ B # {}
  OBVIOUS
<1>2. \E m \in B : \A k \in B : m <= k
  <2> HIDE DEF B
  <2> QED
    BY <1>1, LeastNatural
<1>3. PICK h \in S : \A k \in S : n - h <= n - k
  BY <1>2
<1>4. \A k \in S : h >= k
  BY <1>3
<1>5. PICK m \in S : m = Max(S) /\ \A k \in S : m >= k
  BY <1>4 DEF Max
<1>6. m \in Int /\ \A k \in S : k \in Int
  OBVIOUS
<1> QED
  BY <1>5, <1>6

LEMMA ConformedLoad ==
    ASSUME NEW i
    PROVE  LoadedRows(i) = {Conform(b) : b \in Loaded(i)}
  BY DEF LoadedRows, Loaded

\* A row is of the last load of its day exactly when no later load replaced it.
LEMMA LastLoad ==
    ASSUME NEW n \in Nat, NEW i \in 1 .. n, NEW b \in Loaded(i)
    PROVE  LastLoadOf(b.trans_date_trans_time, n) = i
               <=> \A j \in i + 1 .. n : ~DayIn(b.trans_date_trans_time, j)
<1> DEFINE d == b.trans_date_trans_time
           S == {k \in 1 .. n : DayIn(d, k)}
<1>1. \A k : (\E r \in LoadedRows(k) : r.trans_time = d) <=> DayIn(d, k)
  <2>1. \A q : Conform(q).trans_time = q.trans_date_trans_time
    BY ConformedLineage
  <2> QED
    BY <2>1, ConformedLoad DEF DayIn
<1>2. LastLoadOf(d, n) = Max(S)
  BY <1>1 DEF LastLoadOf
<1>3. i \in S
  BY DEF DayIn
<1>4. Max(S) = i <=> \A k \in S : k <= i
  <2> HIDE DEF S
  <2>1. S \in SUBSET (1 .. n)
    BY DEF S
  <2> QED
    BY <1>3, <2>1, MaxIs
<1> QED
  BY <1>2, <1>4

LEMMA LiveRows ==
    ASSUME NEW n \in Nat
    PROVE  Live(n) = {Conform(b) : b \in Lake(n)}
<1>1. ASSUME NEW i \in 1 .. n
      PROVE  \A c : c \in LoadedRows(i) /\ LastLoadOf(c.trans_time, n) = i
                    <=> \E b \in Loaded(i) :
                            /\ c = Conform(b)
                            /\ \A j \in i + 1 .. n : ~DayIn(b.trans_date_trans_time, j)
  <2>1. \A b : Conform(b).trans_time = b.trans_date_trans_time
    BY ConformedLineage
  <2> QED
    BY <2>1, LastLoad, ConformedLoad
<1> QED
  BY <1>1, LakeRow DEF Live

LEMMA LiveRow ==
    ASSUME TypeOK, NEW n \in 0 .. Len(loads), NEW v \in Live(n)
    PROVE  /\ DOMAIN v = SilverColumns \ {"channel"}
           /\ {v.trans_time, v.amt, v.merch_lat} \subseteq Int \cup {Null}
           /\ v.source_split \in Splits /\ v.batch_id \in Nat /\ v.ingested_at \in Nat
           /\ v.ingested_at \in 1 .. n
<1>1. Len(loads) \in Nat
  BY LenProperties DEF TypeOK
<1>2. PICK b \in Lake(n) : v = Conform(b)
  BY <1>1, LiveRows
<1>3. PICK i \in 1 .. n : b \in Loaded(i)
  BY LakeRow
<1>4. /\ b.source_split \in Splits /\ b.batch_id = i /\ b.ingested_at = i
      /\ {b.trans_date_trans_time, b.amt, b.merch_lat} \subseteq Int \cup {Null}
  BY <1>1, <1>3, LoadedRow
<1>5. /\ v.trans_time = b.trans_date_trans_time /\ v.amt = b.amt /\ v.merch_lat = b.merch_lat
      /\ v.source_split = b.source_split /\ v.batch_id = b.batch_id
      /\ v.ingested_at = b.ingested_at
  BY <1>2, ConformedLineage
<1>6. DOMAIN v = SilverColumns \ {"channel"}
  BY <1>2, ConformedColumns
<1> QED
  BY <1>1, <1>3, <1>4, <1>5, <1>6

\* select() keeps the columns of a conformed row and adds its channel.
LEMMA SelectedRow ==
    ASSUME NEW r, SilverColumns \ {"channel"} \subseteq DOMAIN r, "channel" \notin DOMAIN r
    PROVE  /\ DOMAIN Selected(r) = SilverColumns
           /\ \A c \in SilverColumns \ {"channel"} : Selected(r)[c] = r[c]
           /\ Selected(r).channel = IF r.category \in DOMAIN CategoryRef
                                    THEN CategoryRef[r.category] ELSE Null
           /\ Selected(r).trans_num = r.trans_num /\ Selected(r).ingested_at = r.ingested_at
<1> DEFINE ch == IF r.category \in DOMAIN CategoryRef THEN CategoryRef[r.category] ELSE Null
           more == [channel |-> ch]
<1>1. DOMAIN more = {"channel"} /\ more.channel = ch
  OBVIOUS
<1>2. EnrichWithCategory(r) = With(r, more)
  BY DEF EnrichWithCategory
<1>3. "channel" \in SilverColumns /\ {"trans_num", "ingested_at"} \subseteq SilverColumns \ {"channel"}
  BY DEF SilverColumns, SilverRequired, Lineage
<1> HIDE DEF ch, more
<1>4. DOMAIN Selected(r) = SilverColumns
      /\ \A c \in SilverColumns : Selected(r)[c] = With(r, more)[c]
  BY <1>2 DEF Selected
<1>5. ASSUME NEW c \in SilverColumns \ {"channel"} PROVE Selected(r)[c] = r[c]
  BY <1>1, <1>4 DEF With
<1>6. Selected(r).channel = ch
  BY <1>1, <1>3, <1>4 DEF With
<1> QED
  BY <1>3, <1>4, <1>5, <1>6 DEF ch

\* What is selected of a cached row is what is selected of the conformed row.
LEMMA SelectedCached ==
    ASSUME NEW v, DOMAIN v = SilverColumns \ {"channel"}, NEW reason,
           NEW c, c = WithReason(v, reason)
    PROVE  Selected(c) = Selected(v)
<1>1. /\ \A col \in SilverColumns \ {"channel"} : c[col] = v[col]
      /\ DOMAIN c = (SilverColumns \ {"channel"}) \cup {"reject_reason"}
  BY CachedRow
<1>2. "category" \in SilverColumns \ {"channel"}
  BY DEF SilverColumns, SilverRequired
<1>3. /\ \A col \in SilverColumns \ {"channel"} : Selected(c)[col] = c[col]
      /\ Selected(c).channel = IF c.category \in DOMAIN CategoryRef
                               THEN CategoryRef[c.category] ELSE Null
  BY <1>1, SelectedRow
<1>4. /\ \A col \in SilverColumns \ {"channel"} : Selected(v)[col] = v[col]
      /\ Selected(v).channel = IF v.category \in DOMAIN CategoryRef
                               THEN CategoryRef[v.category] ELSE Null
  BY SelectedRow
<1>5. \A col \in SilverColumns : Selected(c)[col] = Selected(v)[col]
  BY <1>1, <1>2, <1>3, <1>4
<1>6. /\ Selected(c) = [col \in SilverColumns |-> Selected(c)[col]]
      /\ Selected(v) = [col \in SilverColumns |-> Selected(v)[col]]
  BY DEF Selected
<1> QED
  BY <1>5, <1>6


\* Every way the deduplication may go leaves a newest valid row of each transaction.
LEMMA DedupIsNewest ==
    ASSUME TypeOK, NEW n \in 0 .. Len(loads), conformed = Cached(n),
           NEW D \in Deduped(conformed \ Rejected(conformed)), NEW S, S = {Selected(r) : r \in D}
    PROVE  NewestOf(S, n)
<1> DEFINE rows == conformed \ Rejected(conformed)
           ids == {r.trans_num : r \in rows}
           Kept(v) == WithReason(v, Null)
<1>0. n \in Nat
  BY LenProperties DEF TypeOK
<1>1. ASSUME NEW v \in Valid(n)
      PROVE  /\ Kept(v) \in rows /\ Kept(v).trans_num = v.trans_num
             /\ Kept(v).ingested_at = v.ingested_at /\ Selected(Kept(v)) = Selected(v)
  <2>1. v \in Live(n) /\ RejectReason(v) = Null /\ DOMAIN v = SilverColumns \ {"channel"}
    BY LiveRow DEF Valid
  <2>2. Kept(v) \in conformed
    BY <2>1 DEF Cached
  <2>3. /\ Kept(v).reject_reason = Null /\ Kept(v).trans_num = v.trans_num
        /\ Kept(v).ingested_at = v.ingested_at
    <3>1. Kept(v).reject_reason = Null
      BY <2>1, CachedReason
    <3>2. Kept(v).trans_num = v.trans_num
      BY <2>1, CachedRow
    <3>3. Kept(v).ingested_at = v.ingested_at
      BY <2>1, CachedRow
    <3> QED
      BY <3>1, <3>2, <3>3
  <2>4. Selected(Kept(v)) = Selected(v)
    BY <2>1, SelectedCached
  <2> QED
    BY <2>2, <2>3, <2>4 DEF Rejected
<1>2. ASSUME NEW c \in rows
      PROVE  \E v \in Valid(n) : c = Kept(v)
  <2>1. PICK v \in Live(n) : c = WithReason(v, RejectReason(v))
    BY DEF Cached
  <2>2. DOMAIN v = SilverColumns \ {"channel"}
    BY LiveRow
  <2>3. WithReason(v, RejectReason(v)).reject_reason = RejectReason(v)
    BY <2>2, CachedReason
  <2>4. c.reject_reason = Null
    BY DEF Rejected
  <2> QED
    BY <2>1, <2>3, <2>4 DEF Valid
<1> HIDE DEF Kept
<1>3. PICK f \in [ids -> rows] : D = {f[t] : t \in ids} /\ \A t \in ids : f[t] \in Newest(rows, t)
  BY DEF Deduped
<1> HIDE DEF ids, rows
<1>4. ids = {v.trans_num : v \in Valid(n)}
  BY <1>1, <1>2 DEF ids
<1>5. ASSUME NEW t \in ids
      PROVE  \E v \in Valid(n) : /\ f[t] = Kept(v) /\ v.trans_num = t
                                 /\ Selected(f[t]) = Selected(v)
                                 /\ \A u \in Valid(n) :
                                        u.trans_num = t => u.ingested_at <= v.ingested_at
  <2>1. f[t] \in rows /\ f[t].trans_num = t
        /\ \A q \in rows : q.trans_num = t => q.ingested_at <= f[t].ingested_at
    BY <1>3 DEF Newest
  <2>2. PICK v \in Valid(n) : f[t] = Kept(v)
    BY <1>2, <2>1
  <2> QED
    BY <1>1, <2>1, <2>2
<1>6. ASSUME NEW v \in Valid(n)
      PROVE  Selected(v).trans_num = v.trans_num /\ Selected(v).ingested_at = v.ingested_at
  <2>1. DOMAIN v = SilverColumns \ {"channel"}
    BY LiveRow DEF Valid
  <2> QED
    BY <2>1, SelectedRow
<1>7. \A r \in S : \E t \in ids : r = Selected(f[t])
  BY <1>3
<1>8. \A t \in ids : Selected(f[t]) \in S
  BY <1>3
<1>9. \A t \in ids : Selected(f[t]).trans_num = t
  BY <1>5, <1>6
<1>10. {r.trans_num : r \in S} = {r.trans_num : r \in Valid(n)}
  <2>1. \A r \in S : r.trans_num \in ids
    BY <1>7, <1>9
  <2>2. \A t \in ids : \E r \in S : r.trans_num = t
    BY <1>8, <1>9
  <2>3. {r.trans_num : r \in S} = ids
    BY <2>1, <2>2
  <2> QED
    BY <1>4, <2>3
<1>11. ASSUME NEW r \in S
       PROVE  /\ \A q \in S : q.trans_num = r.trans_num => q = r
              /\ \E v \in Valid(n) : Selected(v) = r
              /\ \A v \in Valid(n) : v.trans_num = r.trans_num => v.ingested_at <= r.ingested_at
  <2>1. PICK t \in ids : r = Selected(f[t])
    BY <1>7
  <2>2. r.trans_num = t /\ \A q \in S : q.trans_num = t => q = r
    <3>1. r.trans_num = t
      BY <1>9, <2>1
    <3>2. ASSUME NEW q \in S, q.trans_num = t PROVE q = r
      BY <1>7, <1>9, <2>1, <3>2
    <3> QED
      BY <3>1, <3>2
  <2>3. PICK v \in Valid(n) : /\ v.trans_num = t /\ r = Selected(v)
                              /\ \A u \in Valid(n) :
                                    u.trans_num = t => u.ingested_at <= v.ingested_at
    BY <1>5, <2>1
  <2>4. r.ingested_at = v.ingested_at
    BY <1>6, <2>3
  <2> QED
    BY <2>2, <2>3, <2>4
<1> QED
  BY <1>10, <1>11 DEF NewestOf

LEMMA LiveStays ==
    ASSUME TypeOK, loads' = loads \/ \E l : loads' = Append(loads, l), NEW n \in 0 .. Len(loads)
    PROVE  Live(n)' = Live(n) /\ Cached(n)' = Cached(n) /\ Valid(n)' = Valid(n)
<1>0. Len(loads) \in Nat /\ n \in Nat
  BY LenProperties DEF TypeOK
<1>1. Lake(n)' = Lake(n)
  BY LakeStays
<1>2. \A i \in 1 .. n : LoadedRows(i)' = LoadedRows(i)
  BY <1>0, LoadedStays
<1>3. \A d : LastLoadOf(d, n)' = LastLoadOf(d, n)
  BY <1>2 DEF LastLoadOf
<1>4. Live(n)' = Live(n)
  BY <1>2, <1>3 DEF Live
<1> QED
  BY <1>4 DEF Cached, Valid

LEMMA NewestStays ==
    ASSUME TypeOK, loads' = loads \/ \E l : loads' = Append(loads, l), NEW n \in 0 .. Len(loads),
           NEW S, NewestOf(S, n)
    PROVE  NewestOf(S, n)'
<1>1. Valid(n)' = Valid(n)
  BY LiveStays
<1> QED
  BY <1>1 DEF NewestOf

\* A table of rows of silver, as the contract sees it, and that it holds its contract.
TableOf(S) == [cols |-> IF S = {} THEN SilverColumns ELSE ColumnsIn(S), rows |-> S]
Audited(S) == ~Raises(SilverContract, TableOf(S), PeriodEnd)

QuarantineOf(rows) ==
    {[trans_num |-> r.trans_num, reject_reason |-> r.reject_reason,
      batch_id |-> r.batch_id, source_split |-> r.source_split] : r \in Rejected(rows)}

Loads == Len(loads)

\* What each step of the stages after ingest has behind it, and what silver holds at any time.
SilverInv ==
    /\ BronzeInv
    /\ pc \in {"check", "quarantine", "rate", "stage", "audit", "publish", "gold", "goldcheck"}
            => Loads > 0
    /\ pc \in {"rate", "stage"} => conformed = Cached(Loads)
    /\ pc \in {"rate", "stage", "audit", "publish", "gold", "goldcheck"}
            => quarantine = QuarantineOf(Cached(Loads))
    /\ pc \in {"audit", "publish"} => NewestOf(staging, Loads)
    /\ pc = "publish" => Audited(staging)
    /\ pc \in {"gold", "goldcheck"} => served = Loads
    /\ served > 0 => NewestOf(silver, served) /\ Audited(silver)

\* What all steps but a load leave alone.
LEMMA NoLoad ==
    ASSUME Typed, BronzeInv, loads' = loads, bronze' = bronze
    PROVE  /\ BronzeInv' /\ Loads' = Loads /\ Cached(Loads)' = Cached(Loads)
           /\ (staging' = staging /\ NewestOf(staging, Loads)) => NewestOf(staging, Loads)'
           /\ (silver' = silver /\ served' = served /\ NewestOf(silver, served))
                => NewestOf(silver, served)'
<1>0. PICK n \in Nat : n = Loads
  BY LenProperties DEF Typed, TypeOK, Loads
<1>1. Loads' = n
  BY <1>0 DEF Loads
<1>2. Lake(n)' = Lake(n) /\ Cached(n)' = Cached(n)
  BY <1>0, LakeStays, LiveStays DEF Typed, Loads
<1>3. BronzeInv'
  BY <1>0, <1>1, <1>2 DEF BronzeInv, Loads
<1>4. Cached(Loads)' = Cached(Loads)
  BY <1>0, <1>1, <1>2
<1>5. ASSUME staging' = staging, NewestOf(staging, Loads)
      PROVE  NewestOf(staging, Loads)'
  <2>1. PICK S : S = staging
    OBVIOUS
  <2>2. NewestOf(S, n)'
    BY <1>0, <1>5, <2>1, NewestStays DEF Typed, Loads
  <2> QED
    BY <1>1, <1>5, <2>1, <2>2
<1>6. ASSUME silver' = silver, served' = served, NewestOf(silver, served)
      PROVE  NewestOf(silver, served)'
  <2>1. PICK S : S = silver
    OBVIOUS
  <2>2. PICK m \in 0 .. Len(loads) : m = served
    BY DEF Typed, TypeOK
  <2>3. NewestOf(S, m)'
    BY <1>6, <2>1, <2>2, NewestStays DEF Typed
  <2> QED
    BY <1>6, <2>1, <2>2, <2>3
<1> QED
  BY <1>0, <1>1, <1>3, <1>4, <1>5, <1>6

\* A step that loads nothing and leaves the tables of the stages before gold alone.
SameTables ==
    /\ bronze' = bronze /\ quarantine' = quarantine /\ staging' = staging /\ silver' = silver
    /\ loads' = loads /\ served' = served

\* It goes to a step that has no more behind it than this one, or back to the start.
MovesOn ==
    /\ conformed' = conformed \/ pc' \notin {"rate", "stage"}
    /\ \/ pc' = pc \/ pc' \in {"idle", "train", "test", "gate", "bronze"}
       \/ pc = "check" /\ pc' = "quarantine"
       \/ pc = "rate" /\ pc' = "stage"
       \/ pc = "gold" /\ pc' = "goldcheck"
       \/ pc = "audit" /\ pc' = "publish" /\ Audited(staging)

LEMMA MovesOnSilver ==
    ASSUME Typed, SilverInv, SameTables, MovesOn
    PROVE  SilverInv'
<1>1. /\ bronze' = bronze /\ quarantine' = quarantine /\ staging' = staging /\ silver' = silver
      /\ loads' = loads /\ served' = served
  BY DEF SameTables
<1>2. /\ BronzeInv' /\ Loads' = Loads /\ Cached(Loads)' = Cached(Loads)
      /\ NewestOf(staging, Loads) => NewestOf(staging, Loads)'
      /\ NewestOf(silver, served) => NewestOf(silver, served)'
  BY <1>1, NoLoad DEF SilverInv
<1>3. Audited(staging)' <=> Audited(staging)
  BY <1>1 DEF Audited, TableOf
<1>4. Audited(silver)' <=> Audited(silver)
  BY <1>1 DEF Audited, TableOf
<1>5. pc' \in {"check", "quarantine", "rate", "stage", "audit", "publish", "gold", "goldcheck"}
            => Loads > 0
  BY DEF SilverInv, MovesOn
<1>6. pc' \in {"rate", "stage"} => conformed' = Cached(Loads)
  BY DEF SilverInv, MovesOn
<1>7. pc' \in {"rate", "stage", "audit", "publish", "gold", "goldcheck"}
            => quarantine = QuarantineOf(Cached(Loads))
  BY DEF SilverInv, MovesOn
<1>8. pc' \in {"audit", "publish"} => NewestOf(staging, Loads)
  BY DEF SilverInv, MovesOn
<1>9. pc' = "publish" => Audited(staging)
  BY DEF SilverInv, MovesOn
<1>10. pc' \in {"gold", "goldcheck"} => served = Loads
  BY DEF SilverInv, MovesOn
<1>11. served > 0 => NewestOf(silver, served) /\ Audited(silver)
  BY DEF SilverInv
<1>12. QuarantineOf(Cached(Loads))' = QuarantineOf(Cached(Loads))
  BY <1>2 DEF QuarantineOf, Rejected
<1> QED
  BY <1>1, <1>2, <1>3, <1>4, <1>5, <1>6, <1>7, <1>8, <1>9, <1>10, <1>11, <1>12 DEF SilverInv

LEMMA LoadSilver ==
    ASSUME Typed, SilverInv, LoadBronze
    PROVE  SilverInv'
<1>1. BronzeInv'
  BY LoadReplacesDays DEF SilverInv
<1>2. pc' = "check" /\ silver' = silver /\ served' = served
  BY DEF LoadBronze, GoTo
<1>3. \E l : loads' = Append(loads, l)
  BY DEF LoadBronze
<1>4. Loads' > 0
  <2>1. PICK l : loads' = Append(loads, l)
    BY <1>3
  <2>2. Len(loads') = Len(loads) + 1 /\ Len(loads) \in Nat
    BY <2>1, LenProperties DEF Typed, TypeOK
  <2> QED
    BY <2>2 DEF Loads
<1>5. NewestOf(silver, served) => NewestOf(silver, served)'
  <2>1. PICK S : S = silver
    OBVIOUS
  <2>2. PICK m \in 0 .. Len(loads) : m = served
    BY DEF Typed, TypeOK
  <2>3. NewestOf(S, m) => NewestOf(S, m)'
    BY <1>3, NewestStays DEF Typed
  <2> QED
    BY <1>2, <2>1, <2>2, <2>3
<1>6. Audited(silver)' <=> Audited(silver)
  BY <1>2 DEF Audited, TableOf
<1> QED
  BY <1>1, <1>2, <1>4, <1>5, <1>6 DEF SilverInv

LEMMA QuarantineSilver ==
    ASSUME Typed, SilverInv, Quarantine
    PROVE  SilverInv'
<1>1. /\ loads' = loads /\ bronze' = bronze /\ silver' = silver /\ served' = served
      /\ pc = "quarantine" /\ pc' = "rate"
  BY DEF Quarantine, history
<1>2. /\ BronzeInv' /\ Loads' = Loads /\ Cached(Loads)' = Cached(Loads)
      /\ NewestOf(silver, served) => NewestOf(silver, served)'
  BY <1>1, NoLoad DEF SilverInv
<1>3. conformed' = Cached(Loads)
  <2>1. Live(Loads) = {Conform(b) : b \in bronze}
    BY LiveRows, LenProperties DEF SilverInv, BronzeInv, Loads, Typed, TypeOK
  <2> QED
    BY <2>1 DEF Quarantine, ConformAll, Cached, WithReason
<1>4. quarantine' = QuarantineOf(Cached(Loads))'
  <2>1. quarantine' = QuarantineOf(conformed)'
    BY DEF Quarantine, QuarantineOf
  <2>2. conformed' = Cached(Loads)'
    BY <1>2, <1>3
  <2> QED
    BY <2>1, <2>2 DEF QuarantineOf, Rejected
<1>5. Audited(silver)' <=> Audited(silver)
  BY <1>1 DEF Audited, TableOf
<1> QED
  BY <1>1, <1>2, <1>3, <1>4, <1>5 DEF SilverInv

LEMMA StageSilver ==
    ASSUME Typed, SilverInv, Stage
    PROVE  SilverInv'
<1>1. /\ loads' = loads /\ bronze' = bronze /\ silver' = silver /\ served' = served
      /\ pc = "stage" /\ pc' = "audit" /\ quarantine' = quarantine
  BY DEF Stage, GoTo, history
<1>2. /\ BronzeInv' /\ Loads' = Loads /\ Cached(Loads)' = Cached(Loads)
      /\ NewestOf(silver, served) => NewestOf(silver, served)'
  BY <1>1, NoLoad DEF SilverInv
<1>3. NewestOf(staging, Loads)'
  <2>0. PICK n \in 0 .. Len(loads) : n = Loads
    BY LenProperties DEF Typed, TypeOK, Loads
  <2>1. PICK D \in Deduped(conformed \ Rejected(conformed)) : staging' = {Selected(r) : r \in D}
    BY DEF Stage
  <2>2. PICK S : S = {Selected(r) : r \in D}
    OBVIOUS
  <2>3. conformed = Cached(n)
    BY <1>1, <2>0 DEF SilverInv
  <2>4. NewestOf(S, n)
    BY <2>1, <2>2, <2>3, DedupIsNewest DEF Typed
  <2>5. NewestOf(S, n)'
    BY <1>1, <2>4, NewestStays DEF Typed
  <2> QED
    BY <1>2, <2>0, <2>1, <2>2, <2>5
<1>4. QuarantineOf(Cached(Loads))' = QuarantineOf(Cached(Loads))
  BY <1>2 DEF QuarantineOf, Rejected
<1>5. Audited(silver)' <=> Audited(silver)
  BY <1>1 DEF Audited, TableOf
<1> QED
  BY <1>1, <1>2, <1>3, <1>4, <1>5 DEF SilverInv

LEMMA PublishSilverHolds ==
    ASSUME Typed, SilverInv, PublishSilver
    PROVE  SilverInv'
<1>1. /\ loads' = loads /\ bronze' = bronze /\ silver' = staging /\ served' = Loads
      /\ pc = "publish" /\ pc' = "gold" /\ quarantine' = quarantine /\ staging' = staging
  BY DEF PublishSilver, GoTo, Loads
<1>2. /\ BronzeInv' /\ Loads' = Loads /\ Cached(Loads)' = Cached(Loads)
  BY <1>1, NoLoad DEF SilverInv
<1>3. NewestOf(silver, served)'
  <2>0. PICK n \in 0 .. Len(loads) : n = Loads
    BY LenProperties DEF Typed, TypeOK, Loads
  <2>1. PICK S : S = staging
    OBVIOUS
  <2>2. NewestOf(S, n)
    BY <1>1, <2>0, <2>1 DEF SilverInv
  <2>3. NewestOf(S, n)'
    BY <1>1, <2>2, NewestStays DEF Typed
  <2> QED
    BY <1>1, <2>0, <2>1, <2>3
<1>4. QuarantineOf(Cached(Loads))' = QuarantineOf(Cached(Loads))
  BY <1>2 DEF QuarantineOf, Rejected
<1>5. Audited(silver)'
  <2>1. Audited(staging)
    BY <1>1 DEF SilverInv
  <2> QED
    BY <1>1, <2>1 DEF Audited, TableOf
<1> QED
  BY <1>1, <1>2, <1>3, <1>4, <1>5 DEF SilverInv

LEMMA NextSilver ==
    ASSUME Typed, SilverInv, [Next]_vars
    PROVE  SilverInv'
<1>1. CASE Publish
  <2>1. SameTables /\ MovesOn
    BY <1>1 DEF Publish, tables, history, SameTables, MovesOn
  <2> QED
    BY <2>1, MovesOnSilver
<1>2. CASE Begin
  <2>1. SameTables /\ MovesOn
    BY <1>2 DEF Begin, tables, history, SameTables, MovesOn
  <2> QED
    BY <2>1, MovesOnSilver
<1>3. CASE Gate
  <2>1. SameTables
    BY <1>3 DEF Gate, tables, history, SameTables
  <2>2. pc' \in {"idle", "bronze"}
    BY <1>3 DEF Gate, GoTo
  <2> QED
    BY <2>1, <2>2, MovesOnSilver DEF MovesOn
<1>4. CASE LoadBronze
  BY <1>4, LoadSilver
<1>5. CASE CheckBronze
  <2>1. SameTables
    BY <1>5 DEF CheckBronze, tables, history, SameTables
  <2>2. pc = "check" /\ pc' \in {"idle", "quarantine"}
    BY <1>5 DEF CheckBronze, GoTo
  <2> QED
    BY <2>1, <2>2, MovesOnSilver DEF MovesOn
<1>6. CASE Quarantine
  BY <1>6, QuarantineSilver
<1>7. CASE RejectGate
  <2>1. SameTables
    BY <1>7 DEF RejectGate, tables, history, SameTables
  <2>2. pc = "rate" /\ pc' \in {"idle", "stage"} /\ (pc' = "stage" => conformed' = conformed)
    BY <1>7 DEF RejectGate, GoTo
  <2> QED
    BY <2>1, <2>2, MovesOnSilver DEF MovesOn
<1>8. CASE Stage
  BY <1>8, StageSilver
<1>9. CASE Audit
  <2>1. SameTables
    BY <1>9 DEF Audit, tables, history, SameTables
  <2>2. StagingTable = TableOf(staging)
    BY DEF StagingTable, TableOf
  <2>3. pc = "audit" /\ (pc' = "idle" \/ (pc' = "publish" /\ Audited(staging)))
    BY <1>9, <2>2 DEF Audit, GoTo, Audited
  <2> QED
    BY <2>1, <2>3, MovesOnSilver DEF MovesOn
<1>10. CASE PublishSilver
  BY <1>10, PublishSilverHolds
<1>11. CASE Gold
  <2>1. SameTables
    BY <1>11 DEF Gold, history, SameTables
  <2>2. pc = "gold" /\ pc' = "goldcheck"
    BY <1>11 DEF Gold, GoTo
  <2> QED
    BY <2>1, <2>2, MovesOnSilver DEF MovesOn
<1>12. CASE CheckGold
  <2>1. SameTables
    BY <1>12 DEF CheckGold, tables, history, SameTables
  <2>2. pc' = "idle"
    BY <1>12 DEF CheckGold, GoTo
  <2> QED
    BY <2>1, <2>2, MovesOnSilver DEF MovesOn
<1>13. CASE Crash
  <2>1. SameTables
    BY <1>13 DEF Crash, tables, SameTables
  <2>2. pc' = "idle"
    BY <1>13 DEF Crash, GoTo
  <2> QED
    BY <2>1, <2>2, MovesOnSilver DEF MovesOn
<1>14. CASE \E s \in Splits : Files(s)
  <2>1. PICK s \in Splits : Files(s)
    BY <1>14
  <2>2. AfterFile(s) \in {"test", "gate"}
    BY DEF AfterFile
  <2>3. pc' \in {"idle", "test", "gate"}
    BY <2>1, <2>2 DEF Files, SkipDownload, Download, DownloadShort, DownloadBreaks, GoTo
  <2>4. SameTables
    BY <2>1 DEF Files, SkipDownload, Download, DownloadShort, DownloadBreaks, tables, history,
                SameTables
  <2> QED
    BY <2>3, <2>4, MovesOnSilver DEF MovesOn
<1>15. CASE UNCHANGED vars
  <2>1. SameTables /\ MovesOn
    BY <1>15 DEF vars, tables, history, SameTables, MovesOn
  <2> QED
    BY <2>1, MovesOnSilver
<1> QED
  BY <1>1, <1>2, <1>3, <1>4, <1>5, <1>6, <1>7, <1>8, <1>9, <1>10, <1>11, <1>12, <1>13, <1>14,
     <1>15 DEF Next, Stages

LEMMA InitSilver == Init => SilverInv
<1> SUFFICES ASSUME Init PROVE SilverInv
  OBVIOUS
<1>1. loads = <<>> /\ Len(loads) = 0 /\ bronze = {} /\ served = 0 /\ pc = "idle"
  BY DEF Init
<1>2. BronzeInv
  BY <1>1 DEF BronzeInv, Lake
<1> QED
  BY <1>1, <1>2 DEF SilverInv

LEMMA SilverInvariant == Spec => [](Typed /\ SilverInv)
<1>1. Init => Typed /\ SilverInv
  BY InitTyped, InitSilver
<1>2. Typed /\ SilverInv /\ [Next]_vars => (Typed /\ SilverInv)'
  BY NextTyped, NextSilver
<1> QED
  BY <1>1, <1>2, PTL DEF Spec

\* Silver has one row for every transaction of which a valid copy is left, and it comes
\* from the most recent load holding a valid one (silver.py run, the dedup by ingested_at).
THEOREM SilverIsNewestAlways == Spec => []SilverIsNewest
<1>1. SilverInv => SilverIsNewest
  BY DEF SilverInv, SilverIsNewest, NewestOf, Valid, Live
<1> QED
  BY <1>1, SilverInvariant, PTL

\* No row vanishes between bronze and silver: it is in quarantine, or a row of its transaction
\* at least as new as itself is in silver (silver.py run, "moved, not dropped").
THEOREM NothingDroppedAlways == Spec => []NothingDropped
<1>1. ASSUME Typed, SilverInv
      PROVE  NothingDropped
  <2> SUFFICES ASSUME pc \in {"gold", "goldcheck"}, NEW b \in bronze
               PROVE  \/ \E q \in quarantine : q.trans_num = b.trans_num /\ q.batch_id = b.batch_id
                                               /\ q.source_split = b.source_split
                      \/ \E r \in silver : r.trans_num = b.trans_num /\ r.ingested_at >= b.ingested_at
    BY DEF NothingDropped
  <2> DEFINE v == Conform(b)
             c == WithReason(v, RejectReason(v))
  <2>1. Loads \in Nat /\ served = Loads /\ served > 0 /\ NewestOf(silver, Loads)
        /\ quarantine = QuarantineOf(Cached(Loads))
    BY <1>1, LenProperties DEF Loads, Typed, TypeOK, SilverInv
  <2>2. v \in Live(Loads)
    BY <1>1, <2>1, LiveRows DEF SilverInv, BronzeInv, Loads
  <2>3. /\ v.trans_num = b.trans_num /\ v.batch_id = b.batch_id
        /\ v.source_split = b.source_split /\ v.ingested_at = b.ingested_at
    BY ConformedLineage
  <2>4. DOMAIN v = SilverColumns \ {"channel"}
    BY ConformedColumns
  <2>5. CASE RejectReason(v) = Null
    <3>1. v \in Valid(Loads)
      BY <2>2, <2>5 DEF Valid
    <3>2. PICK r \in silver : r.trans_num = v.trans_num
      BY <2>1, <3>1 DEF NewestOf
    <3>3. v.ingested_at <= r.ingested_at
      BY <2>1, <3>1, <3>2 DEF NewestOf
    <3> QED
      BY <2>3, <3>2, <3>3
  <2>6. CASE RejectReason(v) # Null
    <3>1. c \in Cached(Loads)
      BY <2>2 DEF Cached
    <3>2. /\ c.reject_reason # Null /\ c.trans_num = v.trans_num /\ c.batch_id = v.batch_id
          /\ c.source_split = v.source_split
      BY <2>4, <2>6, CachedRow
    <3> HIDE DEF c
    <3>3. [trans_num |-> c.trans_num, reject_reason |-> c.reject_reason,
           batch_id |-> c.batch_id, source_split |-> c.source_split] \in quarantine
      BY <2>1, <3>1, <3>2 DEF QuarantineOf, Rejected
    <3> HIDE DEF v
    <3> QED
      BY <2>3, <3>2, <3>3
  <2> QED
    BY <2>5, <2>6
<1> QED
  BY <1>1, SilverInvariant, PTL

\* What the contract and the reject rules together say of a row that was staged.
LEMMA NewestRow ==
    ASSUME TypeOK, NEW n \in 0 .. Len(loads), NEW S, NewestOf(S, n), NEW r \in S
    PROVE  /\ DOMAIN r = SilverColumns
           /\ r.trans_num # Null /\ r.trans_time # Null /\ r.trans_time \in Int
           /\ r.amt \in 1 .. MaxAmt /\ r.amt # Null
           /\ r.category # Null => r.category \in Categories
           /\ r.is_fraud \in {0, 1}
           /\ r.merch_lat \in Int /\ r.merch_lat # Null
           /\ ~(r.merch_lat < -MaxLat) /\ ~(r.merch_lat > MaxLat)
           /\ r.source_split # Null /\ r.batch_id # Null /\ r.ingested_at # Null
           /\ r.channel # Null => r.channel = CategoryRef[r.category]
<1>1. PICK v \in Valid(n) : Selected(v) = r
  BY DEF NewestOf
<1>2. /\ DOMAIN v = SilverColumns \ {"channel"}
      /\ {v.trans_time, v.amt, v.merch_lat} \subseteq Int \cup {Null}
      /\ v.source_split \in Splits /\ v.batch_id \in Nat /\ v.ingested_at \in Nat
  BY LiveRow DEF Valid
<1>3. RejectReason(v) = Null
  BY DEF Valid
<1>4. {"trans_num", "trans_time", "amt", "category", "is_fraud", "merch_lat", "source_split",
       "batch_id", "ingested_at"} \subseteq SilverColumns \ {"channel"}
  BY DEF SilverColumns, SilverRequired, Lineage
<1>5. /\ DOMAIN r = SilverColumns
      /\ \A c \in SilverColumns \ {"channel"} : r[c] = v[c]
      /\ r.channel = IF v.category \in DOMAIN CategoryRef THEN CategoryRef[v.category] ELSE Null
  BY <1>1, <1>2, SelectedRow
<1>6. /\ r.trans_num = v.trans_num /\ r.trans_time = v.trans_time /\ r.amt = v.amt
      /\ r.category = v.category /\ r.is_fraud = v.is_fraud /\ r.merch_lat = v.merch_lat
      /\ r.source_split = v.source_split /\ r.batch_id = v.batch_id
      /\ r.ingested_at = v.ingested_at
  BY <1>4, <1>5
<1>7. /\ v.trans_num \in ValidIds /\ v.trans_time # Null
      /\ v.amt # Null /\ ~(v.amt <= 0) /\ ~(v.amt > MaxAmt)
      /\ v.category # Null => v.category \in Categories
      /\ v.is_fraud \in {0, 1}
      /\ v.merch_lat # Null /\ ~(v.merch_lat < -MaxLat) /\ ~(v.merch_lat > MaxLat)
  BY <1>3, KeptRow
<1>8. v.trans_time \in Int /\ v.amt \in Int /\ v.merch_lat \in Int
  BY <1>2, <1>7
<1>9. v.amt \in 1 .. MaxAmt
  BY <1>7, <1>8, LandingAssumption
<1>10. v.trans_num # Null /\ v.source_split # Null /\ v.batch_id # Null /\ v.ingested_at # Null
  <2>1. Null \notin ValidIds /\ Null \notin Splits /\ Null \notin Int
    BY LandingAssumption
  <2> QED
    BY <1>2, <1>7, <2>1
<1> QED
  BY <1>5, <1>6, <1>7, <1>8, <1>9, <1>10

LEMMA LakeIsFinite ==
    ASSUME TypeOK, NEW n \in 0 .. Len(loads)
    PROVE  IsFiniteSet(Lake(n))
<1> DEFINE P == (RawRow \X Splits) \X (1 .. n)
           Row(x) == AddIngestionMetadata(x[1][1], x[1][2], x[2])
           T == {Row(x) : x \in P}
           f == [x \in P |-> Row(x)]
<1>0. Len(loads) \in Nat /\ n \in Nat
  BY LenProperties DEF TypeOK
<1>1. IsFiniteSet(P)
  <2>1. IsFiniteSet(RawRow) /\ IsFiniteSet(Splits) /\ IsFiniteSet(1 .. n)
    <3>1. Splits = {"train"} \cup {"test"} /\ IsFiniteSet({"train"}) /\ IsFiniteSet({"test"})
      BY LandingAssumption, FS_Singleton
    <3>2. IsFiniteSet({"train"} \cup {"test"})
      BY <3>1, FS_Union
    <3>3. IsFiniteSet(1 .. n)
      BY <1>0, FS_Interval
    <3> QED
      BY <3>1, <3>2, <3>3, LandingAssumption
  <2> QED
    BY <2>1, FS_Product
<1>2. f \in [P -> T] /\ \A t \in T : \E x \in P : f[x] = t
  <2> HIDE DEF P, Row
  <2> QED
    OBVIOUS
<1>3. IsFiniteSet(T)
  <2> HIDE DEF P, T, f
  <2> QED
    BY <1>1, <1>2, FiniteImage
<1>4. ASSUME NEW b \in Lake(n)
      PROVE  b \in T
  <2>1. PICK i \in 1 .. n : b \in Loaded(i)
    BY LakeRow
  <2>2. PICK s \in Splits : \E q \in loads[i][s] : q \in RawRow /\ b = AddIngestionMetadata(q, s, i)
    BY <1>0, <2>1, LoadedRow
  <2>3. PICK q \in RawRow : b = AddIngestionMetadata(q, s, i)
    BY <2>2
  <2>4. <<<<q, s>>, i>> \in P /\ Row(<<<<q, s>>, i>>) = b
    BY <2>3
  <2> HIDE DEF P, Row
  <2> QED
    BY <2>4
<1> HIDE DEF T
<1> QED
  BY <1>3, <1>4, FS_Subset

LEMMA NewestIsFinite ==
    ASSUME TypeOK, NEW n \in 0 .. Len(loads), NEW S, NewestOf(S, n)
    PROVE  IsFiniteSet(S)
<1> DEFINE Row(b) == Selected(Conform(b))
           T == {Row(b) : b \in Lake(n)}
           f == [b \in Lake(n) |-> Row(b)]
<1>1. f \in [Lake(n) -> T] /\ \A t \in T : \E b \in Lake(n) : f[b] = t
  <2> HIDE DEF Row
  <2> QED
    OBVIOUS
<1>2. IsFiniteSet(T)
  <2> HIDE DEF T, f
  <2> QED
    BY <1>1, LakeIsFinite, FiniteImage
<1>3. ASSUME NEW r \in S
      PROVE  r \in T
  <2>0. n \in Nat
    BY LenProperties DEF TypeOK
  <2>1. PICK v \in Valid(n) : Selected(v) = r
    BY DEF NewestOf
  <2>2. PICK b \in Lake(n) : v = Conform(b)
    BY <2>0, LiveRows DEF Valid
  <2> QED
    BY <2>1, <2>2
<1> HIDE DEF T
<1> QED
  BY <1>2, <1>3, FS_Subset

\* What the readers of silver may assume holds of whatever silver serves, at any time: the
\* staged table is published only after its contract (silver.py run, engine.py validate).
THEOREM SilverIsCleanAlways == Spec => []SilverIsClean
<1>1. ASSUME Typed, SilverInv
      PROVE  SilverIsClean
  <2> SUFFICES ASSUME served > 0
               PROVE  /\ Cardinality(silver) \in MinRows .. MaxRows
                      /\ \E r \in silver : r.trans_time >= PeriodEnd - FreshFor
                      /\ 10 * Cardinality({r \in silver : r.merch_zipcode = Null})
                            <= 3 * Cardinality(silver)
                      /\ \A r \in silver :
                          /\ \A c \in SilverRequired : r[c] # Null
                          /\ r.amt \in 1 .. MaxAmt /\ r.category \in Categories
                          /\ r.is_fraud \in {0, 1} /\ r.channel = CategoryRef[r.category]
    BY DEF SilverIsClean
  <2>1. PICK n \in 0 .. Len(loads) : n = served
    BY <1>1 DEF Typed, TypeOK
  <2>2. NewestOf(silver, n) /\ Audited(silver)
    BY <1>1, <2>1 DEF SilverInv
  <2>3. IsFiniteSet(silver)
    BY <1>1, <2>2, NewestIsFinite DEF Typed
  <2>4. PICK T : T = TableOf(silver)
    OBVIOUS
  <2>5. T.rows = silver
    BY <2>4 DEF TableOf
  <2>6. /\ \A c \in SilverRequired : \A r \in silver : r[c] # Null
        /\ Cardinality(silver) \in MinRows .. MaxRows
        /\ 10 * Cardinality({r \in silver : r.merch_zipcode = Null}) <= 3 * Cardinality(silver)
        /\ \A r \in silver : r.category \in Categories \cup {Null}
        /\ \E r \in silver : r.trans_time # Null /\ PeriodEnd - r.trans_time <= FreshFor
    <3>1. ~Raises(SilverContract, T, PeriodEnd) /\ IsFiniteSet(T.rows)
      BY <2>2, <2>3, <2>4, <2>5 DEF Audited
    <3> QED
      BY <2>5, <3>1, PassedAudit
  <2>7. ASSUME NEW r \in silver
        PROVE  /\ r.trans_time \in Int /\ r.amt \in 1 .. MaxAmt /\ r.is_fraud \in {0, 1}
               /\ r.channel # Null => r.channel = CategoryRef[r.category]
    BY <1>1, <2>2, NewestRow DEF Typed
  <2>8. "channel" \in SilverRequired /\ "category" \in SilverRequired
    BY DEF SilverRequired
  <2>9. \E r \in silver : r.trans_time >= PeriodEnd - FreshFor
    <3>1. PICK r \in silver : PeriodEnd - r.trans_time <= FreshFor
      BY <2>6
    <3>2. r.trans_time \in Int /\ PeriodEnd \in Int /\ FreshFor \in Int
      BY <2>7, LandingAssumption
    <3>3. r.trans_time >= PeriodEnd - FreshFor
      BY <3>1, <3>2
    <3> QED
      BY <3>3
  <2>10. ASSUME NEW r \in silver
         PROVE  r.category \in Categories /\ r.channel = CategoryRef[r.category]
    BY <2>6, <2>7, <2>8
  <2> QED
    BY <2>6, <2>7, <2>9, <2>10
<1> QED
  BY <1>1, SilverInvariant, PTL

\* A row that breaks the silver contract got through a hole in the quarantine rules: a NULL no
\* rule looks at, or a category the reference lacks (transforms.py reject_reason,
\* enrich_with_category).
THEOREM BreachIsAHoleAlways == Spec => []BreachIsAHole
<1>1. ASSUME Typed, SilverInv
      PROVE  BreachIsAHole
  <2> SUFFICES ASSUME pc = "audit",
                      \A r \in staging : Null \notin {r.cc_num_hash, r.category, r.channel}
               PROVE  Failed(SilverContract, StagingTable, PeriodEnd, "error") \cap RowChecks = {}
    BY DEF BreachIsAHole
  <2>1. PICK n \in 0 .. Len(loads) : n = Loads
    BY LenProperties DEF Typed, TypeOK, Loads
  <2>2. NewestOf(staging, n)
    BY <1>1, <2>1 DEF SilverInv
  <2>3. IsFiniteSet(staging)
    BY <1>1, <2>2, NewestIsFinite DEF Typed
  <2>4. PICK T : T = StagingTable
    OBVIOUS
  <2>5. T.rows = staging
    BY <2>4 DEF StagingTable
  <2>6. T.cols = SilverColumns
    <3>1. \A r \in staging : DOMAIN r = SilverColumns
      BY <1>1 DEF Typed, TypeOK
    <3> QED
      BY <2>4, <3>1 DEF StagingTable, ColumnsIn
  <2>7. \A r, q \in T.rows : r.trans_num = q.trans_num => r = q
    BY <2>2, <2>5 DEF NewestOf
  <2>8. ASSUME NEW r \in T.rows
        PROVE  /\ \A c \in SilverRequired : r[c] # Null
               /\ ~(r.amt < 0) /\ ~(r.amt > MaxAmt)
               /\ r.category \in Categories /\ r.is_fraud \in {0, 1}
               /\ ~(r.merch_lat < -MaxLat) /\ ~(r.merch_lat > MaxLat)
    <3>1. /\ r.trans_num # Null /\ r.trans_time # Null
          /\ r.amt \in 1 .. MaxAmt /\ r.amt # Null
          /\ r.category # Null => r.category \in Categories
          /\ r.is_fraud \in {0, 1}
          /\ r.merch_lat # Null
          /\ ~(r.merch_lat < -MaxLat) /\ ~(r.merch_lat > MaxLat)
          /\ r.source_split # Null /\ r.batch_id # Null /\ r.ingested_at # Null
      BY <1>1, <2>2, <2>5, NewestRow DEF Typed
    <3>2. r.cc_num_hash # Null /\ r.category # Null /\ r.channel # Null /\ r.is_fraud # Null
      BY <2>5, <3>1, LandingAssumption
    <3>3. \A c \in SilverRequired : r[c] # Null
      BY <3>1, <3>2 DEF SilverRequired, Lineage
    <3>4. ~(r.amt < 0) /\ ~(r.amt > MaxAmt)
      BY <3>1, LandingAssumption
    <3> QED
      BY <3>1, <3>2, <3>3, <3>4
  <2>9. IsFiniteSet(T.rows)
    BY <2>3, <2>5
  <2>10. Failed(SilverContract, T, PeriodEnd, "error") \cap RowChecks = {}
    BY <2>6, <2>7, <2>8, <2>9, RowsPass
  <2> QED
    BY <2>4, <2>10
<1> QED
  BY <1>1, SilverInvariant, PTL

-----------------------------------------------------------------------------
(* Loading the same files again *)

BareRow(r) == [c \in DOMAIN r \ {"batch_id", "ingested_at"} |-> r[c]]

LEMMA BareRows == \A rows : Bare(rows) = {BareRow(r) : r \in rows}
  BY DEF Bare, BareRow

\* A bare row is the publisher's row and its split, and with the load it is the row.
LEMMA BareColumns ==
    ASSUME NEW r \in RawRow, NEW s, NEW n
    PROVE  BareRow(AddIngestionMetadata(r, s, n)) =
               [c \in RawColumns \cup {"source_split"} |-> IF c \in RawColumns THEN r[c] ELSE s]
<1>0. PICK b : b = AddIngestionMetadata(r, s, n)
  OBVIOUS
<1>1. DOMAIN b = RawColumns \cup Lineage /\ b.source_split = s
  BY <1>0, AddedColumns
<1>2. \A c \in RawColumns : b[c] = r[c]
  BY <1>0, AddedColumns
<1>3. (RawColumns \cup Lineage) \ {"batch_id", "ingested_at"} = RawColumns \cup {"source_split"}
      /\ "source_split" \notin RawColumns
  BY DEF RawColumns, Lineage
<1>4. BareRow(b) = [c \in RawColumns \cup {"source_split"} |-> b[c]]
  BY <1>1, <1>3 DEF BareRow
<1>5. \A c \in RawColumns \cup {"source_split"} : b[c] = IF c \in RawColumns THEN r[c] ELSE s
  BY <1>1, <1>2, <1>3
<1> QED
  BY <1>0, <1>4, <1>5

\* A row of a load is a function of the raw columns and the lineage.
LEMMA LoadedColumns ==
    ASSUME TypeOK, NEW i \in 1 .. Len(loads), NEW b \in Loaded(i)
    PROVE  /\ b = [c \in RawColumns \cup Lineage |-> b[c]]
           /\ DOMAIN b = RawColumns \cup Lineage
           /\ b.batch_id = i /\ b.ingested_at = i
<1>1. DOMAIN b = RawColumns \cup Lineage /\ b.batch_id = i /\ b.ingested_at = i
  BY LoadedRow
<1>2. PICK s \in Splits : \E r \in loads[i][s] : b = AddIngestionMetadata(r, s, i)
  BY DEF Loaded
<1>3. b = [c \in DOMAIN b |-> b[c]]
  BY <1>2 DEF AddIngestionMetadata, With
<1> QED
  BY <1>1, <1>3

LEMMA BareOfSameRow ==
    ASSUME NEW r \in RawRow, NEW s, NEW m, NEW n
    PROVE  BareRow(AddIngestionMetadata(r, s, m)) = BareRow(AddIngestionMetadata(r, s, n))
  BY BareColumns

\* Bronze holds no two rows that differ in their load alone: the later one would have replaced
\* the earlier.
LEMMA BareDiffer ==
    ASSUME TypeOK, NEW n \in 0 .. Len(loads), NEW b \in Lake(n), NEW q \in Lake(n),
           BareRow(b) = BareRow(q)
    PROVE  b = q
<1>0. Len(loads) \in Nat /\ n \in Nat
  BY LenProperties DEF TypeOK
<1>1. PICK i \in 1 .. n : b \in Loaded(i) /\ \A j \in i + 1 .. n : ~DayIn(b.trans_date_trans_time, j)
  BY LakeRow
<1>2. PICK k \in 1 .. n : q \in Loaded(k) /\ \A j \in k + 1 .. n : ~DayIn(q.trans_date_trans_time, j)
  BY LakeRow
<1>3. /\ b = [c \in RawColumns \cup Lineage |-> b[c]]
      /\ DOMAIN b = RawColumns \cup Lineage
      /\ b.batch_id = i /\ b.ingested_at = i
  <2>1. i \in 1 .. Len(loads)
    BY <1>0
  <2> QED
    BY <1>1, <2>1, LoadedColumns
<1>4. /\ q = [c \in RawColumns \cup Lineage |-> q[c]]
      /\ DOMAIN q = RawColumns \cup Lineage
      /\ q.batch_id = k /\ q.ingested_at = k
  <2>1. k \in 1 .. Len(loads)
    BY <1>0
  <2> QED
    BY <1>2, <2>1, LoadedColumns
<1>5. \A c \in RawColumns \cup {"source_split"} : b[c] = q[c]
  <2>1. \A c \in RawColumns \cup {"source_split"} :
            c \in (RawColumns \cup Lineage) \ {"batch_id", "ingested_at"}
    BY DEF RawColumns, Lineage
  <2>2. ASSUME NEW c \in RawColumns \cup {"source_split"} PROVE b[c] = q[c]
    <3>1. BareRow(b)[c] = b[c] /\ BareRow(q)[c] = q[c]
      BY <1>3, <1>4, <2>1 DEF BareRow
    <3> QED
      BY <3>1
  <2> QED
    BY <2>2
<1>6. b.trans_date_trans_time = q.trans_date_trans_time
  BY <1>5 DEF RawColumns
<1>7. i = k
  <2>1. DayIn(b.trans_date_trans_time, i) /\ DayIn(b.trans_date_trans_time, k)
    BY <1>1, <1>2, <1>6 DEF DayIn
  <2>2. ~(k < i) /\ ~(i < k)
    BY <1>0, <1>1, <1>2, <1>6, <2>1
  <2> QED
    BY <2>2
<1>8. \A c \in RawColumns \cup Lineage : b[c] = q[c]
  BY <1>3, <1>4, <1>5, <1>7 DEF Lineage
<1> QED
  BY <1>3, <1>4, <1>8

\* So bronze is as large as its bare rows are many.
BareCount == Cardinality(Bare(bronze)) = Cardinality(bronze)

LEMMA BareCounted ==
    ASSUME Typed, BronzeInv
    PROVE  BareCount
<1>1. PICK n \in 0 .. Len(loads) : bronze = Lake(n)
  BY LenProperties DEF Typed, TypeOK, BronzeInv
<1> DEFINE f == [b \in bronze |-> BareRow(b)]
<1>2. f \in [bronze -> Bare(bronze)] /\ \A t \in Bare(bronze) : \E b \in bronze : f[b] = t
  BY BareRows
<1>3. \A b, q \in bronze : f[b] = f[q] => b = q
  BY <1>1, BareDiffer DEF Typed
<1>4. IsFiniteSet(bronze)
  BY <1>1, LakeIsFinite DEF Typed
<1> HIDE DEF f
<1> QED
  BY <1>2, <1>3, <1>4, FiniteImage DEF BareCount

LEMMA ReloadKeepsBare ==
    ASSUME Typed, BronzeInv, BronzeInv', LoadBronze, loads # <<>>,
           loads'[Len(loads')] = loads[Len(loads)]
    PROVE  Bare(bronze') = Bare(bronze)
<1>0. PICK n \in Nat : n = Len(loads)
  BY LenProperties DEF Typed, TypeOK
<1>1. Len(loads') = n + 1 /\ n \in 1 .. n /\ loads'[n + 1] = loads[n]
      /\ \E l : loads' = Append(loads, l)
  <2>1. PICK l : loads' = Append(loads, l)
    BY DEF LoadBronze
  <2>2. Len(loads') = n + 1
    BY <1>0, <2>1 DEF Typed, TypeOK
  <2>3. n # 0
    BY <1>0, EmptySeq, LenProperties DEF Typed, TypeOK
  <2> QED
    BY <1>0, <2>1, <2>2, <2>3
<1>2. bronze = Lake(n) /\ bronze' = Lake(n + 1)'
  BY <1>0, <1>1 DEF BronzeInv
<1>3. \A i \in 1 .. n : Loaded(i)' = Loaded(i) /\ \A d : DayIn(d, i)' <=> DayIn(d, i)
  BY <1>0, <1>1, LoadedStays DEF Typed
<1>4. ASSUME NEW r \in RawRow, NEW s \in Splits
      PROVE  AddIngestionMetadata(r, s, n).trans_date_trans_time = r.trans_date_trans_time
             /\ AddIngestionMetadata(r, s, n + 1).trans_date_trans_time = r.trans_date_trans_time
  BY AddedColumns DEF RawColumns
<1>5. ASSUME NEW b \in Loaded(n)
      PROVE  \E q \in Loaded(n + 1)' : /\ BareRow(q) = BareRow(b)
                                       /\ q.trans_date_trans_time = b.trans_date_trans_time
  <2>0. PICK s \in Splits : \E r \in loads[n][s] : r \in RawRow /\ b = AddIngestionMetadata(r, s, n)
    BY <1>0, <1>1, LoadedRow DEF Typed
  <2>1. PICK r \in loads[n][s] : r \in RawRow /\ b = AddIngestionMetadata(r, s, n)
    BY <2>0
  <2>2. AddIngestionMetadata(r, s, n + 1) \in Loaded(n + 1)'
    BY <1>1, <2>1 DEF Loaded
  <2> QED
    BY <1>4, <2>1, <2>2, BareOfSameRow
<1>6. ASSUME NEW q \in Loaded(n + 1)'
      PROVE  \E b \in Loaded(n) : /\ BareRow(q) = BareRow(b)
                                  /\ q.trans_date_trans_time = b.trans_date_trans_time
  <2>0. PICK s \in Splits : \E r \in loads[n][s] : q = AddIngestionMetadata(r, s, n + 1)
    BY <1>1 DEF Loaded
  <2>1. PICK r \in loads[n][s] : q = AddIngestionMetadata(r, s, n + 1)
    BY <2>0
  <2>2. r \in RawRow
    BY <1>0, <1>1, ElementOfSeq DEF Typed, TypeOK
  <2>3. AddIngestionMetadata(r, s, n) \in Loaded(n)
    BY <2>1 DEF Loaded
  <2> QED
    BY <1>4, <2>1, <2>2, <2>3, BareOfSameRow
<1>7. \A d : DayIn(d, n + 1)' <=> DayIn(d, n)
  BY <1>5, <1>6 DEF DayIn
<1>8. \A b : b \in Lake(n + 1)' <=>
                \E i \in 1 .. n + 1 : /\ b \in Loaded(i)'
                                      /\ \A j \in i + 1 .. n + 1 : ~DayIn(b.trans_date_trans_time, j)'
  BY DEF Lake
<1>9. /\ \A b \in Loaded(n) : b \in Lake(n)
      /\ \A q \in Loaded(n + 1)' : q \in Lake(n + 1)'
  <2>1. n + 1 .. n = {} /\ (n + 1) + 1 .. n + 1 = {}
    OBVIOUS
  <2> QED
    BY <1>1, <1>8, <2>1, LakeRow
<1>10. ASSUME NEW b \in Lake(n)
       PROVE  \E q \in Lake(n + 1)' : BareRow(q) = BareRow(b)
  <2>1. PICK i \in 1 .. n : b \in Loaded(i) /\ \A j \in i + 1 .. n : ~DayIn(b.trans_date_trans_time, j)
    BY LakeRow
  <2>2. CASE i = n
    BY <1>5, <1>9, <2>1, <2>2
  <2>3. CASE i # n
    <3>1. ~DayIn(b.trans_date_trans_time, n + 1)'
      BY <1>7, <2>1, <2>3
    <3>2. \A j \in i + 1 .. n + 1 : ~DayIn(b.trans_date_trans_time, j)'
      BY <1>3, <2>1, <3>1
    <3> QED
      BY <1>3, <1>8, <2>1, <3>2
  <2> QED
    BY <2>2, <2>3
<1>11. ASSUME NEW q \in Lake(n + 1)'
       PROVE  \E b \in Lake(n) : BareRow(q) = BareRow(b)
  <2>1. PICK i \in 1 .. n + 1 : /\ q \in Loaded(i)'
                                /\ \A j \in i + 1 .. n + 1 : ~DayIn(q.trans_date_trans_time, j)'
    BY <1>8
  <2>2. CASE i = n + 1
    BY <1>6, <1>9, <2>1, <2>2
  <2>3. CASE i # n + 1
    <3>1. q \in Loaded(i) /\ \A j \in i + 1 .. n : ~DayIn(q.trans_date_trans_time, j)
      BY <1>3, <2>1, <2>3
    <3> QED
      BY <2>3, <3>1, LakeRow
  <2> QED
    BY <2>2, <2>3
<1>12. PICK B, C : B = bronze /\ C = bronze'
  OBVIOUS
<1>13. /\ \A b \in B : \E q \in C : BareRow(q) = BareRow(b)
       /\ \A q \in C : \E b \in B : BareRow(q) = BareRow(b)
  BY <1>2, <1>10, <1>11, <1>12
<1>14. {BareRow(q) : q \in C} = {BareRow(b) : b \in B}
  BY <1>13
<1>15. Bare(B) = Bare(C)
  BY <1>14, BareRows
<1> QED
  BY <1>12, <1>15 DEF Bare

\* Loading the same files again changes nothing but the lineage: each load overwrites the
\* partitions of its days (bronze.py run, overwritePartitions).
THEOREM ReloadIsIdempotentAlways == Spec => ReloadIsIdempotent
<1>1. Typed /\ SilverInv => BareCount
  BY BareCounted DEF SilverInv
<1>2. Typed /\ SilverInv /\ BareCount /\ (SilverInv /\ BareCount)' /\ [Next]_vars
      => [LoadBronze /\ loads # <<>> /\ loads'[Len(loads')] = loads[Len(loads)]
            => Bare(bronze') = Bare(bronze) /\ Cardinality(bronze') = Cardinality(bronze)]_vars
  BY ReloadKeepsBare DEF SilverInv, BareCount
<1> QED
  BY <1>1, <1>2, SilverInvariant, PTL DEF Spec, ReloadIsIdempotent

-----------------------------------------------------------------------------
(* Gold *)

\* What gold needs of the silver it reads.
Readable(S) ==
    /\ IsFiniteSet(S)
    /\ \A r \in S : /\ r.trans_time \in Int /\ r.category \in Categories
                    /\ r.amt \in Nat /\ r.is_fraud \in {0, 1}
    /\ \E r \in S : PeriodEnd - r.trans_time <= FreshFor

\* The rows of silver a row of category_hourly_fraud is computed from.
GroupOf(h) == {r \in silver : r.trans_time = h.trans_hour_ts /\ r.category = h.category}

\* A row of category_hourly_fraud is determined by its time and category.
LEMMA HourlyRow ==
    ASSUME NEW h \in CategoryHourly
    PROVE  /\ DOMAIN h = HourlyColumns
           /\ h.txns = Cardinality(GroupOf(h))
           /\ h.fraud_txns = Sum(GroupOf(h), "is_fraud")
           /\ h.total_amt = Sum(GroupOf(h), "amt")
           /\ h = [trans_hour_ts |-> h.trans_hour_ts, category |-> h.category,
                   txns |-> Cardinality(GroupOf(h)),
                   fraud_txns |-> Sum(GroupOf(h), "is_fraud"),
                   total_amt |-> Sum(GroupOf(h), "amt")]
           /\ \E r \in silver : r.trans_time = h.trans_hour_ts /\ r.category = h.category
<1>1. PICK k \in {<<r.trans_time, r.category>> : r \in silver} :
        h = LET G == {r \in silver : r.trans_time = k[1] /\ r.category = k[2]} IN
            [trans_hour_ts |-> k[1], category |-> k[2], txns |-> Cardinality(G),
             fraud_txns |-> Sum(G, "is_fraud"), total_amt |-> Sum(G, "amt")]
  BY DEF CategoryHourly
<1>2. PICK q \in silver : k = <<q.trans_time, q.category>>
  OBVIOUS
<1>3. PICK G : G = {r \in silver : r.trans_time = k[1] /\ r.category = k[2]}
  OBVIOUS
<1>4. PICK f, a : f = Sum(G, "is_fraud") /\ a = Sum(G, "amt")
  OBVIOUS
<1>5. h = [trans_hour_ts |-> k[1], category |-> k[2], txns |-> Cardinality(G),
           fraud_txns |-> f, total_amt |-> a]
  BY <1>1, <1>3, <1>4
<1>6. h.trans_hour_ts = k[1] /\ h.category = k[2] /\ h.txns = Cardinality(G)
      /\ h.fraud_txns = f /\ h.total_amt = a /\ DOMAIN h = HourlyColumns
  BY <1>5 DEF HourlyColumns
<1>7. GroupOf(h) = G
  BY <1>3, <1>6 DEF GroupOf
<1> QED
  BY <1>2, <1>4, <1>5, <1>6, <1>7

\* Every row of silver is in the group of one row of category_hourly_fraud.
LEMMA HourlyCovers ==
    ASSUME NEW r \in silver
    PROVE  \E h \in CategoryHourly : r \in GroupOf(h)
<1> DEFINE Row(k) == LET G == {q \in silver : q.trans_time = k[1] /\ q.category = k[2]} IN
                     [trans_hour_ts |-> k[1], category |-> k[2], txns |-> Cardinality(G),
                      fraud_txns |-> Sum(G, "is_fraud"), total_amt |-> Sum(G, "amt")]
           k0 == <<r.trans_time, r.category>>
<1>1. Row(k0) \in CategoryHourly
  BY DEF CategoryHourly
<1>2. Row(k0).trans_hour_ts = r.trans_time /\ Row(k0).category = r.category
  OBVIOUS
<1> HIDE DEF Row
<1> QED
  BY <1>1, <1>2 DEF GroupOf

LEMMA HourlyKeys ==
    ASSUME NEW h \in CategoryHourly, NEW g \in CategoryHourly,
           h.trans_hour_ts = g.trans_hour_ts, h.category = g.category
    PROVE  h = g
<1>1. GroupOf(h) = GroupOf(g)
  BY DEF GroupOf
<1> QED
  BY <1>1, HourlyRow

LEMMA HourlyIsFinite ==
    ASSUME Readable(silver)
    PROVE  IsFiniteSet(CategoryHourly)
<1> DEFINE f == [r \in silver |-> CHOOSE h \in CategoryHourly : r \in GroupOf(h)]
<1>1. ASSUME NEW r \in silver
      PROVE  f[r] \in CategoryHourly /\ r \in GroupOf(f[r])
  BY HourlyCovers
<1>2. ASSUME NEW h \in CategoryHourly
      PROVE  \E r \in silver : f[r] = h
  <2>1. PICK r \in silver : r.trans_time = h.trans_hour_ts /\ r.category = h.category
    BY HourlyRow
  <2>2. f[r] \in CategoryHourly /\ r \in GroupOf(f[r])
    BY <1>1
  <2>3. f[r].trans_hour_ts = h.trans_hour_ts /\ f[r].category = h.category
    BY <2>1, <2>2 DEF GroupOf
  <2> HIDE DEF f
  <2> QED
    BY <2>2, <2>3, HourlyKeys
<1>3. f \in [silver -> CategoryHourly]
  BY <1>1
<1> HIDE DEF f
<1> QED
  BY <1>2, <1>3, FiniteImage DEF Readable

\* The sums of a group: no more frauds than rows, and no negative amount.
LEMMA HourlySums ==
    ASSUME Readable(silver), NEW h \in CategoryHourly
    PROVE  /\ h.txns \in Nat /\ h.txns > 0
           /\ h.fraud_txns \in Nat /\ h.fraud_txns <= h.txns
           /\ h.total_amt \in Nat
<1>1. PICK G : G = GroupOf(h)
  OBVIOUS
<1>2. G \subseteq silver /\ IsFiniteSet(G)
  BY <1>1, FS_Subset DEF GroupOf, Readable
<1>3. G # {}
  BY <1>1, HourlyRow DEF GroupOf
<1>4. Cardinality(G) \in Nat /\ Cardinality(G) > 0
  BY <1>2, <1>3, FS_CardinalityType, FS_EmptySet
<1>5. Sum(G, "is_fraud") \in Nat /\ Sum(G, "is_fraud") <= Cardinality(G)
  <2>1. [r \in G |-> r["is_fraud"]] \in [G -> {0, 1}]
    BY <1>2 DEF Readable
  <2> QED
    BY <1>2, <2>1, SumOfBits DEF Sum
<1>6. Sum(G, "amt") \in Nat
  <2>1. [r \in G |-> r["amt"]] \in [G -> Nat]
    BY <1>2 DEF Readable
  <2> QED
    BY <1>2, <2>1, SumIsNatural DEF Sum
<1> QED
  BY <1>1, <1>4, <1>5, <1>6, HourlyRow

\* The checks of the gold contract that are expressions.
SomeTxns == Expression("txns > 0")
NoMoreFrauds == Expression("fraud_txns <= txns")
NoNegative == Expression("total_amt >= 0")

LEMMA HourlyChecks ==
    LET k == AllChecks(HourlyContract) IN
    /\ DOMAIN k = 1 .. 7
    /\ k[1] = [type |-> "schema", severity |-> "error", columns |-> HourlyColumns, strict |-> TRUE]
    /\ k[2] = [type |-> "not_null", severity |-> "error", columns |-> HourlyColumns]
    /\ k[3] = Unique({"trans_hour_ts", "category"}, "error")
    /\ k[4] = SomeTxns /\ k[5] = NoMoreFrauds /\ k[6] = NoNegative
    /\ k[7] = Fresh("trans_hour_ts")
<1>1. HourlyContract =
        [columns |-> HourlyColumns, required |-> HourlyColumns, strict |-> TRUE,
         checks |-> <<Unique({"trans_hour_ts", "category"}, "error"), SomeTxns, NoMoreFrauds,
                      NoNegative, Fresh("trans_hour_ts")>>]
  BY Zenon DEF HourlyContract, SomeTxns, NoMoreFrauds, NoNegative
<1> QED
  BY <1>1 DEF AllChecks

LEMMA ExpressionParts ==
    ASSUME NEW x
    PROVE  Expression(x).type = "expression" /\ Expression(x).severity = "error"
           /\ Expression(x).expr = x
  BY DEF Expression

\* What the contract's expressions say of a row without NULLs.
LEMMA ExpressionsOnRow ==
    ASSUME NEW r, r.fraud_txns # Null, r.total_amt # Null
    PROVE  /\ Proven(SomeTxns, r) <=> (r.txns > 0) = TRUE
           /\ Proven(NoMoreFrauds, r) <=> (r.fraud_txns <= r.txns) = TRUE
           /\ Proven(NoNegative, r) <=> (r.total_amt >= 0) = TRUE
<1>1. Eval("txns > 0", r) = (r.txns > 0)
  BY Zenon DEF Eval
<1>2. Eval("fraud_txns <= txns", r) = (r.fraud_txns <= r.txns)
  BY Zenon DEF Eval
<1>3. Eval("total_amt >= 0", r) = (r.total_amt >= 0)
  BY Zenon DEF Eval
<1> QED
  BY <1>1, <1>2, <1>3, ExpressionParts, Zenon DEF Proven, SomeTxns, NoMoreFrauds, NoNegative

LEMMA ExpressionTypes ==
    \A e \in {SomeTxns, NoMoreFrauds, NoNegative} :
        e.type = "expression" /\ e.severity = "error"
<1>1. SomeTxns.type = "expression" /\ SomeTxns.severity = "error"
  BY ExpressionParts, Zenon DEF SomeTxns
<1>2. NoMoreFrauds.type = "expression" /\ NoMoreFrauds.severity = "error"
  BY ExpressionParts, Zenon DEF NoMoreFrauds
<1>3. NoNegative.type = "expression" /\ NoNegative.severity = "error"
  BY ExpressionParts, Zenon DEF NoNegative
<1> QED
  BY <1>1, <1>2, <1>3

\* Gold computed from readable silver passes its contract.
LEMMA HourlyPasses ==
    ASSUME Readable(silver), hourly = CategoryHourly
    PROVE  Status(HourlyContract, HourlyTable, PeriodEnd) = "PASSED"
<1> DEFINE k == AllChecks(HourlyContract)
<1>1. PICK T : T = HourlyTable
  OBVIOUS
<1>2. T.rows = CategoryHourly /\ T.cols = HourlyColumns
  BY <1>1 DEF HourlyTable
<1>3. IsFiniteSet(T.rows)
  BY <1>2, HourlyIsFinite
<1>4. ASSUME NEW h \in T.rows
      PROVE  /\ h.trans_hour_ts \in Int /\ h.category \in Categories
             /\ h.txns \in Nat /\ h.fraud_txns \in Nat /\ h.total_amt \in Nat
             /\ h.txns > 0 /\ h.fraud_txns <= h.txns /\ h.total_amt >= 0
  <2>1. PICK r \in silver : r.trans_time = h.trans_hour_ts /\ r.category = h.category
    BY <1>2, HourlyRow
  <2>2. r.trans_time \in Int /\ r.category \in Categories
    BY DEF Readable
  <2>3. h.txns \in Nat /\ h.txns > 0 /\ h.fraud_txns \in Nat /\ h.fraud_txns <= h.txns
        /\ h.total_amt \in Nat
    BY <1>2, HourlySums
  <2> QED
    BY <2>1, <2>2, <2>3
<1>5. Null \notin Int /\ Null \notin Categories
  BY LandingAssumption
<1>6. ASSUME NEW h \in T.rows
      PROVE  \A c \in HourlyColumns : h[c] # Null
  BY <1>4, <1>5 DEF HourlyColumns
<1>7. Passes(k[1], T, PeriodEnd)
  BY <1>2, HourlyChecks DEF Passes, ColumnsOf, SchemaPasses
<1>8. Passes(k[2], T, PeriodEnd)
  <2>1. NotNullPasses(k[2], T)
    BY <1>3, <1>6, HourlyChecks, NoNulls DEF NotNullPasses
  <2> QED
    BY <1>2, <2>1, HourlyChecks DEF Passes, ColumnsOf
<1>9. Passes(k[3], T, PeriodEnd)
  <2> DEFINE C == {"trans_hour_ts", "category"}
             Key(h) == [c \in C |-> h[c]]
             K == {Key(h) : h \in T.rows}
             f == [h \in T.rows |-> Key(h)]
  <2>1. f \in [T.rows -> K] /\ \A t \in K : \E h \in T.rows : f[h] = t
    <3> HIDE DEF Key
    <3> QED
      OBVIOUS
  <2>2. ASSUME NEW h \in T.rows, NEW g \in T.rows, f[h] = f[g]
        PROVE  h = g
    <3>1. f[h]["trans_hour_ts"] = h.trans_hour_ts /\ f[h]["category"] = h.category
          /\ f[g]["trans_hour_ts"] = g.trans_hour_ts /\ f[g]["category"] = g.category
      OBVIOUS
    <3>2. h.trans_hour_ts = g.trans_hour_ts /\ h.category = g.category
      BY <2>2, <3>1
    <3> QED
      BY <1>2, <3>2, HourlyKeys
  <2>3. Cardinality(K) = Cardinality(T.rows)
    <3> HIDE DEF f, K
    <3> QED
      BY <1>3, <2>1, <2>2, FiniteImage
  <2>4. UniquePasses(k[3], T)
    BY <2>3, HourlyChecks DEF UniquePasses, Unique, Total
  <2>5. C \subseteq T.cols
    BY <1>2 DEF HourlyColumns
  <2> QED
    BY <2>4, <2>5, HourlyChecks DEF Passes, ColumnsOf, Unique
<1>10. ASSUME NEW h \in T.rows
       PROVE  Proven(SomeTxns, h) /\ Proven(NoMoreFrauds, h) /\ Proven(NoNegative, h)
  <2>1. h.fraud_txns # Null /\ h.total_amt # Null
    BY <1>4, <1>5
  <2>2. (h.txns > 0) = TRUE /\ (h.fraud_txns <= h.txns) = TRUE /\ (h.total_amt >= 0) = TRUE
    BY <1>4
  <2> QED
    BY <2>1, <2>2, ExpressionsOnRow
<1>11. \A i \in {4, 5, 6} : Passes(k[i], T, PeriodEnd)
  <2>1. \A e \in {SomeTxns, NoMoreFrauds, NoNegative} : Passes(e, T, PeriodEnd)
    BY <1>10, ExpressionTypes DEF Passes, ColumnsOf, ExpressionPasses
  <2> QED
    BY <2>1, HourlyChecks
<1>12. Passes(k[7], T, PeriodEnd)
  <2>1. PICK r \in silver : PeriodEnd - r.trans_time <= FreshFor
    BY DEF Readable
  <2>2. PICK h \in CategoryHourly : r \in GroupOf(h)
    BY HourlyCovers
  <2>3. h \in T.rows /\ h.trans_hour_ts # Null /\ PeriodEnd - h.trans_hour_ts <= FreshFor
    BY <1>2, <1>4, <1>5, <2>1, <2>2 DEF GroupOf
  <2>4. FreshnessPasses(k[7], T, PeriodEnd)
    BY <2>3, HourlyChecks DEF FreshnessPasses, Fresh
  <2>5. "trans_hour_ts" \in T.cols
    BY <1>2 DEF HourlyColumns
  <2> QED
    BY <2>4, <2>5, HourlyChecks DEF Passes, ColumnsOf, Fresh
<1>13. \A i \in 1 .. 7 : Passes(k[i], T, PeriodEnd)
  <2>1. \A i \in 1 .. 7 : i \in {1, 2, 3, 4, 5, 6, 7}
    OBVIOUS
  <2> HIDE DEF k
  <2> QED
    BY <1>7, <1>8, <1>9, <1>11, <1>12, <2>1
<1>14. \A s : Failed(HourlyContract, T, PeriodEnd, s) = {}
  BY <1>13, HourlyChecks DEF Failed
<1> QED
  BY <1>1, <1>14 DEF Status

\* Every row of silver is counted in one row of category_hourly_fraud.
LEMMA HourlyTotal ==
    ASSUME Readable(silver), hourly = CategoryHourly
    PROVE  Sum(hourly, "txns") = Cardinality(silver)
<1> DEFINE f == [h \in CategoryHourly |-> h["txns"]]
           A == [h \in CategoryHourly |-> GroupOf(h)]
<1>1. f \in [CategoryHourly -> Nat]
  BY HourlySums
<1>2. A \in [CategoryHourly -> SUBSET silver]
  BY DEF GroupOf
<1>3. \A h \in CategoryHourly : Cardinality(A[h]) = f[h]
  BY HourlyRow
<1>4. \A r \in silver : \E h \in CategoryHourly : r \in A[h]
  BY HourlyCovers
<1>5. ASSUME NEW h \in CategoryHourly, NEW g \in CategoryHourly, NEW r \in A[h], r \in A[g]
      PROVE  h = g
  BY <1>5, HourlyKeys DEF GroupOf
<1>6. IsFiniteSet(silver)
  BY DEF Readable
<1>7. Parts(CategoryHourly, f, A, silver)
  <2> HIDE DEF f, A
  <2> QED
    BY <1>1, <1>2, <1>3, <1>4, <1>5, <1>6 DEF Parts
<1>8. SumOf(f) = Cardinality(silver)
  <2> HIDE DEF f, A
  <2> QED
    BY <1>7, SumOfSizes
<1> QED
  BY <1>8 DEF Sum

\* The rows of silver a row of the daily counts is computed from.
DayOf(e) == {r \in silver : r.cc_num_hash = e.card /\ r.trans_time = e.day}

LEMMA DailyRow ==
    ASSUME NEW e \in DailyPerCard
    PROVE  /\ DOMAIN e = {"card", "day", "txns_that_day"}
           /\ e.txns_that_day = Cardinality(DayOf(e))
           /\ e = [card |-> e.card, day |-> e.day, txns_that_day |-> Cardinality(DayOf(e))]
           /\ \E r \in silver : r.cc_num_hash = e.card /\ r.trans_time = e.day
<1>1. PICK q \in silver :
        e = [card |-> q.cc_num_hash, day |-> q.trans_time,
             txns_that_day |-> Cardinality({r \in silver :
                 <<r.cc_num_hash, r.trans_time>> = <<q.cc_num_hash, q.trans_time>>})]
  <2>1. PICK k \in {<<r.cc_num_hash, r.trans_time>> : r \in silver} :
          e = [card |-> k[1], day |-> k[2],
               txns_that_day |-> Cardinality({r \in silver : <<r.cc_num_hash, r.trans_time>> = k})]
    BY DEF DailyPerCard
  <2>2. PICK q \in silver : k = <<q.cc_num_hash, q.trans_time>>
    OBVIOUS
  <2> QED
    BY <2>1, <2>2
<1>2. PICK G : G = {r \in silver :
                      <<r.cc_num_hash, r.trans_time>> = <<q.cc_num_hash, q.trans_time>>}
  OBVIOUS
<1>3. e = [card |-> q.cc_num_hash, day |-> q.trans_time, txns_that_day |-> Cardinality(G)]
  BY <1>1, <1>2
<1>4. DayOf(e) = G
  <2>1. e.card = q.cc_num_hash /\ e.day = q.trans_time
    BY <1>3
  <2> QED
    BY <1>2, <2>1 DEF DayOf
<1> QED
  BY <1>3, <1>4

LEMMA DailyCovers ==
    ASSUME NEW r \in silver
    PROVE  \E e \in DailyPerCard : e.card = r.cc_num_hash /\ e.day = r.trans_time
<1> DEFINE Row(k) ==
             [card |-> k[1], day |-> k[2],
              txns_that_day |-> Cardinality({q \in silver : <<q.cc_num_hash, q.trans_time>> = k})]
           k0 == <<r.cc_num_hash, r.trans_time>>
<1>1. Row(k0) \in DailyPerCard
  BY DEF DailyPerCard
<1>2. Row(k0).card = r.cc_num_hash /\ Row(k0).day = r.trans_time
  OBVIOUS
<1> HIDE DEF Row
<1> QED
  BY <1>1, <1>2

LEMMA DailyKeys ==
    ASSUME NEW d \in DailyPerCard, NEW e \in DailyPerCard, d.card = e.card, d.day = e.day
    PROVE  d = e
<1>1. DayOf(d) = DayOf(e)
  BY DEF DayOf
<1> QED
  BY <1>1, DailyRow

\* The sum over the window of days is the number of the card's rows of those days.
LEMMA TrailingCounts ==
    ASSUME Readable(silver), NEW d \in DailyPerCard
    PROVE  Sum(Trailing(d), "txns_that_day") =
               Cardinality({r \in silver :
                   r.cc_num_hash = d.card /\ r.trans_time \in d.day - 6 .. d.day})
<1> DEFINE D == Trailing(d)
           U == {r \in silver : r.cc_num_hash = d.card /\ r.trans_time \in d.day - 6 .. d.day}
           f == [e \in D |-> e["txns_that_day"]]
           A == [e \in D |-> DayOf(e)]
<1>1. IsFiniteSet(silver) /\ \A r \in silver : r.trans_time \in Int
  BY DEF Readable
<1>2. d.day \in Int
  BY <1>1, DailyRow
<1>3. \A e \in D : e \in DailyPerCard /\ e.card = d.card /\ d.day - 6 <= e.day /\ e.day <= d.day
  BY DEF Trailing
<1>4. ASSUME NEW e \in D
      PROVE  /\ DayOf(e) \in SUBSET U /\ IsFiniteSet(DayOf(e))
             /\ f[e] = Cardinality(DayOf(e)) /\ f[e] \in Nat
  <2>1. e \in DailyPerCard /\ e.card = d.card /\ d.day - 6 <= e.day /\ e.day <= d.day
    BY <1>3
  <2>2. f[e] = Cardinality(DayOf(e))
    BY <2>1, DailyRow
  <2>3. e.day \in Int
    BY <1>1, <2>1, DailyRow
  <2>4. DayOf(e) \in SUBSET U
    BY <1>2, <2>1, <2>3 DEF DayOf
  <2>5. IsFiniteSet(DayOf(e))
    <3>1. DayOf(e) \in SUBSET silver
      BY DEF DayOf
    <3> QED
      BY <1>1, <3>1, FS_Subset
  <2> QED
    BY <2>2, <2>4, <2>5, FS_CardinalityType
<1>5. IsFiniteSet(U)
  BY <1>1, FS_Subset
<1>6. f \in [D -> Nat]
  BY <1>4
<1>7. A \in [D -> SUBSET U]
  BY <1>4
<1>8. \A e \in D : Cardinality(A[e]) = f[e]
  BY <1>4
<1>9. ASSUME NEW r \in U
      PROVE  \E e \in D : r \in A[e]
  <2>1. r \in silver /\ r.cc_num_hash = d.card /\ r.trans_time \in d.day - 6 .. d.day
    OBVIOUS
  <2>2. PICK e \in DailyPerCard : e.card = r.cc_num_hash /\ e.day = r.trans_time
    BY <2>1, DailyCovers
  <2>3. e \in D
    BY <1>2, <2>1, <2>2 DEF Trailing
  <2>4. r \in DayOf(e)
    BY <2>1, <2>2 DEF DayOf
  <2> QED
    BY <2>3, <2>4
<1>10. ASSUME NEW x \in D, NEW y \in D, NEW r \in A[x], r \in A[y]
       PROVE  x = y
  <2>1. x.card = y.card /\ x.day = y.day
    BY <1>10 DEF DayOf
  <2>2. x \in DailyPerCard /\ y \in DailyPerCard
    BY <1>3
  <2> QED
    BY <2>1, <2>2, DailyKeys
<1>11. SumOf(f) = Cardinality(U)
  <2> HIDE DEF f, A, U, D
  <2>1. Parts(D, f, A, U)
    BY <1>5, <1>6, <1>7, <1>8, <1>9, <1>10 DEF Parts
  <2> QED
    BY <2>1, SumOfSizes
<1> QED
  BY <1>11 DEF Sum

\* A row of card_velocity_daily, by its card and day.
LEMMA VelocityRow ==
    ASSUME Readable(silver), velocity = CardVelocity, NEW d \in velocity
    PROVE  d.txns_trailing_7d =
               Cardinality({r \in silver :
                   r.cc_num_hash = d.card /\ r.trans_time \in d.day - 6 .. d.day})
<1>1. PICK e \in DailyPerCard :
        d = With(e, [txns_trailing_7d |-> Sum(Trailing(e), "txns_that_day")])
  BY DEF CardVelocity
<1>2. PICK s : s = Sum(Trailing(e), "txns_that_day")
  OBVIOUS
<1>3. d = With(e, [txns_trailing_7d |-> s])
  BY <1>1, <1>2
<1>4. DOMAIN e = {"card", "day", "txns_that_day"}
  BY DailyRow
<1>5. d.card = e.card /\ d.day = e.day /\ d.txns_trailing_7d = s
  BY <1>3, <1>4 DEF With
<1>6. s = Cardinality({r \in silver :
              r.cc_num_hash = e.card /\ r.trans_time \in e.day - 6 .. e.day})
  BY <1>2, TrailingCounts
<1> QED
  BY <1>5, <1>6

\* When the gold contract is checked, gold is what the stage computed from the silver of now.
GoldInv == pc = "goldcheck" => hourly = CategoryHourly /\ velocity = CardVelocity /\ served > 0

LEMMA InitGold == Init => GoldInv
  BY DEF Init, GoldInv

LEMMA NextGold ==
    ASSUME Typed, SilverInv, GoldInv, [Next]_vars
    PROVE  GoldInv'
<1>1. CASE Publish
  BY <1>1 DEF Publish, GoldInv
<1>2. CASE Begin
  BY <1>2 DEF Begin, GoldInv
<1>3. CASE Gate
  BY <1>3 DEF Gate, GoTo, GoldInv
<1>4. CASE LoadBronze
  BY <1>4 DEF LoadBronze, GoTo, GoldInv
<1>5. CASE CheckBronze
  BY <1>5 DEF CheckBronze, GoTo, GoldInv
<1>6. CASE Quarantine
  BY <1>6 DEF Quarantine, GoldInv
<1>7. CASE RejectGate
  BY <1>7 DEF RejectGate, GoTo, GoldInv
<1>8. CASE Stage
  BY <1>8 DEF Stage, GoTo, GoldInv
<1>9. CASE Audit
  BY <1>9 DEF Audit, GoTo, GoldInv
<1>10. CASE PublishSilver
  BY <1>10 DEF PublishSilver, GoTo, GoldInv
<1>11. CASE Gold
  <2>1. pc = "gold" /\ silver' = silver /\ served' = served
        /\ hourly' = CategoryHourly /\ velocity' = CardVelocity
    BY <1>11 DEF Gold, history
  <2>2. CategoryHourly' = CategoryHourly
    BY <2>1 DEF CategoryHourly
  <2>3. DailyPerCard' = DailyPerCard
    BY <2>1 DEF DailyPerCard
  <2>4. CardVelocity' = CardVelocity
    BY <2>3 DEF CardVelocity, Trailing
  <2>5. served > 0
    BY <2>1 DEF SilverInv
  <2> QED
    BY <2>1, <2>2, <2>4, <2>5 DEF GoldInv
<1>12. CASE CheckGold
  BY <1>12 DEF CheckGold, GoTo, GoldInv
<1>13. CASE Crash
  BY <1>13 DEF Crash, GoTo, GoldInv
<1>14. CASE \E s \in Splits : Files(s)
  <2>1. PICK s \in Splits : Files(s)
    BY <1>14
  <2>2. AfterFile(s) \in {"test", "gate"}
    BY DEF AfterFile
  <2>3. pc' \in {"idle", "test", "gate"}
    BY <2>1, <2>2 DEF Files, SkipDownload, Download, DownloadShort, DownloadBreaks, GoTo
  <2> QED
    BY <2>3 DEF GoldInv
<1>15. CASE UNCHANGED vars
  <2>1. pc' = pc /\ silver' = silver /\ served' = served
        /\ hourly' = hourly /\ velocity' = velocity
    BY <1>15 DEF vars, tables, history
  <2>2. CategoryHourly' = CategoryHourly
    BY <2>1 DEF CategoryHourly
  <2>3. DailyPerCard' = DailyPerCard
    BY <2>1 DEF DailyPerCard
  <2>4. CardVelocity' = CardVelocity
    BY <2>3 DEF CardVelocity, Trailing
  <2> QED
    BY <2>1, <2>2, <2>4 DEF GoldInv
<1> QED
  BY <1>1, <1>2, <1>3, <1>4, <1>5, <1>6, <1>7, <1>8, <1>9, <1>10, <1>11, <1>12, <1>13, <1>14,
     <1>15 DEF Next, Stages

LEMMA ServedIsReadable ==
    ASSUME Typed, SilverInv, served > 0
    PROVE  Readable(silver)
<1>1. PICK n \in 0 .. Len(loads) : n = served
  BY DEF Typed, TypeOK
<1>2. NewestOf(silver, n) /\ Audited(silver)
  BY <1>1 DEF SilverInv
<1>3. IsFiniteSet(silver)
  BY <1>2, NewestIsFinite DEF Typed
<1>4. PICK T : T = TableOf(silver)
  OBVIOUS
<1>5. T.rows = silver
  BY <1>4 DEF TableOf
<1>6. /\ \A c \in SilverRequired : \A r \in silver : r[c] # Null
      /\ \A r \in silver : r.category \in Categories \cup {Null}
      /\ \E r \in silver : PeriodEnd - r.trans_time <= FreshFor
  <2>1. ~Raises(SilverContract, T, PeriodEnd) /\ IsFiniteSet(T.rows)
    BY <1>2, <1>3, <1>4, <1>5 DEF Audited
  <2> QED
    BY <1>5, <2>1, PassedAudit
<1>7. ASSUME NEW r \in silver
      PROVE  /\ r.trans_time \in Int /\ r.category \in Categories
             /\ r.amt \in Nat /\ r.is_fraud \in {0, 1}
  <2>1. r.trans_time \in Int /\ r.amt \in 1 .. MaxAmt /\ r.is_fraud \in {0, 1}
    BY <1>2, NewestRow DEF Typed
  <2>2. "category" \in SilverRequired
    BY DEF SilverRequired
  <2>3. r.category \in Categories
    BY <1>6, <2>2
  <2> QED
    BY <2>1, <2>3
<1> QED
  BY <1>3, <1>6, <1>7 DEF Readable

\* Gold computed from audited silver passes its contract, accounts for every row of silver
\* once, and counts a card's rows of the last seven calendar days, gaps or not (gold.py
\* category_hourly_fraud, card_velocity_daily; conf/contracts/gold_category_hourly_fraud.yml).
THEOREM GoldFollowsSilverAlways == Spec => []GoldFollowsSilver
<1>1. ASSUME Typed, SilverInv, GoldInv
      PROVE  GoldFollowsSilver
  <2> SUFFICES ASSUME pc = "goldcheck"
               PROVE  /\ Status(HourlyContract, HourlyTable, PeriodEnd) = "PASSED"
                      /\ Sum(hourly, "txns") = Cardinality(silver)
                      /\ \A d \in velocity :
                          d.txns_trailing_7d = Cardinality({r \in silver :
                              r.cc_num_hash = d.card /\ r.trans_time \in d.day - 6 .. d.day})
    BY DEF GoldFollowsSilver
  <2>1. hourly = CategoryHourly /\ velocity = CardVelocity /\ served > 0
    BY <1>1 DEF GoldInv
  <2>2. Readable(silver)
    BY <1>1, <2>1, ServedIsReadable
  <2> QED
    BY <2>1, <2>2, HourlyPasses, HourlyTotal, VelocityRow
<1>2. Init => Typed /\ SilverInv /\ GoldInv
  BY InitTyped, InitSilver, InitGold
<1>3. Typed /\ SilverInv /\ GoldInv /\ [Next]_vars => (Typed /\ SilverInv /\ GoldInv)'
  BY NextTyped, NextSilver, NextGold
<1> QED
  BY <1>1, <1>2, <1>3, PTL DEF Spec
=============================================================================
