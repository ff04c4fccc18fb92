--------------------------- MODULE DatasetImport ---------------------------
(***************************************************************************)
(* The import of one market-data file (data/schema.py, data/temporal.py,   *)
(* data/cleaning.py, data/quality.py and _canonicalize in data/ingest.py): *)
(* detection of the date order, validation of the declaration, the loop of *)
(* clean() that reads one line after another, the check of the declared    *)
(* bar interval against each instrument, and the move of start-stamped     *)
(* bars to the end of their interval.                                      *)
(*                                                                         *)
(* What the file really means is in `truth`: the order its dates are       *)
(* written in, how long each instrument's bars are, and the change of the  *)
(* UTC offset of its zone.  The importer never reads it; the properties    *)
(* compare what it concludes with it.                                      *)
(***************************************************************************)
EXTENDS Integers, FiniteSets, Sequences

CONSTANTS
    Symbols,     \* instruments
    MaxLabel,    \* bound on the times written in the file, in the unit of its bars
    Defects,     \* what can be wrong with a line, besides its time
    Policies,    \* cleaning policies
    Declarations,  \* what a user may say a file means
    Units,       \* bar intervals
    Truths,      \* what a file may mean
    Change,      \* the instant at which the zone's offset changes
    MaxLines,    \* bound on the file
    SampleRows   \* how many lines the detection reads

ASSUME ImportAssumption ==
    /\ MaxLabel \in Nat /\ MaxLines \in Nat /\ SampleRows \in Nat \ {0} /\ Change \in Nat
    /\ Units \subseteq Nat \ {0}
    /\ Truths \subseteq [kind : {"date", "naive", "aware"}, written : {"iso", "dmy", "mdy"},
                         shift : {-1, 1}, unit : [Symbols -> Units]]
    /\ Declarations \subseteq [convention : {"session_date", "interval_start", "interval_end"},
                               zone : BOOLEAN, unit : Units, confirmed : SUBSET Symbols]
    /\ Policies \subseteq [duplicates : {"keep_first", "keep_last", "reject_dataset"},
                           ordered : BOOLEAN, fill : BOOLEAN]

VARIABLES
    truth,        \* what the file means
    text,         \* the lines of the file
    declaration,  \* what the user says its timestamps mean
    policy,       \* the cleaning policy
    stage,
    line,         \* how many lines have been read
    rows,         \* canonical rows
    rejected,     \* lines that could not be used, and why
    dropped,      \* lines superseded by a later one, and by which
    seen,         \* the line that has each instrument and time
    latest        \* the latest time read for each instrument

importVars == <<truth, text, declaration, policy, stage, line, rows, rejected, dropped, seen, latest>>
read == <<line, rows, rejected, dropped, seen, latest>>
-----------------------------------------------------------------------------
Nothing == "nothing"
Labels == 0 .. MaxLabel

Zoned == {"date", "naive"}

(* What a line may lack, and why it is rejected for it: a short one ends   *)
(* before its time, a cut one before its close.  The values of open, high  *)
(* and low may be filled from the close.                                   *)
Reason == [short |-> "malformed_row", cut |-> "malformed_row", no_time |-> "missing_timestamp",
           no_open |-> "missing_price", no_close |-> "missing_price", bad_price |-> "invalid_price",
           zero_price |-> "non_positive_price", crossed |-> "inconsistent_ohlc",
           bad_volume |-> "negative_volume"]

(* The wall clock of the zone shows instant t as Wall(t): the offset       *)
(* changes by truth.shift at Change.                                       *)
Offset(t) == IF t < Change THEN 0 ELSE truth.shift
Wall(t) == IF truth.kind = "naive" THEN t + Offset(t) ELSE t

(* The instants a label can name: none or two around the change.           *)
Horizon == 0 .. MaxLabel + 4
Instants(label) == {t \in Horizon : Wall(t) = label}

(* A date is written day first or month first; days above 12 give it away, *)
(* in the lines that have one.                                             *)
BigDay(label) == label >= 2
FirstBig(l) == truth.written = "dmy" /\ BigDay(l.label)
SecondBig(l) == truth.written = "mdy" /\ BigDay(l.label)
Dated(l) == l.defect \notin {"short", "no_time"}

Sample == {l \in {text[i] : i \in {j \in 1 .. Len(text) : j <= SampleRows}} : Dated(l)}

(* _detect_timestamp_format; the mutant assumes the day comes first when   *)
(* nothing tells.                                                          *)
AssumeDayFirst ==
    IF Sample = {} THEN Nothing ELSE IF truth.written = "iso" THEN "iso"
    ELSE IF \E l \in Sample : SecondBig(l) THEN "mdy" ELSE "dmy"
Format ==
    IF truth.written = "iso" /\ Sample # {} THEN "iso"
    ELSE IF \E l \in Sample : FirstBig(l) THEN "dmy"
    ELSE IF \E l \in Sample : SecondBig(l) THEN "mdy"
    ELSE Nothing

(* TimestampSurvey.conventions *)
Allowed == IF truth.kind = "date" THEN {"session_date", "interval_end"}
           ELSE {"interval_start", "interval_end"}

(* validate and _with_interval *)
Valid(d) ==
    /\ d.convention \in Allowed
    /\ d.zone <=> truth.kind \in Zoned
    /\ d.convention = "session_date" => d.unit = 1

(* A line without a time: its label means nothing. *)
Lines == {l \in [sym : Symbols, label : Labels, defect : Defects] : Dated(l) \/ l.label = 0}

ImportInit ==
    /\ truth \in Truths
    /\ text = <<>>
    /\ declaration = Nothing
    /\ policy = Nothing
    /\ stage = "upload"
    /\ line = 0
    /\ rows = {}
    /\ rejected = {}
    /\ dropped = {}
    /\ seen = [key \in Symbols \X Horizon |-> 0]
    /\ latest = [s \in Symbols |-> -1]
-----------------------------------------------------------------------------
(* The file the user has: bars of one instrument do not overlap.           *)
Fits(l) ==
    \A i \in 1 .. Len(text) :
        text[i].sym = l.sym /\ Dated(text[i]) /\ Dated(l) =>
            \/ text[i].label = l.label
            \/ l.label - text[i].label >= truth.unit[l.sym]
            \/ text[i].label - l.label >= truth.unit[l.sym]

Write(l) ==
    /\ stage = "upload" /\ Len(text) < MaxLines
    /\ Fits(l)
    /\ text' = Append(text, l)
    /\ UNCHANGED <<truth, declaration, policy, stage, read>>

(* _declared: refused before anything is stored, unless the file cannot be *)
(* read at all, which clean() reports.                                     *)
Declare(d, p) ==
    /\ stage = "upload" /\ text # <<>>
    /\ declaration' = d
    /\ policy' = p
    /\ stage' = IF Format = Nothing THEN "failed" ELSE IF Valid(d) THEN "clean" ELSE "refused"
    /\ UNCHANGED <<truth, text, read>>
-----------------------------------------------------------------------------
(* One iteration of the loop of clean().                                   *)
Current == text[line + 1]

(* label_instant: the one instant the line's label names. *)
Readable == Cardinality(Instants(Current.label)) = 1
Time == CHOOSE t \in Instants(Current.label) : TRUE
Key == <<Current.sym, Time>>

Filled(l) == l.defect = "no_open" /\ policy.fill
UsableLine(l) == l.defect = "none" \/ Filled(l)

Repeated == seen[Key] # 0

(* Out of order is a property of one instrument's series; the mutant has   *)
(* one high-water mark for the file.                                       *)
BackwardsInFile == policy.ordered /\ \E s \in Symbols : Time < latest[s]
Backwards == policy.ordered /\ Time < latest[Current.sym]

(* The row a KEEP_LAST line replaces.  The mutant finds it by its time     *)
(* alone.                                                                  *)
SameTime == IF policy.duplicates = "keep_last" /\ Repeated THEN {r \in rows : r.time = Time} ELSE {}
Superseded == IF policy.duplicates = "keep_last" /\ Repeated
              THEN {r \in rows : r.sym = Current.sym /\ r.time = Time}
              ELSE {}

CanonicalRow == [sym |-> Current.sym, time |-> Time, line |-> line + 1, label |-> Current.label]

Reject(why) ==
    /\ rejected' = rejected \cup {[line |-> line + 1, why |-> why]}
    /\ line' = line + 1
    /\ UNCHANGED <<rows, dropped, seen, latest, stage>>

(* The time of a line is looked at before its prices. *)
WhyUnusable ==
    IF Readable \/ Current.defect \in {"short", "cut", "no_time"} THEN Reason[Current.defect]
    ELSE "invalid_timestamp"

Unusable == ~(UsableLine(Current) /\ Readable) /\ Reject(WhyUnusable)

Duplicate ==
    /\ UsableLine(Current) /\ Readable /\ Repeated
    /\ \/ policy.duplicates = "keep_first" /\ Reject("duplicate")
       \/ /\ policy.duplicates = "reject_dataset"
          /\ stage' = "failed"
          /\ rows' = {}
          /\ UNCHANGED <<line, rejected, dropped, seen, latest>>

Accept ==
    /\ UsableLine(Current) /\ Readable
    /\ Repeated => policy.duplicates = "keep_last"
    /\ dropped' = IF Superseded = {} THEN dropped
                  ELSE dropped \cup {[line |-> seen[Key], by |-> line + 1]}
    /\ line' = line + 1
    /\ IF Backwards
       THEN /\ rows' = rows \ Superseded
            /\ rejected' = rejected \cup {[line |-> line + 1, why |-> "out_of_order"]}
            /\ UNCHANGED <<seen, latest>>
       ELSE /\ rows' = (rows \ Superseded) \cup {CanonicalRow}
            /\ seen' = [seen EXCEPT ![Key] = line + 1]
            /\ latest' = [latest EXCEPT ![Current.sym] = IF @ > Time THEN @ ELSE Time]
            /\ UNCHANGED rejected
    /\ UNCHANGED stage

ReadLine ==
    /\ stage = "clean" /\ line < Len(text)
    /\ Unusable \/ Duplicate \/ Accept
    /\ UNCHANGED <<truth, text, declaration, policy>>
-----------------------------------------------------------------------------
(* check_spacing, for one instrument.                                      *)
Position(t) == IF truth.kind \in Zoned THEN Wall(t) ELSE t
Positions(s) == {Position(r.time) : r \in {x \in rows : x.sym = s}}

(* The gaps between consecutive bars. *)
Gaps(s) ==
    {g \in 1 .. MaxLabel + 4 :
        \E p \in Positions(s) :
            p + g \in Positions(s) /\ \A q \in Positions(s) : q <= p \/ q >= p + g}

(* _fixed_steps *)
Regular(s) == \A g \in Gaps(s) : g >= declaration.unit /\ g % declaration.unit = 0

(* _refuse_bars_spanning_an_offset_change *)
Spans(s) ==
    (truth.kind = "naive" /\ declaration.convention = "interval_start") =>
        \A r \in rows : r.sym = s => Offset(r.time) = Offset(r.time + declaration.unit)

Present == {r.sym : r \in rows}

(* The instruments whose own bars never show the interval.  In the mutant  *)
(* one instrument vouches for the others, as before record version 3.      *)
AmbiguousFile == IF \E s \in Present : declaration.unit \in Gaps(s) THEN {} ELSE Present
Ambiguous == {s \in Present : declaration.unit \notin Gaps(s)}

(* _check_confirmation *)
Confirmed == declaration.confirmed = Ambiguous

(* _to_interval_end *)
EndOf(t) == IF declaration.convention = "interval_start" THEN t + declaration.unit ELSE t

Canonicalize ==
    /\ stage = "clean" /\ line = Len(text)
    /\ IF rows # {} /\ (\A s \in Present : Regular(s) /\ Spans(s)) /\ Confirmed
       THEN /\ stage' = "pending"
            /\ rows' = {[r EXCEPT !.time = EndOf(r.time)] : r \in rows}
       ELSE stage' = "failed" /\ rows' = {}
    /\ UNCHANGED <<truth, text, declaration, policy, line, rejected, dropped, seen, latest>>

ImportNext ==
    \/ \E l \in Lines : Write(l)
    \/ \E d \in Declarations, p \in Policies : Declare(d, p)
    \/ ReadLine
    \/ Canonicalize

ImportSpec == ImportInit /\ [][ImportNext]_importVars
-----------------------------------------------------------------------------
(***************************************************************************)
(* analyse(): the quality report of the rows.  The score is 100 less a     *)
(* weighted share of the lines; here it is times the number of lines.      *)
(***************************************************************************)
Times == {r.time : r \in rows}
Followed == {t \in Times : \E u \in Times : u > t}
Gap(t) == CHOOSE g \in 1 .. MaxLabel + 4 :
              t + g \in Times /\ \A u \in Times : u <= t \/ u >= t + g

(* infer_frequency: the median gap, of three times or more.                *)
Kth(k) == CHOOSE g \in {Gap(t) : t \in Followed} :
              /\ Cardinality({t \in Followed : Gap(t) <= g}) >= k
              /\ Cardinality({t \in Followed : Gap(t) < g}) < k
TwiceTypical ==
    LET n == Cardinality(Followed) IN Kth((n + 1) \div 2) + Kth(n \div 2 + 1)
Frequent == Cardinality(Times) >= 3

(* One bar interval is a frequency of the table, other gaps are not. *)
Irregular == ~Frequent \/ TwiceTypical # 2

(* _count_gaps *)
GapCount == IF Frequent
            THEN Cardinality({t \in Followed : 20 * Gap(t) > 19 * TwiceTypical}) ELSE 0

Rejections(why) == Cardinality({x \in rejected : x.why \in why})

(* What a share is of: the lines read; in the mutant, those accepted.      *)
AcceptedLines == Cardinality(rows)
Total == Len(text)

Penalty ==
    LET capped == 10 * GapCount
        cap == 5 * Total
    IN  45 * Cardinality(rejected) + 15 * Rejections({"duplicate"})
        + 20 * Rejections({"invalid_price", "non_positive_price", "inconsistent_ohlc"})
        + 15 * Rejections({"malformed_row"}) + 10 * Rejections({"out_of_order"})
        + (IF capped < cap THEN capped ELSE cap) + (IF Irregular THEN 3 * Total ELSE 0)

(* _score: 0 when an error was found. *)
Score == IF stage = "pending" /\ Penalty < 100 * Total THEN 100 * Total - Penalty ELSE 0

(* interval_summary, and what temporal_evidence says of a version's bars.  *)
IntervalStatus ==
    IF stage # "pending" THEN "none"
    ELSE IF declaration.confirmed = {} THEN "validated" ELSE "missing_observations_confirmed"
Evidence ==
    [status |-> IntervalStatus,
     user_declared |-> IF IntervalStatus = "none" THEN {} ELSE declaration.confirmed]
-----------------------------------------------------------------------------
(* The line numbers a set of records speaks of. *)
LinesOf(S) == {x.line : x \in S}

ImportTypeOK ==
    /\ truth \in Truths
    /\ text \in Seq(Lines)
    /\ stage \in {"upload", "refused", "clean", "pending", "failed"}
    /\ stage \in {"clean", "pending"} => declaration \in Declarations /\ policy \in Policies
    /\ line \in 0 .. Len(text)
    /\ rows \subseteq [sym : Symbols, time : Int, line : 1 .. line, label : Labels]
    /\ LinesOf(rejected) \subseteq 1 .. line
    /\ dropped \subseteq [line : 1 .. line, by : 1 .. line]
    /\ seen \in [Symbols \X Horizon -> 0 .. line]
    /\ latest \in [Symbols -> Horizon \cup {-1}]

(* "Nothing is dropped without a record": every line read is a canonical   *)
(* row, rejected with a reason, or superseded, and never two of these.     *)
Accounted ==
    stage \in {"clean", "pending"} =>
        /\ LinesOf(rows) \cup LinesOf(rejected) \cup LinesOf(dropped) = 1 .. line
        /\ LinesOf(rows) \cap LinesOf(rejected) = {}
        /\ LinesOf(rows) \cap LinesOf(dropped) = {}
        /\ LinesOf(dropped) \cap LinesOf(rejected) = {}

(* The rows are the ones the policies describe: usable lines that did not  *)
(* go backwards in their instrument's series, of those with one instrument *)
(* and time the first or the last.  A last one that went backwards still   *)
(* takes the earlier bar with it.                                          *)
KeptAsDeclared ==
    LET Read == {i \in 1 .. line : /\ UsableLine(text[i])
                                   /\ Cardinality(Instants(text[i].label)) = 1}
        TimeOf(i) == CHOOSE t \in Instants(text[i].label) : TRUE
        Series(i) == {j \in Read : text[j].sym = text[i].sym}
        InOrder(i) == policy.ordered => \A j \in Series(i) : j < i => TimeOf(j) <= TimeOf(i)
        Same(i) == {j \in Series(i) : TimeOf(j) = TimeOf(i)}
    IN  stage \in {"clean", "pending"} =>
            LinesOf(rows) =
                {i \in Read :
                    /\ InOrder(i)
                    /\ \A j \in Same(i) :
                          IF policy.duplicates = "keep_last" THEN j <= i
                          ELSE j < i => ~InOrder(j)}

(* Day and month are never swapped: a file that is read is read in the     *)
(* order it was written in.                                                *)
DatesNeverSwapped ==
    stage \in {"clean", "pending"} => Format = truth.written

(* No lookahead: when a bar is stamped, its interval is over on the clock  *)
(* of its zone, whatever interval was declared and however the offset      *)
(* changed, unless the evidence shown with the version names the           *)
(* instrument as one the user vouched for.                                 *)
NoLookahead ==
    stage = "pending" =>
        \A r \in rows :
            Evidence.status = "validated" \/ r.sym \notin Evidence.user_declared =>
                Wall(r.time) >= r.label + (IF declaration.convention = "interval_start"
                                           THEN truth.unit[r.sym] ELSE 0)

(* "Errors floor the score at 0 because a dataset that cannot be built has *)
(* no quality to grade": only those score 0, however many lines were       *)
(* rejected and for whatever reasons.                                      *)
ScoreTellsBuildable == Score > 0 <=> stage = "pending"
=============================================================================
