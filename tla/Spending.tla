------------------------------ MODULE Spending ------------------------------
(***************************************************************************)
(* What the read side of the store computes from one tenant's              *)
(* transactions: the dashboard's statistics and charts, the heatmap, the   *)
(* monthly breakdown, the facets, and the filtered, paged listing that the *)
(* dashboard's slices and cells open.  Every query is an operator of the   *)
(* rows; the actions are the writes between them.                          *)
(*                                                                         *)
(* Time is counted in hours of a small calendar and a time zone is a fixed *)
(* offset.  The columns source, source_type and bank are treated alike by  *)
(* the code, and so are category and bucket.                               *)
(***************************************************************************)
EXTENDS Integers, FiniteSets, FiniteSetsExt, Functions

CONSTANTS Ids, Amount,         \* transactions and their amounts
          InBase,              \* those in the base currency
          TagNames,              \* of categories, buckets, sources, banks and labels
          Like,                  \* <<n, p>>: n ILIKE '%p%'
          Taxonomy, SourceColumns,  \* columns with and without an "Uncategorized" slice
          Rows,                \* the rows that may be stored
          Instants, Offsets,   \* values of the clock and of app.timezone
          HoursPerDay, DaysPerWeek, DaysPerMonth, MonthsPerYear, RecentDays,
          BreakdownMonths,     \* 12
          LabelLimit, MaxInt,  \* LIMIT 20; math.MaxInt
          Untagged, Absent

ASSUME IdsAssumption == IsFiniteSet(Ids) /\ Cardinality(Ids) <= MaxInt
ASSUME AmountAssumption == Amount \in [Ids -> Int]
ASSUME CalendarAssumption ==
  /\ {HoursPerDay, DaysPerWeek, DaysPerMonth, MonthsPerYear, LabelLimit, MaxInt} \subseteq Nat \ {0}
  /\ BreakdownMonths \in Nat \ {0, 1}
  /\ Instants \cup Offsets \subseteq Int
ASSUME ColumnsAssumption == "category" \in Taxonomy /\ Untagged \notin TagNames \cup {"category"}
ASSUME LikeAssumption == \A n \in TagNames : <<n, n>> \in Like

Dimensions == Taxonomy \cup SourceColumns

TransactionRow == [ts: Int, val: [Dimensions -> TagNames \cup {Untagged}], labels: SUBSET TagNames,
        muted: BOOLEAN, byMerchant: BOOLEAN]

Page == [transactions: SUBSET Ids, total: Nat, total_amount: Int]

ASSUME RowsAssumption == Rows \subseteq TransactionRow
ASSUME NothingAssumption == Absent \notin Int \cup TransactionRow \cup Page

VARIABLES rows,  \* transactions and their labels
          now,   \* the server's clock
          tz     \* app.timezone

spendingVars == <<rows, now, tz>>

SpendingInit ==
  /\ rows = [i \in Ids |-> Absent]
  /\ now \in Instants
  /\ tz \in Offsets

Store(i, r) ==
  /\ rows' = [rows EXCEPT ![i] = r]
  /\ UNCHANGED <<now, tz>>

Tick ==
  /\ \E t \in Instants : t > now /\ now' = t
  /\ UNCHANGED <<rows, tz>>

SetAppTimezone(z) ==
  /\ tz' = z
  /\ UNCHANGED <<rows, now>>

SpendingNext ==
  \/ \E i \in Ids, r \in Rows : Store(i, r)
  \/ Tick
  \/ \E z \in Offsets : SetAppTimezone(z)

SpendingSpec == SpendingInit /\ [][SpendingNext]_spendingVars

-----------------------------------------------------------------------------
\* The calendar

HoursPerMonth == HoursPerDay * DaysPerMonth

Local(t) == t + tz
Hour(t) == Local(t) % HoursPerDay
Day(t) == Local(t) \div HoursPerDay
Weekday(t) == Day(t) % DaysPerWeek
DayOfMonth(t) == Day(t) % DaysPerMonth
Month(t) == Local(t) \div HoursPerMonth
Year(t) == Month(t) \div MonthsPerYear

\* time.Date(year, month, 1, 0, 0, 0, 0, loc).UTC()
StartUTC(month) == month * HoursPerMonth - tz

-----------------------------------------------------------------------------
\* Sums

SumOver(f, S) == MapThenSumSet(LAMBDA k : f[k], S)

Total(S) == SumOver(Amount, S)

\* GROUP BY: the transactions' keys are a function of them.
GroupBy(key) == [k \in Range(key) |-> Total({i \in DOMAIN key : key[i] = k})]

SumOf(f) == SumOver(f, DOMAIN f)

Saved == {i \in Ids : rows[i] # Absent}
Unmuted == {i \in Saved : ~rows[i].muted}
Between(start, end) == {i \in Unmuted : rows[i].ts >= start /\ rows[i].ts < end}
Since(start) == {i \in Unmuted : rows[i].ts >= start}

-----------------------------------------------------------------------------
\* Statistics and charts of a set of transactions

Uncategorized == "Uncategorized"

Slice(i, c) == IF rows[i].val[c] = Untagged THEN Uncategorized ELSE rows[i].val[c]

LabelSlices(i) == IF rows[i].labels = {} THEN {Uncategorized} ELSE rows[i].labels

ByTaxonomy(c, S) == GroupBy([i \in S |-> Slice(i, c)])

BySource(c, S) ==
  GroupBy([i \in {j \in S : rows[j].val[c] # Untagged} |-> rows[i].val[c]])

ByColumn(c, S) == IF c \in Taxonomy THEN ByTaxonomy(c, S) ELSE BySource(c, S)

\* A transaction counts in the slice of each of its labels.
AllLabels(S) ==
  [l \in UNION {LabelSlices(i) : i \in S} |-> Total({i \in S : l \in LabelSlices(i)})]

\* ORDER BY SUM(amount) DESC LIMIT 20, ties in favour of both.
ByLabel(S) ==
  LET all == AllLabels(S)
  IN Restrict(all, {l \in DOMAIN all :
                      Cardinality({k \in DOMAIN all : all[k] > all[l]}) < LabelLimit})

MonthlySpend(S) == GroupBy([i \in S |-> Month(rows[i].ts)])
DailySpend(S) == GroupBy([i \in S |-> Day(rows[i].ts)])

Stats(S) == [TotalCount |-> Cardinality(S),
             TotalBase |-> Total(S \cap InBase),
             TotalByCategory |-> ByTaxonomy("category", S)]

statsReadModel == Stats(Unmuted)
getStatsBetween(start, end) == Stats(Between(start, end))

queryCategoryMonthlyBetween(start, end) ==
  LET prior == StartUTC(Month(start) - 1)
  IN [k \in {Slice(i, "category") : i \in Between(prior, end)} |->
       [Current |-> Total({i \in Between(start, end) : Slice(i, "category") = k}),
        Prior |-> Total({i \in Between(prior, start) : Slice(i, "category") = k})]]

\* Fault: the month of the dashboard is the month of UTC.
utcMonthBounds(t) ==
  [startUTC |-> (t \div HoursPerMonth) * HoursPerMonth,
   endUTC |-> (t \div HoursPerMonth + 1) * HoursPerMonth]

dashboardMonthBounds(t) == [startUTC |-> StartUTC(Month(t)), endUTC |-> StartUTC(Month(t) + 1)]

Charts(S, monthly, daily, start, end) ==
  [MonthlySpend |-> MonthlySpend(monthly),
   DailySpend |-> DailySpend(daily),
   ByColumn |-> [c \in Dimensions |-> ByColumn(c, S)],
   ByLabel |-> ByLabel(S),
   ByCategoryMonthly |-> queryCategoryMonthlyBetween(start, end)]

getChartDataBetween(start, end) ==
  LET S == Between(start, end) IN Charts(S, S, S, start, end)

getChartDataAt(t) ==
  LET w == dashboardMonthBounds(t)
  IN Charts(Unmuted, Since(t - HoursPerMonth * MonthsPerYear), Since(t - HoursPerDay * RecentDays),
            w.startUTC, w.endUTC)

dashboardDataReadModel ==
  LET w == dashboardMonthBounds(now)
  IN [current |-> [stats |-> getStatsBetween(w.startUTC, w.endUTC),
                   charts |-> getChartDataBetween(w.startUTC, w.endUTC)],
      allTime |-> [stats |-> statsReadModel, charts |-> getChartDataAt(now)]]

\* Both ends are included.
buildHeatmapWhere(from, to) ==
  {i \in Unmuted : /\ from = Absent \/ rows[i].ts >= from
                   /\ to = Absent \/ rows[i].ts <= to}

spendingHeatmapReadModel(from, to) ==
  LET S == buildHeatmapWhere(from, to)
  IN [ByWeekdayHour |-> GroupBy([i \in S |-> <<Weekday(rows[i].ts), Hour(rows[i].ts)>>]),
      ByDayOfMonth |-> GroupBy([i \in S |-> DayOfMonth(rows[i].ts)])]

annualSpendReadModel(year) ==
  GroupBy([i \in {j \in Unmuted : Year(rows[j].ts) = year} |-> Day(rows[i].ts)])

\* A year, or a range that may be open, but not both.
GetHeatmap(from, to, year) ==
  IF year = Absent THEN spendingHeatmapReadModel(from, to)
  ELSE IF from # Absent \/ to # Absent THEN Absent
  ELSE annualSpendReadModel(year)

\* A row per label, category or bucket, a column for each of the last months.
monthlyBreakdownSpendReadModel(dimension, months) ==
  LET first == Month(now) - (months - 1)
      S == Since(StartUTC(first))
      keys(i) == IF dimension = "labels" THEN LabelSlices(i) ELSE {Slice(i, dimension)}
  IN [k \in UNION {keys(i) : i \in S} |->
       [m \in first .. Month(now) |-> Total({i \in S : k \in keys(i) /\ Month(rows[i].ts) = m})]]

GetLabelMonthlySpend(dimension) ==
  monthlyBreakdownSpendReadModel(IF dimension = Untagged THEN "labels" ELSE dimension, BreakdownMonths)

-----------------------------------------------------------------------------
\* The listing

\* The filter of a request without parameters (tz falls back to app.timezone).
NoFilter ==
  [muted |-> "hide", like |-> [c \in Dimensions |-> Untagged], missing |-> {},
   exclude |-> [c \in Dimensions |-> {}], label |-> Untagged, labelMissing |-> FALSE,
   excludeLabels |-> {}, from |-> Absent, to |-> Absent,
   weekday |-> Absent, hourFrom |-> Absent, hourTo |-> Absent]

MutedWhere(i, mode) ==
  CASE mode = "individual" -> rows[i].muted /\ ~rows[i].byMerchant
    [] mode = "only" -> rows[i].muted
    [] mode = "hide" -> ~rows[i].muted
    [] mode = "show" -> TRUE

ILike(v, p) == v # Untagged /\ <<v, p>> \in Like

\* Fault: transactions without a value pass the exclusion of other values.
appendPermissiveWhere(i, f) ==
  /\ \A c \in Dimensions :
       /\ f.like[c] # Untagged => ILike(rows[i].val[c], f.like[c])
       /\ c \in f.missing => rows[i].val[c] = Untagged
       /\ rows[i].val[c] \notin f.exclude[c]
  /\ f.excludeLabels # {} => rows[i].labels \ f.excludeLabels # {}
  /\ f.labelMissing => rows[i].labels = {}

\* Excluding values also excludes the transactions that have none.
appendTaxonomyListWhere(i, f) ==
  /\ \A c \in Dimensions :
       /\ f.like[c] # Untagged => ILike(rows[i].val[c], f.like[c])
       /\ c \in f.missing => rows[i].val[c] = Untagged
       /\ f.exclude[c] # {} => rows[i].val[c] \notin f.exclude[c] \cup {Untagged}
  /\ f.excludeLabels # {} => rows[i].labels \ f.excludeLabels # {}
  /\ f.labelMissing => rows[i].labels = {}

\* The rows of the statement: one for each label that matches, if a label is asked for.
Joined(f) ==
  {e \in Saved \X (TagNames \cup {Untagged}) :
     IF f.label = Untagged THEN e[2] = Untagged
     ELSE e[2] \in rows[e[1]].labels /\ ILike(e[2], f.label)}

buildListWhere(i, f) ==
  LET t == rows[i].ts
  IN /\ MutedWhere(i, f.muted)
     /\ appendTaxonomyListWhere(i, f)
     /\ f.from # Absent => t >= f.from
     /\ f.to # Absent => t <= f.to
     /\ f.weekday # Absent => Weekday(t) = f.weekday
     /\ f.hourFrom # Absent => Hour(t) >= f.hourFrom
     /\ f.hourTo # Absent => Hour(t) <= f.hourTo

Selected(f) == {e \in Joined(f) : buildListWhere(e[1], f)}

\* SELECT DISTINCT
Listing(f) == {e[1] : e \in Selected(f)}

\* Fault: every row of the join is counted.
TotalsOfJoin(f) ==
  [total |-> Cardinality(Selected(f)),
   amount |-> MapThenSumSet(LAMBDA e : Amount[e[1]], Selected(f))]

queryTransactionTotals(f) == [total |-> Cardinality(Listing(f)), amount |-> Total(Listing(f))]

\* A page whose offset does not fit an int is refused.
transactionOffset(page, size) == IF page - 1 > MaxInt \div size THEN Absent ELSE (page - 1) * size

\* ORDER BY timestamp DESC, where no two timestamps are equal
Position(i, S) == Cardinality({j \in S : rows[j].ts >= rows[i].ts})

\* LIMIT size OFFSET offset
queryTransactions(f, page, size) ==
  LET offset == transactionOffset(page, size)
  IN {i \in Listing(f) :
        /\ Position(i, Listing(f)) > offset
        /\ Position(i, Listing(f)) <= offset + size}

ListTransactions(f, page, size) ==
  LET number == IF page = 0 THEN 1 ELSE page
  IN IF transactionOffset(number, size) = Absent THEN Absent
     ELSE [transactions |-> queryTransactions(f, number, size),
           total |-> queryTransactionTotals(f).total,
           total_amount |-> queryTransactionTotals(f).amount]

\* Facets are taken from every transaction, muted or not.
loadFacetValues(c) == {rows[i].val[c] : i \in Saved} \ {Untagged}
loadFacetCounts(c) == [v \in loadFacetValues(c) |-> Cardinality({i \in Saved : rows[i].val[c] = v})]
LabelCounts ==
  [l \in UNION {rows[i].labels : i \in Saved} |-> Cardinality({i \in Saved : l \in rows[i].labels})]

-----------------------------------------------------------------------------
\* Filters match fragments of names: the listing of a name that is part of
\* another one shows the transactions of both.
Unambiguous(n) == \A m \in TagNames : <<m, n>> \in Like => m = n

Opens(amount, f) == amount = queryTransactionTotals(f).amount

ChartOpens(S, f) ==
  /\ \A c \in Dimensions :
       LET by == ByColumn(c, S)
           named == DOMAIN by \ {Uncategorized}
       IN /\ \A n \in named : Unambiguous(n) => Opens(by[n], [f EXCEPT !.like[c] = n])
          /\ Uncategorized \notin loadFacetValues(c) =>
               /\ Uncategorized \in DOMAIN by =>
                    Opens(by[Uncategorized], [f EXCEPT !.missing = {c}])
               \* "others": what is left when some of the slices are shown
               /\ \A shown \in SUBSET named :
                    shown # {} => Opens(SumOf(Restrict(by, named \ shown)),
                                        [f EXCEPT !.exclude[c] = shown])
  /\ LET by == ByLabel(S)
     IN /\ \A n \in DOMAIN by \ {Uncategorized} :
             Unambiguous(n) => Opens(by[n], [f EXCEPT !.label = n])
        /\ Uncategorized \in DOMAIN by \ DOMAIN LabelCounts =>
             Opens(by[Uncategorized], [f EXCEPT !.labelMissing = TRUE])

\* What the dashboard shows is what opens when it is clicked: the amount of every
\* slice of a chart, of this month or of all time, and of every cell of a heatmap,
\* is the total amount of the listing with that slice's or cell's filter; and a
\* facet's count is the size of the listing it narrows to, muted ones included.
\* Excepted are the slices of transactions that lack a value, and of the others, in
\* a column where some have the value "Uncategorized": they share its slice.
SlicesOpen ==
  LET w == dashboardMonthBounds(now)
      month == [NoFilter EXCEPT !.from = w.startUTC, !.to = w.endUTC - 1]
  IN /\ ChartOpens(Unmuted, NoFilter)
     /\ ChartOpens(Between(w.startUTC, w.endUTC), month)
     /\ LET cells == GetHeatmap(month.from, month.to, Absent).ByWeekdayHour
        IN \A k \in DOMAIN cells :
             Opens(cells[k], [month EXCEPT !.weekday = k[1], !.hourFrom = k[2], !.hourTo = k[2]])
     /\ \A c \in Dimensions : \A n \in loadFacetValues(c) :
          Unambiguous(n) => loadFacetCounts(c)[n] =
            queryTransactionTotals([NoFilter EXCEPT !.muted = "show", !.like[c] = n]).total
     /\ \A n \in DOMAIN LabelCounts :
          Unambiguous(n) => LabelCounts[n] =
            queryTransactionTotals([NoFilter EXCEPT !.muted = "show", !.label = n]).total

\* Every view of this month shows the same month, whatever the time zone: the
\* month's statistics by category are the current entries of the category
\* comparison, the last column of the breakdown, and sum up to the month's entry
\* in the monthly chart, to its days in the annual one and to its heatmap; last
\* month's entries are the column before.
WindowsAgree ==
  LET w == dashboardMonthBounds(now)
      d == dashboardDataReadModel
      stats == d.current.stats.TotalByCategory
      compared == d.allTime.charts.ByCategoryMonthly
      months == GetLabelMonthlySpend("category")
      At(f, k) == IF k \in DOMAIN f THEN f[k] ELSE 0
      year == GetHeatmap(Absent, Absent, Year(now))
  IN /\ d.current.charts.ByCategoryMonthly = compared
     /\ \A k \in DOMAIN stats \cup DOMAIN compared \cup DOMAIN months :
          LET c == IF k \in DOMAIN compared THEN compared[k] ELSE [Current |-> 0, Prior |-> 0]
              b == [m \in {Month(now) - 1, Month(now)} |->
                      IF k \in DOMAIN months THEN months[k][m] ELSE 0]
          IN /\ At(stats, k) = c.Current /\ b[Month(now)] = c.Current
             /\ b[Month(now) - 1] = c.Prior
     /\ LET sum == SumOf(stats)
        IN /\ sum = At(d.current.charts.MonthlySpend, Month(now))
           /\ sum = At(d.allTime.charts.MonthlySpend, Month(now))
           /\ sum = SumOf(Restrict(year, {k \in DOMAIN year : k \div DaysPerMonth = Month(now)}))
           /\ sum = SumOf(GetHeatmap(w.startUTC, w.endUTC - 1, Absent).ByDayOfMonth)

\* The pages of a listing hold each of its transactions once and nothing else, as
\* many as its total says and no more on a page than were asked for, also where a
\* label filter matches several labels of one transaction; and no page number,
\* however large, wraps round to an earlier page.  Transactions with equal timestamps have no order and are left out.
PagesCover ==
  \A l \in TagNames \cup {Untagged}, mode \in {"hide", "show"}, size \in 1 .. MaxInt :
    LET f == [NoFilter EXCEPT !.label = l, !.muted = mode]
        answer == [n \in 1 .. MaxInt + 2 |-> ListTransactions(f, n, size)]
        pages == {n \in DOMAIN answer : answer[n] # Absent}
    IN (\A i, j \in Listing(f) : rows[i].ts = rows[j].ts => i = j) =>
         /\ \A m, n \in pages :
              m # n => answer[m].transactions \cap answer[n].transactions = {}
         /\ UNION {answer[n].transactions : n \in pages} = Listing(f)
         /\ \A n \in pages :
              /\ Cardinality(answer[n].transactions) <= size
              /\ answer[n].total = Cardinality(Listing(f))
              /\ answer[n].total_amount = Total(Listing(f))
         /\ \A n \in DOMAIN answer : (n - 1) * size > MaxInt <=> n \notin pages
=============================================================================
