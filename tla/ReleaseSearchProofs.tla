------------------------- MODULE ReleaseSearchProofs -------------------------
(***************************************************************************)
(* GET /releases is right for every number of years and of months: the     *)
(* early returns of the handler accept exactly the well-formed requests,   *)
(* the statement uses everything a request gave, and the window of dates   *)
(* is the year or the month that was asked for.                            *)
(***************************************************************************)
EXTENDS ReleaseSearch, TLAPS

\* A request is parsed whole, and its statement is made from it alone.
SearchInv ==
  /\ query \in Queries
  /\ \/ status = "asked"
     \/ status = "queried" /\ Parses(query) /\ statement = StatementOf(query)
     \/ status = "rejected" /\ ~Parses(query)

-----------------------------------------------------------------------------
(* The handler against the documentation.                                  *)

\* The exact lookups and the filters as the handler sees them.
LEMMA NoLookupMeansAbsent ==
  ASSUME NEW q \in Queries
  PROVE  NoLookup(q) <=> ~HasCatalogLookup(q) /\ ~HasIdentifierLookup(q)
BY DEF Queries, LookupTexts, NoLookup, HasCatalogLookup, HasIdentifierLookup,
   HasQueryParameter

\* No filter has text exactly when every one of them is blank, once none of
\* them is malformed or all of them are rejected for being there.
LEMMA NoFilterMeansBlank ==
  ASSUME NEW q \in Queries
  PROVE  NoFilter(q) <=> ~HasStandardReleaseFilter(q)
BY DEF Queries, FilterTexts, NoFilter, HasStandardReleaseFilter, HasText, HasNumber

\* The filters parse exactly when they are well-formed.
LEMMA FiltersParseWhenWellFormed ==
  ASSUME NEW q \in Queries
  PROVE  FiltersParse(q) <=>
           /\ {q.title, q.country, q.master} \subseteq {"blank", "good"}
           /\ q.year \in Years \cup {None} /\ q.month \in Months \cup {None}
           /\ q.month = None \/ q.year # None
BY SearchAssumption
   DEF Queries, FilterTexts, FiltersParse, HasNumber, Years, Months

\* Search succeeds exactly on the requests the documentation describes
\* (Search, parseReleaseLookup, parseCatalogNumberLookup,
\* parseIdentifierLookup).
LEMMA ParsesExactlyWellFormed ==
  ASSUME NEW q \in Queries
  PROVE  Parses(q) <=> WellFormed(q)
<1>1. /\ {q.labelID, q.catno} = {"good"} <=> CatalogNumberLookupParses(q)
      /\ {q.identifierType, q.identifierValue} = {"good"} <=> IdentifierLookupParses(q)
  BY DEF CatalogNumberLookupParses, IdentifierLookupParses
<1>2. /\ {q.labelID, q.catno} = {"absent"} <=> ~HasCatalogLookup(q)
      /\ {q.identifierType, q.identifierValue} = {"absent"} <=> ~HasIdentifierLookup(q)
  BY DEF HasCatalogLookup, HasIdentifierLookup, HasQueryParameter
<1>3. /\ CatalogNumberLookupParses(q) => HasCatalogLookup(q)
      /\ IdentifierLookupParses(q) => HasIdentifierLookup(q)
  BY DEF CatalogNumberLookupParses, IdentifierLookupParses, HasCatalogLookup,
     HasIdentifierLookup, HasQueryParameter
<1> QED
  BY <1>1, <1>2, <1>3, NoLookupMeansAbsent, NoFilterMeansBlank,
     FiltersParseWhenWellFormed
     DEF Parses, WellFormed, ReleaseLookupParses

-----------------------------------------------------------------------------
(* The invariant.                                                          *)

\* A request is asked, and then rejected or turned into its statement (Search).
THEOREM SearchInvariant == Spec => []SearchInv
<1>1. Init => SearchInv
  BY DEF Init, SearchInv
<1>2. SearchInv /\ [Next]_vars => SearchInv'
  BY DEF SearchInv, Next, Search, vars
<1> QED BY <1>1, <1>2, PTL DEF Spec

\* Exactly the well-formed requests are answered (AcceptsExactlyWellFormed):
\* neither an early return nor a parameter looked at by presence only lets
\* another one through.
THEOREM AcceptsWellFormed == Spec => []AcceptsExactlyWellFormed
<1>1. SearchInv => AcceptsExactlyWellFormed
  BY ParsesExactlyWellFormed DEF SearchInv, AcceptsExactlyWellFormed
<1> QED BY <1>1, SearchInvariant, PTL

-----------------------------------------------------------------------------
(* The statement uses every parameter.                                     *)

\* A request with a catalog lookup gives both of its halves and nothing else.
LEMMA CatalogLookupUsesAll ==
  ASSUME NEW q \in Queries, Parses(q), HasCatalogLookup(q)
  PROVE  DependsOn(StatementOf(q)) = Given(q)
<1>1. q.labelID = "good" /\ q.catno = "good"
  BY DEF Parses, ReleaseLookupParses, CatalogNumberLookupParses
<1>2. q.identifierType = "absent" /\ q.identifierValue = "absent"
  BY DEF Parses, ReleaseLookupParses, HasIdentifierLookup, HasQueryParameter
<1>3. /\ ~HasText(q.title) /\ ~HasText(q.country) /\ ~HasText(q.master)
      /\ ~HasNumber(q.year) /\ ~HasNumber(q.month)
  BY DEF Parses, ReleaseLookupParses, HasStandardReleaseFilter
<1>4. Given(q) = {"labelID", "catno"}
  BY <1>1, <1>2, <1>3 DEF Given, HasText
<1>5. DependsOn(StatementOf(q)) = {"labelID", "catno"}
  BY DEF DependsOn, StatementOf
<1> QED BY <1>4, <1>5

\* So does one with an identifier lookup.
LEMMA IdentifierLookupUsesAll ==
  ASSUME NEW q \in Queries, Parses(q), ~HasCatalogLookup(q), HasIdentifierLookup(q)
  PROVE  DependsOn(StatementOf(q)) = Given(q)
<1>1. q.identifierType = "good" /\ q.identifierValue = "good"
  BY DEF Parses, ReleaseLookupParses, IdentifierLookupParses
<1>2. q.labelID = "absent" /\ q.catno = "absent"
  BY DEF HasCatalogLookup, HasQueryParameter
<1>3. /\ ~HasText(q.title) /\ ~HasText(q.country) /\ ~HasText(q.master)
      /\ ~HasNumber(q.year) /\ ~HasNumber(q.month)
  BY DEF Parses, ReleaseLookupParses, HasStandardReleaseFilter
<1>4. Given(q) = {"identifierType", "identifierValue"}
  BY <1>1, <1>2, <1>3 DEF Given, HasText
<1>5. DependsOn(StatementOf(q)) = {"identifierType", "identifierValue"}
  BY DEF DependsOn, StatementOf
<1> QED BY <1>4, <1>5

\* The window of a year, or of one of its months, in the calendar
\* (releaseDateParameters).
LEMMA WindowOfDates ==
  ASSUME NEW year \in Years \cup {None}, NEW month \in Months \cup {None},
         month = None \/ year # None,
         NEW dates, dates = ReleaseDateParameters(year, month)
  PROVE  /\ year = None => dates.start = None /\ dates.month = None
         /\ year # None =>
              /\ dates.start \in Nat
              /\ dates.start # None
              /\ dates.month = None
              /\ month = None => /\ dates.start = MonthsPerYear * year
                                /\ dates.end = dates.start + MonthsPerYear
              /\ month # None => /\ dates.start = MonthsPerYear * year + (month - 1)
                                /\ dates.end = dates.start + 1
<1>1. CASE year = None
  BY <1>1 DEF ReleaseDateParameters
<1>2. CASE year # None
  <2>1. year \in Nat /\ MonthsPerYear * year \in Nat
    BY <1>2, SearchAssumption DEF Years
  <2>2. CASE month = None
    <3>1. /\ dates.start = MonthsPerYear * year + 0
          /\ dates.end = MonthsPerYear * year + 0 + MonthsPerYear
          /\ dates.month = None
      BY <1>2, <2>2 DEF ReleaseDateParameters
    <3>2. dates.start = MonthsPerYear * year /\ dates.end = dates.start + MonthsPerYear
      BY <2>1, <3>1, SearchAssumption
    <3> QED BY <1>2, <2>1, <2>2, <3>1, <3>2, SearchAssumption
  <2>3. CASE month # None
    <3>1. month \in Nat /\ month >= 1
      BY <2>3, SearchAssumption DEF Months
    <3>2. /\ dates.start = MonthsPerYear * year + (month - 1)
          /\ dates.end = dates.start + 1
          /\ dates.month = None
      BY <1>2, <2>3 DEF ReleaseDateParameters
    <3>3. dates.start \in Nat
      BY <2>1, <3>1, <3>2
    <3> QED BY <1>2, <2>3, <3>2, <3>3, SearchAssumption
  <2> QED BY <2>2, <2>3
<1> QED BY <1>1, <1>2

\* A search gives filters only, and its statement has a condition for each.
LEMMA SearchUsesAll ==
  ASSUME NEW q \in Queries, Parses(q), ~HasCatalogLookup(q), ~HasIdentifierLookup(q)
  PROVE  DependsOn(StatementOf(q)) = Given(q)
<1> DEFINE s == StatementOf(q)
           dates == ReleaseDateParameters(q.year, q.month)
<1>1. /\ q.title \in {"blank", "good"} /\ q.country \in {"blank", "good"}
      /\ q.master \in {"blank", "good"}
      /\ q.year \in Years \cup {None} /\ q.month \in Months \cup {None}
      /\ q.month = None \/ q.year # None
  BY FiltersParseWhenWellFormed DEF Parses
<1>2. /\ q.labelID = "absent" /\ q.catno = "absent"
      /\ q.identifierType = "absent" /\ q.identifierValue = "absent"
  BY DEF HasCatalogLookup, HasIdentifierLookup, HasQueryParameter
<1>3. /\ s.kind = "search" /\ s.dates = dates
      /\ s.title = OptionalText(q.title) /\ s.country = OptionalText(q.country)
      /\ s.master = OptionalText(q.master)
  BY DEF StatementOf
<1>4. /\ s.title # None <=> q.title = "good"
      /\ s.country # None <=> q.country = "good"
      /\ s.master # None <=> q.master = "good"
  BY <1>1, <1>3, SearchAssumption DEF OptionalText
<1>5. /\ dates.start # None <=> q.year # None
      /\ dates.start # None /\ dates.end - dates.start < MonthsPerYear <=> q.month # None
  <2>1. CASE q.year = None
    BY <1>1, <2>1, WindowOfDates
  <2>2. CASE q.year # None
    <3>1. /\ dates.start \in Nat /\ dates.start # None
          /\ q.month = None => dates.end = dates.start + MonthsPerYear
          /\ q.month # None => dates.end = dates.start + 1
      <4> HIDE DEF dates
      <4>1. dates = ReleaseDateParameters(q.year, q.month)
        BY DEF dates
      <4> QED BY <1>1, <2>2, <4>1, WindowOfDates
    <3> HIDE DEF dates
    <3> QED BY <2>2, <3>1, SearchAssumption
  <2> QED BY <2>1, <2>2
<1>6. Given(q) =
        {name \in {"title", "country", "master"} : s[name] # None}
        \cup (IF q.year = None THEN {} ELSE {"year"})
        \cup (IF q.month # None THEN {"month"} ELSE {})
  <2> HIDE DEF s
  <2> QED BY <1>1, <1>2, <1>4 DEF Given, HasText, HasNumber
<1>7. DependsOn(s) =
        {name \in {"title", "country", "master"} : s[name] # None}
        \cup (IF q.year = None THEN {} ELSE {"year"})
        \cup (IF q.month # None THEN {"month"} ELSE {})
  <2> HIDE DEF s, dates
  <2> QED BY <1>3, <1>5 DEF DependsOn
<1> QED BY <1>6, <1>7

\* A request that is answered is answered by a statement that depends on
\* everything it gave (NothingIgnored; the early returns of Search,
\* hasStandardReleaseFilter).
THEOREM NoParameterIgnored == Spec => []NothingIgnored
<1>1. SearchInv => NothingIgnored
  BY CatalogLookupUsesAll, IdentifierLookupUsesAll, SearchUsesAll
     DEF SearchInv, NothingIgnored
<1> QED BY <1>1, SearchInvariant, PTL

-----------------------------------------------------------------------------
(* The window of dates.                                                    *)

\* A date is its year and its month.
LEMMA DateParts ==
  ASSUME NEW date \in Nat
  PROVE  /\ date \div MonthsPerYear \in Nat
         /\ date % MonthsPerYear \in 0..(MonthsPerYear - 1)
         /\ date = MonthsPerYear * (date \div MonthsPerYear) + (date % MonthsPerYear)
BY SearchAssumption

\* Years do not overlap.
LEMMA YearsApart ==
  ASSUME NEW a \in Nat, NEW b \in Nat, a < b
  PROVE  MonthsPerYear * a + MonthsPerYear <= MonthsPerYear * b
BY SearchAssumption

\* The window of a year holds exactly the dates of that year.
LEMMA YearWindow ==
  ASSUME NEW date \in Nat, NEW year \in Nat
  PROVE  date >= MonthsPerYear * year /\ date < MonthsPerYear * year + MonthsPerYear
           <=> date \div MonthsPerYear = year
<1> DEFINE y == date \div MonthsPerYear
           m == date % MonthsPerYear
<1>1. /\ y \in Nat /\ m \in Nat /\ m < MonthsPerYear
      /\ date = MonthsPerYear * y + m
      /\ MonthsPerYear * y \in Nat /\ MonthsPerYear * year \in Nat
  BY DateParts, SearchAssumption
<1>2. y < year => MonthsPerYear * y + MonthsPerYear <= MonthsPerYear * year
  BY <1>1, YearsApart
<1>3. year < y => MonthsPerYear * year + MonthsPerYear <= MonthsPerYear * y
  BY <1>1, YearsApart
<1> HIDE DEF y, m
<1>4. date >= MonthsPerYear * year /\ date < MonthsPerYear * year + MonthsPerYear
        <=> y = year
  BY <1>1, <1>2, <1>3, SearchAssumption
<1> QED BY <1>4 DEF y

\* The window of a month holds exactly the dates of that month of that year.
LEMMA MonthWindow ==
  ASSUME NEW date \in Nat, NEW year \in Nat, NEW month \in Months
  PROVE  /\ date >= MonthsPerYear * year + (month - 1)
         /\ date < MonthsPerYear * year + (month - 1) + 1
         <=> /\ date \div MonthsPerYear = year
             /\ date % MonthsPerYear = month - 1
<1> DEFINE y == date \div MonthsPerYear
           m == date % MonthsPerYear
<1>1. /\ y \in Nat /\ m \in Nat /\ m < MonthsPerYear
      /\ date = MonthsPerYear * y + m
      /\ MonthsPerYear * y \in Nat /\ MonthsPerYear * year \in Nat
  BY DateParts, SearchAssumption
<1>2. y < year => MonthsPerYear * y + MonthsPerYear <= MonthsPerYear * year
  BY <1>1, YearsApart
<1>3. year < y => MonthsPerYear * year + MonthsPerYear <= MonthsPerYear * y
  BY <1>1, YearsApart
<1>4. month \in Nat /\ month >= 1 /\ month <= MonthsPerYear
  BY SearchAssumption DEF Months
<1> HIDE DEF y, m
<1>5. date >= MonthsPerYear * year + (month - 1)
        /\ date < MonthsPerYear * year + (month - 1) + 1
        => y = year
  BY <1>1, <1>2, <1>3, <1>4, SearchAssumption
<1>6. y = year => (/\ date >= MonthsPerYear * year + (month - 1)
                   /\ date < MonthsPerYear * year + (month - 1) + 1
                   <=> m = month - 1)
  BY <1>1, <1>4
<1>7. /\ date >= MonthsPerYear * year + (month - 1)
      /\ date < MonthsPerYear * year + (month - 1) + 1
      <=> y = year /\ m = month - 1
  BY <1>5, <1>6
<1> QED BY <1>7 DEF y, m

\* The window selects the rows of what was asked for: the year, the month, or
\* everything (searchReleasesSQL, releaseDateParameters).
LEMMA WindowSelects ==
  ASSUME NEW year \in Years \cup {None}, NEW month \in Months \cup {None},
         month = None \/ year # None,
         NEW dates, dates = ReleaseDateParameters(year, month),
         NEW row \in Rows
  PROVE  /\ row.hasValidYear /\ row.hasValidMonth =>
              (DateMatches(dates, row) <=>
                 /\ year # None => row.date \div MonthsPerYear = year
                 /\ month # None => row.date % MonthsPerYear = month - 1)
         /\ year # None /\ ~row.hasValidYear => ~DateMatches(dates, row)
<1>1. row.date \in Nat
  <2>1. MonthsPerYear * (MaximumYear + 1) \in Nat
    BY SearchAssumption
  <2> QED BY <2>1 DEF Rows
<1>2. CASE year = None
  <2>1. month = None /\ dates.start = None /\ dates.month = None
    BY <1>2, WindowOfDates
  <2> QED BY <1>2, <2>1 DEF DateMatches
<1>3. CASE year # None
  <2>1. /\ dates.start # None /\ dates.month = None
        /\ month = None => /\ dates.start = MonthsPerYear * year
                          /\ dates.end = dates.start + MonthsPerYear
        /\ month # None => /\ dates.start = MonthsPerYear * year + (month - 1)
                          /\ dates.end = dates.start + 1
    BY <1>3, WindowOfDates
  <2>2. DateMatches(dates, row) <=>
          row.hasValidYear /\ row.date >= dates.start /\ row.date < dates.end
    BY <2>1 DEF DateMatches
  <2>3. year \in Nat
    BY <1>3, SearchAssumption DEF Years
  <2>4. CASE month = None
    <3>1. row.date >= dates.start /\ row.date < dates.end
            <=> row.date \div MonthsPerYear = year
      BY <1>1, <2>1, <2>3, <2>4, YearWindow
    <3> QED BY <1>3, <2>2, <2>4, <3>1
  <2>5. CASE month # None
    <3>1. month \in Months
      BY <2>5
    <3>2. row.date >= dates.start /\ row.date < dates.end
            <=> /\ row.date \div MonthsPerYear = year
                /\ row.date % MonthsPerYear = month - 1
      BY <1>1, <2>1, <2>3, <2>5, <3>1, MonthWindow
    <3> QED BY <1>3, <2>2, <2>5, <3>2
  <2> QED BY <2>4, <2>5
<1> QED BY <1>2, <1>3

\* The half-open window selects what was asked for, at the turn of the year as
\* anywhere else (DateWindowExact; releaseDateParameters, searchReleasesSQL).
THEOREM DateWindowsAreExact == Spec => []DateWindowExact
<1>1. ASSUME SearchInv, status = "queried", statement.kind = "search",
             NEW row \in Rows
      PROVE  /\ row.hasValidYear /\ row.hasValidMonth =>
                  (DateMatches(statement.dates, row) <=>
                     /\ query.year # None => row.date \div MonthsPerYear = query.year
                     /\ query.month # None =>
                          row.date % MonthsPerYear = query.month - 1)
             /\ query.year # None /\ ~row.hasValidYear =>
                  ~DateMatches(statement.dates, row)
  <2>1. query \in Queries /\ Parses(query) /\ statement = StatementOf(query)
    BY <1>1 DEF SearchInv
  <2>2. ~HasCatalogLookup(query) /\ ~HasIdentifierLookup(query)
    BY <1>1, <2>1 DEF StatementOf
  <2>3. /\ query.year \in Years \cup {None} /\ query.month \in Months \cup {None}
        /\ query.month = None \/ query.year # None
    BY <2>1, <2>2, FiltersParseWhenWellFormed DEF Parses
  <2>4. statement.dates = ReleaseDateParameters(query.year, query.month)
    BY <2>1, <2>2 DEF StatementOf
  <2> QED BY <2>3, <2>4, WindowSelects
<1>2. SearchInv => DateWindowExact
  BY <1>1 DEF DateWindowExact
<1> QED BY <1>2, SearchInvariant, PTL

=============================================================================
