---------------------------- MODULE ReleaseSearch ---------------------------
(***************************************************************************)
(* GET /releases: one endpoint in front of three statements.  A request is *)
(* a search with filters, or an exact lookup by a label's catalog number,  *)
(* or one by an identifier; the handler decides which from the parameters  *)
(* that are there, rejects what does not add up, and passes the rest on.   *)
(* A year, with or without a month, becomes a half-open window of dates.   *)
(*                                                                         *)
(* Texts are abstracted to whether they are there, blank, or acceptable;   *)
(* dates to months counted from January of year 0.                         *)
(***************************************************************************)
EXTENDS Integers

CONSTANTS
  None,          \* a parameter without text; a NULL
  Bad,           \* a text that is no number in range
  MaximumYear,   \* the largest year, 32767 in the code
  MonthsPerYear  \* 12

ASSUME SearchAssumption ==
  /\ MaximumYear \in Nat
  /\ MonthsPerYear \in Nat /\ MonthsPerYear > 1
  /\ None # Bad /\ {None, Bad} \cap Int = {}
  /\ None \notin {"blank", "bad", "good"}

Years == 0..MaximumYear
Months == 1..MonthsPerYear

\* A parameter of an exact lookup may be absent, or there without text; for a
\* filter that makes no difference.
LookupTexts == {"absent", "blank", "bad", "good"}
FilterTexts == {"blank", "bad", "good"}

Queries ==
  [page : {"bad", "good"},
   labelID : LookupTexts, catno : LookupTexts,
   identifierType : LookupTexts, identifierValue : LookupTexts,
   title : FilterTexts, country : FilterTexts, master : FilterTexts,
   year : Years \cup {None, Bad}, month : Months \cup {None, Bad}]

VARIABLES
  query,     \* the parameters of the request
  status,    \* asked, rejected (400) or queried
  statement  \* the statement and what it is called with

vars == <<query, status, statement>>

-----------------------------------------------------------------------------
(* What the parameters say.                                                *)

HasQueryParameter(text) == text # "absent"
HasText(text) == text \in {"bad", "good"}
HasNumber(n) == n # None

HasCatalogLookup(q) == HasQueryParameter(q.labelID) \/ HasQueryParameter(q.catno)

HasIdentifierLookup(q) ==
  HasQueryParameter(q.identifierType) \/ HasQueryParameter(q.identifierValue)

\* The list of filters without its last member.
HasFilterButMaster(q) ==
  HasText(q.title) \/ HasText(q.country) \/ HasNumber(q.year) \/ HasNumber(q.month)

HasStandardReleaseFilter(q) ==
  \/ HasText(q.title)
  \/ HasText(q.country)
  \/ HasNumber(q.year)
  \/ HasNumber(q.month)
  \/ HasText(q.master)

\* parseCatalogNumberLookup without its own test of a blank label: the number
\* parser would fall back to 0.
CatalogNumberLookupOfNoLabel(q) ==
  q.labelID \in {"blank", "good"} /\ q.catno = "good"

\* parseCatalogNumberLookup and parseIdentifierLookup succeed.
CatalogNumberLookupParses(q) == q.labelID = "good" /\ q.catno = "good"

IdentifierLookupParses(q) == q.identifierType = "good" /\ q.identifierValue = "good"

\* parseReleaseLookup succeeds.
ReleaseLookupParses(q) ==
  /\ ~(HasCatalogLookup(q) /\ HasIdentifierLookup(q))
  /\ HasCatalogLookup(q) \/ HasIdentifierLookup(q) => ~HasStandardReleaseFilter(q)
  /\ HasCatalogLookup(q) => CatalogNumberLookupParses(q)
  /\ HasIdentifierLookup(q) => IdentifierLookupParses(q)

\* Search goes on to parse the filters, and every one of them succeeds.
FiltersParse(q) ==
  /\ "bad" \notin {q.title, q.country, q.master}
  /\ Bad \notin {q.year, q.month}
  /\ HasNumber(q.month) => HasNumber(q.year)

Parses(q) ==
  /\ q.page = "good"
  /\ ReleaseLookupParses(q)
  /\ HasCatalogLookup(q) \/ HasIdentifierLookup(q) \/ FiltersParse(q)

-----------------------------------------------------------------------------
(* The statements.                                                         *)

\* A window that opens in January whatever the month.
WindowFromJanuary(year, month) ==
  IF year = None
  THEN [start |-> None, end |-> None, month |-> month]
  ELSE LET start == MonthsPerYear * year IN
       [start |-> start, end |-> start + (IF month = None THEN MonthsPerYear ELSE 1),
        month |-> None]

\* releaseDateParameters: the month alone, or the window of the year or the
\* month, its end excluded.
ReleaseDateParameters(year, month) ==
  IF year = None
  THEN [start |-> None, end |-> None, month |-> month]
  ELSE LET start == MonthsPerYear * year + (IF month = None THEN 0 ELSE month - 1) IN
       [start |-> start, end |-> start + (IF month = None THEN MonthsPerYear ELSE 1),
        month |-> None]

\* optionalText: a blank text is NULL.
OptionalText(text) == IF text = "blank" THEN None ELSE text

StatementOf(q) ==
  IF HasCatalogLookup(q)
  THEN [kind |-> "catalogNumber", labelID |-> q.labelID, catno |-> q.catno]
  ELSE IF HasIdentifierLookup(q)
  THEN [kind |-> "identifier", type |-> q.identifierType, value |-> q.identifierValue]
  ELSE [kind |-> "search", title |-> OptionalText(q.title),
        country |-> OptionalText(q.country), master |-> OptionalText(q.master),
        dates |-> ReleaseDateParameters(q.year, q.month)]

\* The date conditions of searchReleasesSQL, of a row with a release_date.
DateMatches(dates, row) ==
  /\ dates.start = None \/ (row.hasValidYear /\ row.date >= dates.start /\ row.date < dates.end)
  /\ dates.month = None \/ (row.hasValidMonth /\ (row.date % MonthsPerYear) + 1 = dates.month)

-----------------------------------------------------------------------------

Init ==
  /\ query \in Queries
  /\ status = "asked"
  /\ statement = None

\* ReleaseHandler.Search
Search ==
  /\ status = "asked"
  /\ IF Parses(query)
     THEN status' = "queried" /\ statement' = StatementOf(query)
     ELSE status' = "rejected" /\ UNCHANGED statement
  /\ UNCHANGED query

Next == Search

Spec == Init /\ [][Next]_vars

-----------------------------------------------------------------------------
(* Properties.                                                             *)

\* What README and OpenAPI ask of a request: both halves of one exact lookup
\* and nothing else, or filters of which none is malformed and a month comes
\* with its year.
NoLookup(q) ==
  {q.labelID, q.catno, q.identifierType, q.identifierValue} = {"absent"}

NoFilter(q) ==
  {q.title, q.country, q.master} = {"blank"} /\ {q.year, q.month} = {None}

WellFormed(q) ==
  /\ q.page = "good"
  /\ \/ /\ {q.labelID, q.catno} = {"good"}
        /\ {q.identifierType, q.identifierValue} = {"absent"}
        /\ NoFilter(q)
     \/ /\ {q.identifierType, q.identifierValue} = {"good"}
        /\ {q.labelID, q.catno} = {"absent"}
        /\ NoFilter(q)
     \/ /\ NoLookup(q)
        /\ {q.title, q.country, q.master} \subseteq {"blank", "good"}
        /\ q.year \in Years \cup {None} /\ q.month \in Months \cup {None}
        /\ q.month = None \/ q.year # None

\* Search accepts exactly the well-formed requests, although it looks at the
\* parameters one after the other, by presence here and by text there, and
\* returns early (Search, parseReleaseLookup).
AcceptsExactlyWellFormed ==
  /\ status = "queried" => WellFormed(query)
  /\ status = "rejected" => ~WellFormed(query)

\* The parameters a request gives, and those its statement depends on.
Given(q) ==
  {name \in {"labelID", "catno", "identifierType", "identifierValue",
             "title", "country", "master"} : HasText(q[name])}
  \cup {name \in {"year", "month"} : HasNumber(q[name])}

DependsOn(s) ==
  IF s.kind = "catalogNumber" THEN {"labelID", "catno"}
  ELSE IF s.kind = "identifier" THEN {"identifierType", "identifierValue"}
  ELSE {name \in {"title", "country", "master"} : s[name] # None}
       \cup (IF s.dates.start = None THEN {} ELSE {"year"})
       \cup (IF s.dates.start # None /\ s.dates.end - s.dates.start < MonthsPerYear
             THEN {"month"} ELSE {})

\* No parameter with text is silently ignored: a request that is answered is
\* answered by a statement that depends on everything it gave (the early
\* returns of Search, hasStandardReleaseFilter).
NothingIgnored == status = "queried" => DependsOn(statement) = Given(query)

\* Rows by their date and by how much of it is known.
Rows ==
  [date : 0..(MonthsPerYear * (MaximumYear + 1) - 1),
   hasValidYear : BOOLEAN, hasValidMonth : BOOLEAN]

\* The half-open window selects what was asked for: of the rows whose date is
\* known, exactly those of the year and the month, December and January
\* included; and no row without a year (releaseDateParameters,
\* searchReleasesSQL).  Rows with a year but no month are left open: the window
\* looks at their release_date only.
DateWindowExact ==
  status = "queried" /\ statement.kind = "search" =>
    \A row \in Rows :
      /\ row.hasValidYear /\ row.hasValidMonth =>
           (DateMatches(statement.dates, row) <=>
              /\ query.year # None => row.date \div MonthsPerYear = query.year
              /\ query.month # None => row.date % MonthsPerYear = query.month - 1)
      /\ query.year # None /\ ~row.hasValidYear => ~DateMatches(statement.dates, row)

=============================================================================
