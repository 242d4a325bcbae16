------------------------------- MODULE Tables -------------------------------
(***************************************************************************)
(* The screens that are a table with filters and a pager: the history of   *)
(* messages, the usage and its reporting, the API's log, and the rules,    *)
(* whose panel pages what it was given.  What is chosen is the key of a    *)
(* query, answers come in any order, each into the cache under its key,    *)
(* and a screen may show the last choice's answer until its own is in.     *)
(* The rows behind the API are external, and come and go at any time.      *)
(***************************************************************************)
EXTENDS Naturals, Sequences, SequencesExt

CONSTANTS Filters,    \* what the filters may be set to
          Limits,     \* the sizes of a page
          MaxRows,    \* bound: rows behind the API
          MaxTrail,   \* bound: pages gone forward
          MaxFetches  \* bound: times a query is fetched

TablesAssumption ==
  /\ Filters # {} /\ Limits # {} /\ Limits \subseteq Nat \ {0}
  /\ MaxRows \in Nat \ {0} /\ MaxTrail \in Nat /\ MaxFetches \in Nat \ {0}

VARIABLES
  screen,   \* the screen on show
  chosen,   \* its filters, its trail of cursors, its page and the size of one
  cache,    \* the queries that were asked: what each holds, and its fetch
  shown,    \* the answer on show
  rows,     \* how many rows there are
  fetches   \* how often a query was fetched

vars == <<screen, chosen, cache, shown, rows, fetches>>

Screens == {"history", "reporting", "usage", "logs", "rules"}
NoFetch == << >>
Empty   == [is |-> "nothing", of |-> NoFetch, total |-> 0]
Refusal == [Empty EXCEPT !.is = "refusal"]

-----------------------------------------------------------------------------
(* What is chosen                                                          *)

PagedByCursor == {"history", "rules"}

\* The trail of the rules belongs to how many there are, too.
Scope(c) ==
  IF screen = "rules" THEN <<c.limit, shown.total>> ELSE <<c.filters>>

\* The trail of another scope is none.
useCursorTrail(c) == IF c.trail.scope = Scope(c) THEN c.trail.cursors ELSE << >>

Cursor(c) == IF useCursorTrail(c) = << >> THEN 0 ELSE Last(useCursorTrail(c))

\* What the screen asks for: the filters, and where and how long its page is if
\* the API pages.
Query(c) ==
  CASE screen = "history" -> <<c.filters, Cursor(c), Min(Limits)>>
    [] screen = "reporting" -> <<c.filters, c.page, c.limit>>
    [] screen \in {"usage", "logs", "rules"} -> <<c.filters, 0, 0>>

\* The page is left out of the key: a mutant of apiKey.
apiKeyOfFilters(query) == <<query[1]>>

\* All of the query is the key of its entry in the cache.
apiKey(query) == query

Key == apiKey(Query(chosen))

\* What is shown under the filters: a screen whose answer is refused shows the
\* refusal and neither filters nor pager, save those that show an empty table.
Visible ==
  \/ shown.is = "data"
  \/ shown.is = "refusal" /\ screen \in {"reporting", "logs"}

TypeOK ==
  /\ screen \in Screens
  /\ chosen.filters \in Filters /\ chosen.limit \in Limits /\ chosen.page \in 0 .. MaxRows
  /\ Key \in DOMAIN cache /\ Len(chosen.trail.cursors) <= MaxTrail
  /\ shown.is \in {"nothing", "refusal", "data"} /\ shown.total \in 0 .. MaxRows
  /\ rows \in 0 .. MaxRows /\ fetches \in 0 .. MaxFetches

Init ==
  /\ screen \in Screens
  /\ shown = Empty
  /\ chosen = [filters |-> CHOOSE f \in Filters : TRUE, limit |-> Min(Limits),
               page |-> IF screen = "logs" THEN 0 ELSE 1,
               trail |-> [cursors |-> << >>, scope |-> << >>]]
  /\ cache = [k \in {Key} |-> [held |-> Empty, fetch |-> Query(chosen)]]
  /\ rows \in 0 .. MaxRows
  /\ fetches = 1

-----------------------------------------------------------------------------
(* Choosing                                                                *)

Entry(key) == IF key \in DOMAIN cache THEN cache[key] ELSE [held |-> Empty, fetch |-> NoFetch]

Fetched(query) ==
  LET entry == Entry(apiKey(query))
  IN IF entry.fetch = NoFetch
       THEN /\ fetches < MaxFetches /\ fetches' = fetches + 1
            /\ cache' = [k \in DOMAIN cache \cup {apiKey(query)} |->
                           IF k = apiKey(query) THEN [entry EXCEPT !.fetch = query] ELSE cache[k]]
       ELSE UNCHANGED <<cache, fetches>>

\* What its key holds is shown while it is fetched again, or else, save in the
\* usage, the answer that was on show.
Chosen(c) ==
  /\ Visible /\ c # chosen
  /\ chosen' = c
  /\ IF apiKey(Query(c)) = Key THEN UNCHANGED <<cache, shown, fetches>>
     ELSE /\ Fetched(Query(c))
          /\ LET held == Entry(apiKey(Query(c))).held
             IN shown' = CASE held # Empty -> held
                           [] held = Empty /\ screen = "usage" -> Empty
                           [] OTHER -> shown
  /\ UNCHANGED <<screen, rows>>

\* A preset, a date, a search or a clearing; where pages are numbered, the first
\* is chosen with it.
HistoryFilters(f)   == screen = "history" /\ Chosen([chosen EXCEPT !.filters = f])
ReportingFilters(f) == screen = "reporting" /\ Chosen([chosen EXCEPT !.filters = f, !.page = 1])
UsageFilters(month) == screen = "usage" /\ Chosen([chosen EXCEPT !.filters = month])
LogsFilters(f)      == screen = "logs" /\ Chosen([chosen EXCEPT !.filters = f, !.page = 0])

\* The sizes of a page, where there is a choice.
changePageSize(n) ==
  screen = "reporting" /\ Chosen([chosen EXCEPT !.limit = n, !.page = 1])
setLimit(n) ==
  screen = "rules" /\ Chosen([chosen EXCEPT !.limit = n])

-----------------------------------------------------------------------------
(* Paging                                                                  *)

\* Where the page after the one on show begins, or 0 for none: the API says so of
\* the page it gave, and the panel of the rules finds it itself.
NextCursor ==
  LET end == IF screen = "rules" THEN Cursor(chosen) + chosen.limit ELSE shown.of[2] + shown.of[3]
  IN IF end < shown.total THEN end ELSE 0

Trailed(cursors) ==
  Chosen([chosen EXCEPT !.trail = [cursors |-> cursors, scope |-> Scope(chosen)]])

\* The page on show may still be that of the last choice: so may its next cursor.
NextPage ==
  /\ screen \in PagedByCursor /\ shown.is = "data" /\ NextCursor # 0
  /\ Len(useCursorTrail(chosen)) < MaxTrail
  /\ Trailed(Append(useCursorTrail(chosen), NextCursor))

PreviousPage ==
  /\ screen \in PagedByCursor /\ useCursorTrail(chosen) # << >>
  /\ Trailed(Front(useCursorTrail(chosen)))

Ceil(n, d) == (n + d - 1) \div d
PageCount(limit) == IF shown.total = 0 THEN 1 ELSE Ceil(shown.total, limit)

\* First, previous, next and last.
ReportingPager(n) ==
  /\ screen = "reporting"
  /\ \/ chosen.page # 1 /\ n \in {1, chosen.page - 1}
     \/ chosen.page < PageCount(chosen.limit)
          /\ n \in {chosen.page + 1, PageCount(chosen.limit)}
  /\ Chosen([chosen EXCEPT !.page = n])

\* The page is kept although the rows got fewer: a mutant of currentPage.
currentPageKept == chosen.page

\* The log is paged here: a page past its end is its last one.  Pages start at 0.
currentPage ==
  IF chosen.page >= PageCount(Min(Limits)) THEN PageCount(Min(Limits)) - 1 ELSE chosen.page

LogsResults(n) ==
  /\ screen = "logs" /\ shown.total # 0
  /\ \/ currentPage # 0 /\ n = currentPage - 1
     \/ currentPage < PageCount(Min(Limits)) - 1 /\ n = currentPage + 1
  /\ Chosen([chosen EXCEPT !.page = n])

-----------------------------------------------------------------------------
(* The API                                                                 *)

RowsChange ==
  /\ rows' \in 0 .. MaxRows \ {rows}
  /\ UNCHANGED <<screen, chosen, cache, shown, fetches>>

\* The focus of the window, and the refresh of the log.
Refetch ==
  /\ Entry(Key).fetch = NoFetch
  /\ Fetched(Query(chosen))
  /\ UNCHANGED <<screen, chosen, shown, rows>>

\* An answer goes to its own entry; one that is no longer on show stays there.
Answered(key) ==
  /\ cache[key].fetch # NoFetch
  /\ \E answer \in {Refusal, [is |-> "data", of |-> cache[key].fetch, total |-> rows]} :
       /\ cache' = [cache EXCEPT ![key] = [held |-> answer, fetch |-> NoFetch]]
       /\ shown' = IF key = Key THEN answer ELSE shown
  /\ UNCHANGED <<screen, chosen, rows, fetches>>

-----------------------------------------------------------------------------
Next ==
  \/ \E f \in Filters : HistoryFilters(f) \/ ReportingFilters(f) \/ UsageFilters(f)
                          \/ LogsFilters(f)
  \/ \E n \in Limits : changePageSize(n) \/ setLimit(n)
  \/ NextPage \/ PreviousPage
  \/ \E n \in 0 .. MaxRows : ReportingPager(n) \/ LogsResults(n)
  \/ RowsChange \/ Refetch \/ \E key \in DOMAIN cache : Answered(key)

Spec == Init /\ [][Next]_vars

-----------------------------------------------------------------------------
(* Properties                                                              *)

\* Once the answer to what is chosen is in, it is what the table shows, and not
\* that of an earlier choice, in whatever order the two came.
ShownAsChosen ==
  shown.is = "data" /\ Entry(Key).fetch = NoFetch => shown.of = Query(chosen)

\* A table that is paged in the browser shows rows if it has any, however many of
\* them went while a later page was on show.
NoEmptyPage ==
  shown.total > 0 =>
    /\ screen = "logs" => currentPage * Min(Limits) < shown.total
    /\ screen = "rules" => Cursor(chosen) < shown.total
=============================================================================
