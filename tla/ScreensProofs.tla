---------------------------- MODULE ScreensProofs ----------------------------
(***************************************************************************)
(* What five screens of Application keep, for any rows, pages, peers,      *)
(* lists, requests and bounds: the tables, the panels, quick send, the     *)
(* inbox and the top-up.  Each has an inductive invariant, and after it    *)
(* the types of its state, which rest on the invariant: a request that is  *)
(* answered finds the screen it was sent from, so what it writes there is  *)
(* of the type of what was there.                                          *)
(***************************************************************************)
EXTENDS Application, Integers, Sequences, FiniteSetTheorems, WellFoundedInduction, TLAPS

-----------------------------------------------------------------------------
(* Numbers *)

\* A set of numbers has a least one.
LEMMA LeastIs ==
  ASSUME NEW S, S \subseteq Nat, S # {}
  PROVE  \E x \in S : \A y \in S : x <= y
<1> DEFINE R == {p \in Nat \X Nat : p[1] < p[2]}
<1>1. R = OpToRel(<, Nat)
  BY DEF OpToRel
<1>2. \E x \in S : \A y \in S : ~(<<y, x>> \in R)
  <2> HIDE DEF R
  <2>1. IsWellFoundedOn(R, Nat)
    BY <1>1, NatLessThanWellFounded, Zenon
  <2>2. QED
    BY <2>1, WFMin, Zenon
<1> PICK x \in S : \A y \in S : ~(<<y, x>> \in R)
  BY <1>2
<1>3. ASSUME NEW y \in S PROVE x <= y
  <2>1. <<y, x>> \in Nat \X Nat /\ <<y, x>>[1] = y /\ <<y, x>>[2] = x
    OBVIOUS
  <2>2. ~(y < x)
    BY <2>1
  <2>3. QED
    BY <2>2
<1>4. QED
  BY <1>3

LEMMA LeastOf ==
  ASSUME NEW S, S \subseteq Nat, S # {}
  PROVE  /\ Tabled!Min(S) \in S /\ Lists!Min(S) \in S
BY LeastIs DEF Tabled!Min, Lists!Min

\* A page of the log that is past its end is its last one, and it has rows.
LEMMA PagesHaveRows ==
  ASSUME NEW m \in Nat \ {0}, NEW total \in Nat \ {0}
  PROVE  LET pages == Tabled!Ceil(total, m)
         IN  /\ pages \in Nat \ {0} /\ (pages - 1) * m < total
             /\ \A n \in Nat : n < pages => n * m < total
<1> DEFINE q == Tabled!Ceil(total, m)
<1>1. q = (total + m - 1) \div m
  BY DEF Tabled!Ceil
<1>2. q \in Int /\ q * m <= total + m - 1 /\ total + m - 1 < (q + 1) * m
  BY <1>1
<1> HIDE DEF q
<1>3. q * m \in Int /\ (q + 1) * m = q * m + m /\ (q - 1) * m = q * m - m
  BY <1>2
<1>4. q * m > 0 /\ (q - 1) * m < total
  BY <1>2, <1>3
<1>5. q \in Nat \ {0}
  <2>1. ASSUME q <= 0 PROVE q * m <= 0
    BY <1>2, <2>1
  <2>2. QED
    BY <1>2, <1>4, <2>1
<1>6. ASSUME NEW n \in Nat, n < q PROVE n * m < total
  <2>1. n <= q - 1
    BY <1>2, <1>6
  <2>2. \A a, b \in Nat : a <= b => a * m <= b * m
    OBVIOUS
  <2>3. n * m <= (q - 1) * m
    BY <1>5, <2>1, <2>2
  <2>4. QED
    BY <1>3, <1>4, <2>3
<1>7. QED
  BY <1>4, <1>5, <1>6 DEF q

-----------------------------------------------------------------------------
(* The tables *)

\* An entry of the cache holds the answer to its own query, and is fetched for it.
EntryOf(entry, key) ==
  /\ DOMAIN entry = {"held", "fetch"}
  /\ entry.held.is = "data" => entry.held.of = key
  /\ entry.held.total \in Nat
  /\ entry.fetch \in {key, Tabled!NoFetch}

\* The pages that the trail of the rules leads through begin before the rows end.
ChoiceOf(c) ==
  /\ DOMAIN c = {"filters", "limit", "page", "trail"}
  /\ c.page \in Nat /\ c.limit \in Nat
  /\ screen = "rules" =>
       /\ c.trail.cursors \in Seq(Nat)
       /\ \A i \in DOMAIN c.trail.cursors : c.trail.cursors[i] < c.trail.scope[2]

\* What is on show is the answer to what is chosen, unless that is being fetched.
TablesInv ==
  /\ screen \in Tabled!Screens
  /\ rows \in Nat /\ shown.total \in Nat
  /\ ChoiceOf(choice)
  /\ Tabled!Key \in DOMAIN cache
  /\ \A key \in DOMAIN cache : EntryOf(cache[key], key)
  /\ Tabled!ShownAsChosen

LEMMA KeyAfter ==
  ASSUME NEW c, choice' = c, screen' = screen, screen \in Tabled!Screens
  PROVE  Tabled!Key' = Tabled!Query(c) /\ Tabled!Query(choice)' = Tabled!Query(c)
<1>1. CASE screen = "history"
  BY <1>1 DEF Tabled!Key, Tabled!apiKey, Tabled!Query, Tabled!Cursor,
              Tabled!useCursorTrail, Tabled!Scope
<1>2. CASE screen # "history"
  BY <1>2 DEF Tabled!Key, Tabled!apiKey, Tabled!Query, Tabled!Screens
<1>3. QED
  BY <1>1, <1>2

LEMMA KeyIs ==
  ASSUME screen \in Tabled!Screens, NEW c
  PROVE  Tabled!Query(c) # Tabled!NoFetch
BY DEF Tabled!Query, Tabled!NoFetch, Tabled!Screens

\* A query that is wanted is being fetched then.
LEMMA FetchedIs ==
  ASSUME TablesInv, NEW c, Tabled!Fetched(Tabled!Query(c))
  PROVE  LET key == Tabled!Query(c)
         IN  /\ key \in DOMAIN cache' /\ DOMAIN cache \subseteq DOMAIN cache'
             /\ cache'[key].fetch # Tabled!NoFetch
             /\ \A k \in DOMAIN cache' : EntryOf(cache'[k], k)
<1> DEFINE key == Tabled!Query(c)
           entry == Tabled!Entry(key)
<1>1. key # Tabled!NoFetch
  BY KeyIs DEF TablesInv
<1>2. EntryOf(entry, key)
  BY DEF TablesInv, Tabled!Entry, EntryOf, Tabled!Empty, Tabled!NoFetch
<1>3. CASE entry.fetch = Tabled!NoFetch
  <2>1. cache' = [k \in DOMAIN cache \cup {key} |->
                    IF k = key THEN [entry EXCEPT !.fetch = key] ELSE cache[k]]
    BY <1>3 DEF Tabled!Fetched, Tabled!apiKey
  <2> HIDE DEF key, entry
  <2>2. EntryOf([entry EXCEPT !.fetch = key], key)
    BY <1>2 DEF EntryOf
  <2>3. [entry EXCEPT !.fetch = key].fetch = key
    BY <1>2 DEF EntryOf
  <2>4. QED
    BY <1>1, <2>1, <2>2, <2>3 DEF TablesInv, key
<1>4. CASE entry.fetch # Tabled!NoFetch
  <2>1. cache' = cache
    BY <1>4 DEF Tabled!Fetched, Tabled!apiKey
  <2>2. key \in DOMAIN cache /\ entry = cache[key]
    BY <1>4 DEF Tabled!Entry
  <2>3. QED
    BY <1>4, <2>1, <2>2 DEF TablesInv
<1>5. QED
  BY <1>3, <1>4

LEMMA ChosenKeeps ==
  ASSUME TablesInv, NEW c, ChoiceOf(c), Tabled!Chosen(c)
  PROVE  TablesInv'
<1>1. choice' = c /\ screen' = screen /\ rows' = rows /\ screen \in Tabled!Screens
  BY DEF Tabled!Chosen, TablesInv
<1>2. Tabled!Key' = Tabled!Query(c) /\ Tabled!Query(choice)' = Tabled!Query(c)
  BY <1>1, KeyAfter
<1>3. ChoiceOf(choice)'
  BY <1>1 DEF ChoiceOf
<1>4. CASE Tabled!Query(c) = Tabled!Key
  <2>1. cache' = cache /\ shown' = shown
    BY <1>4 DEF Tabled!Chosen, Tabled!apiKey
  <2>2. Tabled!ShownAsChosen'
    BY <1>2, <1>4, <2>1 DEF TablesInv, Tabled!ShownAsChosen, Tabled!Entry, Tabled!Key,
                            Tabled!apiKey
  <2>3. QED
    BY <1>1, <1>2, <1>3, <1>4, <2>1, <2>2 DEF TablesInv, EntryOf
<1>5. CASE Tabled!Query(c) # Tabled!Key
  <2>1. Tabled!Fetched(Tabled!Query(c))
    BY <1>5 DEF Tabled!Chosen, Tabled!apiKey
  <2>2. /\ Tabled!Query(c) \in DOMAIN cache'
        /\ cache'[Tabled!Query(c)].fetch # Tabled!NoFetch
        /\ \A k \in DOMAIN cache' : EntryOf(cache'[k], k)
    BY <2>1, FetchedIs
  <2>3. shown'.total \in Nat
    <3>1. shown' \in {Tabled!Entry(Tabled!Query(c)).held, Tabled!Empty, shown}
      BY <1>5 DEF Tabled!Chosen, Tabled!apiKey
    <3>2. Tabled!Entry(Tabled!Query(c)).held.total \in Nat /\ Tabled!Empty.total \in Nat
      BY DEF Tabled!Entry, TablesInv, EntryOf, Tabled!Empty
    <3>3. QED
      BY <3>1, <3>2 DEF TablesInv
  <2>4. Tabled!ShownAsChosen'
    BY <1>2, <2>2 DEF Tabled!ShownAsChosen, Tabled!Entry, Tabled!NoFetch
  <2>5. QED
    BY <1>1, <1>2, <1>3, <2>2, <2>3, <2>4 DEF TablesInv, EntryOf
<1>6. QED
  BY <1>4, <1>5

\* The trail that is left by a turn of the rules' pages.
LEMMA TrailsOf ==
  ASSUME TablesInv, screen = "rules"
  PROVE  /\ Tabled!useCursorTrail(choice) \in Seq(Nat)
         /\ \A i \in DOMAIN Tabled!useCursorTrail(choice) :
              Tabled!useCursorTrail(choice)[i] < shown.total
         /\ Tabled!Scope(choice)[2] = shown.total
         /\ Tabled!Cursor(choice) \in Nat
         /\ shown.total > 0 => Tabled!Cursor(choice) < shown.total
<1> DEFINE trail == Tabled!useCursorTrail(choice)
<1>1. Tabled!Scope(choice)[2] = shown.total
  BY DEF Tabled!Scope
<1>2. trail \in Seq(Nat) /\ \A i \in DOMAIN trail : trail[i] < shown.total
  <2>1. CASE choice.trail.scope = Tabled!Scope(choice)
    BY <1>1, <2>1 DEF Tabled!useCursorTrail, TablesInv, ChoiceOf
  <2>2. CASE choice.trail.scope # Tabled!Scope(choice)
    BY <2>2 DEF Tabled!useCursorTrail
  <2>3. QED
    BY <2>1, <2>2
<1> HIDE DEF trail
<1>3. Tabled!Cursor(choice) = IF trail = << >> THEN 0 ELSE trail[Len(trail)]
  BY DEF Tabled!Cursor, Tabled!Last, trail
<1>4. trail # << >> => Len(trail) \in DOMAIN trail /\ trail[Len(trail)] \in Nat
  BY <1>2
<1>5. QED
  BY <1>1, <1>2, <1>3, <1>4 DEF trail, TablesInv

LEMMA TrailedKeeps ==
  ASSUME TablesInv, Tabled!NextPage \/ Tabled!PreviousPage
  PROVE  TablesInv'
<1>1. ASSUME NEW cursors, Tabled!Trailed(cursors),
             screen = "rules" =>
               cursors \in Seq(Nat) /\ \A i \in DOMAIN cursors : cursors[i] < shown.total
      PROVE  TablesInv'
  <2> DEFINE c == [choice EXCEPT !.trail = [cursors |-> cursors, scope |-> Tabled!Scope(choice)]]
  <2>1. /\ DOMAIN c = DOMAIN choice /\ c.page = choice.page /\ c.limit = choice.limit
        /\ c.trail = [cursors |-> cursors, scope |-> Tabled!Scope(choice)]
    BY DEF TablesInv, ChoiceOf
  <2>2. Tabled!Chosen(c)
    BY <1>1 DEF Tabled!Trailed
  <2> HIDE DEF c
  <2>3. ChoiceOf(c)
    BY <1>1, <2>1, TrailsOf DEF TablesInv, ChoiceOf
  <2>4. QED
    BY <2>2, <2>3, ChosenKeeps
<1> DEFINE trail == Tabled!useCursorTrail(choice)
<1>2. CASE Tabled!NextPage
  <2>1. Tabled!Trailed(Append(trail, Tabled!NextCursor)) /\ Tabled!NextCursor # 0
    BY <1>2 DEF Tabled!NextPage
  <2>2. ASSUME screen = "rules"
        PROVE  /\ Append(trail, Tabled!NextCursor) \in Seq(Nat)
               /\ \A i \in DOMAIN Append(trail, Tabled!NextCursor) :
                    Append(trail, Tabled!NextCursor)[i] < shown.total
    <3>1. Tabled!NextCursor \in Nat /\ Tabled!NextCursor < shown.total
      BY <2>1, <2>2, TrailsOf DEF Tabled!NextCursor, TablesInv, ChoiceOf
    <3>2. trail \in Seq(Nat) /\ \A i \in DOMAIN trail : trail[i] < shown.total
      BY <2>2, TrailsOf
    <3> HIDE DEF trail
    <3>3. QED
      BY <3>1, <3>2
  <2>3. QED
    BY <1>1, <2>1, <2>2
<1>3. CASE Tabled!PreviousPage
  <2>1. Tabled!Trailed(Tabled!Front(trail)) /\ trail # << >>
    BY <1>3 DEF Tabled!PreviousPage
  <2>2. ASSUME screen = "rules"
        PROVE  /\ Tabled!Front(trail) \in Seq(Nat)
               /\ \A i \in DOMAIN Tabled!Front(trail) : Tabled!Front(trail)[i] < shown.total
    <3>1. trail \in Seq(Nat) /\ \A i \in DOMAIN trail : trail[i] < shown.total
      BY <2>2, TrailsOf
    <3> HIDE DEF trail
    <3>2. Tabled!Front(trail) = SubSeq(trail, 1, Len(trail) - 1)
      BY DEF Tabled!Front
    <3>3. Len(trail) \in Nat \ {0} /\ DOMAIN trail = 1 .. Len(trail)
      BY <2>1, <3>1
    <3>4. /\ SubSeq(trail, 1, Len(trail) - 1) \in Seq(Nat)
          /\ DOMAIN SubSeq(trail, 1, Len(trail) - 1) = 1 .. Len(trail) - 1
          /\ \A i \in 1 .. Len(trail) - 1 : SubSeq(trail, 1, Len(trail) - 1)[i] = trail[i]
      BY <3>1, <3>3
    <3>5. QED
      BY <3>1, <3>2, <3>3, <3>4
  <2>3. QED
    BY <1>1, <2>1, <2>2
<1>4. QED
  BY <1>2, <1>3

\* A filter, the size of a page, or a numbered page.
LEMMA SetKeeps ==
  ASSUME TablesInv, Tabled!TablesAssumption,
         \/ \E f \in Filters : \/ Tabled!HistoryFilters(f) \/ Tabled!ReportingFilters(f)
                               \/ Tabled!UsageFilters(f) \/ Tabled!LogsFilters(f)
         \/ \E n \in Limits : Tabled!changePageSize(n) \/ Tabled!setLimit(n)
         \/ \E n \in 0 .. MaxRows : Tabled!ReportingPager(n) \/ Tabled!LogsResults(n)
  PROVE  TablesInv'
<1>1. ASSUME NEW c, Tabled!Chosen(c), DOMAIN c = DOMAIN choice, c.trail = choice.trail,
             c.page \in Nat, c.limit \in Nat
      PROVE  TablesInv'
  <2>1. ChoiceOf(c)
    BY <1>1 DEF TablesInv, ChoiceOf
  <2>2. QED
    BY <1>1, <2>1, ChosenKeeps
<1>2. choice.page \in Nat /\ choice.limit \in Nat /\ DOMAIN choice = {"filters", "limit", "page", "trail"}
  BY DEF TablesInv, ChoiceOf
<1>3. ASSUME NEW f, Tabled!Chosen([choice EXCEPT !.filters = f]) PROVE TablesInv'
  <2> DEFINE c == [choice EXCEPT !.filters = f]
  <2>1. DOMAIN c = DOMAIN choice /\ c.trail = choice.trail /\ c.page \in Nat /\ c.limit \in Nat
    BY <1>2
  <2> HIDE DEF c
  <2>2. QED
    BY <1>1, <1>3, <2>1 DEF c
<1>4. ASSUME NEW f, NEW n \in Nat, Tabled!Chosen([choice EXCEPT !.filters = f, !.page = n])
      PROVE  TablesInv'
  <2> DEFINE c == [choice EXCEPT !.filters = f, !.page = n]
  <2>1. DOMAIN c = DOMAIN choice /\ c.trail = choice.trail /\ c.page \in Nat /\ c.limit \in Nat
    BY <1>2
  <2> HIDE DEF c
  <2>2. QED
    BY <1>1, <1>4, <2>1 DEF c
<1>5. ASSUME NEW n \in Nat, NEW m \in Nat, Tabled!Chosen([choice EXCEPT !.limit = n, !.page = m])
      PROVE  TablesInv'
  <2> DEFINE c == [choice EXCEPT !.limit = n, !.page = m]
  <2>1. DOMAIN c = DOMAIN choice /\ c.trail = choice.trail /\ c.page \in Nat /\ c.limit \in Nat
    BY <1>2
  <2> HIDE DEF c
  <2>2. QED
    BY <1>1, <1>5, <2>1 DEF c
<1>6. ASSUME NEW n \in Nat, \/ Tabled!Chosen([choice EXCEPT !.limit = n])
                            \/ Tabled!Chosen([choice EXCEPT !.page = n])
      PROVE  TablesInv'
  <2> DEFINE c == [choice EXCEPT !.limit = n]
             d == [choice EXCEPT !.page = n]
  <2>1. DOMAIN c = DOMAIN choice /\ c.trail = choice.trail /\ c.page \in Nat /\ c.limit \in Nat
    BY <1>2
  <2>2. DOMAIN d = DOMAIN choice /\ d.trail = choice.trail /\ d.page \in Nat /\ d.limit \in Nat
    BY <1>2
  <2>3. Tabled!Chosen(c) \/ Tabled!Chosen(d)
    BY <1>6
  <2> HIDE DEF c, d
  <2>4. QED
    BY <1>1, <2>1, <2>2, <2>3
<1>7. Limits \subseteq Nat /\ 0 .. MaxRows \subseteq Nat
  BY DEF Tabled!TablesAssumption
<1>8. CASE \E f \in Filters : \/ Tabled!HistoryFilters(f) \/ Tabled!ReportingFilters(f)
                              \/ Tabled!UsageFilters(f) \/ Tabled!LogsFilters(f)
  BY <1>3, <1>4, <1>8 DEF Tabled!HistoryFilters, Tabled!ReportingFilters,
                          Tabled!UsageFilters, Tabled!LogsFilters
<1>9. CASE \E n \in Limits : Tabled!changePageSize(n) \/ Tabled!setLimit(n)
  BY <1>5, <1>6, <1>7, <1>9 DEF Tabled!changePageSize, Tabled!setLimit
<1>10. CASE \E n \in 0 .. MaxRows : Tabled!ReportingPager(n) \/ Tabled!LogsResults(n)
  BY <1>6, <1>7, <1>10 DEF Tabled!ReportingPager, Tabled!LogsResults
<1>11. QED
  BY <1>8, <1>9, <1>10

LEMMA AnswersKeep ==
  ASSUME TablesInv, NEW key \in DOMAIN cache, Tabled!Answered(key)
  PROVE  TablesInv'
<1>1. PICK answer \in {Tabled!Refusal,
                       [is |-> "data", of |-> cache[key].fetch, total |-> rows]} :
        /\ cache' = [cache EXCEPT ![key] = [held |-> answer, fetch |-> Tabled!NoFetch]]
        /\ shown' = IF key = Tabled!Key THEN answer ELSE shown
  BY DEF Tabled!Answered
<1>2. /\ choice' = choice /\ screen' = screen /\ rows' = rows
      /\ cache[key].fetch = key /\ screen \in Tabled!Screens
  BY DEF Tabled!Answered, TablesInv, EntryOf
<1>3. /\ answer.total \in Nat /\ (answer.is = "data" => answer.of = key)
  BY <1>1, <1>2 DEF TablesInv, Tabled!Refusal, Tabled!Empty
<1>4. Tabled!Key' = Tabled!Key /\ Tabled!Query(choice)' = Tabled!Query(choice)
  BY <1>2, KeyAfter DEF Tabled!Key, Tabled!apiKey
<1>5. ChoiceOf(choice)'
  BY <1>2 DEF ChoiceOf, TablesInv
<1>6. \A k \in DOMAIN cache' : EntryOf(cache'[k], k)
  BY <1>1, <1>3 DEF TablesInv, EntryOf
<1>7. Tabled!ShownAsChosen'
  <2>1. CASE key = Tabled!Key
    BY <1>1, <1>3, <1>4, <2>1 DEF Tabled!ShownAsChosen, Tabled!Key, Tabled!apiKey
  <2>2. CASE key # Tabled!Key
    BY <1>1, <1>4, <2>2 DEF Tabled!ShownAsChosen, TablesInv, Tabled!Entry
  <2>3. QED
    BY <2>1, <2>2
<1>8. QED
  BY <1>1, <1>2, <1>3, <1>4, <1>5, <1>6, <1>7 DEF TablesInv, EntryOf

LEMMA TablesStep ==
  ASSUME TablesInv, Tabled!TablesAssumption, Tabled!Next PROVE TablesInv'
<1>1. CASE Tabled!RowsChange
  <2>1. /\ choice' = choice /\ screen' = screen /\ cache' = cache /\ shown' = shown
        /\ rows' \in Nat
    BY <1>1 DEF Tabled!RowsChange, Tabled!TablesAssumption
  <2>2. Tabled!Key' = Tabled!Key /\ Tabled!Query(choice)' = Tabled!Query(choice)
    BY <2>1, KeyAfter DEF TablesInv, Tabled!Key, Tabled!apiKey
  <2>3. QED
    BY <2>1, <2>2 DEF TablesInv, ChoiceOf, EntryOf, Tabled!ShownAsChosen, Tabled!Entry
<1>2. CASE Tabled!Refetch
  <2>1. /\ choice' = choice /\ screen' = screen /\ rows' = rows /\ shown' = shown
        /\ Tabled!Fetched(Tabled!Query(choice))
    BY <1>2 DEF Tabled!Refetch
  <2>2. Tabled!Key' = Tabled!Query(choice) /\ Tabled!Query(choice)' = Tabled!Query(choice)
    BY <2>1, KeyAfter DEF TablesInv
  <2>3. /\ Tabled!Query(choice) \in DOMAIN cache'
        /\ cache'[Tabled!Query(choice)].fetch # Tabled!NoFetch
        /\ \A k \in DOMAIN cache' : EntryOf(cache'[k], k)
    BY <2>1, FetchedIs
  <2>4. Tabled!ShownAsChosen'
    BY <2>2, <2>3 DEF Tabled!ShownAsChosen, Tabled!Entry, Tabled!NoFetch
  <2>5. QED
    BY <2>1, <2>2, <2>3, <2>4 DEF TablesInv, ChoiceOf, EntryOf
<1>3. QED
  BY <1>1, <1>2, SetKeeps, TrailedKeeps, AnswersKeep DEF Tabled!Next

LEMMA TablesInit ==
  ASSUME Tabled!TablesAssumption, Tabled!Init PROVE TablesInv
<1>1. Tabled!Min(Limits) \in Nat \ {0}
  BY LeastOf DEF Tabled!TablesAssumption
<1>2. /\ screen \in Tabled!Screens /\ shown = Tabled!Empty /\ rows \in Nat
      /\ DOMAIN choice = {"filters", "limit", "page", "trail"}
      /\ choice.limit = Tabled!Min(Limits) /\ choice.page \in Nat
      /\ choice.trail.cursors = << >>
      /\ cache = [k \in {Tabled!Key} |-> [held |-> Tabled!Empty,
                                          fetch |-> Tabled!Query(choice)]]
  BY DEF Tabled!Init, Tabled!TablesAssumption
<1>3. ChoiceOf(choice)
  BY <1>1, <1>2 DEF ChoiceOf
<1>4. EntryOf(cache[Tabled!Key], Tabled!Key)
  BY <1>2 DEF EntryOf, Tabled!Empty, Tabled!Key, Tabled!apiKey
<1>5. QED
  BY <1>2, <1>3, <1>4 DEF TablesInv, Tabled!ShownAsChosen, Tabled!Empty

\* What the invariant says of the rows on show.
LEMMA TablesShow ==
  ASSUME TablesInv, Tabled!TablesAssumption
  PROVE  Tabled!ShownAsChosen /\ Tabled!NoEmptyPage
<1>1. ASSUME shown.total > 0, screen = "logs"
      PROVE  Tabled!currentPage * Tabled!Min(Limits) < shown.total
  <2>1. Tabled!Min(Limits) \in Nat \ {0}
    BY LeastOf DEF Tabled!TablesAssumption
  <2> DEFINE m == Tabled!Min(Limits)
             pages == Tabled!Ceil(shown.total, m)
  <2>2. shown.total \in Nat \ {0} /\ choice.page \in Nat
    BY <1>1 DEF TablesInv, ChoiceOf
  <2>3. /\ pages \in Nat \ {0} /\ (pages - 1) * m < shown.total
        /\ \A n \in Nat : n < pages => n * m < shown.total
    BY <2>1, <2>2, PagesHaveRows
  <2>4. Tabled!currentPage = IF choice.page >= pages THEN pages - 1 ELSE choice.page
    BY <1>1 DEF Tabled!currentPage, Tabled!PageCount
  <2> HIDE DEF m, pages
  <2>5. Tabled!currentPage * m < shown.total
    BY <2>2, <2>3, <2>4
  <2>6. QED
    BY <2>5 DEF m
<1>2. QED
  BY <1>1, TrailsOf DEF TablesInv, Tabled!NoEmptyPage

\* The tables where they are the section looked at.
TablesKept == section = "tables" => TablesInv

-----------------------------------------------------------------------------
(* The types of the tables *)

\* What the API may have answered, and where a page of the history begins.
HeldOf(held) ==
  /\ held.is \in {"nothing", "refusal", "data"} /\ held.total \in 0 .. MaxRows
  /\ screen = "history" /\ held.is = "data" => held.of[2] \in Nat /\ held.of[3] \in Nat

\* What the tables keep is of its types.
TablesTypes ==
  /\ Tabled!TypeOK
  /\ choice.trail.cursors \in Seq(Nat)
  /\ HeldOf(shown)
  /\ \A key \in DOMAIN cache :
       /\ HeldOf(cache[key].held)
       /\ screen = "history" => key[2] \in Nat /\ key[3] \in Nat

LEMMA TrailTyped ==
  ASSUME TablesTypes, NEW c, c.trail.cursors \in Seq(Nat), Len(c.trail.cursors) <= MaxTableTrail,
         MaxTableTrail \in Nat
  PROVE  /\ Tabled!useCursorTrail(c) \in Seq(Nat) /\ Len(Tabled!useCursorTrail(c)) <= MaxTableTrail
         /\ Tabled!Cursor(c) \in Nat
<1> DEFINE trail == Tabled!useCursorTrail(c)
<1>1. trail \in Seq(Nat) /\ Len(trail) <= MaxTableTrail
  BY DEF Tabled!useCursorTrail
<1>2. Tabled!Cursor(c) = IF trail = << >> THEN 0 ELSE trail[Len(trail)]
  BY DEF Tabled!Cursor, Tabled!Last
<1> HIDE DEF trail
<1>3. Tabled!Cursor(c) \in Nat
  BY <1>1, <1>2
<1>4. QED
  BY <1>1, <1>3 DEF trail

\* A query begins somewhere.
LEMMA QueryTyped ==
  ASSUME TablesTypes, Tabled!TablesAssumption, screen = "history",
         NEW c, c.trail.cursors \in Seq(Nat), Len(c.trail.cursors) <= MaxTableTrail
  PROVE  Tabled!Query(c)[2] \in Nat /\ Tabled!Query(c)[3] \in Nat
<1>1. Tabled!Cursor(c) \in Nat /\ Tabled!Min(Limits) \in Nat
  BY TrailTyped, LeastOf DEF Tabled!TablesAssumption
<1>2. Tabled!Query(c) = <<c.filters, Tabled!Cursor(c), Tabled!Min(Limits)>>
  BY DEF Tabled!Query
<1>3. QED
  BY <1>1, <1>2

LEMMA FetchedTyped ==
  ASSUME TablesInv, TablesTypes, Tabled!TablesAssumption, screen' = screen,
         NEW c, c.trail.cursors \in Seq(Nat), Len(c.trail.cursors) <= MaxTableTrail,
         Tabled!Fetched(Tabled!Query(c))
  PROVE  /\ fetches' \in 0 .. MaxFetches
         /\ HeldOf(Tabled!Entry(Tabled!Query(c)).held)
         /\ \A key \in DOMAIN cache' :
              /\ HeldOf(cache'[key].held)
              /\ screen = "history" => key[2] \in Nat /\ key[3] \in Nat
<1> DEFINE key == Tabled!Query(c)
           entry == Tabled!Entry(key)
<1>1. HeldOf(entry.held) /\ DOMAIN entry = {"held", "fetch"}
  BY DEF TablesTypes, TablesInv, EntryOf, Tabled!Entry, HeldOf, Tabled!Empty,
         Tabled!TablesAssumption
<1>2. screen = "history" => key[2] \in Nat /\ key[3] \in Nat
  BY QueryTyped
<1>3. CASE entry.fetch = Tabled!NoFetch
  <2>1. /\ fetches' = fetches + 1 /\ fetches < MaxFetches
        /\ cache' = [k \in DOMAIN cache \cup {key} |->
                       IF k = key THEN [entry EXCEPT !.fetch = key] ELSE cache[k]]
    BY <1>3 DEF Tabled!Fetched, Tabled!apiKey
  <2>2. fetches \in 0 .. MaxFetches /\ MaxFetches \in Nat
    BY DEF TablesTypes, Tabled!TypeOK, Tabled!TablesAssumption
  <2> HIDE DEF key, entry
  <2>3. [entry EXCEPT !.fetch = key].held = entry.held
    BY <1>1
  <2>4. QED
    BY <1>1, <1>2, <2>1, <2>2, <2>3 DEF TablesTypes, key, entry
<1>4. CASE entry.fetch # Tabled!NoFetch
  <2>1. cache' = cache /\ fetches' = fetches
    BY <1>4 DEF Tabled!Fetched, Tabled!apiKey
  <2>2. QED
    BY <1>1, <2>1 DEF TablesTypes, Tabled!TypeOK
<1>5. QED
  BY <1>3, <1>4

LEMMA ChosenTyped ==
  ASSUME TablesInv, TablesInv', TablesTypes, Tabled!TablesAssumption,
         NEW c, Tabled!Chosen(c),
         c.filters \in Filters, c.limit \in Limits, c.page \in 0 .. MaxRows,
         c.trail.cursors \in Seq(Nat), Len(c.trail.cursors) <= MaxTableTrail
  PROVE  TablesTypes'
<1>1. choice' = c /\ screen' = screen /\ rows' = rows
  BY DEF Tabled!Chosen
<1>2. /\ fetches' \in 0 .. MaxFetches /\ HeldOf(shown)'
      /\ \A key \in DOMAIN cache' :
              /\ HeldOf(cache'[key].held)
              /\ screen = "history" => key[2] \in Nat /\ key[3] \in Nat
  <2>1. CASE Tabled!Query(c) = Tabled!Key
    <3>1. cache' = cache /\ shown' = shown /\ fetches' = fetches
      BY <2>1 DEF Tabled!Chosen, Tabled!apiKey
    <3>2. QED
      BY <1>1, <3>1 DEF TablesTypes, Tabled!TypeOK, HeldOf
  <2>2. CASE Tabled!Query(c) # Tabled!Key
    <3>1. Tabled!Fetched(Tabled!Query(c))
      BY <2>2 DEF Tabled!Chosen, Tabled!apiKey
    <3>2. /\ fetches' \in 0 .. MaxFetches
          /\ HeldOf(Tabled!Entry(Tabled!Query(c)).held)
          /\ \A key \in DOMAIN cache' :
              /\ HeldOf(cache'[key].held)
              /\ screen = "history" => key[2] \in Nat /\ key[3] \in Nat
      BY <1>1, <3>1, FetchedTyped
    <3>3. shown' \in {Tabled!Entry(Tabled!Query(c)).held, Tabled!Empty, shown}
      BY <2>2 DEF Tabled!Chosen, Tabled!apiKey
    <3>4. HeldOf(Tabled!Empty) /\ HeldOf(shown)
      BY DEF HeldOf, Tabled!Empty, Tabled!TablesAssumption, TablesTypes
    <3>5. QED
      BY <1>1, <3>2, <3>3, <3>4 DEF HeldOf
  <2>3. QED
    BY <2>1, <2>2
<1>3. Tabled!TypeOK'
  BY <1>1, <1>2 DEF Tabled!TypeOK, TablesTypes, TablesInv, HeldOf
<1>4. QED
  BY <1>1, <1>2, <1>3 DEF TablesTypes, HeldOf

LEMMA TrailedTyped ==
  ASSUME TablesInv, TablesInv', TablesTypes, Tabled!TablesAssumption,
         Tabled!NextPage \/ Tabled!PreviousPage
  PROVE  TablesTypes'
<1>0. /\ choice.filters \in Filters /\ choice.limit \in Limits /\ choice.page \in 0 .. MaxRows
      /\ choice.trail.cursors \in Seq(Nat) /\ Len(choice.trail.cursors) <= MaxTableTrail
      /\ MaxTableTrail \in Nat /\ Limits \subseteq Nat
  BY DEF TablesTypes, Tabled!TypeOK, Tabled!TablesAssumption
<1>1. ASSUME NEW cursors \in Seq(Nat), Tabled!Trailed(cursors), Len(cursors) <= MaxTableTrail
      PROVE  TablesTypes'
  <2> DEFINE c == [choice EXCEPT !.trail = [cursors |-> cursors, scope |-> Tabled!Scope(choice)]]
  <2>1. /\ c.page = choice.page /\ c.limit = choice.limit /\ c.filters = choice.filters
        /\ c.trail = [cursors |-> cursors, scope |-> Tabled!Scope(choice)]
    BY DEF TablesInv, ChoiceOf
  <2>2. Tabled!Chosen(c)
    BY <1>1 DEF Tabled!Trailed
  <2> HIDE DEF c
  <2>3. c.trail.cursors = cursors
    BY <2>1
  <2>4. QED
    BY <1>0, <1>1, <2>1, <2>2, <2>3, ChosenTyped
<1> DEFINE trail == Tabled!useCursorTrail(choice)
<1>2. trail \in Seq(Nat) /\ Len(trail) <= MaxTableTrail /\ Tabled!Cursor(choice) \in Nat
  BY <1>0, TrailTyped
<1>3. CASE Tabled!NextPage
  <2>1. /\ Tabled!Trailed(Append(trail, Tabled!NextCursor)) /\ Len(trail) < MaxTableTrail
        /\ screen \in {"history", "rules"} /\ shown.is = "data"
    BY <1>3 DEF Tabled!NextPage, Tabled!PagedByCursor
  <2>2. Tabled!NextCursor \in Nat
    <3>1. CASE screen = "rules"
      <4>1. choice.limit \in Nat /\ shown.total \in Nat
        BY <1>0 DEF TablesInv, ChoiceOf
      <4>2. QED
        BY <1>2, <3>1, <4>1 DEF Tabled!NextCursor
    <3>2. CASE screen = "history"
      <4>1. shown.of[2] \in Nat /\ shown.of[3] \in Nat
        BY <2>1, <3>2 DEF TablesTypes, HeldOf
      <4>2. QED
        BY <3>2, <4>1 DEF Tabled!NextCursor
    <3>3. QED
      BY <2>1, <3>1, <3>2
  <2> HIDE DEF trail
  <2>3. Append(trail, Tabled!NextCursor) \in Seq(Nat) /\ Len(Append(trail, Tabled!NextCursor)) <= MaxTableTrail
    BY <1>0, <1>2, <2>1, <2>2
  <2>4. QED
    BY <1>1, <2>1, <2>3
<1>4. CASE Tabled!PreviousPage
  <2>1. Tabled!Trailed(Tabled!Front(trail)) /\ trail # << >>
    BY <1>4 DEF Tabled!PreviousPage
  <2>2. Tabled!Front(trail) = SubSeq(trail, 1, Len(trail) - 1)
    BY DEF Tabled!Front
  <2> HIDE DEF trail
  <2>3. Tabled!Front(trail) \in Seq(Nat) /\ Len(Tabled!Front(trail)) <= MaxTableTrail
    BY <1>0, <1>2, <2>1, <2>2
  <2>4. QED
    BY <1>1, <2>1, <2>3
<1>5. QED
  BY <1>3, <1>4

LEMMA SetTyped ==
  ASSUME TablesInv, TablesInv', TablesTypes, Tabled!TablesAssumption,
         \/ \E f \in Filters : \/ Tabled!HistoryFilters(f) \/ Tabled!ReportingFilters(f)
                               \/ Tabled!UsageFilters(f) \/ Tabled!LogsFilters(f)
         \/ \E n \in Limits : Tabled!changePageSize(n) \/ Tabled!setLimit(n)
         \/ \E n \in 0 .. MaxRows : Tabled!ReportingPager(n) \/ Tabled!LogsResults(n)
  PROVE  TablesTypes'
<1>0. /\ choice.filters \in Filters /\ choice.limit \in Limits /\ choice.page \in 0 .. MaxRows
      /\ choice.trail.cursors \in Seq(Nat) /\ Len(choice.trail.cursors) <= MaxTableTrail
      /\ DOMAIN choice = {"filters", "limit", "page", "trail"}
      /\ 0 \in 0 .. MaxRows /\ 1 \in 0 .. MaxRows
  BY DEF TablesTypes, Tabled!TypeOK, Tabled!TablesAssumption, TablesInv, ChoiceOf
<1>1. ASSUME NEW c, Tabled!Chosen(c), c.trail = choice.trail,
             c.filters \in Filters, c.limit \in Limits, c.page \in 0 .. MaxRows
      PROVE  TablesTypes'
  <2>1. c.trail.cursors \in Seq(Nat) /\ Len(c.trail.cursors) <= MaxTableTrail
    BY <1>0, <1>1
  <2>2. QED
    BY <1>1, <2>1, ChosenTyped
<1>2. ASSUME NEW f \in Filters,
             NEW n \in 0 .. MaxRows,
             \/ Tabled!Chosen([choice EXCEPT !.filters = f, !.page = n])
             \/ Tabled!Chosen([choice EXCEPT !.filters = f])
      PROVE  TablesTypes'
  <2> DEFINE c == [choice EXCEPT !.filters = f, !.page = n]
             d == [choice EXCEPT !.filters = f]
  <2>1. /\ c.trail = choice.trail /\ c.filters = f /\ c.limit = choice.limit /\ c.page = n
        /\ d.trail = choice.trail /\ d.filters = f /\ d.limit = choice.limit
        /\ d.page = choice.page
    BY <1>0
  <2>2. Tabled!Chosen(c) \/ Tabled!Chosen(d)
    BY <1>2
  <2> HIDE DEF c, d
  <2>3. QED
    BY <1>0, <1>1, <2>1, <2>2
<1>3. ASSUME NEW n \in Limits, NEW m \in 0 .. MaxRows,
             \/ Tabled!Chosen([choice EXCEPT !.limit = n, !.page = m])
             \/ Tabled!Chosen([choice EXCEPT !.limit = n])
             \/ Tabled!Chosen([choice EXCEPT !.page = m])
      PROVE  TablesTypes'
  <2> DEFINE c == [choice EXCEPT !.limit = n, !.page = m]
             d == [choice EXCEPT !.limit = n]
             e == [choice EXCEPT !.page = m]
  <2>1. /\ c.trail = choice.trail /\ c.filters = choice.filters /\ c.limit = n /\ c.page = m
        /\ d.trail = choice.trail /\ d.filters = choice.filters /\ d.limit = n
        /\ d.page = choice.page
        /\ e.trail = choice.trail /\ e.filters = choice.filters /\ e.limit = choice.limit
        /\ e.page = m
    BY <1>0
  <2>2. Tabled!Chosen(c) \/ Tabled!Chosen(d) \/ Tabled!Chosen(e)
    BY <1>3
  <2> HIDE DEF c, d, e
  <2>3. QED
    BY <1>0, <1>1, <2>1, <2>2
<1>4. CASE \E f \in Filters : \/ Tabled!HistoryFilters(f) \/ Tabled!ReportingFilters(f)
                              \/ Tabled!UsageFilters(f) \/ Tabled!LogsFilters(f)
  BY <1>0, <1>2, <1>4 DEF Tabled!HistoryFilters, Tabled!ReportingFilters,
                          Tabled!UsageFilters, Tabled!LogsFilters
<1>5. CASE \E n \in Limits : Tabled!changePageSize(n) \/ Tabled!setLimit(n)
  BY <1>0, <1>3, <1>5 DEF Tabled!changePageSize, Tabled!setLimit
<1>6. CASE \E n \in 0 .. MaxRows : Tabled!ReportingPager(n) \/ Tabled!LogsResults(n)
  BY <1>0, <1>3, <1>6 DEF Tabled!ReportingPager, Tabled!LogsResults
<1>7. QED
  BY <1>4, <1>5, <1>6

LEMMA AnswerTyped ==
  ASSUME TablesInv, TablesInv', TablesTypes, Tabled!TablesAssumption,
         NEW key \in DOMAIN cache, Tabled!Answered(key)
  PROVE  TablesTypes'
<1>1. PICK answer \in {Tabled!Refusal,
                       [is |-> "data", of |-> cache[key].fetch, total |-> rows]} :
        /\ cache' = [cache EXCEPT ![key] = [held |-> answer, fetch |-> Tabled!NoFetch]]
        /\ shown' = IF key = Tabled!Key THEN answer ELSE shown
  BY DEF Tabled!Answered
<1>2. /\ choice' = choice /\ screen' = screen /\ rows' = rows /\ fetches' = fetches
      /\ cache[key].fetch = key
  BY DEF Tabled!Answered, TablesInv, EntryOf
<1>3. HeldOf(answer)
  BY <1>1, <1>2 DEF HeldOf, TablesTypes, Tabled!TypeOK, Tabled!Refusal, Tabled!Empty,
                    Tabled!TablesAssumption
<1>4. HeldOf(shown)'
  BY <1>1, <1>2, <1>3 DEF HeldOf, TablesTypes
<1>5. \A k \in DOMAIN cache' :
        /\ HeldOf(cache'[k].held)
        /\ screen = "history" => k[2] \in Nat /\ k[3] \in Nat
  BY <1>1, <1>3 DEF TablesTypes
<1>6. Tabled!TypeOK'
  BY <1>2, <1>4 DEF Tabled!TypeOK, TablesTypes, TablesInv, HeldOf
<1>7. QED
  BY <1>2, <1>4, <1>5, <1>6 DEF TablesTypes, HeldOf

\* No step of the tables leaves their types, nor begins outside them.
LEMMA TablesTypesStep ==
  ASSUME TablesInv, TablesInv', TablesTypes, Tabled!TablesAssumption, Tabled!Next
  PROVE  TablesTypes'
<1>1. CASE Tabled!RowsChange
  <2>1. /\ choice' = choice /\ screen' = screen /\ cache' = cache /\ shown' = shown
        /\ rows' \in 0 .. MaxRows /\ fetches' = fetches
    BY <1>1 DEF Tabled!RowsChange, Tabled!TablesAssumption
  <2>2. QED
    BY <2>1 DEF TablesTypes, Tabled!TypeOK, HeldOf, TablesInv
<1>2. CASE Tabled!Refetch
  <2>1. /\ choice' = choice /\ screen' = screen /\ rows' = rows /\ shown' = shown
        /\ Tabled!Fetched(Tabled!Query(choice))
    BY <1>2 DEF Tabled!Refetch
  <2>2. choice.trail.cursors \in Seq(Nat) /\ Len(choice.trail.cursors) <= MaxTableTrail
    BY DEF TablesTypes, Tabled!TypeOK
  <2>3. /\ fetches' \in 0 .. MaxFetches
        /\ \A key \in DOMAIN cache' :
             /\ HeldOf(cache'[key].held)
             /\ screen = "history" => key[2] \in Nat /\ key[3] \in Nat
    BY <2>1, <2>2, FetchedTyped
  <2>4. QED
    BY <2>1, <2>2, <2>3 DEF TablesTypes, Tabled!TypeOK, HeldOf, TablesInv
<1>3. QED
  BY <1>1, <1>2, SetTyped, TrailedTyped, AnswerTyped DEF Tabled!Next

LEMMA TablesTypesInit ==
  ASSUME Tabled!TablesAssumption, Tabled!Init PROVE TablesTypes
<1>1. Tabled!Min(Limits) \in Limits
  BY LeastOf DEF Tabled!TablesAssumption
<1>2. /\ screen \in Tabled!Screens /\ shown = Tabled!Empty /\ rows \in 0 .. MaxRows
      /\ fetches = 1
      /\ DOMAIN choice = {"filters", "limit", "page", "trail"} /\ choice.filters \in Filters
      /\ choice.limit = Tabled!Min(Limits) /\ choice.page \in {0, 1}
      /\ choice.trail.cursors = << >> /\ choice.trail.scope = << >>
      /\ cache = [k \in {Tabled!Key} |-> [held |-> Tabled!Empty,
                                          fetch |-> Tabled!Query(choice)]]
  BY DEF Tabled!Init, Tabled!TablesAssumption
<1>3. HeldOf(Tabled!Empty)
  BY DEF HeldOf, Tabled!Empty, Tabled!TablesAssumption
<1>4. Tabled!TypeOK
  BY <1>1, <1>2 DEF Tabled!TypeOK, Tabled!TablesAssumption, Tabled!Empty
<1>5. screen = "history" => Tabled!Key[2] \in Nat /\ Tabled!Key[3] \in Nat
  <2>1. Tabled!Cursor(choice) = 0
    BY <1>2 DEF Tabled!Cursor, Tabled!useCursorTrail
  <2>2. screen = "history" => Tabled!Key = <<choice.filters, 0, Tabled!Min(Limits)>>
    BY <2>1 DEF Tabled!Key, Tabled!apiKey, Tabled!Query
  <2>3. Tabled!Min(Limits) \in Nat
    BY <1>1 DEF Tabled!TablesAssumption
  <2>4. QED
    BY <2>2, <2>3
<1>6. QED
  BY <1>2, <1>3, <1>4, <1>5 DEF TablesTypes

-----------------------------------------------------------------------------
(* The panels                                                              *)

\* What a dialog asks for makes the query stale.
Makes(d, query) ==
  /\ d.asks # {} /\ \A op \in d.asks : query \in Panels!INVALIDATES(op)
  /\ d.granted = "next step" => query \in Panels!INVALIDATES(d.then)

\* What each mutation of the panels makes stale.
LEMMA MutationsMakeStale ==
  /\ Panels!INVALIDATES("post lists") = Panels!CONTACTS
  /\ Panels!INVALIDATES("patch lists/{id}") = Panels!CONTACTS
  /\ Panels!INVALIDATES("delete lists/{id}") = Panels!CONTACTS
  /\ Panels!INVALIDATES("post lists/{id}/clean-up") = Panels!CONTACTS
  /\ Panels!INVALIDATES("post lists/{id}/contacts") = Panels!CONTACTS
  /\ Panels!INVALIDATES("patch lists/{id}/contacts/{id}") = Panels!CONTACTS
  /\ Panels!INVALIDATES("delete senders/{id}") = Panels!SENDERS
  /\ Panels!INVALIDATES("post senders/alpha") = Panels!SENDERS
  /\ Panels!INVALIDATES("post senders/own") = Panels!SENDERS
  /\ Panels!INVALIDATES("post senders/own/{id}/verify") = Panels!SENDERS
  /\ Panels!INVALIDATES("put senders/smart/{country}") = Panels!SENDERS
  /\ Panels!INVALIDATES("delete templates/{id}") = Panels!TEMPLATES
  /\ Panels!INVALIDATES("post templates") = Panels!TEMPLATES
  /\ Panels!INVALIDATES("put templates/{id}") = Panels!TEMPLATES
  /\ Panels!INVALIDATES("delete email-senders/{id}") = Panels!EMAIL_SENDERS
  /\ Panels!INVALIDATES("post email-senders") = Panels!EMAIL_SENDERS
  /\ Panels!INVALIDATES("delete rules/inbound/{id}") = Panels!INBOUND_RULES
  /\ Panels!INVALIDATES("post rules/inbound") = Panels!INBOUND_RULES
  /\ Panels!INVALIDATES("put rules/inbound/{id}") = Panels!INBOUND_RULES
  /\ Panels!INVALIDATES("delete rules/delivery/{id}") = Panels!DELIVERY_RULES
  /\ Panels!INVALIDATES("post rules/delivery") = Panels!DELIVERY_RULES
  /\ Panels!INVALIDATES("put rules/delivery/{id}") = Panels!DELIVERY_RULES
  /\ Panels!INVALIDATES("post websites") = Panels!WEBSITES
  /\ Panels!INVALIDATES("post account/users") = Panels!USERS
  /\ Panels!INVALIDATES("post account/users/{id}/api-key") = Panels!USERS
  /\ Panels!INVALIDATES("delete billing/cards/{id}") = Panels!CARDS
  /\ Panels!INVALIDATES("put billing/cards/{id}/default") = Panels!CARDS
  /\ Panels!INVALIDATES("put account/settings") = Panels!ACCOUNT_SETTINGS
  /\ Panels!INVALIDATES("put account/settings/messaging") = Panels!ACCOUNT_SETTINGS
  /\ Panels!INVALIDATES("put billing/general") = Panels!GENERAL
  /\ Panels!INVALIDATES("patch me/profile") = Panels!ME
  /\ Panels!INVALIDATES("post messages/send") = Panels!ME
<1>1. Panels!INVALIDATES("post lists") = Panels!CONTACTS
  BY DEF Panels!INVALIDATES
<1>2. Panels!INVALIDATES("patch lists/{id}") = Panels!CONTACTS
  BY DEF Panels!INVALIDATES
<1>3. Panels!INVALIDATES("delete lists/{id}") = Panels!CONTACTS
  BY DEF Panels!INVALIDATES
<1>4. Panels!INVALIDATES("post lists/{id}/clean-up") = Panels!CONTACTS
  BY DEF Panels!INVALIDATES
<1>5. Panels!INVALIDATES("post lists/{id}/contacts") = Panels!CONTACTS
  BY DEF Panels!INVALIDATES
<1>6. Panels!INVALIDATES("patch lists/{id}/contacts/{id}") = Panels!CONTACTS
  BY DEF Panels!INVALIDATES
<1>7. Panels!INVALIDATES("delete senders/{id}") = Panels!SENDERS
  BY DEF Panels!INVALIDATES
<1>8. Panels!INVALIDATES("post senders/alpha") = Panels!SENDERS
  BY DEF Panels!INVALIDATES
<1>9. Panels!INVALIDATES("post senders/own") = Panels!SENDERS
  BY DEF Panels!INVALIDATES
<1>10. Panels!INVALIDATES("post senders/own/{id}/verify") = Panels!SENDERS
  BY DEF Panels!INVALIDATES
<1>11. Panels!INVALIDATES("put senders/smart/{country}") = Panels!SENDERS
  BY DEF Panels!INVALIDATES
<1>12. Panels!INVALIDATES("delete templates/{id}") = Panels!TEMPLATES
  BY DEF Panels!INVALIDATES
<1>13. Panels!INVALIDATES("post templates") = Panels!TEMPLATES
  BY DEF Panels!INVALIDATES
<1>14. Panels!INVALIDATES("put templates/{id}") = Panels!TEMPLATES
  BY DEF Panels!INVALIDATES
<1>15. Panels!INVALIDATES("delete email-senders/{id}") = Panels!EMAIL_SENDERS
  BY DEF Panels!INVALIDATES
<1>16. Panels!INVALIDATES("post email-senders") = Panels!EMAIL_SENDERS
  BY DEF Panels!INVALIDATES
<1>17. Panels!INVALIDATES("delete rules/inbound/{id}") = Panels!INBOUND_RULES
  BY DEF Panels!INVALIDATES
<1>18. Panels!INVALIDATES("post rules/inbound") = Panels!INBOUND_RULES
  BY DEF Panels!INVALIDATES
<1>19. Panels!INVALIDATES("put rules/inbound/{id}") = Panels!INBOUND_RULES
  BY DEF Panels!INVALIDATES
<1>20. Panels!INVALIDATES("delete rules/delivery/{id}") = Panels!DELIVERY_RULES
  BY DEF Panels!INVALIDATES
<1>21. Panels!INVALIDATES("post rules/delivery") = Panels!DELIVERY_RULES
  BY DEF Panels!INVALIDATES
<1>22. Panels!INVALIDATES("put rules/delivery/{id}") = Panels!DELIVERY_RULES
  BY DEF Panels!INVALIDATES
<1>23. Panels!INVALIDATES("post websites") = Panels!WEBSITES
  BY DEF Panels!INVALIDATES
<1>24. Panels!INVALIDATES("post account/users") = Panels!USERS
  BY DEF Panels!INVALIDATES
<1>25. Panels!INVALIDATES("post account/users/{id}/api-key") = Panels!USERS
  BY DEF Panels!INVALIDATES
<1>26. Panels!INVALIDATES("delete billing/cards/{id}") = Panels!CARDS
  BY DEF Panels!INVALIDATES
<1>27. Panels!INVALIDATES("put billing/cards/{id}/default") = Panels!CARDS
  BY DEF Panels!INVALIDATES
<1>28. Panels!INVALIDATES("put account/settings") = Panels!ACCOUNT_SETTINGS
  BY DEF Panels!INVALIDATES
<1>29. Panels!INVALIDATES("put account/settings/messaging") = Panels!ACCOUNT_SETTINGS
  BY DEF Panels!INVALIDATES
<1>30. Panels!INVALIDATES("put billing/general") = Panels!GENERAL
  BY DEF Panels!INVALIDATES
<1>31. Panels!INVALIDATES("patch me/profile") = Panels!ME
  BY DEF Panels!INVALIDATES
<1>32. Panels!INVALIDATES("post messages/send") = Panels!ME
  BY DEF Panels!INVALIDATES
<1>33. QED
  BY <1>1, <1>2, <1>3, <1>4, <1>5, <1>6, <1>7, <1>8, <1>9, <1>10, <1>11, <1>12, <1>13, <1>14,
     <1>15, <1>16, <1>17, <1>18, <1>19, <1>20, <1>21, <1>22, <1>23, <1>24, <1>25, <1>26, <1>27,
     <1>28, <1>29, <1>30, <1>31, <1>32

LEMMA DialogsMake ==
  /\ Makes(Panels!DialogOf("ListModal"), "get lists")
  /\ Makes(Panels!DialogOf("ContactModal"), "get lists/{id}/contacts")
  /\ Makes(Panels!DialogOf("RegisterAlphaTagModal"), "get senders")
  /\ Makes(Panels!DialogOf("AddOwnNumberModal"), "get senders")
  /\ Makes(Panels!DialogOf("TemplateModal"), "get templates")
  /\ Makes(Panels!DialogOf("AddAllowedAddressModal"), "get email-senders")
  /\ Makes(Panels!DialogOf("remove address"), "get email-senders")
  /\ Makes(Panels!DialogOf("AddInboundRuleModal"), "get rules/inbound")
  /\ Makes(Panels!DialogOf("delete inbound rule"), "get rules/inbound")
  /\ Makes(Panels!DialogOf("AddDeliveryRuleModal"), "get rules/delivery")
  /\ Makes(Panels!DialogOf("delete delivery rule"), "get rules/delivery")
  /\ Makes(Panels!DialogOf("RegisterWebsiteModal"), "get websites")
  /\ Makes(Panels!DialogOf("AddSubaccountModal"), "get account/users")
  /\ Makes(Panels!DialogOf("RegenerateKeyModal"), "get account/users")
  /\ Makes(Panels!DialogOf("AccountSettingsForm"), "get account/settings")
  /\ Makes(Panels!DialogOf("MessagingSettingsForm"), "get account/settings/messaging")
  /\ Makes(Panels!DialogOf("GeneralForm"), "get billing/general")
  /\ Makes(Panels!DialogOf("ProfileForm"), "get me")
  /\ Makes(Panels!DialogOf("TestSend"), "get home")
<1>1. Makes(Panels!DialogOf("ListModal"), "get lists")
  BY MutationsMakeStale DEF Makes, Panels!DialogOf, Panels!ListModal, Panels!FormModal,
     Panels!CONTACTS
<1>2. Makes(Panels!DialogOf("ContactModal"), "get lists/{id}/contacts")
  BY MutationsMakeStale DEF Makes, Panels!DialogOf, Panels!ContactModal, Panels!FormModal,
     Panels!CONTACTS
<1>3. Makes(Panels!DialogOf("RegisterAlphaTagModal"), "get senders")
  BY MutationsMakeStale DEF Makes, Panels!DialogOf, Panels!RegisterAlphaTagModal,
     Panels!FormModal, Panels!SENDERS
<1>4. Makes(Panels!DialogOf("AddOwnNumberModal"), "get senders")
  BY MutationsMakeStale DEF Makes, Panels!DialogOf, Panels!AddOwnNumberModal,
     Panels!FormModal, Panels!SENDERS
<1>5. Makes(Panels!DialogOf("TemplateModal"), "get templates")
  BY MutationsMakeStale DEF Makes, Panels!DialogOf, Panels!TemplateModal,
     Panels!FormModal, Panels!TEMPLATES
<1>6. Makes(Panels!DialogOf("AddAllowedAddressModal"), "get email-senders")
  BY MutationsMakeStale DEF Makes, Panels!DialogOf, Panels!AddAllowedAddressModal,
     Panels!FormModal, Panels!EMAIL_SENDERS
<1>7. Makes(Panels!DialogOf("remove address"), "get email-senders")
  BY MutationsMakeStale DEF Makes, Panels!DialogOf, Panels!ConfirmDeleteModal,
     Panels!FormModal, Panels!EMAIL_SENDERS
<1>8. Makes(Panels!DialogOf("AddInboundRuleModal"), "get rules/inbound")
  BY MutationsMakeStale DEF Makes, Panels!DialogOf, Panels!AddInboundRuleModal,
     Panels!FormModal, Panels!INBOUND_RULES
<1>9. Makes(Panels!DialogOf("delete inbound rule"), "get rules/inbound")
  BY MutationsMakeStale DEF Makes, Panels!DialogOf, Panels!ConfirmDeleteModal,
     Panels!FormModal, Panels!INBOUND_RULES
<1>10. Makes(Panels!DialogOf("AddDeliveryRuleModal"), "get rules/delivery")
  BY MutationsMakeStale DEF Makes, Panels!DialogOf, Panels!AddDeliveryRuleModal,
     Panels!FormModal, Panels!DELIVERY_RULES
<1>11. Makes(Panels!DialogOf("delete delivery rule"), "get rules/delivery")
  BY MutationsMakeStale DEF Makes, Panels!DialogOf, Panels!ConfirmDeleteModal,
     Panels!FormModal, Panels!DELIVERY_RULES
<1>12. Makes(Panels!DialogOf("RegisterWebsiteModal"), "get websites")
  BY MutationsMakeStale DEF Makes, Panels!DialogOf, Panels!RegisterWebsiteModal,
     Panels!FormModal, Panels!WEBSITES
<1>13. Makes(Panels!DialogOf("AddSubaccountModal"), "get account/users")
  BY MutationsMakeStale DEF Makes, Panels!DialogOf, Panels!AddSubaccountModal,
     Panels!FormModal, Panels!USERS
<1>14. Makes(Panels!DialogOf("RegenerateKeyModal"), "get account/users")
  BY MutationsMakeStale DEF Makes, Panels!DialogOf, Panels!RegenerateKeyModal,
     Panels!FormModal, Panels!USERS
<1>15. Makes(Panels!DialogOf("AccountSettingsForm"), "get account/settings")
  BY MutationsMakeStale DEF Makes, Panels!DialogOf, Panels!AccountSettingsForm,
     Panels!Form, Panels!FormModal, Panels!ACCOUNT_SETTINGS
<1>16. Makes(Panels!DialogOf("MessagingSettingsForm"), "get account/settings/messaging")
  BY MutationsMakeStale DEF Makes, Panels!DialogOf, Panels!MessagingSettingsForm,
     Panels!Form, Panels!FormModal, Panels!ACCOUNT_SETTINGS
<1>17. Makes(Panels!DialogOf("GeneralForm"), "get billing/general")
  BY MutationsMakeStale DEF Makes, Panels!DialogOf, Panels!GeneralForm, Panels!Form,
     Panels!FormModal, Panels!GENERAL
<1>18. Makes(Panels!DialogOf("ProfileForm"), "get me")
  BY MutationsMakeStale DEF Makes, Panels!DialogOf, Panels!ProfileForm, Panels!Form,
     Panels!FormModal, Panels!ME
<1>19. Makes(Panels!DialogOf("TestSend"), "get home")
  BY MutationsMakeStale DEF Makes, Panels!DialogOf, Panels!TestSend, Panels!Form,
     Panels!FormModal, Panels!ME
<1>20. QED
  BY <1>1, <1>2, <1>3, <1>4, <1>5, <1>6, <1>7, <1>8, <1>9, <1>10, <1>11, <1>12, <1>13,
     <1>14, <1>15, <1>16, <1>17, <1>18, <1>19

LEMMA PanelsOwn ==
  ASSUME NEW p \in Panels!AllPanels
  PROVE  /\ Panels!None \notin p.dialogs
         /\ p # Panels!BuyANumberScreen =>
              /\ \A op \in p.rows : p.list \in Panels!INVALIDATES(op)
              /\ \A name \in p.dialogs \cup {p.form} :
                   name # Panels!None => Makes(Panels!DialogOf(name), p.list)
<1>1. CASE p = Panels!ListsPanel
  BY <1>1, DialogsMake, MutationsMakeStale DEF Panels!ListsPanel, Panels!Panel,
     Panels!CONTACTS, Panels!None
<1>2. CASE p = Panels!ListActions
  BY <1>2, DialogsMake, MutationsMakeStale DEF Panels!ListActions, Panels!Panel,
     Panels!CONTACTS, Panels!None
<1>3. CASE p = Panels!AlphaTagsTab
  BY <1>3, DialogsMake, MutationsMakeStale DEF Panels!AlphaTagsTab, Panels!Panel,
     Panels!SENDERS, Panels!None
<1>4. CASE p = Panels!MyNumbersTab
  BY <1>4, DialogsMake, MutationsMakeStale DEF Panels!MyNumbersTab, Panels!Panel,
     Panels!SENDERS, Panels!None
<1>5. CASE p = Panels!SmartSendersTab
  BY <1>5, DialogsMake, MutationsMakeStale DEF Panels!SmartSendersTab, Panels!Panel,
     Panels!SENDERS, Panels!None
<1>6. CASE p = Panels!TemplatesScreen
  BY <1>6, DialogsMake, MutationsMakeStale DEF Panels!TemplatesScreen, Panels!Panel,
     Panels!TEMPLATES, Panels!None
<1>7. CASE p = Panels!AllowedAddressesPanel
  BY <1>7, DialogsMake, MutationsMakeStale DEF Panels!AllowedAddressesPanel, Panels!Panel,
     Panels!EMAIL_SENDERS, Panels!None
<1>8. CASE p = Panels!InboundRulesPanel
  BY <1>8, DialogsMake, MutationsMakeStale DEF Panels!InboundRulesPanel, Panels!Panel,
     Panels!INBOUND_RULES, Panels!None
<1>9. CASE p = Panels!DeliveryRulesPanel
  BY <1>9, DialogsMake, MutationsMakeStale DEF Panels!DeliveryRulesPanel, Panels!Panel,
     Panels!DELIVERY_RULES, Panels!None
<1>10. CASE p = Panels!WebsitesScreen
  BY <1>10, DialogsMake, MutationsMakeStale DEF Panels!WebsitesScreen, Panels!Panel,
     Panels!WEBSITES, Panels!None
<1>11. CASE p = Panels!SubaccountsTab
  BY <1>11, DialogsMake, MutationsMakeStale DEF Panels!SubaccountsTab, Panels!Panel,
     Panels!USERS, Panels!None
<1>12. CASE p = Panels!CardsScreen
  BY <1>12, DialogsMake, MutationsMakeStale DEF Panels!CardsScreen, Panels!Panel,
     Panels!CARDS, Panels!None
<1>13. CASE p = Panels!AccountSettingsScreen
  BY <1>13, DialogsMake, MutationsMakeStale DEF Panels!AccountSettingsScreen,
     Panels!FormPanel, Panels!Panel, Panels!ACCOUNT_SETTINGS, Panels!None
<1>14. CASE p = Panels!MessagingGeneralTab
  BY <1>14, DialogsMake, MutationsMakeStale DEF Panels!MessagingGeneralTab,
     Panels!FormPanel, Panels!Panel, Panels!ACCOUNT_SETTINGS, Panels!None
<1>15. CASE p = Panels!GeneralScreen
  BY <1>15, DialogsMake, MutationsMakeStale DEF Panels!GeneralScreen, Panels!FormPanel,
     Panels!Panel, Panels!GENERAL, Panels!None
<1>16. CASE p = Panels!ProfileScreen
  BY <1>16, DialogsMake, MutationsMakeStale DEF Panels!ProfileScreen, Panels!FormPanel,
     Panels!Panel, Panels!ME, Panels!None
<1>17. CASE p = Panels!HomeScreen
  BY <1>17, DialogsMake, MutationsMakeStale DEF Panels!HomeScreen, Panels!FormPanel,
     Panels!Panel, Panels!ME, Panels!None
<1>18. CASE p = Panels!BuyANumberScreen
  BY <1>18 DEF Panels!BuyANumberScreen, Panels!Panel, Panels!None
<1>19. QED
  BY <1>1, <1>2, <1>3, <1>4, <1>5, <1>6, <1>7, <1>8, <1>9, <1>10, <1>11, <1>12, <1>13,
     <1>14, <1>15, <1>16, <1>17, <1>18 DEF Panels!AllPanels

\* A request under way made, or will make, the list of the panel stale.
AskedOf(q) ==
  /\ DOMAIN q = {"op", "by", "answer", "at"}
  /\ q.at \in Nat /\ q.at <= revision
  /\ q # Panels!NoRequest /\ panel # Panels!BuyANumberScreen
       => panel.list \in Panels!INVALIDATES(q.op)

\* What is open is of the panel; no request waits for a dialog that is gone.
OpenOf(d) ==
  /\ DOMAIN d = {"name", "op", "ready", "sent", "secret"}
  /\ d.name # Panels!None =>
       /\ d.name \in panel.dialogs \cup {panel.form}
       /\ panel # Panels!BuyANumberScreen => d.op \in Panels!DialogOf(d.name).asks
  /\ d.sent => Panels!DialogOf(d.name).granted = "next step"

RequestsInv ==
  /\ DOMAIN asked = Panels!Slots
  /\ \A s \in Panels!Slots : AskedOf(asked[s])
  /\ Panels!AskedOncePerDialog

\* A fetch that was read, and what is held with none out, are as new as what the
\* user was told.
ListInv ==
  /\ DOMAIN list = {"held", "fetch"}
  /\ panel # Panels!BuyANumberScreen =>
       /\ list.held.is = "data" /\ list.fetch = Panels!NoFetch => list.held.at >= told
       /\ list.fetch.is = "data" => list.fetch.at >= told

PanelsInv ==
  /\ panel \in Panels!AllPanels
  /\ revision \in Nat /\ told \in Nat /\ told <= revision
  /\ OpenOf(dialog)
  /\ \A s \in Panels!Slots : asked[s].by = "dialog" => dialog.name # Panels!None
  /\ RequestsInv
  /\ ListInv

LEMMA SlotIs ==
  ASSUME Panels!Free # {}
  PROVE  Panels!Slot \in Panels!Slots /\ asked[Panels!Slot] = Panels!NoRequest
<1>1. Panels!Free \subseteq Nat
  BY DEF Panels!Free, Panels!Slots
<1>2. \E s \in Panels!Free : \A t \in Panels!Free : s <= t
  BY <1>1, LeastIs
<1>3. QED
  BY <1>2 DEF Panels!Slot, Panels!Free

LEMMA AskKeeps ==
  ASSUME PanelsInv, NEW op, NEW by, Panels!Ask(op, by), UNCHANGED <<panel, list, dialog, revision, told>>,
         panel # Panels!BuyANumberScreen => panel.list \in Panels!INVALIDATES(op),
         by = "dialog" => ~Panels!Pending(op, by) /\ dialog.name # Panels!None
  PROVE  PanelsInv'
<1> DEFINE slot == Panels!Slot
           q == [Panels!NoRequest EXCEPT !.op = op, !.by = by]
<1>1. slot \in Panels!Slots /\ asked[slot] = Panels!NoRequest
  BY SlotIs DEF Panels!Ask
<1>2. asked' = [asked EXCEPT ![slot] = q]
  BY DEF Panels!Ask
<1>3. DOMAIN q = {"op", "by", "answer", "at"} /\ q.op = op /\ q.by = by /\ q.at = 0
  BY DEF Panels!NoRequest
<1> HIDE DEF slot, q
<1>4. DOMAIN asked' = Panels!Slots /\ asked'[slot] = q
      /\ \A s \in Panels!Slots : s # slot => asked'[s] = asked[s]
  BY <1>1, <1>2 DEF PanelsInv, RequestsInv
<1>5. \A s \in Panels!Slots : AskedOf(asked[s])'
  BY <1>3, <1>4 DEF PanelsInv, RequestsInv, AskedOf
<1>6. Panels!AskedOncePerDialog'
  BY <1>1, <1>3, <1>4 DEF PanelsInv, RequestsInv, Panels!AskedOncePerDialog, Panels!Pending
<1>7. \A s \in Panels!Slots : asked'[s].by = "dialog" => dialog'.name # Panels!None
  BY <1>1, <1>3, <1>4 DEF PanelsInv
<1>8. QED
  BY <1>4, <1>5, <1>6, <1>7 DEF PanelsInv, RequestsInv, ListInv, OpenOf

\* Requests are answered, and heard by nobody, without a new one.
LEMMA RequestsKeep ==
  ASSUME RequestsInv, panel' = panel, revision' \in Nat, revision \in Nat, revision <= revision',
         DOMAIN asked' = Panels!Slots,
         \A s \in Panels!Slots :
           \/ asked'[s] = Panels!NoRequest
           \/ /\ DOMAIN asked'[s] = DOMAIN asked[s] /\ asked[s] # Panels!NoRequest
              /\ asked'[s].op = asked[s].op
              /\ asked'[s].by \in {asked[s].by, "nobody"}
              /\ asked'[s].at \in {asked[s].at, revision'}
  PROVE  RequestsInv'
<1>1. \A s \in Panels!Slots : AskedOf(asked[s])'
  <2> SUFFICES ASSUME NEW s \in Panels!Slots PROVE AskedOf(asked[s])'
    OBVIOUS
  <2>1. CASE asked'[s] = Panels!NoRequest
    BY <2>1 DEF AskedOf, Panels!NoRequest
  <2>2. CASE asked'[s] # Panels!NoRequest
    BY <2>2 DEF RequestsInv, AskedOf
  <2>3. QED
    BY <2>1, <2>2
<1>2. Panels!AskedOncePerDialog'
  BY DEF RequestsInv, Panels!AskedOncePerDialog, Panels!NoRequest, Panels!None
<1>3. QED
  BY <1>1, <1>2 DEF RequestsInv

LEMMA OpensPanels ==
  ASSUME PanelsInv, NEW name, Panels!Open(name)
  PROVE  PanelsInv'
<1>1. PICK op \in Panels!DialogOf(name).asks : dialog' = Panels!Mounted(name, op)
  BY DEF Panels!Open
<1>2. /\ DOMAIN dialog' = {"name", "op", "ready", "sent", "secret"}
      /\ dialog'.name = name /\ dialog'.op = op /\ dialog'.sent = FALSE
  BY <1>1 DEF Panels!Mounted, Panels!NoDialog
<1>3. name \in panel.dialogs /\ name # Panels!None
  BY PanelsOwn DEF Panels!Open, PanelsInv
<1>4. UNCHANGED <<panel, list, asked, revision, told>>
  BY DEF Panels!Open
<1>5. OpenOf(dialog)'
  BY <1>2, <1>3, <1>4 DEF OpenOf
<1>6. QED
  BY <1>2, <1>3, <1>4, <1>5 DEF PanelsInv, RequestsInv, ListInv, AskedOf, Panels!AskedOncePerDialog

LEMMA UserKeeps ==
  ASSUME PanelsInv, \/ Panels!Type \/ Panels!Submit \/ Panels!Verify \/ Panels!ApiKeyModal
                    \/ \E op \in panel.rows : Panels!RowAction(op)
  PROVE  PanelsInv'
<1>1. CASE Panels!Type
  <2>1. /\ DOMAIN dialog' = DOMAIN dialog /\ dialog'.name = dialog.name /\ dialog'.op = dialog.op
        /\ dialog'.sent = dialog.sent
        /\ UNCHANGED <<panel, list, asked, revision, told>>
    BY <1>1 DEF Panels!Type, PanelsInv, OpenOf
  <2>2. OpenOf(dialog)'
    BY <2>1 DEF PanelsInv, OpenOf
  <2>3. QED
    BY <2>1, <2>2 DEF PanelsInv, RequestsInv, ListInv, AskedOf, Panels!AskedOncePerDialog
<1>2. CASE Panels!Submit
  <2>1. /\ Panels!Ask(dialog.op, Panels!This.hears) /\ dialog.name # Panels!None
        /\ ~Panels!Pending(dialog.op, Panels!This.hears)
        /\ UNCHANGED <<panel, list, dialog, revision, told>>
    BY <1>2 DEF Panels!Submit, Panels!Up
  <2>2. panel # Panels!BuyANumberScreen => panel.list \in Panels!INVALIDATES(dialog.op)
    BY <2>1, PanelsOwn DEF PanelsInv, OpenOf, Makes
  <2>3. QED
    BY <2>1, <2>2, AskKeeps
<1>3. CASE Panels!Verify
  <2>1. /\ Panels!Ask(Panels!This.then, "dialog") /\ dialog.name # Panels!None
        /\ ~Panels!Pending(Panels!This.then, "dialog") /\ dialog.sent
        /\ UNCHANGED <<panel, list, dialog, revision, told>>
    BY <1>3 DEF Panels!Verify, Panels!Up
  <2>2. panel # Panels!BuyANumberScreen => panel.list \in Panels!INVALIDATES(Panels!This.then)
    BY <2>1, PanelsOwn DEF PanelsInv, OpenOf, Makes, Panels!This
  <2>3. QED
    BY <2>1, <2>2, AskKeeps
<1>4. CASE Panels!ApiKeyModal
  BY <1>4 DEF Panels!ApiKeyModal, PanelsInv, OpenOf, RequestsInv, ListInv, AskedOf, Panels!AskedOncePerDialog
<1>5. CASE \E op \in panel.rows : Panels!RowAction(op)
  <2>1. PICK op \in panel.rows : Panels!RowAction(op)
    BY <1>5
  <2>2. Panels!Ask(op, "panel") /\ UNCHANGED <<panel, list, dialog, revision, told>>
    BY <2>1 DEF Panels!RowAction
  <2>3. panel # Panels!BuyANumberScreen => panel.list \in Panels!INVALIDATES(op)
    BY PanelsOwn DEF PanelsInv
  <2>4. QED
    BY <2>2, <2>3, AskKeeps
<1>6. QED
  BY <1>1, <1>2, <1>3, <1>4, <1>5

\* What Unheard makes of requests.
LEMMA UnheardIs ==
  ASSUME NEW reqs, NEW gone, \A s \in Panels!Slots : DOMAIN reqs[s] = {"op", "by", "answer", "at"},
         Panels!None \notin gone
  PROVE  LET left == Panels!Unheard(reqs, gone)
         IN /\ DOMAIN left = Panels!Slots
            /\ \A s \in Panels!Slots :
                 /\ DOMAIN left[s] = {"op", "by", "answer", "at"}
                 /\ left[s].op = reqs[s].op /\ left[s].at = reqs[s].at
                 /\ left[s].by \in {reqs[s].by, "nobody"} /\ left[s].by \notin gone \ {"nobody"}
                 /\ reqs[s] = Panels!NoRequest => left[s] = Panels!NoRequest
<1>1. \A s \in Panels!Slots : Panels!Unheard(reqs, gone)[s] =
        IF reqs[s].by \in gone THEN [reqs[s] EXCEPT !.by = "nobody"] ELSE reqs[s]
  BY DEF Panels!Unheard
<1>2. DOMAIN Panels!Unheard(reqs, gone) = Panels!Slots
  BY DEF Panels!Unheard
<1>3. QED
  BY <1>1, <1>2 DEF Panels!NoRequest

LEMMA CloseKeeps ==
  ASSUME PanelsInv, Panels!Close PROVE PanelsInv'
<1>1. /\ dialog' = Panels!NoDialog /\ asked' = Panels!Unheard(asked, {"dialog"})
      /\ UNCHANGED <<panel, list, revision, told>>
  BY DEF Panels!Close
<1> DEFINE left == Panels!Unheard(asked, {"dialog"})
<1>2. /\ DOMAIN left = Panels!Slots
      /\ \A s \in Panels!Slots :
           /\ DOMAIN left[s] = {"op", "by", "answer", "at"}
           /\ left[s].op = asked[s].op /\ left[s].at = asked[s].at
           /\ left[s].by \in {asked[s].by, "nobody"} /\ left[s].by # "dialog"
           /\ asked[s] = Panels!NoRequest => left[s] = Panels!NoRequest
  BY UnheardIs DEF PanelsInv, RequestsInv, AskedOf, Panels!None
<1>3. RequestsInv'
  <2> HIDE DEF left
  <2>1. asked' = left
    BY <1>1 DEF left
  <2>2. \A s \in Panels!Slots : DOMAIN asked[s] = {"op", "by", "answer", "at"}
    BY DEF PanelsInv, RequestsInv, AskedOf
  <2>3. \A s \in Panels!Slots :
          \/ asked'[s] = Panels!NoRequest
          \/ /\ DOMAIN asked'[s] = DOMAIN asked[s] /\ asked[s] # Panels!NoRequest
             /\ asked'[s].op = asked[s].op
             /\ asked'[s].by \in {asked[s].by, "nobody"}
             /\ asked'[s].at \in {asked[s].at, revision'}
    BY <1>2, <2>1, <2>2
  <2>4. DOMAIN asked' = Panels!Slots
    BY <1>2, <2>1
  <2>5. QED
    BY <1>1, <2>3, <2>4, RequestsKeep DEF PanelsInv
<1>4. OpenOf(dialog)'
  BY <1>1 DEF OpenOf, Panels!NoDialog
<1>5. \A s \in Panels!Slots : asked'[s].by # "dialog"
  BY <1>1, <1>2
<1>6. QED
  BY <1>1, <1>3, <1>4, <1>5 DEF PanelsInv, ListInv

LEMMA HandleKeeps ==
  ASSUME PanelsInv, NEW s \in Panels!Slots, Panels!Handle(s) PROVE PanelsInv'
<1>1. /\ asked[s] # Panels!NoRequest /\ UNCHANGED <<panel, list, dialog, told>>
      /\ revision' \in {revision, revision + 1}
  BY DEF Panels!Handle
<1>2. /\ DOMAIN asked' = Panels!Slots
      /\ \A t \in Panels!Slots :
           /\ DOMAIN asked'[t] = DOMAIN asked[t]
           /\ asked'[t].op = asked[t].op /\ asked'[t].by = asked[t].by
           /\ asked'[t].at \in {asked[t].at, revision'}
           /\ t # s => asked'[t] = asked[t]
  <2>1. PICK q \in {[asked[s] EXCEPT !.answer = "ok", !.at = revision'],
                     [asked[s] EXCEPT !.answer = "error"]} : asked' = [asked EXCEPT ![s] = q]
    BY DEF Panels!Handle, PanelsInv, RequestsInv, AskedOf
  <2>2. /\ DOMAIN q = DOMAIN asked[s] /\ q.op = asked[s].op /\ q.by = asked[s].by
        /\ q.at \in {asked[s].at, revision'}
    BY DEF PanelsInv, RequestsInv, AskedOf
  <2>3. QED
    BY <2>1, <2>2 DEF PanelsInv, RequestsInv
<1>3. RequestsInv'
  BY <1>1, <1>2, RequestsKeep DEF PanelsInv
<1>4. OpenOf(dialog)' /\ ListInv'
  BY <1>1 DEF PanelsInv, OpenOf, ListInv
<1>5. revision' \in Nat /\ told' <= revision'
  BY <1>1 DEF PanelsInv
<1>6. \A t \in Panels!Slots : asked'[t].by = "dialog" => dialog'.name # Panels!None
  BY <1>1, <1>2 DEF PanelsInv
<1>7. QED
  BY <1>1, <1>3, <1>4, <1>5, <1>6 DEF PanelsInv

LEMMA RestingIs ==
  ASSUME panel \in Panels!AllPanels
  PROVE  OpenOf(Panels!Resting(panel))
<1>1. CASE panel.form = Panels!None
  BY <1>1 DEF Panels!Resting, OpenOf, Panels!NoDialog
<1>2. CASE panel.form # Panels!None
  <2> DEFINE first == CHOOSE op \in Panels!DialogOf(panel.form).asks : TRUE
  <2>1. Panels!Resting(panel) = Panels!Mounted(panel.form, first)
    BY <1>2 DEF Panels!Resting
  <2>2. panel # Panels!BuyANumberScreen => first \in Panels!DialogOf(panel.form).asks
    BY <1>2, PanelsOwn DEF Makes
  <2> HIDE DEF first
  <2>3. QED
    BY <1>2, <2>1, <2>2 DEF OpenOf, Panels!Mounted, Panels!NoDialog
<1>3. QED
  BY <1>1, <1>2

\* What an answer leaves open: the dialog under its name, or nothing.
LEMMA HeardIs ==
  ASSUME PanelsInv, NEW s \in Panels!Slots
  PROVE  LET d == Panels!Heard(s)
         IN OpenOf(d) /\ (d = Panels!NoDialog \/ d.name = dialog.name)
<1>1. OpenOf(Panels!NoDialog) /\ OpenOf(dialog)
  BY DEF PanelsInv, OpenOf, Panels!NoDialog
<1>2. ASSUME asked[s].by = "dialog", NEW op
      PROVE  LET d == Panels!Granted(op)
             IN OpenOf(d) /\ (d = Panels!NoDialog \/ d.name = dialog.name)
  <2> DEFINE onward   == [dialog EXCEPT !.sent = TRUE]
             secret == [dialog EXCEPT !.secret = TRUE]
             again  == Panels!Mounted(dialog.name, dialog.op)
  <2>1. \/ Panels!Granted(op) \in {Panels!NoDialog, dialog, secret, again}
        \/ Panels!This.granted = "next step" /\ Panels!Granted(op) = onward
    <3> HIDE DEF onward, secret, again
    <3>1. Panels!Granted(op) =
            CASE op = Panels!This.then -> Panels!NoDialog
              [] Panels!This.granted = "next step" -> onward
              [] Panels!This.granted = "reveals here" /\ op \in Panels!This.blank -> secret
              [] Panels!This.granted = "stays" -> dialog
              [] Panels!This.granted = "clears" -> again
              [] OTHER -> Panels!NoDialog
      BY DEF Panels!Granted, onward, secret, again
    <3>2. CASE op = Panels!This.then
      BY <3>1, <3>2
    <3>3. CASE op # Panels!This.then /\ Panels!This.granted = "next step"
      BY <3>1, <3>3
    <3>4. CASE op # Panels!This.then /\ Panels!This.granted # "next step"
      BY <3>1, <3>4
    <3>5. QED
      BY <3>2, <3>3, <3>4
  <2>2. OpenOf(secret) /\ secret.name = dialog.name
    BY DEF PanelsInv, OpenOf
  <2>3. Panels!This.granted = "next step" => OpenOf(onward) /\ onward.name = dialog.name
    BY DEF PanelsInv, OpenOf, Panels!This
  <2>4. OpenOf(again) /\ again.name = dialog.name
    <3>1. /\ DOMAIN again = {"name", "op", "ready", "sent", "secret"}
          /\ again.name = dialog.name /\ again.op = dialog.op /\ again.sent = FALSE
      BY DEF Panels!Mounted, Panels!NoDialog
    <3> HIDE DEF again
    <3>2. QED
      BY <3>1 DEF PanelsInv, OpenOf
  <2> HIDE DEF onward, secret, again
  <2>5. QED
    BY <1>1, <2>1, <2>2, <2>3, <2>4
<1>3. CASE asked[s].by = "dialog" /\ asked[s].answer = "ok"
  BY <1>2, <1>3 DEF Panels!Heard
<1>4. CASE ~(asked[s].by = "dialog" /\ asked[s].answer = "ok")
  <2>1. Panels!Heard(s) \in {Panels!NoDialog, dialog}
    BY <1>4 DEF Panels!Heard
  <2>2. QED
    BY <1>1, <2>1
<1>5. QED
  BY <1>3, <1>4

LEMMA AnswerKeeps ==
  ASSUME PanelsInv, NEW s \in Panels!Slots, Panels!Answered(s) PROVE PanelsInv'
<1> DEFINE left == [asked EXCEPT ![s] = Panels!NoRequest]
<1>1. /\ UNCHANGED <<panel, revision>> /\ asked[s] # Panels!NoRequest
      /\ dialog' = Panels!Heard(s)
      /\ asked' = IF dialog' = Panels!NoDialog THEN Panels!Unheard(left, {"dialog"}) ELSE left
  BY DEF Panels!Answered, Panels!NoRequest
<1>2. /\ DOMAIN left = Panels!Slots
      /\ \A t \in Panels!Slots :
           /\ DOMAIN left[t] = {"op", "by", "answer", "at"}
           /\ left[t] \in {Panels!NoRequest, asked[t]}
           /\ left[t] = Panels!NoRequest \/ t # s
  <2>1. DOMAIN Panels!NoRequest = {"op", "by", "answer", "at"}
    BY DEF Panels!NoRequest
  <2>2. QED
    BY <2>1 DEF PanelsInv, RequestsInv, AskedOf
<1>3. /\ DOMAIN asked' = Panels!Slots
      /\ \A t \in Panels!Slots :
           \/ asked'[t] = Panels!NoRequest
           \/ /\ DOMAIN asked'[t] = DOMAIN asked[t] /\ asked[t] # Panels!NoRequest
              /\ asked'[t].op = asked[t].op
              /\ asked'[t].by \in {asked[t].by, "nobody"}
              /\ asked'[t].at \in {asked[t].at, revision'}
  <2> HIDE DEF left
  <2>1. CASE dialog' # Panels!NoDialog
    BY <1>1, <1>2, <2>1
  <2>2. CASE dialog' = Panels!NoDialog
    <3> DEFINE heard == Panels!Unheard(left, {"dialog"})
    <3>1. asked' = heard
      BY <1>1, <2>2
    <3>2. /\ DOMAIN heard = Panels!Slots
          /\ \A t \in Panels!Slots :
               /\ DOMAIN heard[t] = {"op", "by", "answer", "at"}
               /\ heard[t].op = left[t].op /\ heard[t].at = left[t].at
               /\ heard[t].by \in {left[t].by, "nobody"}
               /\ left[t] = Panels!NoRequest => heard[t] = Panels!NoRequest
      BY <1>2, UnheardIs DEF Panels!None
    <3> HIDE DEF heard
    <3>3. \A t \in Panels!Slots : DOMAIN asked[t] = {"op", "by", "answer", "at"}
      BY DEF PanelsInv, RequestsInv, AskedOf
    <3>4. QED
      BY <1>2, <3>1, <3>2, <3>3
  <2>3. QED
    BY <2>1, <2>2
<1>4. RequestsInv'
  <2>1. panel' = panel /\ revision' = revision /\ revision \in Nat /\ RequestsInv
    BY <1>1 DEF PanelsInv
  <2> HIDE DEF left
  <2>2. QED
    BY <1>3, <2>1, RequestsKeep
<1>5. OpenOf(dialog)' /\ (dialog' = Panels!NoDialog \/ dialog'.name = dialog.name)
  BY <1>1, HeardIs DEF OpenOf
<1>6. \A t \in Panels!Slots : asked'[t].by = "dialog" => dialog'.name # Panels!None
  <2> HIDE DEF left
  <2>1. CASE dialog' # Panels!NoDialog
    <3>1. asked' = left /\ Panels!NoRequest.by # "dialog"
      BY <1>1, <2>1 DEF Panels!NoRequest, Panels!None
    <3>2. QED
      BY <1>2, <1>5, <2>1, <3>1 DEF PanelsInv
  <2>2. CASE dialog' = Panels!NoDialog
    <3>1. \A t \in Panels!Slots : Panels!Unheard(left, {"dialog"})[t].by # "dialog"
      BY <1>2, UnheardIs DEF Panels!None
    <3>2. QED
      BY <1>1, <2>2, <3>1
  <2>3. QED
    BY <2>1, <2>2
<1>7. told' \in Nat /\ told' <= revision'
  BY <1>1 DEF Panels!Answered, PanelsInv, RequestsInv, AskedOf
<1>8. ListInv'
  <2>1. /\ list' = IF panel.list \in Panels!INVALIDATES(asked[s].op) THEN Panels!Invalidated(list)
                                                                   ELSE list
        /\ told' = IF asked[s].at > told /\ list.held # Panels!NoData THEN asked[s].at ELSE told
    BY DEF Panels!Answered
  <2>2. panel # Panels!BuyANumberScreen => list' = Panels!Invalidated(list)
    BY <1>1, <2>1 DEF PanelsInv, RequestsInv, AskedOf
  <2>3. DOMAIN list' = {"held", "fetch"}
    BY <2>1 DEF PanelsInv, ListInv, Panels!Invalidated
  <2>4. ASSUME list' = [list EXCEPT !.fetch = Panels!Asked]
        PROVE  list'.fetch # Panels!NoFetch /\ list'.fetch.is # "data"
    BY <2>4 DEF PanelsInv, ListInv, Panels!Asked, Panels!NoFetch
  <2>5. CASE list.held = Panels!NoData
    <3>1. told' = told /\ list' \in {list, [list EXCEPT !.fetch = Panels!Asked]}
      BY <2>1, <2>5 DEF Panels!Invalidated
    <3>2. QED
      BY <1>1, <2>3, <2>4, <3>1 DEF PanelsInv, ListInv
  <2>6. CASE list.held # Panels!NoData
    <3>1. panel # Panels!BuyANumberScreen => list' = [list EXCEPT !.fetch = Panels!Asked]
      BY <2>2, <2>6 DEF Panels!Invalidated
    <3>2. QED
      BY <1>1, <2>3, <2>4, <3>1 DEF ListInv
  <2>7. QED
    BY <2>5, <2>6
<1>9. QED
  BY <1>1, <1>4, <1>5, <1>6, <1>7, <1>8 DEF PanelsInv

LEMMA FetchKeeps ==
  ASSUME PanelsInv, \/ Panels!ElsewhereChanged \/ Panels!Refocus \/ Panels!Read
                    \/ Panels!FetchOk \/ Panels!FetchFails
  PROVE  PanelsInv'
<1>1. ASSUME UNCHANGED <<panel, asked, told>>, revision' \in {revision, revision + 1}
      PROVE  RequestsInv' /\ revision' \in Nat /\ told' \in Nat /\ told' <= revision'
  BY <1>1 DEF PanelsInv, RequestsInv, AskedOf, Panels!AskedOncePerDialog
<1>2. CASE Panels!ElsewhereChanged
  <2>1. UNCHANGED <<panel, list, dialog, asked, told>> /\ revision' \in {revision, revision + 1}
    BY <1>2 DEF Panels!ElsewhereChanged
  <2>2. QED
    BY <1>1, <2>1 DEF PanelsInv, ListInv, OpenOf
<1>3. CASE Panels!Refocus \/ Panels!Read \/ Panels!FetchOk
  <2>1. UNCHANGED <<panel, dialog, asked, told>> /\ revision' \in {revision, revision + 1}
    BY <1>3 DEF Panels!Refocus, Panels!Read, Panels!FetchOk
  <2>2. ListInv'
    <3>1. CASE Panels!Refocus
      BY <2>1, <3>1 DEF Panels!Refocus, Panels!Fetched, PanelsInv, ListInv, Panels!Asked, Panels!NoFetch
    <3>2. CASE Panels!Read
      BY <2>1, <3>2 DEF Panels!Read, PanelsInv, ListInv, Panels!Data, Panels!NoFetch
    <3>3. CASE Panels!FetchOk
      BY <2>1, <3>3 DEF Panels!FetchOk, Panels!Landed, PanelsInv, ListInv, Panels!NoFetch
    <3>4. QED
      BY <1>3, <3>1, <3>2, <3>3
  <2>3. QED
    BY <1>1, <2>1, <2>2 DEF PanelsInv, OpenOf
<1>4. CASE Panels!FetchFails
  <2> DEFINE gone == CASE panel.keeps = "panel" -> {"dialog", "panel"}
                       [] panel.keeps = "screen" -> {"dialog"}
                       [] OTHER -> {}
             heard == Panels!Unheard(asked, gone)
  <2>1. /\ asked' = heard /\ UNCHANGED <<panel, told, revision>>
        /\ list' = Panels!Landed(list, Panels!Failure)
        /\ dialog' = CASE panel.keeps = "panel" -> Panels!Resting(panel)
                       [] panel.keeps = "screen" /\ dialog # Panels!NoDialog ->
                            Panels!Mounted(dialog.name, dialog.op)
                       [] OTHER -> dialog
    BY <1>4 DEF Panels!FetchFails
  <2>2. Panels!None \notin gone /\ "nobody" \notin gone
    BY DEF Panels!None
  <2>3. dialog' = dialog \/ "dialog" \in gone
    BY <2>1
  <2> HIDE DEF gone
  <2>4. \A t \in Panels!Slots : DOMAIN asked[t] = {"op", "by", "answer", "at"}
    BY DEF PanelsInv, RequestsInv, AskedOf
  <2>5. /\ DOMAIN heard = Panels!Slots
        /\ \A t \in Panels!Slots :
             /\ DOMAIN heard[t] = {"op", "by", "answer", "at"}
             /\ heard[t].op = asked[t].op /\ heard[t].at = asked[t].at
             /\ heard[t].by \in {asked[t].by, "nobody"} /\ heard[t].by \notin gone \ {"nobody"}
             /\ asked[t] = Panels!NoRequest => heard[t] = Panels!NoRequest
    BY <2>2, <2>4, UnheardIs
  <2> HIDE DEF heard
  <2>6. RequestsInv'
    <3>1. \A t \in Panels!Slots :
            \/ asked'[t] = Panels!NoRequest
            \/ /\ DOMAIN asked'[t] = DOMAIN asked[t] /\ asked[t] # Panels!NoRequest
               /\ asked'[t].op = asked[t].op
               /\ asked'[t].by \in {asked[t].by, "nobody"}
               /\ asked'[t].at \in {asked[t].at, revision'}
      BY <2>1, <2>4, <2>5
    <3>2. DOMAIN asked' = Panels!Slots
      BY <2>1, <2>5
    <3>3. QED
      BY <2>1, <3>1, <3>2, RequestsKeep DEF PanelsInv
  <2>7. OpenOf(dialog)'
    <3>1. OpenOf(Panels!Resting(panel)) /\ OpenOf(dialog)
      BY RestingIs DEF PanelsInv
    <3>2. OpenOf(Panels!Mounted(dialog.name, dialog.op))
      BY <3>1 DEF OpenOf, Panels!Mounted, Panels!NoDialog
    <3>3. dialog' \in {Panels!Resting(panel), Panels!Mounted(dialog.name, dialog.op), dialog}
      BY <2>1
    <3>4. OpenOf(dialog')
      BY <3>1, <3>2, <3>3
    <3>5. QED
      BY <2>1, <3>4 DEF OpenOf
  <2>8. \A t \in Panels!Slots : asked'[t].by = "dialog" => dialog'.name # Panels!None
    BY <2>1, <2>3, <2>5 DEF PanelsInv
  <2>9. ListInv'
    BY <2>1 DEF ListInv, Panels!Landed, Panels!Failure, Panels!NoFetch
  <2>10. QED
    BY <2>1, <2>6, <2>7, <2>8, <2>9 DEF PanelsInv
<1>5. QED
  BY <1>2, <1>3, <1>4

LEMMA PanelsInit ==
  ASSUME Panels!Init PROVE PanelsInv
<1>1. /\ panel \in Panels!AllPanels /\ dialog = Panels!Resting(panel)
      /\ list = [held |-> Panels!NoData, fetch |-> Panels!Asked]
      /\ asked = [s \in Panels!Slots |-> Panels!NoRequest] /\ revision = 0 /\ told = 0
  BY DEF Panels!Init
<1>2. OpenOf(dialog)
  BY <1>1, RestingIs
<1>3. RequestsInv /\ \A s \in Panels!Slots : asked[s].by # "dialog"
  BY <1>1 DEF RequestsInv, AskedOf, Panels!NoRequest, Panels!None, Panels!AskedOncePerDialog
<1>4. ListInv
  BY <1>1 DEF ListInv, Panels!NoData, Panels!Asked, Panels!NoFetch
<1>5. QED
  BY <1>1, <1>2, <1>3, <1>4 DEF PanelsInv

LEMMA PanelsStep ==
  ASSUME PanelsInv, [Panels!Next]_panelVars PROVE PanelsInv'
<1>1. CASE UNCHANGED panelVars
  <2>1. UNCHANGED <<panel, list, dialog, revealed, asked, revision, told>>
    BY <1>1 DEF panelVars
  <2>2. QED
    BY <2>1 DEF PanelsInv, OpenOf, RequestsInv, AskedOf, Panels!AskedOncePerDialog, ListInv
<1>2. CASE Panels!Next
  BY <1>2, OpensPanels, UserKeeps, CloseKeeps, HandleKeeps, AnswerKeeps, FetchKeeps DEF Panels!Next
<1>3. QED
  BY <1>1, <1>2

LEMMA PanelsShow ==
  ASSUME PanelsInv PROVE Panels!AskedOncePerDialog /\ Panels!OwnChangesShown
BY DEF PanelsInv, RequestsInv, ListInv, Panels!OwnChangesShown, Panels!Loaded

-----------------------------------------------------------------------------
(* The types of the panels *)

\* The dialogs, whose requests are heard by the dialog itself or by its panel, and the
\* forms, which no answer takes away.
DialogNames ==
  {"ListModal", "ContactModal", "RegisterAlphaTagModal", "AddOwnNumberModal",
   "BuyNumberConfirmModal", "TemplateModal", "AddAllowedAddressModal", "remove address",
   "AddInboundRuleModal", "delete inbound rule", "AddDeliveryRuleModal",
   "delete delivery rule", "RegisterWebsiteModal", "AddSubaccountModal",
   "RegenerateKeyModal"}
FormNames ==
  {"AccountSettingsForm", "MessagingSettingsForm", "GeneralForm", "ProfileForm", "TestSend"}

LEMMA DialogsHear ==
  ASSUME NEW name \in DialogNames
  PROVE  Panels!DialogOf(name).hears \in {"dialog", "panel"}
<1>1. Panels!DialogOf("ListModal").hears \in {"dialog", "panel"}
  BY DEF Panels!DialogOf, Panels!ListModal, Panels!FormModal
<1>2. Panels!DialogOf("ContactModal").hears \in {"dialog", "panel"}
  BY DEF Panels!DialogOf, Panels!ContactModal, Panels!FormModal
<1>3. Panels!DialogOf("RegisterAlphaTagModal").hears \in {"dialog", "panel"}
  BY DEF Panels!DialogOf, Panels!RegisterAlphaTagModal, Panels!FormModal
<1>4. Panels!DialogOf("AddOwnNumberModal").hears \in {"dialog", "panel"}
  BY DEF Panels!DialogOf, Panels!AddOwnNumberModal, Panels!FormModal
<1>5. Panels!DialogOf("BuyNumberConfirmModal").hears \in {"dialog", "panel"}
  BY DEF Panels!DialogOf, Panels!BuyNumberConfirmModal, Panels!FormModal
<1>6. Panels!DialogOf("TemplateModal").hears \in {"dialog", "panel"}
  BY DEF Panels!DialogOf, Panels!TemplateModal, Panels!FormModal
<1>7. Panels!DialogOf("AddAllowedAddressModal").hears \in {"dialog", "panel"}
  BY DEF Panels!DialogOf, Panels!AddAllowedAddressModal, Panels!FormModal
<1>8. Panels!DialogOf("remove address").hears \in {"dialog", "panel"}
  BY DEF Panels!DialogOf, Panels!ConfirmDeleteModal, Panels!FormModal
<1>9. Panels!DialogOf("AddInboundRuleModal").hears \in {"dialog", "panel"}
  BY DEF Panels!DialogOf, Panels!AddInboundRuleModal, Panels!FormModal
<1>10. Panels!DialogOf("delete inbound rule").hears \in {"dialog", "panel"}
  BY DEF Panels!DialogOf, Panels!ConfirmDeleteModal, Panels!FormModal
<1>11. Panels!DialogOf("AddDeliveryRuleModal").hears \in {"dialog", "panel"}
  BY DEF Panels!DialogOf, Panels!AddDeliveryRuleModal, Panels!FormModal
<1>12. Panels!DialogOf("delete delivery rule").hears \in {"dialog", "panel"}
  BY DEF Panels!DialogOf, Panels!ConfirmDeleteModal, Panels!FormModal
<1>13. Panels!DialogOf("RegisterWebsiteModal").hears \in {"dialog", "panel"}
  BY DEF Panels!DialogOf, Panels!RegisterWebsiteModal, Panels!FormModal
<1>14. Panels!DialogOf("AddSubaccountModal").hears \in {"dialog", "panel"}
  BY DEF Panels!DialogOf, Panels!AddSubaccountModal, Panels!FormModal
<1>15. Panels!DialogOf("RegenerateKeyModal").hears \in {"dialog", "panel"}
  BY DEF Panels!DialogOf, Panels!RegenerateKeyModal, Panels!FormModal
<1>16. QED
  BY <1>1, <1>2, <1>3, <1>4, <1>5, <1>6, <1>7, <1>8, <1>9, <1>10, <1>11, <1>12, <1>13, <1>14, <1>15
  DEF DialogNames

LEMMA FormsStay ==
  ASSUME NEW name \in FormNames
  PROVE  LET d == Panels!DialogOf(name)
         IN  /\ d.hears = "dialog" /\ d.then = Panels!None /\ d.refused = "stays"
             /\ d.granted \in {"stays", "clears"}
<1>1. LET d == Panels!DialogOf("AccountSettingsForm")
       IN  /\ d.hears = "dialog" /\ d.then = Panels!None /\ d.refused = "stays"
           /\ d.granted \in {"stays", "clears"}
  BY DEF Panels!DialogOf, Panels!AccountSettingsForm, Panels!Form, Panels!FormModal
<1>2. LET d == Panels!DialogOf("MessagingSettingsForm")
       IN  /\ d.hears = "dialog" /\ d.then = Panels!None /\ d.refused = "stays"
           /\ d.granted \in {"stays", "clears"}
  BY DEF Panels!DialogOf, Panels!MessagingSettingsForm, Panels!Form, Panels!FormModal
<1>3. LET d == Panels!DialogOf("GeneralForm")
       IN  /\ d.hears = "dialog" /\ d.then = Panels!None /\ d.refused = "stays"
           /\ d.granted \in {"stays", "clears"}
  BY DEF Panels!DialogOf, Panels!GeneralForm, Panels!Form, Panels!FormModal
<1>4. LET d == Panels!DialogOf("ProfileForm")
       IN  /\ d.hears = "dialog" /\ d.then = Panels!None /\ d.refused = "stays"
           /\ d.granted \in {"stays", "clears"}
  BY DEF Panels!DialogOf, Panels!ProfileForm, Panels!Form, Panels!FormModal
<1>5. LET d == Panels!DialogOf("TestSend")
       IN  /\ d.hears = "dialog" /\ d.then = Panels!None /\ d.refused = "stays"
           /\ d.granted \in {"stays", "clears"}
  BY DEF Panels!DialogOf, Panels!TestSend, Panels!Form, Panels!FormModal
<1>6. QED
  BY <1>1, <1>2, <1>3, <1>4, <1>5 DEF FormNames

\* A panel opens dialogs, or has a form and opens none.
LEMMA PanelsHave ==
  ASSUME NEW p \in Panels!AllPanels
  PROVE  \/ p.dialogs \subseteq DialogNames /\ p.form = Panels!None
         \/ p.dialogs = {} /\ p.form \in FormNames
<1>1. CASE p = Panels!ListsPanel
  BY <1>1 DEF Panels!ListsPanel, Panels!Panel, DialogNames
<1>2. CASE p = Panels!ListActions
  BY <1>2 DEF Panels!ListActions, Panels!Panel, DialogNames
<1>3. CASE p = Panels!AlphaTagsTab
  BY <1>3 DEF Panels!AlphaTagsTab, Panels!Panel, DialogNames
<1>4. CASE p = Panels!MyNumbersTab
  BY <1>4 DEF Panels!MyNumbersTab, Panels!Panel, DialogNames
<1>5. CASE p = Panels!SmartSendersTab
  BY <1>5 DEF Panels!SmartSendersTab, Panels!Panel, DialogNames
<1>6. CASE p = Panels!BuyANumberScreen
  BY <1>6 DEF Panels!BuyANumberScreen, Panels!Panel, DialogNames
<1>7. CASE p = Panels!TemplatesScreen
  BY <1>7 DEF Panels!TemplatesScreen, Panels!Panel, DialogNames
<1>8. CASE p = Panels!AllowedAddressesPanel
  BY <1>8 DEF Panels!AllowedAddressesPanel, Panels!Panel, DialogNames
<1>9. CASE p = Panels!InboundRulesPanel
  BY <1>9 DEF Panels!InboundRulesPanel, Panels!Panel, DialogNames
<1>10. CASE p = Panels!DeliveryRulesPanel
  BY <1>10 DEF Panels!DeliveryRulesPanel, Panels!Panel, DialogNames
<1>11. CASE p = Panels!WebsitesScreen
  BY <1>11 DEF Panels!WebsitesScreen, Panels!Panel, DialogNames
<1>12. CASE p = Panels!SubaccountsTab
  BY <1>12 DEF Panels!SubaccountsTab, Panels!Panel, DialogNames
<1>13. CASE p = Panels!CardsScreen
  BY <1>13 DEF Panels!CardsScreen, Panels!Panel, DialogNames
<1>14. CASE p = Panels!AccountSettingsScreen
  BY <1>14 DEF Panels!AccountSettingsScreen, Panels!FormPanel, Panels!Panel, FormNames
<1>15. CASE p = Panels!MessagingGeneralTab
  BY <1>15 DEF Panels!MessagingGeneralTab, Panels!FormPanel, Panels!Panel, FormNames
<1>16. CASE p = Panels!GeneralScreen
  BY <1>16 DEF Panels!GeneralScreen, Panels!FormPanel, Panels!Panel, FormNames
<1>17. CASE p = Panels!ProfileScreen
  BY <1>17 DEF Panels!ProfileScreen, Panels!FormPanel, Panels!Panel, FormNames
<1>18. CASE p = Panels!HomeScreen
  BY <1>18 DEF Panels!HomeScreen, Panels!FormPanel, Panels!Panel, FormNames
<1>19. QED
  BY <1>1, <1>2, <1>3, <1>4, <1>5, <1>6, <1>7, <1>8, <1>9, <1>10, <1>11, <1>12,
     <1>13, <1>14, <1>15, <1>16, <1>17, <1>18
  DEF Panels!AllPanels

\* An opening names its dialog and the panel of it.
DialogTyped(d) ==
  /\ d.name \in panel.dialogs \cup {panel.form}
  /\ d.sent \/ d.secret => d.name # Panels!None

\* What the panels keep is of its types.
PanelsTypes ==
  /\ Panels!TypeOK
  /\ list.fetch.at \in 0 .. revision

\* What a panel shows, and what waits for it.
ShowTyped ==
  /\ DialogTyped(dialog)
  /\ revealed \in BOOLEAN
  /\ \A s \in Panels!Slots : asked[s].by \in {Panels!None, "dialog", "panel", "nobody"}

ListTyped ==
  /\ list.held.at \in 0 .. revision /\ list.fetch.at \in 0 .. revision
  /\ revision \in 0 .. MaxPanelChanges

LEMMA TypedIs ==
  ASSUME PanelsInv
  PROVE  PanelsTypes <=> ShowTyped /\ ListTyped
BY DEF PanelsInv, PanelsTypes, Panels!TypeOK, ShowTyped, ListTyped, DialogTyped

\* What is opened anew.
LEMMA MountedTyped ==
  ASSUME PanelsInv, NEW name \in panel.dialogs \cup {panel.form}, NEW op
  PROVE  DialogTyped(Panels!Mounted(name, op))
BY DEF DialogTyped, Panels!Mounted, Panels!NoDialog

LEMMA RestingTyped ==
  ASSUME PanelsInv
  PROVE  DialogTyped(Panels!Resting(panel))
<1>1. CASE panel.form = Panels!None
  BY <1>1 DEF DialogTyped, Panels!Resting, Panels!NoDialog
<1>2. CASE panel.form # Panels!None
  <2> DEFINE first == CHOOSE op \in Panels!DialogOf(panel.form).asks : TRUE
  <2>1. Panels!Resting(panel) = Panels!Mounted(panel.form, first)
    BY <1>2 DEF Panels!Resting
  <2> HIDE DEF first
  <2>2. QED
    BY <2>1, MountedTyped
<1>3. QED
  BY <1>1, <1>2

\* No answer closes a form, and none fills in what is not open.
LEMMA HeardTyped ==
  ASSUME PanelsInv, ShowTyped, NEW s \in Panels!Slots, asked[s].answer # Panels!None
  PROVE  DialogTyped(Panels!Heard(s))
<1> DEFINE d == Panels!Heard(s)
<1>1. d = Panels!NoDialog \/ d.name = dialog.name
  BY HeardIs
<1>2. asked[s].by = "dialog" => dialog.name # Panels!None
  BY DEF PanelsInv
<1>3. asked[s].by # "dialog" => d \in {Panels!NoDialog, dialog}
  BY DEF Panels!Heard
<1>4. DialogTyped(dialog)
  BY DEF ShowTyped
<1>5. CASE panel.form = Panels!None
  <2>1. DialogTyped(Panels!NoDialog)
    BY <1>5 DEF DialogTyped, Panels!NoDialog
  <2>2. CASE asked[s].by = "dialog"
    <3> HIDE DEF d
    <3>1. CASE d = Panels!NoDialog
      BY <2>1, <3>1 DEF d
    <3>2. CASE d.name = dialog.name
      BY <1>2, <1>4, <2>2, <3>2 DEF DialogTyped, d
    <3>3. QED
      BY <1>1, <3>1, <3>2
  <2>3. CASE asked[s].by # "dialog"
    BY <1>3, <1>4, <2>1, <2>3
  <2>4. QED
    BY <2>2, <2>3
<1>6. CASE panel.form # Panels!None
  <2>1. panel.dialogs = {} /\ panel.form \in FormNames
    BY <1>6, PanelsHave DEF PanelsInv
  <2>2. dialog.name = panel.form
    BY <1>4, <2>1 DEF DialogTyped
  <2>3. /\ Panels!This.hears = "dialog" /\ Panels!This.then = Panels!None
        /\ Panels!This.refused = "stays" /\ Panels!This.granted \in {"stays", "clears"}
    BY <2>1, <2>2, FormsStay DEF Panels!This
  <2>4. asked[s].op # Panels!None
    <3>1. panel # Panels!BuyANumberScreen
      BY <1>6 DEF Panels!BuyANumberScreen, Panels!Panel
    <3>2. asked[s] # Panels!NoRequest
      BY DEF Panels!NoRequest
    <3>3. panel.list \in Panels!INVALIDATES(asked[s].op)
      BY <3>1, <3>2 DEF PanelsInv, RequestsInv, AskedOf
    <3>4. Panels!INVALIDATES(Panels!None) = {}
      BY DEF Panels!INVALIDATES, Panels!None
    <3>5. QED
      BY <3>3, <3>4
  <2>5. DialogTyped(Panels!Mounted(dialog.name, dialog.op))
    BY <2>2, MountedTyped
  <2>6. CASE asked[s].by = "dialog" /\ asked[s].answer = "ok"
    <3>1. Panels!Heard(s) = Panels!Granted(asked[s].op)
      BY <2>6 DEF Panels!Heard
    <3>2. Panels!Granted(asked[s].op) \in {dialog, Panels!Mounted(dialog.name, dialog.op)}
      BY <2>3, <2>4 DEF Panels!Granted
    <3>3. QED
      BY <1>4, <2>5, <3>1, <3>2
  <2>7. CASE ~(asked[s].by = "dialog" /\ asked[s].answer = "ok")
    <3>1. Panels!Heard(s) = dialog
      BY <2>3, <2>7 DEF Panels!Heard
    <3>2. QED
      BY <1>4, <3>1
  <2>8. QED
    BY <2>6, <2>7
<1>7. QED
  BY <1>5, <1>6

LEMMA AskTyped ==
  ASSUME PanelsInv, ShowTyped, NEW op, NEW by \in {"dialog", "panel"}, Panels!Ask(op, by),
         UNCHANGED <<panel, dialog, revealed>>
  PROVE  ShowTyped'
<1> DEFINE q == [Panels!NoRequest EXCEPT !.op = op, !.by = by]
           slot == Panels!Slot
<1>1. slot \in Panels!Slots
  BY SlotIs DEF Panels!Ask
<1>2. asked' = [asked EXCEPT ![slot] = q]
  BY DEF Panels!Ask
<1>3. q.by = by
  BY DEF Panels!NoRequest
<1> HIDE DEF q, slot
<1>4. \A s \in Panels!Slots : asked'[s].by \in {asked[s].by, by}
  BY <1>1, <1>2, <1>3 DEF PanelsInv, RequestsInv
<1>5. QED
  BY <1>4 DEF ShowTyped, DialogTyped

\* What is unmounted hears no answer, and the rest waits as before.
LEMMA UnheardTyped ==
  ASSUME PanelsInv, NEW reqs, NEW gone, Panels!None \notin gone,
         \A s \in Panels!Slots : /\ DOMAIN reqs[s] = {"op", "by", "answer", "at"}
                                 /\ reqs[s].by \in {Panels!None, "dialog", "panel", "nobody"}
  PROVE  \A s \in Panels!Slots :
           Panels!Unheard(reqs, gone)[s].by \in {Panels!None, "dialog", "panel", "nobody"}
BY UnheardIs

LEMMA UserTyped ==
  ASSUME PanelsInv, ShowTyped,
         \/ \E name \in panel.dialogs : Panels!Open(name)
         \/ Panels!Type \/ Panels!Submit \/ Panels!Verify \/ Panels!Close \/ Panels!ApiKeyModal
         \/ \E op \in panel.rows : Panels!RowAction(op)
  PROVE  ShowTyped'
<1>1. ASSUME NEW name \in panel.dialogs, Panels!Open(name) PROVE ShowTyped'
  <2>1. PICK op : dialog' = Panels!Mounted(name, op)
    BY <1>1 DEF Panels!Open
  <2>2. UNCHANGED <<panel, revealed, asked>>
    BY <1>1 DEF Panels!Open
  <2>3. DialogTyped(dialog')
    BY <2>1, MountedTyped
  <2>4. QED
    BY <2>2, <2>3 DEF ShowTyped, DialogTyped
<1>2. CASE Panels!Type
  <2>1. /\ dialog'.name = dialog.name /\ dialog'.sent = dialog.sent
        /\ dialog'.secret = dialog.secret /\ UNCHANGED <<panel, revealed, asked>>
    BY <1>2 DEF Panels!Type, PanelsInv, OpenOf
  <2>2. QED
    BY <2>1 DEF ShowTyped, DialogTyped
<1>3. CASE Panels!Submit
  <2>1. /\ Panels!Ask(dialog.op, Panels!This.hears) /\ dialog.name # Panels!None
        /\ UNCHANGED <<panel, dialog, revealed>>
    BY <1>3 DEF Panels!Submit, Panels!Up
  <2>2. dialog.name \in DialogNames \cup FormNames
    BY <2>1, PanelsHave DEF PanelsInv, ShowTyped, DialogTyped
  <2>3. Panels!This.hears \in {"dialog", "panel"}
    BY <2>2, DialogsHear, FormsStay DEF Panels!This
  <2>4. QED
    BY <2>1, <2>3, AskTyped
<1>4. CASE Panels!Verify
  <2>1. Panels!Ask(Panels!This.then, "dialog") /\ UNCHANGED <<panel, dialog, revealed>>
    BY <1>4 DEF Panels!Verify
  <2>2. QED
    BY <2>1, AskTyped
<1>5. CASE Panels!Close
  <2>1. /\ panel.form = Panels!None /\ dialog' = Panels!NoDialog /\ UNCHANGED <<panel, revealed>>
        /\ asked' = Panels!Unheard(asked, {"dialog"})
    BY <1>5 DEF Panels!Close
  <2>2. \A s \in Panels!Slots : asked'[s].by \in {Panels!None, "dialog", "panel", "nobody"}
    BY <2>1, UnheardTyped DEF PanelsInv, RequestsInv, AskedOf, ShowTyped, Panels!None
  <2>3. DialogTyped(dialog')
    BY <2>1 DEF DialogTyped, Panels!NoDialog
  <2>4. QED
    BY <2>1, <2>2, <2>3 DEF ShowTyped, DialogTyped
<1>6. CASE Panels!ApiKeyModal
  BY <1>6 DEF Panels!ApiKeyModal, ShowTyped, DialogTyped
<1>7. CASE \E op \in panel.rows : Panels!RowAction(op)
  <2>1. PICK op : Panels!Ask(op, "panel") /\ UNCHANGED <<panel, dialog, revealed>>
    BY <1>7 DEF Panels!RowAction
  <2>2. QED
    BY <2>1, AskTyped
<1>8. QED
  BY <1>1, <1>2, <1>3, <1>4, <1>5, <1>6, <1>7

LEMMA AnswerShows ==
  ASSUME PanelsInv, ShowTyped, NEW s \in Panels!Slots,
         Panels!Handle(s) \/ Panels!Answered(s)
  PROVE  ShowTyped'
<1>1. CASE Panels!Handle(s)
  <2>1. PICK q \in {[asked[s] EXCEPT !.answer = "ok", !.at = revision + 1],
                    [asked[s] EXCEPT !.answer = "error"]} : asked' = [asked EXCEPT ![s] = q]
    BY <1>1 DEF Panels!Handle, PanelsInv, RequestsInv, AskedOf
  <2>2. q.by = asked[s].by
    BY <2>1 DEF PanelsInv, RequestsInv, AskedOf
  <2>3. \A t \in Panels!Slots : asked'[t].by = asked[t].by
    BY <2>1, <2>2 DEF PanelsInv, RequestsInv
  <2>4. UNCHANGED <<panel, dialog, revealed>>
    BY <1>1 DEF Panels!Handle
  <2>5. QED
    BY <2>3, <2>4 DEF ShowTyped, DialogTyped
<1>2. CASE Panels!Answered(s)
  <2> DEFINE left == [asked EXCEPT ![s] = Panels!NoRequest]
  <2>1. /\ asked[s].answer # Panels!None /\ UNCHANGED panel
        /\ dialog' = Panels!Heard(s) /\ revealed' \in BOOLEAN
        /\ asked' = IF dialog' = Panels!NoDialog THEN Panels!Unheard(left, {"dialog"}) ELSE left
    BY <1>2 DEF Panels!Answered
  <2>2. \A t \in Panels!Slots : /\ DOMAIN left[t] = {"op", "by", "answer", "at"}
                                /\ left[t].by \in {Panels!None, "dialog", "panel", "nobody"}
    <3>1. DOMAIN Panels!NoRequest = {"op", "by", "answer", "at"} /\ Panels!NoRequest.by = Panels!None
      BY DEF Panels!NoRequest
    <3>2. \A t \in Panels!Slots : left[t] \in {asked[t], Panels!NoRequest}
      BY DEF PanelsInv, RequestsInv
    <3> HIDE DEF left
    <3>3. QED
      BY <3>1, <3>2 DEF PanelsInv, RequestsInv, AskedOf, ShowTyped
  <2> HIDE DEF left
  <2>3. \A t \in Panels!Slots : asked'[t].by \in {Panels!None, "dialog", "panel", "nobody"}
    <3>1. Panels!None \notin {"dialog"}
      BY DEF Panels!None
    <3>2. \A t \in Panels!Slots :
            Panels!Unheard(left, {"dialog"})[t].by \in {Panels!None, "dialog", "panel", "nobody"}
      BY <2>2, <3>1, UnheardTyped
    <3>3. QED
      BY <2>1, <2>2, <3>2
  <2>4. DialogTyped(dialog')
    BY <2>1, HeardTyped
  <2>5. QED
    BY <2>1, <2>3, <2>4 DEF ShowTyped, DialogTyped
<1>3. QED
  BY <1>1, <1>2

LEMMA FetchShows ==
  ASSUME PanelsInv, ShowTyped,
         \/ Panels!ElsewhereChanged \/ Panels!Refocus \/ Panels!Read \/ Panels!FetchOk
         \/ Panels!FetchFails
  PROVE  ShowTyped'
<1>1. CASE Panels!ElsewhereChanged \/ Panels!Refocus \/ Panels!Read \/ Panels!FetchOk
  <2>1. UNCHANGED <<panel, dialog, revealed, asked>>
    BY <1>1 DEF Panels!ElsewhereChanged, Panels!Refocus, Panels!Read, Panels!FetchOk
  <2>2. QED
    BY <2>1 DEF ShowTyped, DialogTyped
<1>2. CASE Panels!FetchFails
  <2> DEFINE gone == CASE panel.keeps = "panel" -> {"dialog", "panel"}
                       [] panel.keeps = "screen" -> {"dialog"}
                       [] OTHER -> {}
  <2>1. /\ asked' = Panels!Unheard(asked, gone) /\ UNCHANGED <<panel, revealed>>
        /\ dialog' \in {Panels!Resting(panel), Panels!Mounted(dialog.name, dialog.op), dialog}
    BY <1>2 DEF Panels!FetchFails
  <2>2. Panels!None \notin gone
    BY DEF Panels!None
  <2> HIDE DEF gone
  <2>3. \A s \in Panels!Slots : asked'[s].by \in {Panels!None, "dialog", "panel", "nobody"}
    BY <2>1, <2>2, UnheardTyped DEF PanelsInv, RequestsInv, AskedOf, ShowTyped
  <2>4. DialogTyped(dialog')
    <3>1. dialog.name \in panel.dialogs \cup {panel.form} /\ DialogTyped(dialog)
      BY DEF ShowTyped, DialogTyped
    <3>2. QED
      BY <2>1, <3>1, RestingTyped, MountedTyped
  <2>5. QED
    BY <2>1, <2>3, <2>4 DEF ShowTyped, DialogTyped
<1>3. QED
  BY <1>1, <1>2

\* A query of a panel: as one of the inbox.
LEMMA ListStays ==
  ASSUME PanelsInv, ListTyped, Panels!DialogsAssumption, Panels!Next
  PROVE  ListTyped'
<1>0. /\ revision \in Nat /\ MaxPanelChanges \in Nat /\ DOMAIN list = {"held", "fetch"}
      /\ list.held.at \in 0 .. revision /\ list.fetch.at \in 0 .. revision
      /\ revision \in 0 .. MaxPanelChanges
  BY DEF PanelsInv, ListInv, ListTyped, Panels!DialogsAssumption
<1>1. /\ Panels!Asked.at = 0 /\ Panels!Failure.at = 0 /\ Panels!NoFetch.at = 0
      /\ Panels!Data(revision).at = revision
  BY DEF Panels!Asked, Panels!Failure, Panels!NoFetch, Panels!Data
<1>2. CASE UNCHANGED list
  <2>1. revision' = revision \/ (revision' = revision + 1 /\ revision < MaxPanelChanges)
    BY DEF Panels!Next, Panels!Open, Panels!Type, Panels!Submit, Panels!Verify, Panels!Close,
           Panels!ApiKeyModal, Panels!RowAction, Panels!Handle, Panels!Answered,
           Panels!ElsewhereChanged, Panels!Refocus, Panels!Read, Panels!FetchOk,
           Panels!FetchFails
  <2>2. QED
    BY <1>0, <1>2, <2>1 DEF ListTyped
<1>3. CASE ~UNCHANGED list
  <2>1. /\ revision' = revision
        /\ list' \in {[list EXCEPT !.fetch = Panels!Asked],
                      [list EXCEPT !.fetch = Panels!Data(revision)],
                      Panels!Landed(list, list.fetch), Panels!Landed(list, Panels!Failure)}
    BY <1>3 DEF Panels!Next, Panels!Open, Panels!Type, Panels!Submit, Panels!Verify,
           Panels!Close, Panels!ApiKeyModal, Panels!RowAction, Panels!Handle,
           Panels!Answered, Panels!ElsewhereChanged, Panels!Refocus, Panels!Read,
           Panels!FetchOk, Panels!FetchFails, Panels!Invalidated, Panels!Fetched
  <2>2. list'.held.at \in 0 .. revision /\ list'.fetch.at \in 0 .. revision
    <3>1. CASE list' = [list EXCEPT !.fetch = Panels!Asked]
      <4>1. list'.held = list.held /\ list'.fetch = Panels!Asked
        BY <1>0, <3>1
      <4>2. QED
        BY <1>0, <1>1, <4>1
    <3>2. CASE list' = [list EXCEPT !.fetch = Panels!Data(revision)]
      <4>1. list'.held = list.held /\ list'.fetch = Panels!Data(revision)
        BY <1>0, <3>2
      <4>2. QED
        BY <1>0, <1>1, <4>1
    <3>3. CASE list' = Panels!Landed(list, list.fetch)
      <4>1. list'.held = list.fetch /\ list'.fetch = Panels!NoFetch
        BY <3>3 DEF Panels!Landed
      <4>2. QED
        BY <1>0, <1>1, <4>1
    <3>4. CASE list' = Panels!Landed(list, Panels!Failure)
      <4>1. list'.held = Panels!Failure /\ list'.fetch = Panels!NoFetch
        BY <3>4 DEF Panels!Landed
      <4>2. QED
        BY <1>0, <1>1, <4>1
    <3>5. QED
      BY <2>1, <3>1, <3>2, <3>3, <3>4
  <2>3. QED
    BY <1>0, <2>1, <2>2 DEF ListTyped
<1>4. QED
  BY <1>2, <1>3

LEMMA PanelsTypesInit ==
  ASSUME PanelsInv, Panels!DialogsAssumption, Panels!Init PROVE PanelsTypes
<1>1. /\ dialog = Panels!Resting(panel) /\ revealed = FALSE
      /\ list = [held |-> Panels!NoData, fetch |-> Panels!Asked]
      /\ asked = [s \in Panels!Slots |-> Panels!NoRequest] /\ revision = 0
  BY DEF Panels!Init
<1>2. Panels!NoRequest.by = Panels!None /\ Panels!NoData.at = 0 /\ Panels!Asked.at = 0
  BY DEF Panels!NoRequest, Panels!NoData, Panels!Asked
<1>3. ShowTyped
  BY <1>1, <1>2, RestingTyped DEF ShowTyped
<1>4. ListTyped
  BY <1>1, <1>2 DEF ListTyped, Panels!DialogsAssumption
<1>5. QED
  BY <1>3, <1>4, TypedIs

\* No step of the panels leaves their types.
LEMMA PanelsTypesStep ==
  ASSUME PanelsInv, PanelsInv', PanelsTypes, Panels!DialogsAssumption,
         [Panels!Next]_panelVars
  PROVE  PanelsTypes'
<1>1. CASE UNCHANGED panelVars
  BY <1>1 DEF panelVars, PanelsTypes, Panels!TypeOK
<1>2. CASE Panels!Next
  <2>1. ShowTyped /\ ListTyped
    BY TypedIs
  <2>2. ShowTyped'
    BY <1>2, <2>1, UserTyped, AnswerShows, FetchShows DEF Panels!Next
  <2>3. ListTyped'
    BY <1>2, <2>1, ListStays
  <2>4. QED
    BY <2>2, <2>3 DEF PanelsInv, PanelsTypes, Panels!TypeOK, ShowTyped, ListTyped, DialogTyped
<1>3. QED
  BY <1>1, <1>2

-----------------------------------------------------------------------------
(* Quick send                                                              *)

\* A send is of a dialog that was opened, and until it is answered that dialog's
\* message was not accepted.
SendOf(q) ==
  /\ q # Quick!NoRequest => "answer" \in DOMAIN q
  /\ q.op = "send" => /\ q.dialog \in 1 .. dialogs
                      /\ q.answer = Quick!None => accepted[q.dialog] = 0

\* The dialog that is open waits for its own send, or has sent nothing yet.
DialogInv ==
  composer # Quick!NoComposer =>
    /\ {"draft", "confirming", "sending"} \subseteq DOMAIN composer
    /\ composer.confirming \in BOOLEAN
    /\ composer.confirming => dialogs \in 1 .. MaxDialogs
    /\ composer.sending # 0 => /\ composer.sending \in Quick!Slots
                               /\ sends[composer.sending].op = "send"
    /\ composer.confirming /\ composer.sending = 0 =>
         /\ accepted[dialogs] = 0
         /\ \A s \in Quick!Slots : sends[s].op = "send" => sends[s].dialog # dialogs

QuickInv ==
  /\ dialogs \in 0 .. MaxDialogs
  /\ accepted \in [1 .. MaxDialogs -> Nat]
  /\ \A d \in dialogs + 1 .. MaxDialogs : accepted[d] = 0
  /\ Quick!SentOncePerDialog
  /\ DOMAIN sends = Quick!Slots
  /\ \A s \in Quick!Slots : SendOf(sends[s])
  /\ \A s, t \in Quick!Slots :
       sends[s].op = "send" /\ sends[t].op = "send" /\ sends[s].dialog = sends[t].dialog => s = t
  /\ DialogInv

LEMMA SendSlotIs ==
  ASSUME Quick!Free # {}
  PROVE  Quick!Slot \in Quick!Slots /\ sends[Quick!Slot] = Quick!NoRequest
<1>1. Quick!Free \subseteq Nat
  BY DEF Quick!Free, Quick!Slots
<1>2. \E s \in Quick!Free : \A t \in Quick!Free : s <= t
  BY <1>1, LeastIs
<1>3. QED
  BY <1>2 DEF Quick!Slot, Quick!Free

\* Requests that are not sends change nothing of the dialogs; nor do those that go.
LEMMA ComposerKeeps ==
  ASSUME QuickInv, UNCHANGED <<sends, accepted, dialogs>>,
         composer' = Quick!NoComposer
           \/ /\ composer # Quick!NoComposer
              /\ DOMAIN composer' = DOMAIN composer
              /\ composer'.confirming = composer.confirming
              /\ composer'.sending = composer.sending
           \/ /\ {"draft", "confirming", "sending"} \subseteq DOMAIN composer'
              /\ composer'.confirming = FALSE
              /\ composer'.sending = 0
  PROVE  QuickInv'
<1>1. DialogInv'
  BY DEF QuickInv, DialogInv
<1>2. QED
  BY <1>1 DEF QuickInv, SendOf, Quick!SentOncePerDialog

LEMMA ScreenKeeps ==
  ASSUME QuickInv, \/ Quick!QuickSendScreen \/ Quick!ListsFetched \/ Quick!onPatch \/ Quick!Quoted
                   \/ Quick!CloseModal \/ \E kind \in {"SMS", "MMS"} : Quick!QuickComposer(kind)
  PROVE  QuickInv'
<1>1. ASSUME NEW c, NEW b, c # Quick!NoComposer, {"draft", "confirming", "sending"} \subseteq DOMAIN c
      PROVE  LET d == Quick!Seeded(c, b)
             IN /\ DOMAIN d = DOMAIN c
                /\ d.confirming = c.confirming /\ d.sending = c.sending
  BY <1>1 DEF Quick!Seeded
<1>2. CASE Quick!QuickSendScreen
  <2>1. UNCHANGED <<sends, accepted, dialogs>> /\ composer' \in {composer, Quick!NoComposer}
    BY <1>2 DEF Quick!QuickSendScreen
  <2>2. QED
    BY <2>1, ComposerKeeps
<1>3. CASE Quick!ListsFetched
  <2>1. /\ UNCHANGED <<sends, accepted, dialogs>>
        /\ composer' = IF composer # Quick!NoComposer THEN Quick!Seeded(composer, lists') ELSE composer
    BY <1>3 DEF Quick!ListsFetched, Quick!Mounted
  <2>2. CASE composer = Quick!NoComposer
    BY <2>1, <2>2, ComposerKeeps
  <2>3. CASE composer # Quick!NoComposer
    <3>1. /\ DOMAIN composer' = DOMAIN composer /\ composer'.confirming = composer.confirming
          /\ composer'.sending = composer.sending
      BY <1>1, <2>1, <2>3 DEF QuickInv, DialogInv
    <3>2. QED
      BY <2>1, <2>3, <3>1, ComposerKeeps
  <2>4. QED
    BY <2>2, <2>3
<1>4. CASE Quick!onPatch
  <2>1. /\ UNCHANGED <<sends, accepted, dialogs>> /\ composer # Quick!NoComposer
        /\ \E draft : composer' = [composer EXCEPT !.draft = draft]
    BY <1>4 DEF Quick!onPatch, Quick!Reachable, Quick!Mounted
  <2>2. /\ DOMAIN composer' = DOMAIN composer /\ composer'.confirming = composer.confirming
        /\ composer'.sending = composer.sending
    BY <2>1 DEF QuickInv, DialogInv
  <2>3. QED
    BY <2>1, <2>2, ComposerKeeps
<1>5. CASE Quick!Quoted
  <2>1. UNCHANGED <<sends, accepted, dialogs, composer>>
    BY <1>5 DEF Quick!Quoted
  <2>2. QED
    BY <2>1 DEF QuickInv, SendOf, Quick!SentOncePerDialog, DialogInv
<1>6. CASE Quick!CloseModal
  <2>1. /\ UNCHANGED <<sends, accepted, dialogs>> /\ composer # Quick!NoComposer
        /\ composer' = [composer EXCEPT !.confirming = FALSE, !.sending = 0]
    BY <1>6 DEF Quick!CloseModal, Quick!Mounted
  <2>2. /\ DOMAIN composer' = DOMAIN composer /\ composer'.confirming = FALSE
        /\ composer'.sending = 0 /\ {"draft", "confirming", "sending"} \subseteq DOMAIN composer'
    BY <2>1 DEF QuickInv, DialogInv
  <2>3. QED
    BY <2>1, <2>2, ComposerKeeps
<1>7. CASE \E kind \in {"SMS", "MMS"} : Quick!QuickComposer(kind)
  <2>1. PICK kind \in {"SMS", "MMS"} : Quick!QuickComposer(kind)
    BY <1>7
  <2> DEFINE c == [kind |-> kind, n |-> mounts', draft |-> Quick!emptyDraft(kind),
                   confirming |-> FALSE, sending |-> 0, seeded |-> FALSE]
  <2>2. composer' = Quick!Seeded(c, lists) /\ UNCHANGED <<sends, accepted, dialogs>>
    BY <2>1 DEF Quick!QuickComposer
  <2>3. /\ {"draft", "confirming", "sending"} \subseteq DOMAIN c
        /\ c.confirming = FALSE /\ c.sending = 0 /\ c # Quick!NoComposer
    BY <2>1 DEF Quick!NoComposer, Quick!None
  <2> HIDE DEF c
  <2>4. /\ {"draft", "confirming", "sending"} \subseteq DOMAIN composer'
        /\ composer'.confirming = FALSE /\ composer'.sending = 0
    BY <1>1, <2>2, <2>3
  <2>5. QED
    BY <2>2, <2>4, ComposerKeeps
<1>8. QED
  BY <1>2, <1>3, <1>4, <1>5, <1>6, <1>7

LEMMA ConfirmKeeps ==
  ASSUME QuickInv, Quick!QuickSendAssumption, Quick!Confirm PROVE QuickInv'
<1>1. /\ UNCHANGED <<sends, accepted>> /\ dialogs' = dialogs + 1 /\ dialogs < MaxDialogs
      /\ composer # Quick!NoComposer /\ composer' = [composer EXCEPT !.confirming = TRUE]
  BY DEF Quick!Confirm, Quick!Reachable, Quick!Mounted
<1>2. /\ DOMAIN composer' = DOMAIN composer /\ composer'.confirming = TRUE
      /\ composer'.sending = composer.sending
  BY <1>1 DEF QuickInv, DialogInv
<1>3. dialogs' \in 1 .. MaxDialogs /\ dialogs \in 0 .. MaxDialogs /\ MaxDialogs \in Nat
  BY <1>1 DEF QuickInv, Quick!QuickSendAssumption
<1>4. accepted[dialogs'] = 0 /\ \A d \in dialogs' + 1 .. MaxDialogs : accepted[d] = 0
  BY <1>1, <1>3 DEF QuickInv
<1>5. \A s \in Quick!Slots :
        sends[s].op = "send" => sends[s].dialog # dialogs' /\ sends[s].dialog \in 1 .. dialogs'
  BY <1>1, <1>3 DEF QuickInv, SendOf
<1>6. DialogInv'
  BY <1>1, <1>2, <1>3, <1>4, <1>5 DEF QuickInv, DialogInv
<1>7. \A s \in Quick!Slots : SendOf(sends[s])'
  BY <1>1, <1>5 DEF QuickInv, SendOf
<1>8. QED
  BY <1>1, <1>3, <1>4, <1>6, <1>7 DEF QuickInv, Quick!SentOncePerDialog

LEMMA SentKeeps ==
  ASSUME QuickInv, Quick!MediaUpload \/ Quick!submit PROVE QuickInv'
<1> DEFINE slot == Quick!Slot
<1>1. slot \in Quick!Slots /\ sends[slot] = Quick!NoRequest
  BY SendSlotIs DEF Quick!MediaUpload, Quick!submit
<1> HIDE DEF slot
<1>2. sends[slot].op = Quick!None
  BY <1>1 DEF Quick!NoRequest
<1>3. ASSUME NEW q, sends' = [sends EXCEPT ![slot] = q]
      PROVE  /\ DOMAIN sends' = Quick!Slots /\ sends'[slot] = q
             /\ \A s \in Quick!Slots : s # slot => sends'[s] = sends[s]
  BY <1>1, <1>3 DEF QuickInv
<1>4. CASE Quick!MediaUpload
  <2> DEFINE q == [op |-> "upload", base |-> composer.draft, n |-> composer.n, answer |-> Quick!None]
  <2>1. sends' = [sends EXCEPT ![slot] = q] /\ UNCHANGED <<composer, accepted, dialogs>>
    BY <1>4 DEF Quick!MediaUpload, Quick!Sent, slot
  <2>2. q.op = "upload" /\ "answer" \in DOMAIN q
    OBVIOUS
  <2> HIDE DEF q
  <2>3. /\ DOMAIN sends' = Quick!Slots /\ sends'[slot] = q
        /\ \A s \in Quick!Slots : s # slot => sends'[s] = sends[s]
    BY <1>3, <2>1
  <2>4. \A s \in Quick!Slots : SendOf(sends[s])'
    BY <2>1, <2>2, <2>3 DEF QuickInv, SendOf
  <2>5. DialogInv'
    BY <1>1, <1>2, <2>1, <2>2, <2>3 DEF QuickInv, DialogInv, Quick!None
  <2>6. QED
    BY <2>1, <2>2, <2>3, <2>4, <2>5 DEF QuickInv, Quick!SentOncePerDialog
<1>5. CASE Quick!submit
  <2> DEFINE q == [op |-> "send", input |-> Quick!input, dialog |-> dialogs, answer |-> Quick!None]
  <2>1. /\ sends' = [sends EXCEPT ![slot] = q] /\ UNCHANGED <<accepted, dialogs>>
        /\ composer # Quick!NoComposer /\ composer.confirming /\ composer.sending = 0
        /\ composer' = [composer EXCEPT !.sending = slot]
    BY <1>5 DEF Quick!submit, Quick!Sent, Quick!Mounted, slot
  <2>2. q.op = "send" /\ q.dialog = dialogs /\ "answer" \in DOMAIN q
    OBVIOUS
  <2> HIDE DEF q
  <2>3. /\ DOMAIN sends' = Quick!Slots /\ sends'[slot] = q
        /\ \A s \in Quick!Slots : s # slot => sends'[s] = sends[s]
    BY <1>3, <2>1
  <2>4. /\ dialogs \in 1 .. MaxDialogs /\ accepted[dialogs] = 0
        /\ \A s \in Quick!Slots : sends[s].op = "send" => sends[s].dialog # dialogs
    BY <2>1 DEF QuickInv, DialogInv
  <2>5. /\ DOMAIN composer' = DOMAIN composer /\ composer'.confirming = composer.confirming
        /\ composer'.sending = slot
    BY <2>1 DEF QuickInv, DialogInv
  <2>6. slot # 0
    BY <1>1 DEF Quick!Slots
  <2>7. \A s \in Quick!Slots : SendOf(sends[s])'
    BY <2>1, <2>2, <2>3, <2>4 DEF QuickInv, SendOf
  <2>8. DialogInv'
    BY <1>1, <2>1, <2>2, <2>3, <2>5, <2>6 DEF QuickInv, DialogInv
  <2>9. \A s, t \in Quick!Slots :
          sends'[s].op = "send" /\ sends'[t].op = "send" /\ sends'[s].dialog = sends'[t].dialog => s = t
    BY <2>2, <2>3, <2>4 DEF QuickInv
  <2>10. QED
    BY <2>1, <2>3, <2>7, <2>8, <2>9 DEF QuickInv, Quick!SentOncePerDialog
<1>6. QED
  BY <1>4, <1>5

LEMMA HandledKeeps ==
  ASSUME QuickInv, Quick!QuickSendAssumption, NEW s \in Quick!Slots, Quick!Handle(s)
  PROVE  QuickInv'
<1>1. PICK acts \in BOOLEAN, answer \in {"ok", "error"} :
        /\ sends' = [sends EXCEPT ![s].answer = answer]
        /\ accepted' = IF acts /\ sends[s].op = "send"
                         THEN [accepted EXCEPT ![sends[s].dialog] = @ + 1] ELSE accepted
  BY DEF Quick!Handle
<1>2. UNCHANGED <<composer, dialogs>> /\ sends[s].op # Quick!None /\ sends[s].answer = Quick!None
  BY DEF Quick!Handle
<1> DEFINE q == [sends[s] EXCEPT !.answer = answer]
<1>3. /\ "answer" \in DOMAIN q /\ q.op = sends[s].op /\ q.dialog = sends[s].dialog
      /\ q.answer = answer
  <2>1. "answer" \in DOMAIN sends[s]
    BY <1>2 DEF QuickInv, SendOf, Quick!NoRequest
  <2>2. QED
    BY <2>1
<1> HIDE DEF q
<1>4. /\ DOMAIN sends' = Quick!Slots /\ sends'[s] = q
      /\ \A t \in Quick!Slots : t # s => sends'[t] = sends[t]
  BY <1>1 DEF QuickInv, q
<1>5. answer # Quick!None
  BY DEF Quick!None
<1>6. CASE accepted' = accepted
  <2>1. \A t \in Quick!Slots : SendOf(sends[t])'
    BY <1>2, <1>3, <1>4, <1>5, <1>6 DEF QuickInv, SendOf
  <2>2. DialogInv'
    BY <1>2, <1>3, <1>4, <1>6 DEF QuickInv, DialogInv
  <2>3. QED
    BY <1>2, <1>3, <1>4, <1>6, <2>1, <2>2 DEF QuickInv, Quick!SentOncePerDialog
<1>7. CASE accepted' # accepted
  <2> DEFINE d == sends[s].dialog
  <2>1. sends[s].op = "send" /\ accepted' = [accepted EXCEPT ![d] = accepted[d] + 1]
    BY <1>1, <1>7
  <2>2. d \in 1 .. dialogs /\ accepted[d] = 0 /\ d \in 1 .. MaxDialogs
    BY <1>2, <2>1 DEF QuickInv, SendOf, Quick!QuickSendAssumption
  <2> HIDE DEF d
  <2>3. /\ accepted' \in [1 .. MaxDialogs -> Nat] /\ accepted'[d] = 1
        /\ \A e \in 1 .. MaxDialogs : e # d => accepted'[e] = accepted[e]
    BY <2>1, <2>2 DEF QuickInv
  <2>4. \A t \in Quick!Slots : t # s /\ sends[t].op = "send" => sends[t].dialog # d
    BY <2>1 DEF QuickInv, d
  <2>5. \A t \in Quick!Slots : SendOf(sends[t])'
    <3>1. SendOf(sends[s])'
      BY <1>2, <1>3, <1>4, <1>5 DEF QuickInv, SendOf
    <3>2. ASSUME NEW t \in Quick!Slots, t # s PROVE SendOf(sends[t])'
      <4>1. sends[t].op = "send" => sends[t].dialog \in 1 .. MaxDialogs
        BY DEF QuickInv, SendOf, Quick!QuickSendAssumption
      <4>2. QED
        BY <1>2, <1>4, <2>3, <2>4, <3>2, <4>1 DEF QuickInv, SendOf
    <3>3. QED
      BY <3>1, <3>2
  <2>6. DialogInv'
    <3>1. composer # Quick!NoComposer /\ composer.confirming /\ composer.sending = 0 => d # dialogs
      BY <2>1 DEF QuickInv, DialogInv, d
    <3>2. QED
      BY <1>2, <1>3, <1>4, <2>3, <3>1 DEF QuickInv, DialogInv
  <2>7. \A e \in dialogs' + 1 .. MaxDialogs : accepted'[e] = 0
    BY <1>2, <2>2, <2>3 DEF QuickInv
  <2>8. Quick!SentOncePerDialog'
    BY <2>3 DEF QuickInv, Quick!SentOncePerDialog
  <2>9. QED
    BY <1>2, <1>3, <1>4, <2>3, <2>5, <2>6, <2>7, <2>8 DEF QuickInv
<1>8. QED
  BY <1>6, <1>7

LEMMA OverKeeps ==
  ASSUME QuickInv, NEW s \in Quick!Slots, Quick!SendAnswered(s) \/ Quick!Uploaded(s)
  PROVE  QuickInv'
<1>1. /\ sends' = [sends EXCEPT ![s] = Quick!NoRequest] /\ UNCHANGED <<accepted, dialogs>>
  BY DEF Quick!SendAnswered, Quick!Uploaded, Quick!Done
<1>2. /\ DOMAIN sends' = Quick!Slots /\ sends'[s] = Quick!NoRequest
      /\ \A t \in Quick!Slots : t # s => sends'[t] = sends[t]
  BY <1>1 DEF QuickInv
<1>3. Quick!NoRequest.op # "send"
  BY DEF Quick!NoRequest, Quick!None
<1>4. \A t \in Quick!Slots : SendOf(sends[t])'
  BY <1>1, <1>2, <1>3 DEF QuickInv, SendOf
<1>5. DialogInv'
  <2>1. CASE Quick!SendAnswered(s) /\ composer # Quick!NoComposer /\ composer.sending = s
    <3>1. \E draft : composer' = [composer EXCEPT !.confirming = FALSE, !.sending = 0, !.draft = draft]
      BY <2>1 DEF Quick!SendAnswered, Quick!Mounted, Quick!finish
    <3>2. /\ DOMAIN composer' = DOMAIN composer /\ composer'.confirming = FALSE
          /\ composer'.sending = 0
      BY <2>1, <3>1 DEF QuickInv, DialogInv
    <3>3. QED
      BY <2>1, <3>2 DEF QuickInv, DialogInv
  <2>2. CASE /\ ~(Quick!SendAnswered(s) /\ composer # Quick!NoComposer /\ composer.sending = s)
             /\ composer # Quick!NoComposer
    <3>1. composer.sending # s
      BY <2>2 DEF Quick!Uploaded, Quick!Slots, QuickInv, DialogInv
    <3>2. composer' = composer \/ \E draft : composer' = [composer EXCEPT !.draft = draft]
      BY <2>2 DEF Quick!SendAnswered, Quick!Uploaded, Quick!Mounted
    <3>3. /\ DOMAIN composer' = DOMAIN composer /\ composer'.confirming = composer.confirming
          /\ composer'.sending = composer.sending
      BY <2>2, <3>2 DEF QuickInv, DialogInv
    <3>4. QED
      BY <1>1, <1>2, <1>3, <2>2, <3>1, <3>3 DEF QuickInv, DialogInv
  <2>3. CASE composer = Quick!NoComposer
    <3>1. composer' = composer
      BY <2>3 DEF Quick!SendAnswered, Quick!Uploaded, Quick!Mounted
    <3>2. QED
      BY <2>3, <3>1 DEF DialogInv
  <2>4. QED
    BY <2>1, <2>2, <2>3
<1>6. QED
  BY <1>1, <1>2, <1>3, <1>4, <1>5 DEF QuickInv, Quick!SentOncePerDialog

LEMMA QuickInit ==
  ASSUME Quick!QuickSendAssumption, Quick!Init PROVE QuickInv
BY DEF Quick!QuickSendAssumption, Quick!Init, QuickInv, SendOf, DialogInv, Quick!NoRequest,
       Quick!None, Quick!SentOncePerDialog

LEMMA QuickStep ==
  ASSUME QuickInv, Quick!QuickSendAssumption, [Quick!Next]_quickVars PROVE QuickInv'
<1>1. CASE UNCHANGED quickVars
  <2>1. UNCHANGED <<composer, sends, accepted, dialogs>>
    BY <1>1 DEF quickVars
  <2>2. QED
    BY <2>1 DEF QuickInv, SendOf, DialogInv, Quick!SentOncePerDialog
<1>2. CASE Quick!Next
  BY <1>2, ScreenKeeps, ConfirmKeeps, SentKeeps, HandledKeeps, OverKeeps DEF Quick!Next
<1>3. QED
  BY <1>1, <1>2

\* Only the button of a dialog sends, and only where the price of its draft is in.
LEMMA SendsAreQuoted ==
  ASSUME QuickInv, Quick!Next, NEW s \in Quick!Slots,
         sends'[s].op = "send", sends[s].op # "send"
  PROVE  sends'[s].input \in quotes
<1>1. CASE UNCHANGED sends
  BY <1>1
<1>2. CASE \E t \in Quick!Slots : Quick!Handle(t)
  <2>1. PICK t \in Quick!Slots, answer \in {"ok", "error"} :
          sends' = [sends EXCEPT ![t].answer = answer]
    BY <1>2 DEF Quick!Handle
  <2>2. sends'[s].op = sends[s].op
    <3>1. CASE s # t
      BY <2>1, <3>1 DEF QuickInv
    <3>2. CASE s = t
      <4>1. sends'[s] = [sends[s] EXCEPT !.answer = answer]
        BY <2>1, <3>2 DEF QuickInv
      <4>2. QED
        BY <4>1
    <3>3. QED
      BY <3>1, <3>2
  <2>3. QED
    BY <2>2
<1>3. CASE \E t \in Quick!Slots : sends' = [sends EXCEPT ![t] = Quick!NoRequest]
  BY <1>3 DEF QuickInv, Quick!NoRequest, Quick!None
<1>4. CASE Quick!MediaUpload
  <2> DEFINE q == [op |-> "upload", base |-> composer.draft, n |-> composer.n,
                   answer |-> Quick!None]
  <2>1. sends' = [sends EXCEPT ![Quick!Slot] = q] /\ q.op = "upload"
    BY <1>4 DEF Quick!MediaUpload, Quick!Sent
  <2> HIDE DEF q
  <2>2. QED
    BY <2>1 DEF QuickInv
<1>5. CASE Quick!submit
  <2> DEFINE q == [op |-> "send", input |-> Quick!input, dialog |-> dialogs,
                   answer |-> Quick!None]
  <2>1. sends' = [sends EXCEPT ![Quick!Slot] = q] /\ q.input \in quotes
    BY <1>5 DEF Quick!submit, Quick!Sent, Quick!isQuoted
  <2> HIDE DEF q
  <2>2. QED
    BY <2>1 DEF QuickInv
<1>6. QED
  BY <1>1, <1>2, <1>3, <1>4, <1>5
     DEF Quick!Next, Quick!QuickSendScreen, Quick!ListsFetched, Quick!QuickComposer, Quick!onPatch,
         Quick!Confirm, Quick!Quoted, Quick!CloseModal, Quick!SendAnswered, Quick!Uploaded,
         Quick!Done

-----------------------------------------------------------------------------
(* The types of quick send *)

\* The chips of a draft have different values, and are of the numbers or of the list.
Chips == [kind : {"NUMBER", "LIST"}, value : Numbers \cup {"list"}]

ChipsOf(r) ==
  r \in Seq(Chips) /\ \A i, j \in 1 .. Len(r) : r[i].value = r[j].value => i = j

WithoutList(r) == \A i \in 1 .. Len(r) : r[i].value # "list"

DraftFields == {"kind", "recipients", "body", "mediaKey", "senderId", "sendAt", "subject",
                "shortenUrls"}

DraftOf(d) == DOMAIN d = DraftFields /\ ChipsOf(d.recipients)

LEMMA ChipsCounted ==
  ASSUME NEW r, ChipsOf(r) PROVE Cardinality(Quick!Chosen(r)) = Len(r)
<1> DEFINE n == Len(r)
           T == Quick!Chosen(r)
           f == [i \in 1 .. n |-> r[i].value]
<1>1. n \in Nat /\ DOMAIN r = 1 .. n
  BY DEF ChipsOf
<1>2. T = {r[i].value : i \in 1 .. n}
  BY <1>1 DEF Quick!Chosen
<1>3. f \in Surjection(1 .. n, T)
  BY <1>2 DEF Surjection
<1>4. f \in Injection(1 .. n, T)
  <2>1. \A i, j \in 1 .. n : f[i] = f[j] => i = j
    BY DEF ChipsOf
  <2>2. f \in [1 .. n -> T]
    BY <1>2
  <2> HIDE DEF f, T, n
  <2>3. DOMAIN f = 1 .. n
    BY <2>2
  <2>4. QED
    BY <2>1, <2>2, <2>3 DEF Injection, IsInjective
<1>5. IsFiniteSet(1 .. n) /\ Cardinality(1 .. n) = n
  <2> HIDE DEF n
  <2>1. n \in Int /\ 1 \in Int /\ (IF 1 > n THEN 0 ELSE n - 1 + 1) = n
    BY <1>1
  <2>2. QED
    BY <2>1, FS_Interval
<1>6. QED
  <2> HIDE DEF f, T, n
  <2>1. Cardinality(T) = Cardinality(1 .. n)
    BY <1>3, <1>4, <1>5, FS_Surjection
  <2>2. QED
    BY <1>5, <2>1 DEF T, n

LEMMA ChipAdded ==
  ASSUME NEW r, ChipsOf(r), NEW e \in Chips
  PROVE  /\ e.value \notin Quick!Chosen(r) => ChipsOf(Append(r, e))
         /\ ChipsOf(Quick!addRecipient(r, e))
         /\ e.value # "list" /\ WithoutList(r) => WithoutList(Quick!addRecipient(r, e))
<1> DEFINE q == Append(r, e)
           n == Len(r)
<1>1. r \in Seq(Chips) /\ n \in Nat /\ DOMAIN r = 1 .. n
  BY DEF ChipsOf
<1>2. /\ q \in Seq(Chips) /\ Len(q) = n + 1 /\ q[n + 1] = e
      /\ \A i \in 1 .. n : q[i] = r[i]
  BY <1>1
<1>3. \A i \in 1 .. n + 1 : i \in 1 .. n \/ i = n + 1
  BY <1>1
<1> HIDE DEF q, n
<1>4. ASSUME e.value \notin Quick!Chosen(r) PROVE ChipsOf(q)
  <2>1. \A i \in 1 .. n : r[i].value # e.value
    BY <1>1, <1>4 DEF Quick!Chosen
  <2>2. \A i, j \in 1 .. n : r[i].value = r[j].value => i = j
    BY DEF ChipsOf, n
  <2>3. \A i, j \in 1 .. n + 1 : q[i].value = q[j].value => i = j
    BY <1>2, <1>3, <2>1, <2>2
  <2>4. QED
    BY <1>2, <2>3 DEF ChipsOf
<1>5. ASSUME e.value # "list", WithoutList(r) PROVE WithoutList(q)
  BY <1>2, <1>3, <1>5 DEF WithoutList, n
<1>6. Quick!addRecipient(r, e) \in {r, q}
      /\ (Quick!addRecipient(r, e) # r => e.value \notin Quick!Chosen(r))
  BY DEF Quick!addRecipient, q
<1>7. QED
  BY <1>4, <1>5, <1>6 DEF q

\* Without one chip, the others stay in their order.
LEMMA ChipGone ==
  ASSUME NEW r, ChipsOf(r), NEW v \in Quick!Chosen(r)
  PROVE  /\ ChipsOf(Quick!withoutRecipient(r, v))
         /\ WithoutList(r) => WithoutList(Quick!withoutRecipient(r, v))
<1> DEFINE i == CHOOSE j \in DOMAIN r : r[j].value = v
           n == Len(r)
           q == SubSeq(r, 1, i - 1) \o SubSeq(r, i + 1, n)
           a == SubSeq(r, 1, i - 1)
           b == SubSeq(r, i + 1, n)
<1>1. r \in Seq(Chips) /\ n \in Nat /\ DOMAIN r = 1 .. n
  BY DEF ChipsOf
<1>2. i \in 1 .. n
  BY <1>1 DEF Quick!Chosen
<1>3. Quick!withoutRecipient(r, v) = a \o b
  BY DEF Quick!withoutRecipient
<1>n. n = Len(r)
  OBVIOUS
<1> HIDE DEF i, n
<1>4. /\ a \in Seq(Chips) /\ Len(a) = i - 1 /\ \A k \in 1 .. i - 1 : a[k] = r[k]
      /\ b \in Seq(Chips) /\ Len(b) = n - i /\ \A k \in 1 .. n - i : b[k] = r[k + i]
  <2>1. \A k \in 1 .. i - 1 : r[k] \in Chips
    BY <1>1, <1>2, <1>n
  <2>2. \A k \in i + 1 .. n : r[k] \in Chips
    BY <1>1, <1>2, <1>n
  <2>3. a \in Seq(Chips) /\ Len(a) = i - 1 /\ \A k \in 1 .. i - 1 : a[k] = r[k]
    BY <1>1, <1>2, <1>n, <2>1
  <2>4. b \in Seq(Chips) /\ Len(b) = n - i /\ \A k \in 1 .. n - i : b[k] = r[k + i]
    <3> DEFINE m == i + 1
    <3>1. m \in 1 .. n + 1 /\ m = i + 1
      BY <1>1, <1>2
    <3>2. \A k \in m .. n : r[k] \in Chips
      BY <2>2
    <3> HIDE DEF m
    <3>3. SubSeq(r, m, n) \in Seq(Chips)
      BY <1>1, <1>n, <3>1, <3>2
    <3>4. Len(SubSeq(r, m, n)) = n - m + 1
      BY <1>1, <1>n, <3>1, <3>2
    <3>5. \A k \in 1 .. n - m + 1 : SubSeq(r, m, n)[k] = r[k + m - 1]
      BY <1>1, <1>n, <3>1, <3>2
    <3>6. QED
      BY <1>1, <1>2, <3>1, <3>3, <3>4, <3>5
  <2>5. QED
    BY <2>3, <2>4
<1> DEFINE c == a \o b
<1> HIDE DEF a, b
<1>5. /\ c \in Seq(Chips) /\ Len(c) = n - 1
      /\ \A k \in 1 .. n - 1 : c[k] = IF k < i THEN r[k] ELSE r[k + 1]
  <2>1. c \in Seq(Chips) /\ Len(c) = n - 1
    <3>1. c \in Seq(Chips) /\ Len(c) = Len(a) + Len(b)
      BY <1>4
    <3>2. Len(a) + Len(b) = n - 1
      BY <1>1, <1>2, <1>4
    <3>3. QED
      BY <3>1, <3>2
  <2>2. ASSUME NEW k \in 1 .. n - 1 PROVE c[k] = IF k < i THEN r[k] ELSE r[k + 1]
    <3>1. CASE k < i
      <4>1. k \in 1 .. i - 1 /\ k <= Len(a)
        BY <1>2, <1>4, <3>1
      <4>2. c[k] = a[k]
        BY <1>1, <1>2, <1>4, <4>1
      <4>3. QED
        BY <1>4, <3>1, <4>1, <4>2
    <3>2. CASE k >= i
      <4>1. k - (i - 1) \in 1 .. n - i /\ k > Len(a)
        BY <1>1, <1>2, <1>4, <3>2
      <4>2. c[k] = b[k - (i - 1)]
        BY <1>1, <1>2, <1>4, <4>1
      <4>3. b[k - (i - 1)] = r[(k - (i - 1)) + i]
        BY <1>4, <4>1
      <4>4. (k - (i - 1)) + i = k + 1
        BY <1>2, <1>1
      <4>5. QED
        BY <1>2, <3>2, <4>2, <4>3, <4>4
    <3>3. k < i \/ k >= i
      BY <1>1, <1>2
    <3>4. QED
      BY <3>1, <3>2, <3>3
  <2>3. QED
    BY <2>1, <2>2
<1> HIDE DEF c
<1>6. ChipsOf(c)
  <2>1. \A k, l \in 1 .. n : r[k].value = r[l].value => k = l
    BY <1>n DEF ChipsOf
  <2> SUFFICES ASSUME NEW k \in 1 .. n - 1, NEW l \in 1 .. n - 1, c[k].value = c[l].value
               PROVE  k = l
    BY <1>5 DEF ChipsOf
  <2> DEFINE x == IF k < i THEN k ELSE k + 1
             y == IF l < i THEN l ELSE l + 1
  <2>2. c[k] = r[x] /\ c[l] = r[y]
    BY <1>5
  <2>3. x \in 1 .. n /\ y \in 1 .. n
    BY <1>1, <1>2
  <2>4. x = y
    <3> HIDE DEF x, y
    <3>1. QED
      BY <2>1, <2>2, <2>3
  <2>5. QED
    BY <1>1, <1>2, <2>4
<1>7. ASSUME WithoutList(r) PROVE WithoutList(c)
  <2> SUFFICES ASSUME NEW k \in 1 .. n - 1 PROVE c[k].value # "list"
    BY <1>5 DEF WithoutList
  <2> DEFINE x == IF k < i THEN k ELSE k + 1
  <2>1. c[k] = r[x]
    BY <1>5
  <2>2. x \in 1 .. n
    BY <1>1, <1>2
  <2>3. QED
    BY <1>7, <1>n, <2>1, <2>2 DEF WithoutList
<1>8. QED
  BY <1>3, <1>6, <1>7 DEF c

-----------------------------------------------------------------------------

\* What a change makes of a draft.
LEMMA ChangeKeeps ==
  ASSUME NEW d, DraftOf(d), NEW change \in Quick!Changes(d), lists \in BOOLEAN,
         Quick!QuickSendAssumption
  PROVE  /\ DraftOf(Quick!Patched(d, change))
         /\ ~lists /\ WithoutList(d.recipients)
              => WithoutList(Quick!Patched(d, change).recipients)
<1> DEFINE r == d.recipients
           q == Quick!Patched(d, change)
<1>0. ChipsOf(r) /\ DOMAIN d = DraftFields /\ "recipients" \in DraftFields
  BY DEF DraftOf, DraftFields
<1>1. /\ DOMAIN q = DraftFields
      /\ q.recipients = IF "recipients" \in DOMAIN change THEN change.recipients ELSE r
  BY <1>0 DEF Quick!Patched
<1> HIDE DEF q
<1>2. \/ change \in Quick!RecipientField(d)
      \/ change \in Quick!SenderSelect \cup Quick!SendTimeChoice
      \/ change \in Quick!MessageComposer(d)
      \/ change \in Quick!MmsComposer(d)
  BY DEF Quick!Changes, Quick!QuickSmsForm, Quick!QuickMmsForm
<1>3. CASE change \in Quick!RecipientField(d)
  <2>1. PICK s \in Seq(Chips) : /\ change = [recipients |-> s] /\ ChipsOf(s)
                                /\ ~lists /\ WithoutList(r) => WithoutList(s)
    <3>1. ASSUME NEW e \in Quick!RecipientSuggestions,
                 change = [recipients |-> Quick!addRecipient(r, e)]
          PROVE  \E s \in Seq(Chips) : /\ change = [recipients |-> s] /\ ChipsOf(s)
                                       /\ ~lists /\ WithoutList(r) => WithoutList(s)
      <4>1. e \in Chips /\ (~lists => e.value # "list")
        <5>1. CASE \E m \in Numbers : e = Quick!contactRecipient(m)
          BY <5>1 DEF Quick!contactRecipient, Chips, Quick!QuickSendAssumption
        <5>2. CASE lists /\ e = Quick!listRecipient
          BY <5>2 DEF Quick!listRecipient, Chips
        <5>3. QED
          BY <3>1, <5>1, <5>2 DEF Quick!RecipientSuggestions
      <4>2. /\ ChipsOf(Quick!addRecipient(r, e))
            /\ ~lists /\ WithoutList(r) => WithoutList(Quick!addRecipient(r, e))
        BY <1>0, <4>1, ChipAdded
      <4>3. Quick!addRecipient(r, e) \in Seq(Chips)
        BY <4>2 DEF ChipsOf
      <4>4. QED
        BY <3>1, <4>2, <4>3
    <3>2. ASSUME NEW v \in Quick!Chosen(r),
                 change = [recipients |-> Quick!withoutRecipient(r, v)]
          PROVE  \E s \in Seq(Chips) : /\ change = [recipients |-> s] /\ ChipsOf(s)
                                       /\ ~lists /\ WithoutList(r) => WithoutList(s)
      <4>1. /\ ChipsOf(Quick!withoutRecipient(r, v))
            /\ WithoutList(r) => WithoutList(Quick!withoutRecipient(r, v))
        BY <1>0, ChipGone
      <4>2. Quick!withoutRecipient(r, v) \in Seq(Chips)
        BY <4>1 DEF ChipsOf
      <4>3. QED
        BY <3>2, <4>1, <4>2
    <3>3. QED
      BY <1>3, <3>1, <3>2 DEF Quick!RecipientField
  <2>2. q.recipients = s
    BY <1>1, <2>1
  <2>3. QED
    BY <1>1, <2>1, <2>2 DEF DraftOf, q
<1>4. ASSUME "recipients" \notin DOMAIN change
      PROVE  /\ DraftOf(q)
             /\ ~lists /\ WithoutList(r) => WithoutList(q.recipients)
  BY <1>0, <1>1, <1>4 DEF DraftOf
<1>5. CASE change \in Quick!SenderSelect \cup Quick!SendTimeChoice
  <2>1. "recipients" \notin DOMAIN change
    <3>1. \E x : change = [senderId |-> x] \/ change = [sendAt |-> x]
      BY <1>5 DEF Quick!SenderSelect, Quick!SendTimeChoice
    <3>2. QED
      BY <3>1
  <2>2. QED
    BY <1>4, <2>1 DEF q
<1>6. CASE change \in Quick!MessageComposer(d)
  <2>1. "recipients" \notin DOMAIN change
    <3>1. \E x : change = [body |-> x] \/ change = [shortenUrls |-> x]
      BY <1>6 DEF Quick!MessageComposer, Quick!ComposerToolbar
    <3>2. QED
      BY <3>1
  <2>2. QED
    BY <1>4, <2>1 DEF q
<1>7. CASE change \in Quick!MmsComposer(d)
  <2>1. "recipients" \notin DOMAIN change
    <3>1. \E x : \/ change = [body |-> x] \/ change = [subject |-> x]
                \/ change = [mediaKey |-> x]
      BY <1>7 DEF Quick!MmsComposer, Quick!ComposerToolbar
    <3>2. QED
      BY <3>1
  <2>2. QED
    BY <1>4, <2>1 DEF q
<1>8. QED
  BY <1>2, <1>3, <1>5, <1>6, <1>7

LEMMA EmptyDraftOf ==
  ASSUME NEW kind
  PROVE  DraftOf(Quick!emptyDraft(kind)) /\ WithoutList(Quick!emptyDraft(kind).recipients)
<1> DEFINE d == Quick!emptyDraft(kind)
<1>1. DOMAIN d = DraftFields /\ d.recipients = <<>>
  BY DEF Quick!emptyDraft, DraftFields
<1> HIDE DEF d
<1>2. <<>> \in Seq(Chips) /\ Len(<<>>) = 0
  OBVIOUS
<1>3. QED
  BY <1>1, <1>2 DEF DraftOf, ChipsOf, WithoutList, d

ComposerFields == {"kind", "n", "draft", "confirming", "sending", "seeded"}

\* A composer that waits for the list of the URL.
Unseeded(c) == Preset /\ ~c.seeded

\* A composer is the one mounted last; and while it waits for the list, it does not have it.
ComposerTyped(c, loaded, n) ==
  c # Quick!NoComposer =>
    /\ DOMAIN c = ComposerFields /\ c.n = n /\ n # 0 /\ c.seeded \in BOOLEAN
    /\ DraftOf(c.draft)
    /\ c.sending \in 0 .. QuickSlots /\ (c.sending # 0 => c.confirming)
    /\ Unseeded(c) => ~loaded /\ WithoutList(c.draft.recipients)

\* A file goes up under a draft of a composer there was.
UploadTyped(q, c, n) ==
  /\ q.op \in {Quick!None, "send", "upload"}
  /\ q = Quick!NoRequest \/ {"op", "answer"} \subseteq DOMAIN q
  /\ q.op = "upload" =>
       /\ {"base", "n"} \subseteq DOMAIN q /\ DraftOf(q.base) /\ q.n \in 1 .. n
       /\ c # Quick!NoComposer /\ q.n = c.n /\ Unseeded(c) => WithoutList(q.base.recipients)

\* What quick send keeps is of its types.
QuickTypes ==
  /\ senders \in {"loading", "ok", "error"} /\ lists \in BOOLEAN
  /\ composer # Quick!NoComposer => senders = "ok"
  /\ changes \in 0 .. MaxQuickEdits /\ mounts \in 0 .. MaxMounts
  /\ ComposerTyped(composer, lists, mounts)
  /\ \A s \in Quick!Slots : UploadTyped(sends[s], composer, mounts)

LEMMA QuickTyped ==
  ASSUME QuickInv, QuickTypes PROVE Quick!TypeOK
<1>1. composer # Quick!NoComposer =>
        Quick!Cardinality(Quick!Chosen(composer.draft.recipients))
          = Len(composer.draft.recipients)
  <2>1. \A S : Quick!Cardinality(S) = Cardinality(S)
    BY DEF Cardinality, Quick!Cardinality
  <2>2. QED
    BY <2>1, ChipsCounted DEF QuickTypes, ComposerTyped, DraftOf
<1>2. \A s \in Quick!Slots : sends[s].op \in {Quick!None, "send", "upload"}
  BY DEF QuickTypes, UploadTyped
<1>3. composer # Quick!NoComposer =>
        /\ senders = "ok" /\ composer.sending \in 0 .. QuickSlots
        /\ composer.sending # 0 => composer.confirming
  BY DEF QuickTypes, ComposerTyped
<1>4. /\ senders \in {"loading", "ok", "error"} /\ lists \in BOOLEAN
      /\ changes \in 0 .. MaxQuickEdits /\ mounts \in 0 .. MaxMounts
      /\ accepted \in [1 .. MaxDialogs -> Nat] /\ dialogs \in 0 .. MaxDialogs
  BY DEF QuickTypes, QuickInv
<1>5. QED
  BY <1>1, <1>2, <1>3, <1>4, Zenon DEF Quick!TypeOK

\* An upload stays what it is while its composer does, or is gone.
LEMMA UploadStays ==
  ASSUME NEW q, NEW c, NEW n, UploadTyped(q, c, n), NEW d,
         \/ d = Quick!NoComposer
         \/ c # Quick!NoComposer /\ d.n = c.n /\ (Unseeded(d) => Unseeded(c))
  PROVE  UploadTyped(q, d, n)
BY DEF UploadTyped

\* Putting the list among the chips.
LEMMA SeededTyped ==
  ASSUME NEW c, NEW ls, NEW n, ComposerTyped(c, ls, n), c # Quick!NoComposer,
         NEW loaded \in BOOLEAN
  PROVE  /\ ComposerTyped(Quick!Seeded(c, loaded), loaded, n)
         /\ Quick!Seeded(c, loaded).n = c.n
         /\ Unseeded(Quick!Seeded(c, loaded)) => Unseeded(c)
         /\ Quick!Seeded(c, loaded) # Quick!NoComposer
<1>0. /\ DOMAIN c = ComposerFields /\ c.n = n /\ n # 0 /\ c.seeded \in BOOLEAN
      /\ DraftOf(c.draft)
      /\ c.sending \in 0 .. QuickSlots /\ (c.sending # 0 => c.confirming)
      /\ Unseeded(c) => WithoutList(c.draft.recipients)
  BY DEF ComposerTyped
<1>1. CASE Preset /\ loaded /\ ~c.seeded
  <2> DEFINE r == Append(c.draft.recipients, Quick!listRecipient)
             g == [c.draft EXCEPT !.recipients = r]
             d == [c EXCEPT !.seeded = TRUE, !.draft.recipients = r]
  <2>1. Quick!Seeded(c, loaded) = d
    BY <1>0, <1>1 DEF Quick!Seeded, ComposerFields
  <2>2. ChipsOf(r)
    <3>1. Quick!listRecipient \in Chips /\ Quick!listRecipient.value = "list"
      BY DEF Quick!listRecipient, Chips
    <3>2. ChipsOf(c.draft.recipients) /\ WithoutList(c.draft.recipients)
      BY <1>0, <1>1 DEF Unseeded, DraftOf
    <3>3. DOMAIN c.draft.recipients = 1 .. Len(c.draft.recipients)
      BY <3>2 DEF ChipsOf
    <3>4. Quick!listRecipient.value \notin Quick!Chosen(c.draft.recipients)
      BY <3>1, <3>2, <3>3 DEF Quick!Chosen, WithoutList
    <3>5. QED
      BY <3>1, <3>2, <3>4, ChipAdded
  <2>3. DraftOf(g)
    <3>1. DOMAIN g = DraftFields /\ g.recipients = r
      BY <1>0 DEF DraftOf, DraftFields
    <3> HIDE DEF g, r
    <3>2. QED
      BY <2>2, <3>1 DEF DraftOf
  <2>4. /\ DOMAIN d = ComposerFields /\ d.n = c.n /\ d.seeded = TRUE /\ d.draft = g
        /\ d.sending = c.sending /\ d.confirming = c.confirming
    BY <1>0 DEF ComposerFields
  <2> HIDE DEF d, g
  <2>5. d # Quick!NoComposer
    BY <2>4 DEF Quick!NoComposer, ComposerFields
  <2>6. QED
    BY <1>0, <2>1, <2>3, <2>4, <2>5 DEF ComposerTyped, Unseeded
<1>2. CASE ~(Preset /\ loaded /\ ~c.seeded)
  <2>1. Quick!Seeded(c, loaded) = c
    BY <1>2 DEF Quick!Seeded
  <2>2. Unseeded(c) => ~loaded
    BY <1>2 DEF Unseeded
  <2>3. QED
    BY <1>0, <2>1, <2>2 DEF ComposerTyped
<1>3. QED
  BY <1>1, <1>2

LEMMA QuickTypesInit ==
  ASSUME Quick!QuickSendAssumption, Quick!Init PROVE QuickTypes
<1>1. /\ senders = "loading" /\ lists = FALSE /\ composer = Quick!NoComposer
      /\ sends = [s \in Quick!Slots |-> Quick!NoRequest] /\ changes = 0 /\ mounts = 0
  BY DEF Quick!Init
<1>2. Quick!NoRequest.op = Quick!None /\ Quick!None # "upload"
  BY DEF Quick!NoRequest, Quick!None
<1>3. \A s \in Quick!Slots : sends[s] = Quick!NoRequest
  BY <1>1
<1>4. UploadTyped(Quick!NoRequest, composer, mounts)
  BY <1>2 DEF UploadTyped
<1>5. ComposerTyped(composer, lists, mounts)
  BY <1>1 DEF ComposerTyped
<1>6. changes \in 0 .. MaxQuickEdits /\ mounts \in 0 .. MaxMounts
  BY <1>1 DEF Quick!QuickSendAssumption
<1>7. lists \in BOOLEAN /\ \A s \in Quick!Slots : UploadTyped(sends[s], composer, mounts)
  BY <1>1, <1>3, <1>4
<1>8. QED
  BY <1>1, <1>5, <1>6, <1>7 DEF QuickTypes

\* The composer changes in what its dialog shows, or in its draft.
LEMMA ComposerSteps ==
  ASSUME QuickTypes, UNCHANGED <<senders, lists, sends, mounts>>,
         composer # Quick!NoComposer,
         composer' # Quick!NoComposer, changes' \in 0 .. MaxQuickEdits,
         DOMAIN composer' = ComposerFields, composer'.n = composer.n,
         composer'.seeded = composer.seeded, DraftOf(composer'.draft),
         Unseeded(composer) /\ ~lists /\ WithoutList(composer.draft.recipients)
           => WithoutList(composer'.draft.recipients),
         composer'.sending \in 0 .. QuickSlots,
         composer'.sending # 0 => composer'.confirming
  PROVE  QuickTypes'
<1>1. Unseeded(composer') <=> Unseeded(composer)
  BY DEF Unseeded
<1>2. ComposerTyped(composer', lists', mounts')
  BY <1>1 DEF QuickTypes, ComposerTyped
<1>3. \A s \in Quick!Slots : UploadTyped(sends[s], composer', mounts)
  BY <1>1, UploadStays DEF QuickTypes
<1>4. QED
  BY <1>2, <1>3 DEF QuickTypes

\* A request is answered, sent or done.
LEMMA SendsStep ==
  ASSUME QuickTypes, QuickInv, UNCHANGED <<senders, lists, mounts>>,
         NEW s \in Quick!Slots, NEW q, sends' = [sends EXCEPT ![s] = q],
         UploadTyped(q, composer, mounts), UNCHANGED composer, changes' \in 0 .. MaxQuickEdits
  PROVE  QuickTypes'
<1>1. \A t \in Quick!Slots : sends'[t] \in {sends[t], q}
  BY DEF QuickInv
<1>2. \A t \in Quick!Slots : UploadTyped(sends'[t], composer, mounts)
  BY <1>1 DEF QuickTypes
<1>3. QED
  BY <1>2 DEF QuickTypes

\* No step of quick send leaves its types.
LEMMA QuickTypesStep ==
  ASSUME QuickInv, QuickTypes, Quick!QuickSendAssumption, [Quick!Next]_quickVars
  PROVE  QuickTypes'
<1>0. /\ senders \in {"loading", "ok", "error"} /\ lists \in BOOLEAN
      /\ composer # Quick!NoComposer => senders = "ok"
      /\ changes \in 0 .. MaxQuickEdits /\ mounts \in 0 .. MaxMounts
      /\ ComposerTyped(composer, lists, mounts)
      /\ \A s \in Quick!Slots : UploadTyped(sends[s], composer, mounts)
      /\ MaxQuickEdits \in Nat /\ MaxMounts \in Nat /\ QuickSlots \in Nat
      /\ DOMAIN sends = Quick!Slots
  BY DEF QuickTypes, Quick!QuickSendAssumption, QuickInv
<1>c. ASSUME composer # Quick!NoComposer
      PROVE  /\ DOMAIN composer = ComposerFields /\ composer.n = mounts /\ mounts # 0
             /\ composer.seeded \in BOOLEAN /\ DraftOf(composer.draft)
             /\ composer.sending \in 0 .. QuickSlots
             /\ composer.sending # 0 => composer.confirming
             /\ Unseeded(composer) => ~lists /\ WithoutList(composer.draft.recipients)
  BY <1>0, <1>c DEF ComposerTyped
<1>1. CASE UNCHANGED quickVars
  <2>1. UNCHANGED <<senders, lists, composer, sends, changes, mounts>>
    BY <1>1 DEF quickVars
  <2>2. \A s \in Quick!Slots : UploadTyped(sends'[s], composer', mounts')
    BY <1>0, <2>1
  <2>3. ComposerTyped(composer', lists', mounts')
    BY <1>0, <2>1
  <2>4. QED
    BY <1>0, <2>1, <2>2, <2>3 DEF QuickTypes
<1>2. CASE Quick!QuickSendScreen
  <2>1. /\ UNCHANGED <<lists, sends, changes, mounts>>
        /\ \/ senders' = "ok" /\ UNCHANGED composer
           \/ senders' = "error" /\ composer' = Quick!NoComposer
    BY <1>2 DEF Quick!QuickSendScreen
  <2>2. \A s \in Quick!Slots : UploadTyped(sends[s], Quick!NoComposer, mounts)
    BY <1>0, UploadStays
  <2>3. \A s \in Quick!Slots : UploadTyped(sends'[s], composer', mounts')
    BY <1>0, <2>1, <2>2
  <2>4. ComposerTyped(composer', lists', mounts')
    <3>1. ComposerTyped(Quick!NoComposer, lists, mounts)
      BY DEF ComposerTyped
    <3>2. QED
      BY <1>0, <2>1, <3>1
  <2>5. QED
    BY <1>0, <2>1, <2>3, <2>4 DEF QuickTypes
<1>3. CASE Quick!ListsFetched
  <2>1. /\ lists' \in BOOLEAN /\ UNCHANGED <<senders, sends, changes, mounts>>
        /\ composer' = IF composer # Quick!NoComposer THEN Quick!Seeded(composer, lists')
                                                      ELSE composer
    BY <1>3 DEF Quick!ListsFetched, Quick!Mounted
  <2>2. CASE composer = Quick!NoComposer
    <3>1. UNCHANGED composer
      BY <2>1, <2>2
    <3>2. \A s \in Quick!Slots : UploadTyped(sends'[s], composer', mounts')
      BY <1>0, <2>1, <3>1
    <3>3. ComposerTyped(composer', lists', mounts')
      BY <2>2, <3>1 DEF ComposerTyped
    <3>4. QED
      BY <1>0, <2>1, <2>2, <3>1, <3>2, <3>3 DEF QuickTypes
  <2>3. CASE composer # Quick!NoComposer
    <3>1. /\ composer' = Quick!Seeded(composer, lists')
          /\ ComposerTyped(Quick!Seeded(composer, lists'), lists', mounts)
          /\ Quick!Seeded(composer, lists').n = composer.n
          /\ Unseeded(Quick!Seeded(composer, lists')) => Unseeded(composer)
          /\ Quick!Seeded(composer, lists') # Quick!NoComposer
      BY <1>0, <2>1, <2>3, SeededTyped
    <3> DEFINE d == Quick!Seeded(composer, lists')
    <3> HIDE DEF d
    <3>2. composer' = d /\ d.n = composer.n /\ (Unseeded(d) => Unseeded(composer))
      BY <3>1 DEF d
    <3>3. \A s \in Quick!Slots : UploadTyped(sends[s], d, mounts)
      BY <1>0, <2>3, <3>2, UploadStays
    <3>4. \A s \in Quick!Slots : UploadTyped(sends'[s], composer', mounts')
      BY <2>1, <3>2, <3>3
    <3>5. ComposerTyped(composer', lists', mounts')
      BY <2>1, <3>1
    <3>6. QED
      BY <1>0, <2>1, <2>3, <3>4, <3>5 DEF QuickTypes
  <2>4. QED
    BY <2>2, <2>3
<1>4. ASSUME NEW kind \in {"SMS", "MMS"}, Quick!QuickComposer(kind) PROVE QuickTypes'
  <2> DEFINE c == [kind |-> kind, n |-> mounts + 1, draft |-> Quick!emptyDraft(kind),
                   confirming |-> FALSE, sending |-> 0, seeded |-> FALSE]
  <2>1. /\ senders = "ok" /\ mounts < MaxMounts /\ mounts' = mounts + 1
        /\ UNCHANGED <<senders, lists, sends, changes>>
        /\ composer' = Quick!Seeded(c, lists)
    BY <1>4 DEF Quick!QuickComposer
  <2>2. /\ DOMAIN c = ComposerFields /\ c.n = mounts + 1 /\ c.draft = Quick!emptyDraft(kind)
        /\ c.confirming = FALSE /\ c.sending = 0 /\ c.seeded = FALSE
    BY DEF ComposerFields
  <2> HIDE DEF c
  <2>3. c # Quick!NoComposer
    BY <2>2 DEF Quick!NoComposer, ComposerFields
  <2>4. ComposerTyped(c, FALSE, mounts + 1)
    <3>1. DraftOf(c.draft) /\ WithoutList(c.draft.recipients)
      BY <2>2, EmptyDraftOf
    <3>2. mounts + 1 # 0 /\ 0 \in 0 .. QuickSlots
      BY <1>0
    <3>3. QED
      BY <2>2, <3>1, <3>2 DEF ComposerTyped
  <2> DEFINE d == Quick!Seeded(c, lists)
  <2>5. /\ ComposerTyped(d, lists, mounts + 1) /\ d.n = mounts + 1
    BY <1>0, <2>2, <2>3, <2>4, SeededTyped
  <2> HIDE DEF d
  <2>6. ASSUME NEW s \in Quick!Slots PROVE UploadTyped(sends[s], d, mounts + 1)
    <3>1. UploadTyped(sends[s], composer, mounts)
      BY <1>0
    <3>2. sends[s].op = "upload" => sends[s].n \in 1 .. mounts + 1 /\ sends[s].n # mounts + 1
      BY <1>0, <3>1 DEF UploadTyped
    <3>3. QED
      BY <2>5, <3>1, <3>2 DEF UploadTyped
  <2>7. \A s \in Quick!Slots : UploadTyped(sends'[s], composer', mounts')
    BY <2>1, <2>6 DEF d
  <2>8. ComposerTyped(composer', lists', mounts')
    BY <2>1, <2>5 DEF d
  <2>9. mounts' \in 0 .. MaxMounts
    BY <1>0, <2>1
  <2>10. QED
    BY <1>0, <2>1, <2>7, <2>8, <2>9 DEF QuickTypes
<1>5. CASE Quick!onPatch
  <2>1. /\ composer # Quick!NoComposer /\ changes < MaxQuickEdits /\ changes' = changes + 1
        /\ UNCHANGED <<senders, lists, sends, mounts>>
    BY <1>5 DEF Quick!onPatch, Quick!Reachable, Quick!Mounted
  <2>2. PICK change \in Quick!Changes(composer.draft) :
          composer' = [composer EXCEPT !.draft = Quick!Patched(composer.draft, change)]
    BY <1>5, <1>c, <2>1 DEF Quick!onPatch, ComposerFields
  <2> DEFINE g == Quick!Patched(composer.draft, change)
  <2>3. /\ DraftOf(g)
        /\ ~lists /\ WithoutList(composer.draft.recipients) => WithoutList(g.recipients)
    BY <1>0, <1>c, <2>1, ChangeKeeps
  <2>4. composer' = [composer EXCEPT !.draft = g]
    BY <2>2
  <2> HIDE DEF g
  <2>5. /\ DOMAIN composer' = ComposerFields /\ composer'.n = composer.n
        /\ composer'.seeded = composer.seeded /\ composer'.draft = g
        /\ composer'.sending = composer.sending /\ composer'.confirming = composer.confirming
    BY <1>c, <2>1, <2>4 DEF ComposerFields
  <2>6. composer' # Quick!NoComposer
    BY <2>5 DEF Quick!NoComposer, ComposerFields
  <2>7. changes' \in 0 .. MaxQuickEdits
    BY <1>0, <2>1
  <2>8. DraftOf(composer'.draft) /\ composer'.sending \in 0 .. QuickSlots
    BY <1>c, <2>1, <2>3, <2>5
  <2>9. composer'.sending # 0 => composer'.confirming
    BY <1>c, <2>1, <2>5
  <2>10. Unseeded(composer) /\ ~lists /\ WithoutList(composer.draft.recipients)
           => WithoutList(composer'.draft.recipients)
    BY <2>3, <2>5
  <2>11. QED
    BY <2>1, <2>5, <2>6, <2>7, <2>8, <2>9, <2>10, ComposerSteps
<1>6. CASE Quick!MediaUpload
  <2> DEFINE slot == Quick!Slot
             q == [op |-> "upload", base |-> composer.draft, n |-> composer.n,
                   answer |-> Quick!None]
  <2>1. /\ composer # Quick!NoComposer /\ changes < MaxQuickEdits /\ changes' = changes + 1
        /\ UNCHANGED <<senders, lists, composer, mounts>>
        /\ sends' = [sends EXCEPT ![slot] = q]
    BY <1>6 DEF Quick!MediaUpload, Quick!Reachable, Quick!Mounted, Quick!Sent
  <2>2. slot \in Quick!Slots
    BY <1>6, SendSlotIs DEF Quick!MediaUpload
  <2>3. /\ q.op = "upload" /\ q.base = composer.draft /\ q.n = composer.n
        /\ DOMAIN q = {"op", "base", "n", "answer"}
    OBVIOUS
  <2> HIDE DEF q, slot
  <2>4. changes' \in 0 .. MaxQuickEdits
    BY <1>0, <2>1
  <2>5. composer.n \in 1 .. mounts
    <3>1. composer.n = mounts /\ mounts # 0
      BY <1>c, <2>1
    <3>2. QED
      BY <1>0, <3>1
  <2>6. UploadTyped(q, composer, mounts)
    BY <1>c, <2>1, <2>3, <2>5 DEF UploadTyped
  <2>7. QED
    BY <1>0, <2>1, <2>2, <2>4, <2>6, SendsStep
<1>7. CASE Quick!Confirm \/ Quick!CloseModal
  <2>1. /\ composer # Quick!NoComposer /\ UNCHANGED <<senders, lists, sends, mounts, changes>>
        /\ \/ composer' = [composer EXCEPT !.confirming = TRUE]
           \/ composer' = [composer EXCEPT !.confirming = FALSE, !.sending = 0]
    BY <1>7 DEF Quick!Confirm, Quick!CloseModal, Quick!Reachable, Quick!Mounted
  <2>2. /\ DOMAIN composer' = ComposerFields /\ composer'.n = composer.n
        /\ composer'.seeded = composer.seeded /\ composer'.draft = composer.draft
        /\ \/ composer'.sending = composer.sending /\ composer'.confirming = TRUE
           \/ composer'.sending = 0
    BY <1>c, <2>1 DEF ComposerFields
  <2>3. composer' # Quick!NoComposer
    BY <2>2 DEF Quick!NoComposer, ComposerFields
  <2>4. /\ composer'.sending \in 0 .. QuickSlots
        /\ composer'.sending # 0 => composer'.confirming
    BY <1>0, <1>c, <2>1, <2>2
  <2>5. DraftOf(composer'.draft) /\ changes' \in 0 .. MaxQuickEdits
    BY <1>0, <1>c, <2>1, <2>2
  <2>6. Unseeded(composer) /\ ~lists /\ WithoutList(composer.draft.recipients)
           => WithoutList(composer'.draft.recipients)
    BY <2>2
  <2>7. QED
    BY <2>1, <2>2, <2>3, <2>4, <2>5, <2>6, ComposerSteps
<1>8. CASE Quick!Quoted
  <2>1. UNCHANGED <<senders, lists, composer, sends, changes, mounts>>
    BY <1>8 DEF Quick!Quoted
  <2>2. \A s \in Quick!Slots : UploadTyped(sends'[s], composer', mounts')
    BY <1>0, <2>1
  <2>3. ComposerTyped(composer', lists', mounts')
    BY <1>0, <2>1
  <2>4. QED
    BY <1>0, <2>1, <2>2, <2>3 DEF QuickTypes
<1>9. CASE Quick!submit
  <2> DEFINE slot == Quick!Slot
             q == [op |-> "send", input |-> Quick!input, dialog |-> dialogs,
                   answer |-> Quick!None]
  <2>1. /\ composer # Quick!NoComposer /\ composer.confirming
        /\ UNCHANGED <<senders, lists, mounts, changes>>
        /\ sends' = [sends EXCEPT ![slot] = q]
        /\ composer' = [composer EXCEPT !.sending = slot]
    BY <1>9 DEF Quick!submit, Quick!Mounted, Quick!Sent
  <2>2. slot \in Quick!Slots /\ slot \in 0 .. QuickSlots
    BY <1>0, <1>9, SendSlotIs DEF Quick!submit, Quick!Slots
  <2>3. /\ q.op = "send" /\ DOMAIN q = {"op", "input", "dialog", "answer"}
    OBVIOUS
  <2> HIDE DEF q, slot
  <2>4. /\ DOMAIN composer' = ComposerFields /\ composer'.n = composer.n
        /\ composer'.seeded = composer.seeded /\ composer'.draft = composer.draft
        /\ composer'.sending = slot /\ composer'.confirming = composer.confirming
    BY <1>c, <2>1 DEF ComposerFields
  <2>5. composer' # Quick!NoComposer
    BY <2>4 DEF Quick!NoComposer, ComposerFields
  <2>6. Unseeded(composer') <=> Unseeded(composer)
    BY <2>4 DEF Unseeded
  <2>7. ComposerTyped(composer', lists', mounts')
    BY <1>c, <2>1, <2>2, <2>4, <2>6 DEF ComposerTyped
  <2>8. UploadTyped(q, composer', mounts)
    BY <2>3 DEF UploadTyped
  <2>9. ASSUME NEW s \in Quick!Slots PROVE UploadTyped(sends'[s], composer', mounts')
    <3>1. UploadTyped(sends[s], composer', mounts)
      BY <1>0, <2>1, <2>4, <2>6, UploadStays
    <3>2. sends'[s] \in {sends[s], q}
      BY <1>0, <2>1
    <3>3. QED
      BY <2>1, <2>8, <3>1, <3>2
  <2>10. QED
    BY <1>0, <2>1, <2>7, <2>9 DEF QuickTypes
<1>10. ASSUME NEW s \in Quick!Slots, Quick!Handle(s) PROVE QuickTypes'
  <2>1. PICK answer : sends' = [sends EXCEPT ![s].answer = answer]
    BY <1>10 DEF Quick!Handle
  <2>2. /\ UNCHANGED <<senders, lists, composer, changes, mounts>>
        /\ sends[s].op # Quick!None
    BY <1>10 DEF Quick!Handle
  <2> DEFINE p == sends[s]
             q == [p EXCEPT !.answer = answer]
  <2>3. UploadTyped(p, composer, mounts) /\ {"op", "answer"} \subseteq DOMAIN p
    BY <1>0, <2>2 DEF UploadTyped, Quick!NoRequest
  <2>4. sends' = [sends EXCEPT ![s] = q]
    BY <2>1
  <2> HIDE DEF p
  <2>5. /\ DOMAIN q = DOMAIN p /\ q.op = p.op
        /\ {"base", "n"} \subseteq DOMAIN p => q.base = p.base /\ q.n = p.n
    BY <2>3
  <2> HIDE DEF q
  <2>6. UploadTyped(q, composer, mounts)
    BY <2>3, <2>5 DEF UploadTyped
  <2>7. QED
    BY <1>0, <2>2, <2>4, <2>6, SendsStep
<1>d. UploadTyped(Quick!NoRequest, composer, mounts)
  <2>1. Quick!NoRequest.op = Quick!None /\ Quick!None # "upload"
    BY DEF Quick!NoRequest, Quick!None
  <2>2. QED
    BY <2>1 DEF UploadTyped
<1>r. ASSUME NEW s \in Quick!Slots, sends' = Quick!Done(s),
             UNCHANGED <<senders, lists, changes, mounts>>,
             composer # Quick!NoComposer, composer' # Quick!NoComposer,
             DOMAIN composer' = ComposerFields, composer'.n = composer.n,
             composer'.seeded = composer.seeded, DraftOf(composer'.draft),
             Unseeded(composer) => WithoutList(composer'.draft.recipients),
             composer'.sending \in 0 .. QuickSlots,
             composer'.sending # 0 => composer'.confirming
      PROVE  QuickTypes'
  <2>1. Unseeded(composer') <=> Unseeded(composer)
    BY <1>r DEF Unseeded
  <2>2. ComposerTyped(composer', lists', mounts')
    BY <1>c, <1>r, <2>1 DEF ComposerTyped
  <2>3. ASSUME NEW t \in Quick!Slots PROVE UploadTyped(sends'[t], composer', mounts')
    <3>1. UploadTyped(sends[t], composer', mounts)
      BY <1>0, <1>r, <2>1, UploadStays
    <3>2. UploadTyped(Quick!NoRequest, composer', mounts)
      BY <1>d, <1>r, <2>1, UploadStays
    <3>3. sends'[t] \in {sends[t], Quick!NoRequest}
      BY <1>0, <1>r DEF Quick!Done
    <3>4. QED
      BY <1>r, <3>1, <3>2, <3>3
  <2>4. QED
    BY <1>0, <1>r, <2>2, <2>3 DEF QuickTypes
<1>e. ASSUME NEW s \in Quick!Slots, sends' = Quick!Done(s),
             UNCHANGED <<senders, lists, composer, changes, mounts>>
      PROVE  QuickTypes'
  <2>1. sends' = [sends EXCEPT ![s] = Quick!NoRequest]
    BY <1>e DEF Quick!Done
  <2>2. changes' \in 0 .. MaxQuickEdits
    BY <1>0, <1>e
  <2>3. QED
    BY <1>d, <1>e, <2>1, <2>2, SendsStep
<1>11. ASSUME NEW s \in Quick!Slots, Quick!SendAnswered(s) PROVE QuickTypes'
  <2>1. /\ sends' = Quick!Done(s) /\ UNCHANGED <<senders, lists, changes, mounts>>
        /\ \/ composer # Quick!NoComposer /\ Quick!finish(sends[s].answer)
           \/ UNCHANGED composer
    BY <1>11 DEF Quick!SendAnswered, Quick!Mounted
  <2>2. ASSUME composer # Quick!NoComposer, Quick!finish(sends[s].answer) PROVE QuickTypes'
    <3> DEFINE g == IF sends[s].answer = "ok" THEN Quick!emptyDraft(composer.kind)
                                              ELSE composer.draft
    <3>1. composer' = [composer EXCEPT !.confirming = FALSE, !.sending = 0, !.draft = g]
      BY <1>c, <2>2 DEF Quick!finish, ComposerFields
    <3>2. DraftOf(g) /\ (Unseeded(composer) => WithoutList(g.recipients))
      BY <1>c, <2>2, EmptyDraftOf
    <3> HIDE DEF g
    <3>3. /\ DOMAIN composer' = ComposerFields /\ composer'.n = composer.n
          /\ composer'.seeded = composer.seeded /\ composer'.draft = g
          /\ composer'.sending = 0
      BY <1>c, <2>2, <3>1 DEF ComposerFields
    <3>4. composer' # Quick!NoComposer
      BY <3>3 DEF Quick!NoComposer, ComposerFields
    <3>5. composer'.sending \in 0 .. QuickSlots /\ DraftOf(composer'.draft)
      BY <1>0, <3>2, <3>3
    <3>6. Unseeded(composer) => WithoutList(composer'.draft.recipients)
      BY <3>2, <3>3
    <3>7. QED
      BY <1>r, <2>1, <2>2, <3>3, <3>4, <3>5, <3>6
  <2>3. QED
    BY <1>e, <2>1, <2>2
<1>12. ASSUME NEW s \in Quick!Slots, Quick!Uploaded(s) PROVE QuickTypes'
  <2>1. /\ sends' = Quick!Done(s) /\ UNCHANGED <<senders, lists, changes, mounts>>
        /\ sends[s].op = "upload"
        /\ \/ UNCHANGED composer
           \/ /\ composer # Quick!NoComposer /\ composer.n = sends[s].n
              /\ composer' = [composer EXCEPT !.draft =
                                Quick!Patched(sends[s].base, [mediaKey |-> "key"])]
    BY <1>12 DEF Quick!Uploaded, Quick!Mounted
  <2>2. ASSUME composer # Quick!NoComposer, composer.n = sends[s].n,
               composer' = [composer EXCEPT !.draft =
                              Quick!Patched(sends[s].base, [mediaKey |-> "key"])]
        PROVE  QuickTypes'
    <3> DEFINE b == sends[s].base
               g == Quick!Patched(b, [mediaKey |-> "key"])
    <3>1. DraftOf(b) /\ (Unseeded(composer) => WithoutList(b.recipients))
      BY <1>0, <2>1, <2>2 DEF UploadTyped
    <3>2. composer' = [composer EXCEPT !.draft = g]
      BY <2>2
    <3> HIDE DEF b
    <3>3. DOMAIN g = DraftFields /\ g.recipients = b.recipients
      <4>1. DOMAIN [mediaKey |-> "key"] = {"mediaKey"} /\ DOMAIN b = DraftFields
            /\ "recipients" \in DraftFields
        BY <3>1 DEF DraftOf, DraftFields
      <4>2. QED
        BY <4>1 DEF Quick!Patched
    <3> HIDE DEF g
    <3>4. DraftOf(g) /\ (Unseeded(composer) => WithoutList(g.recipients))
      BY <3>1, <3>3 DEF DraftOf
    <3>5. /\ DOMAIN composer' = ComposerFields /\ composer'.n = composer.n
          /\ composer'.seeded = composer.seeded /\ composer'.draft = g
          /\ composer'.sending = composer.sending
          /\ composer'.confirming = composer.confirming
      BY <1>c, <2>2, <3>2 DEF ComposerFields
    <3>6. composer' # Quick!NoComposer
      BY <3>5 DEF Quick!NoComposer, ComposerFields
    <3>7. /\ composer'.sending \in 0 .. QuickSlots /\ DraftOf(composer'.draft)
          /\ Unseeded(composer) => WithoutList(composer'.draft.recipients)
      BY <1>c, <2>2, <3>4, <3>5
    <3>8. composer'.sending # 0 => composer'.confirming
      BY <1>c, <2>2, <3>5
    <3>9. QED
      BY <1>r, <2>1, <2>2, <3>5, <3>6, <3>7, <3>8
  <2>3. QED
    BY <1>e, <2>1, <2>2
<1>13. QED
  BY <1>1, <1>2, <1>3, <1>4, <1>5, <1>6, <1>7, <1>8, <1>9, <1>10, <1>11, <1>12 DEF Quick!Next

-----------------------------------------------------------------------------
(* The inbox                                                               *)

\* A fetch that was read, and what the list holds with none out, are as new as what
\* the user was told.
NewsInv(q, n) ==
  /\ DOMAIN q = {"held", "fetch"}
  /\ q.held.is = "data" /\ q.fetch = Inbox!NoFetch => q.held.at >= n
  /\ q.fetch.is = "data" => q.fetch.at >= n

\* The composer's send is under way, to the number that the pane shows.
ReplyInv ==
  /\ DOMAIN reply = {"text", "sending"}
  /\ reply.sending # 0 =>
       /\ reply.sending \in Inbox!Slots
       /\ replies[reply.sending].op = "reply"
       /\ replies[reply.sending].peer = selection.peer

InboxInv ==
  /\ version \in Nat /\ answered \in Nat /\ answered <= version /\ moves \in Nat
  /\ DOMAIN queries = Inbox!Queries /\ NewsInv(queries[Inbox!List], answered)
  /\ DOMAIN replies = Inbox!Slots
  /\ \A s \in Inbox!Slots :
       /\ DOMAIN replies[s] = {"op", "peer", "answer", "at"}
       /\ replies[s].at \in Nat /\ replies[s].at <= version
       /\ replies[s].op \in Inbox!Actions \cup {"none"}
       /\ replies[s].answer \in {"none", "ok", "error"}
  /\ ReplyInv

\* What a fetch does to the list: it is asked for, read, and lands.
LEMMA NewsStay ==
  ASSUME NEW q, NEW n \in Nat, NewsInv(q, n)
  PROVE  /\ NewsInv([q EXCEPT !.fetch = Inbox!Asked], n)
         /\ NewsInv(Inbox!Fetched(q), n)
         /\ \A v \in Nat : v >= n => NewsInv([q EXCEPT !.fetch = Inbox!Data(v)], n)
         /\ NewsInv(Inbox!Landed(q, q.fetch), n)
         /\ NewsInv(Inbox!Landed(q, Inbox!Failure), n)
<1> DEFINE asking    == [q EXCEPT !.fetch = Inbox!Asked]
           given(v)  == [q EXCEPT !.fetch = Inbox!Data(v)]
           landed(a) == Inbox!Landed(q, a)
<1>1. /\ Inbox!Asked.is = "asked" /\ Inbox!NoFetch.is = "no fetch" /\ Inbox!Failure.is = "refusal"
      /\ \A v \in Nat : Inbox!Data(v).is = "data" /\ Inbox!Data(v).at = v
  BY DEF Inbox!Asked, Inbox!NoFetch, Inbox!Failure, Inbox!Data
<1>2. /\ DOMAIN asking = {"held", "fetch"} /\ asking.held = q.held /\ asking.fetch = Inbox!Asked
      /\ \A v \in Nat : /\ DOMAIN given(v) = {"held", "fetch"} /\ given(v).held = q.held
                        /\ given(v).fetch = Inbox!Data(v)
  BY DEF NewsInv
<1>3. \A a : /\ DOMAIN landed(a) = {"held", "fetch"} /\ landed(a).held = a
             /\ landed(a).fetch = Inbox!NoFetch
  BY DEF Inbox!Landed
<1> HIDE DEF asking, given, landed
<1>4. NewsInv(asking, n)
  BY <1>1, <1>2 DEF NewsInv
<1>5. ASSUME NEW v \in Nat, v >= n PROVE NewsInv(given(v), n)
  <2>1. /\ DOMAIN given(v) = {"held", "fetch"} /\ given(v).held = q.held
        /\ given(v).fetch.is = "data" /\ given(v).fetch.at = v
    BY <1>1, <1>2
  <2>2. given(v).fetch # Inbox!NoFetch
    BY <1>1, <2>1
  <2>3. QED
    BY <1>5, <2>1, <2>2 DEF NewsInv
<1>6. NewsInv(landed(q.fetch), n)
  BY <1>1, <1>3 DEF NewsInv
<1>7. NewsInv(landed(Inbox!Failure), n)
  BY <1>1, <1>3 DEF NewsInv
<1>8. QED
  BY <1>4, <1>5, <1>6, <1>7 DEF Inbox!Fetched, asking, given, landed

\* What every mutation of the inbox makes stale.
LEMMA InboxStale ==
  ASSUME NEW op \in Inbox!Actions
  PROVE  Inbox!QueryOf(Inbox!List) \in Inbox!INVALIDATES(Inbox!OperationOf(op))
<1>1. CASE op = "read"
  BY <1>1 DEF Inbox!QueryOf, Inbox!INVALIDATES, Inbox!OperationOf, Inbox!INBOX
<1>2. CASE op = "read-all"
  BY <1>2 DEF Inbox!QueryOf, Inbox!INVALIDATES, Inbox!OperationOf, Inbox!INBOX
<1>3. CASE op = "close"
  BY <1>3 DEF Inbox!QueryOf, Inbox!INVALIDATES, Inbox!OperationOf, Inbox!INBOX
<1>4. CASE op = "reopen"
  BY <1>4 DEF Inbox!QueryOf, Inbox!INVALIDATES, Inbox!OperationOf, Inbox!INBOX
<1>5. CASE op = "reply"
  BY <1>5 DEF Inbox!QueryOf, Inbox!INVALIDATES, Inbox!OperationOf, Inbox!INBOX
<1>6. QED
  BY <1>1, <1>2, <1>3, <1>4, <1>5 DEF Inbox!Actions

LEMMA ReplySlotIs ==
  ASSUME Inbox!Free # {}
  PROVE  Inbox!Slot \in Inbox!Slots /\ replies[Inbox!Slot] = Inbox!NoRequest
<1>1. Inbox!Free \subseteq Nat
  BY DEF Inbox!Free, Inbox!Slots
<1>2. \E s \in Inbox!Free : \A t \in Inbox!Free : s <= t
  BY <1>1, LeastIs
<1>3. QED
  BY <1>2 DEF Inbox!Slot, Inbox!Free

\* The requests after one more was sent.
LEMMA ReplySent ==
  ASSUME InboxInv, Inbox!Free # {}, NEW op \in Inbox!Actions, NEW peer,
         replies' = Inbox!Sent(op, peer)
  PROVE  /\ DOMAIN replies' = Inbox!Slots
         /\ \A s \in Inbox!Slots :
              /\ DOMAIN replies'[s] = {"op", "peer", "answer", "at"}
              /\ replies'[s].at \in Nat /\ replies'[s].at <= version
              /\ replies'[s].op \in Inbox!Actions \cup {"none"}
              /\ replies'[s].answer \in {"none", "ok", "error"}
              /\ replies[s].op = "reply" => replies'[s] = replies[s]
         /\ replies'[Inbox!Slot].op = op /\ replies'[Inbox!Slot].peer = peer
<1> DEFINE slot == Inbox!Slot
           q    == [Inbox!NoRequest EXCEPT !.op = op, !.peer = peer]
<1>1. slot \in Inbox!Slots /\ replies[slot].op = "none"
  BY ReplySlotIs DEF Inbox!NoRequest
<1>2. replies' = [replies EXCEPT ![slot] = q]
  BY DEF Inbox!Sent
<1>3. /\ DOMAIN q = {"op", "peer", "answer", "at"} /\ q.op = op /\ q.peer = peer
      /\ q.at = 0 /\ q.answer = "none"
  BY DEF Inbox!NoRequest
<1> HIDE DEF slot, q
<1>4. /\ DOMAIN replies' = Inbox!Slots /\ replies'[slot] = q
      /\ \A s \in Inbox!Slots : s # slot => replies'[s] = replies[s]
  BY <1>1, <1>2 DEF InboxInv
<1>5. QED
  BY <1>1, <1>3, <1>4 DEF InboxInv, slot

\* Another conversation in the pane is another composer.
LEMMA SelectedKeeps ==
  ASSUME InboxInv, NEW kind, NEW peer, Inbox!Selected(kind, peer), DOMAIN replies' = Inbox!Slots,
         \A s \in Inbox!Slots : replies[s].op = "reply" => replies'[s] = replies[s]
  PROVE  ReplyInv'
<1>1. CASE selection' = selection
  <2>1. reply' = reply
    BY <1>1 DEF Inbox!Selected
  <2>2. QED
    BY <1>1, <2>1 DEF InboxInv, ReplyInv
<1>2. CASE selection' # selection
  BY <1>2 DEF Inbox!Selected, Inbox!Empty, ReplyInv
<1>3. QED
  BY <1>1, <1>2

LEMMA PaneKeeps ==
  ASSUME InboxInv,
         \/ \E p \in Peers : Inbox!ConversationRow(p) \/ Inbox!NewNumberPrompt(p)
         \/ Inbox!ConversationsToolbar \/ Inbox!ThreadView \/ Inbox!Type \/ Inbox!send
  PROVE  InboxInv'
<1>1. ASSUME NEW p \in Peers, Inbox!ConversationRow(p) PROVE InboxInv'
  <2>1. /\ Inbox!Free # {} /\ replies' = Inbox!Sent("read", p) /\ Inbox!Selected("thread", p)
        /\ UNCHANGED <<version, answered>> /\ moves' \in Nat
    BY <1>1 DEF Inbox!ConversationRow, Inbox!Move, InboxInv
  <2>2. /\ DOMAIN replies' = Inbox!Slots
        /\ \A s \in Inbox!Slots :
             /\ DOMAIN replies'[s] = {"op", "peer", "answer", "at"}
             /\ replies'[s].at \in Nat /\ replies'[s].at <= version
             /\ replies'[s].op \in Inbox!Actions \cup {"none"}
             /\ replies'[s].answer \in {"none", "ok", "error"}
             /\ replies[s].op = "reply" => replies'[s] = replies[s]
    BY <2>1, ReplySent DEF Inbox!Actions
  <2>3. ReplyInv'
    BY <2>1, <2>2, SelectedKeeps
  <2>4. /\ DOMAIN queries' = Inbox!Queries
        /\ queries'[Inbox!List] \in {queries[Inbox!List], Inbox!Fetched(queries[Inbox!List])}
    BY <1>1 DEF Inbox!ConversationRow, InboxInv, Inbox!Queries
  <2>5. NewsInv(queries'[Inbox!List], answered)
    BY <2>4, NewsStay DEF InboxInv
  <2>6. QED
    BY <2>1, <2>2, <2>3, <2>4, <2>5 DEF InboxInv, NewsInv
<1>2. ASSUME NEW p \in Peers, Inbox!NewNumberPrompt(p) PROVE InboxInv'
  <2>1. /\ Inbox!Selected("new", p) /\ UNCHANGED <<queries, replies, version, answered>>
        /\ moves' \in Nat
    BY <1>2 DEF Inbox!NewNumberPrompt, Inbox!Move, InboxInv
  <2>2. ReplyInv'
    BY <2>1, SelectedKeeps DEF InboxInv
  <2>3. QED
    BY <2>1, <2>2 DEF InboxInv, NewsInv
<1>3. CASE Inbox!ConversationsToolbar \/ Inbox!ThreadView
  <2>1. /\ Inbox!Free # {} /\ UNCHANGED <<selection, reply, queries, version, answered, moves>>
        /\ \E op \in {"read-all", "close", "reopen"}, peer \in {Inbox!Nobody, selection.peer} :
             replies' = Inbox!Sent(op, peer)
    BY <1>3 DEF Inbox!ConversationsToolbar, Inbox!ThreadView
  <2>2. /\ DOMAIN replies' = Inbox!Slots
        /\ \A s \in Inbox!Slots :
             /\ DOMAIN replies'[s] = {"op", "peer", "answer", "at"}
             /\ replies'[s].at \in Nat /\ replies'[s].at <= version
             /\ replies'[s].op \in Inbox!Actions \cup {"none"}
             /\ replies'[s].answer \in {"none", "ok", "error"}
             /\ replies[s].op = "reply" => replies'[s] = replies[s]
    BY <2>1, ReplySent DEF Inbox!Actions
  <2>3. QED
    BY <2>1, <2>2 DEF InboxInv, NewsInv, ReplyInv
<1>4. CASE Inbox!Type
  <2>1. /\ UNCHANGED <<selection, queries, replies, version, answered, moves>>
        /\ reply' = [reply EXCEPT !.text = TRUE]
    BY <1>4 DEF Inbox!Type
  <2>2. DOMAIN reply' = DOMAIN reply /\ reply'.sending = reply.sending
    BY <2>1 DEF InboxInv, ReplyInv
  <2>3. QED
    BY <2>1, <2>2 DEF InboxInv, NewsInv, ReplyInv
<1>5. CASE Inbox!send
  <2>1. /\ Inbox!Free # {} /\ UNCHANGED <<selection, queries, version, answered, moves>>
        /\ replies' = Inbox!Sent("reply", selection.peer)
        /\ reply' = [reply EXCEPT !.sending = Inbox!Slot]
    BY <1>5 DEF Inbox!send
  <2>2. /\ DOMAIN replies' = Inbox!Slots
        /\ \A s \in Inbox!Slots :
             /\ DOMAIN replies'[s] = {"op", "peer", "answer", "at"}
             /\ replies'[s].at \in Nat /\ replies'[s].at <= version
             /\ replies'[s].op \in Inbox!Actions \cup {"none"}
             /\ replies'[s].answer \in {"none", "ok", "error"}
        /\ replies'[Inbox!Slot].op = "reply" /\ replies'[Inbox!Slot].peer = selection.peer
    BY <2>1, ReplySent DEF Inbox!Actions
  <2>3. DOMAIN reply' = DOMAIN reply /\ reply'.sending = Inbox!Slot
    BY <2>1 DEF InboxInv, ReplyInv
  <2>4. Inbox!Slot \in Inbox!Slots
    BY <2>1, ReplySlotIs
  <2>5. QED
    BY <2>1, <2>2, <2>3, <2>4 DEF InboxInv, NewsInv, ReplyInv
<1>6. QED
  BY <1>1, <1>2, <1>3, <1>4, <1>5

\* An answer is heard: the user is told, and the list is fetched anew.
LEMMA SettledKeeps ==
  ASSUME InboxInv, NEW s \in Inbox!Slots, replies[s].op \in Inbox!Actions, Inbox!Settled(s),
         UNCHANGED <<version, moves>>, DOMAIN queries' = Inbox!Queries,
         queries'[Inbox!List] = Inbox!Invalidated(queries[Inbox!List]),
         ReplyInv'
  PROVE  InboxInv'
<1>1. replies' = [replies EXCEPT ![s] = Inbox!NoRequest]
  BY DEF Inbox!Settled
<1>2. /\ DOMAIN replies' = Inbox!Slots /\ replies'[s] = Inbox!NoRequest
      /\ \A t \in Inbox!Slots : t # s => replies'[t] = replies[t]
  BY <1>1 DEF InboxInv
<1>3. /\ DOMAIN Inbox!NoRequest = {"op", "peer", "answer", "at"}
      /\ Inbox!NoRequest.at = 0 /\ Inbox!NoRequest.op = "none"
      /\ Inbox!NoRequest.answer = "none"
  BY DEF Inbox!NoRequest
<1>4. answered' \in Nat /\ answered' <= version
  BY DEF Inbox!Settled, InboxInv
<1>5. NewsInv(queries'[Inbox!List], answered')
  <2> DEFINE q == queries[Inbox!List]
  <2>1. CASE q.fetch # Inbox!NoFetch /\ q.held = Inbox!NoData
    <3>1. answered' = answered /\ queries'[Inbox!List] = q
      BY <2>1 DEF Inbox!Invalidated, Inbox!Settled
    <3>2. QED
      BY <3>1 DEF InboxInv
  <2>2. /\ DOMAIN [q EXCEPT !.fetch = Inbox!Asked] = {"held", "fetch"}
        /\ [q EXCEPT !.fetch = Inbox!Asked].fetch = Inbox!Asked
        /\ Inbox!Asked.is = "asked" /\ Inbox!NoFetch.is = "no fetch"
    BY DEF InboxInv, NewsInv, Inbox!Asked, Inbox!NoFetch
  <2>3. CASE ~(q.fetch # Inbox!NoFetch /\ q.held = Inbox!NoData)
    <3>1. queries'[Inbox!List] = [q EXCEPT !.fetch = Inbox!Asked]
      BY <2>3 DEF Inbox!Invalidated
    <3>2. QED
      BY <2>2, <3>1 DEF NewsInv
  <2>4. QED
    BY <2>1, <2>3
<1>6. QED
  BY <1>2, <1>3, <1>4, <1>5 DEF InboxInv, NewsInv

LEMMA InboxAnswersKeep ==
  ASSUME InboxInv, NEW s \in Inbox!Slots,
         Inbox!Handle(s) \/ Inbox!Answered(s) \/ Inbox!ReplyAnswered(s)
  PROVE  InboxInv'
<1>1. CASE Inbox!Handle(s)
  <2>1. UNCHANGED <<selection, reply, queries, answered, moves>> /\ version' \in {version, version + 1}
    BY <1>1 DEF Inbox!Handle, Inbox!Changes
  <2>2. PICK q \in {[replies[s] EXCEPT !.answer = "ok", !.at = version'],
                    [replies[s] EXCEPT !.answer = "error"]} : replies' = [replies EXCEPT ![s] = q]
    BY <1>1 DEF Inbox!Handle, Inbox!Changes, InboxInv
  <2>3. /\ DOMAIN q = DOMAIN replies[s] /\ q.op = replies[s].op /\ q.peer = replies[s].peer
        /\ q.at \in {replies[s].at, version'} /\ q.answer \in {"ok", "error"}
    BY <2>2 DEF InboxInv
  <2>4. /\ DOMAIN replies' = Inbox!Slots
        /\ \A t \in Inbox!Slots :
             /\ DOMAIN replies'[t] = DOMAIN replies[t]
             /\ replies'[t].op = replies[t].op /\ replies'[t].peer = replies[t].peer
             /\ replies'[t].at \in {replies[t].at, version'}
             /\ replies'[t].answer \in {replies[t].answer, "ok", "error"}
    BY <2>2, <2>3 DEF InboxInv
  <2>5. ReplyInv'
    BY <2>1, <2>4 DEF InboxInv, ReplyInv
  <2>6. QED
    BY <2>1, <2>4, <2>5 DEF InboxInv, NewsInv
<1>2. ASSUME replies[s].op \in Inbox!Actions, Inbox!Settled(s),
             UNCHANGED <<selection, reply>> /\ reply.sending # s
      PROVE  ReplyInv'
  <2>1. \A t \in Inbox!Slots : t # s => replies'[t] = replies[t]
    BY <1>2 DEF Inbox!Settled, InboxInv
  <2>2. QED
    BY <1>2, <2>1 DEF InboxInv, ReplyInv
<1>3. CASE Inbox!Answered(s)
  <2>1. /\ replies[s].op \in Inbox!Actions \ {"reply"} /\ Inbox!Settled(s)
        /\ UNCHANGED <<selection, reply, version, moves>>
        /\ Inbox!invalidate(replies[s].op, {q \in Inbox!Queries : Inbox!Shown(q)})
    BY <1>3 DEF Inbox!Answered
  <2>2. ReplyInv'
    BY <1>2, <2>1 DEF InboxInv, ReplyInv
  <2>3. /\ DOMAIN queries' = Inbox!Queries
        /\ queries'[Inbox!List] = Inbox!Invalidated(queries[Inbox!List])
    <3>1. Inbox!List \in {q \in Inbox!Queries : Inbox!Shown(q)}
      BY DEF Inbox!Queries, Inbox!Shown
    <3>2. QED
      BY <2>1, <3>1, InboxStale DEF Inbox!invalidate
  <2>4. QED
    BY <2>1, <2>2, <2>3, SettledKeeps
<1>4. CASE Inbox!ReplyAnswered(s)
  <2>1. /\ replies[s].op = "reply" /\ Inbox!Settled(s) /\ UNCHANGED <<version, moves>>
    BY <1>4 DEF Inbox!ReplyAnswered
  <2>2. ReplyInv'
    <3>1. CASE reply' = Inbox!Empty
      BY <3>1 DEF ReplyInv, Inbox!Empty
    <3>2. CASE reply' = [reply EXCEPT !.sending = 0]
      BY <3>2 DEF InboxInv, ReplyInv
    <3>3. CASE ~Inbox!Heard(s)
      BY <1>2, <1>4, <2>1, <3>3 DEF Inbox!ReplyAnswered, Inbox!Heard, Inbox!Actions
    <3>4. replies[s].answer \in {"ok", "error"}
      BY <1>4 DEF Inbox!ReplyAnswered, InboxInv
    <3>5. QED
      BY <1>4, <3>1, <3>2, <3>3, <3>4 DEF Inbox!ReplyAnswered, Inbox!onSent
  <2>3. /\ DOMAIN queries' = Inbox!Queries
        /\ queries'[Inbox!List] = Inbox!Invalidated(queries[Inbox!List])
    <3>1. Inbox!List \in Inbox!Queries /\ Inbox!Shown(Inbox!List)
      BY DEF Inbox!Queries, Inbox!Shown
    <3>2. Inbox!QueryOf(Inbox!List) \in Inbox!INVALIDATES(Inbox!OperationOf("reply"))
      BY InboxStale DEF Inbox!Actions
    <3>3. QED
      BY <1>4, <3>1, <3>2 DEF Inbox!ReplyAnswered
  <2>4. QED
    BY <2>1, <2>2, <2>3, SettledKeeps DEF Inbox!Actions
<1>5. QED
  BY <1>1, <1>3, <1>4

LEMMA NewsKeep ==
  ASSUME InboxInv, NEW q \in Inbox!Queries,
         Inbox!Poll(q) \/ Inbox!Read(q) \/ Inbox!FetchOk(q) \/ Inbox!FetchFails(q)
  PROVE  InboxInv'
<1>1. UNCHANGED <<selection, replies, version, answered, moves>>
  BY DEF Inbox!Poll, Inbox!Read, Inbox!FetchOk, Inbox!FetchFails, Inbox!Land
<1>2. reply' \in {reply, Inbox!Empty}
  BY DEF Inbox!Poll, Inbox!Read, Inbox!FetchOk, Inbox!FetchFails, Inbox!Land
<1>3. ReplyInv'
  BY <1>1, <1>2 DEF InboxInv, ReplyInv, Inbox!Empty
<1>4. PICK e \in {Inbox!Fetched(queries[q]), [queries[q] EXCEPT !.fetch = Inbox!Data(version)],
                  Inbox!Landed(queries[q], queries[q].fetch),
                  Inbox!Landed(queries[q], Inbox!Failure)} : queries' = [queries EXCEPT ![q] = e]
  BY DEF Inbox!Poll, Inbox!Read, Inbox!FetchOk, Inbox!FetchFails, Inbox!Land
<1>5. /\ DOMAIN queries' = Inbox!Queries
      /\ queries'[Inbox!List] = IF q = Inbox!List THEN e ELSE queries[Inbox!List]
  BY <1>4 DEF InboxInv, Inbox!Queries
<1>6. q = Inbox!List => NewsInv(e, answered)
  <2>1. NewsInv(queries[Inbox!List], answered) /\ answered <= version
    BY DEF InboxInv
  <2>2. ASSUME q = Inbox!List PROVE NewsInv(e, answered)
    <3> DEFINE had == queries[Inbox!List]
    <3>1. /\ NewsInv([had EXCEPT !.fetch = Inbox!Data(version)], answered)
          /\ NewsInv(Inbox!Fetched(had), answered)
          /\ NewsInv(Inbox!Landed(had, had.fetch), answered)
          /\ NewsInv(Inbox!Landed(had, Inbox!Failure), answered)
      BY <2>1, NewsStay DEF InboxInv
    <3>2. QED
      BY <1>4, <2>2, <3>1
  <2>3. QED
    BY <2>2
<1>7. QED
  BY <1>1, <1>3, <1>5, <1>6 DEF InboxInv, NewsInv

LEMMA InboxInit ==
  ASSUME Inbox!Init PROVE InboxInv
<1> DEFINE q == [held |-> Inbox!NoData, fetch |-> Inbox!Asked]
<1>1. /\ version = 0 /\ answered = 0 /\ moves = 0 /\ reply = Inbox!Empty
      /\ replies = [s \in Inbox!Slots |-> Inbox!NoRequest]
  BY DEF Inbox!Init
<1>2. DOMAIN queries = Inbox!Queries /\ queries[Inbox!List] = q
  BY DEF Inbox!Init, Inbox!Queries
<1>3. NewsInv(q, answered)
  BY DEF NewsInv, Inbox!NoData, Inbox!Asked, Inbox!NoFetch
<1>4. ReplyInv
  BY <1>1 DEF ReplyInv, Inbox!Empty
<1>5. /\ DOMAIN Inbox!NoRequest = {"op", "peer", "answer", "at"}
      /\ Inbox!NoRequest.at = 0 /\ Inbox!NoRequest.op = "none"
      /\ Inbox!NoRequest.answer = "none"
  BY DEF Inbox!NoRequest
<1> HIDE DEF q
<1>6. QED
  BY <1>1, <1>2, <1>3, <1>4, <1>5 DEF InboxInv

LEMMA InboxStep ==
  ASSUME InboxInv, [Inbox!Next]_inboxVars PROVE InboxInv'
<1>1. CASE UNCHANGED inboxVars
  <2>1. UNCHANGED <<selection, reply, queries, replies, version, answered, moves>>
    BY <1>1 DEF inboxVars
  <2>2. QED
    BY <2>1 DEF InboxInv, NewsInv, ReplyInv
<1>2. CASE Inbox!Inbound
  <2>1. /\ UNCHANGED <<selection, reply, queries, replies, answered, moves>>
        /\ version' = version + 1
    BY <1>2 DEF Inbox!Inbound, Inbox!Changes
  <2>2. QED
    BY <2>1 DEF InboxInv, NewsInv, ReplyInv
<1>3. CASE Inbox!Next /\ ~Inbox!Inbound
  BY <1>3, PaneKeeps, InboxAnswersKeep, NewsKeep DEF Inbox!Next
<1>4. QED
  BY <1>1, <1>2, <1>3

\* The pane moves by the user's hand, or to the thread that its own reply began.
LEMMA PaneStays ==
  ASSUME InboxInv, Inbox!Next, selection' # selection, moves' = moves
  PROVE  /\ selection.kind = "new"
         /\ selection' = [kind |-> "thread", peer |-> selection.peer]
         /\ reply.sending # 0
<1>1. PICK s \in Inbox!Slots : Inbox!ReplyAnswered(s)
  <2>1. ~\E p \in Peers : Inbox!ConversationRow(p) \/ Inbox!NewNumberPrompt(p)
    BY DEF Inbox!ConversationRow, Inbox!NewNumberPrompt, Inbox!Move, InboxInv
  <2>2. ~(Inbox!Inbound \/ Inbox!ConversationsToolbar \/ Inbox!ThreadView)
    BY DEF Inbox!Inbound, Inbox!ConversationsToolbar, Inbox!ThreadView
  <2>3. ~(Inbox!Type \/ Inbox!send)
    BY DEF Inbox!Type, Inbox!send
  <2>4. ~\E s \in Inbox!Slots : Inbox!Handle(s) \/ Inbox!Answered(s)
    BY DEF Inbox!Handle, Inbox!Answered
  <2>5. ~\E q \in Inbox!Queries :
           Inbox!Poll(q) \/ Inbox!Read(q) \/ Inbox!FetchOk(q) \/ Inbox!FetchFails(q)
    BY DEF Inbox!Poll, Inbox!Read, Inbox!FetchOk, Inbox!FetchFails, Inbox!Land
  <2>6. QED
    BY <2>1, <2>2, <2>3, <2>4, <2>5 DEF Inbox!Next
<1>2. /\ Inbox!Heard(s) /\ selection.kind = "new"
      /\ selection' = [kind |-> "thread", peer |-> replies[s].peer]
  BY <1>1 DEF Inbox!ReplyAnswered, Inbox!onSent
<1>3. reply.sending = s /\ s # 0
  BY <1>2 DEF Inbox!Heard, Inbox!Slots
<1>4. QED
  BY <1>2, <1>3 DEF InboxInv, ReplyInv

\* A list with no fetch out is as new as what the user was told.
LEMMA InboxShow ==
  ASSUME InboxInv PROVE Inbox!OwnChangesShown
BY DEF InboxInv, NewsInv, Inbox!OwnChangesShown, Inbox!Loaded

-----------------------------------------------------------------------------
(* The types of the inbox *)

\* What a query of the inbox holds, and what is fetched for it, is of a version there was.
OfVersions(q, n) ==
  DOMAIN q = {"held", "fetch"} /\ q.held.at \in 0 .. n /\ q.fetch.at \in 0 .. n

\* What the inbox keeps is of its types, and every version it holds there was.
InboxTypes ==
  /\ Inbox!TypeOK
  /\ \A q \in Inbox!Queries : OfVersions(queries[q], version)

LEMMA VersionsStay ==
  ASSUME NEW q, NEW n \in Nat, OfVersions(q, n)
  PROVE  /\ OfVersions(Inbox!Fetched(q), n) /\ OfVersions(Inbox!Invalidated(q), n)
         /\ OfVersions([q EXCEPT !.fetch = Inbox!Data(n)], n)
         /\ OfVersions(Inbox!Landed(q, q.fetch), n)
         /\ OfVersions(Inbox!Landed(q, Inbox!Failure), n)
         /\ \A m \in Nat : m >= n => OfVersions(q, m)
<1> DEFINE asking == [q EXCEPT !.fetch = Inbox!Asked]
           given  == [q EXCEPT !.fetch = Inbox!Data(n)]
           landed(a) == Inbox!Landed(q, a)
<1>1. /\ Inbox!Asked.at = 0 /\ Inbox!Failure.at = 0 /\ Inbox!Data(n).at = n
      /\ 0 \in 0 .. n /\ n \in 0 .. n
  BY DEF Inbox!Asked, Inbox!Failure, Inbox!Data
<1>2. /\ DOMAIN asking = {"held", "fetch"} /\ asking.held = q.held /\ asking.fetch = Inbox!Asked
      /\ DOMAIN given = {"held", "fetch"} /\ given.held = q.held /\ given.fetch = Inbox!Data(n)
  BY DEF OfVersions
<1>3. \A a : /\ DOMAIN landed(a) = {"held", "fetch"} /\ landed(a).held = a
             /\ landed(a).fetch = Inbox!NoFetch
  BY DEF Inbox!Landed
<1> HIDE DEF asking, given, landed
<1>4. OfVersions(asking, n)
  BY <1>1, <1>2 DEF OfVersions
<1>5. OfVersions(given, n)
  BY <1>1, <1>2 DEF OfVersions
<1>6. Inbox!NoFetch.at = 0
  BY DEF Inbox!NoFetch
<1>7. OfVersions(landed(q.fetch), n)
  BY <1>1, <1>3, <1>6 DEF OfVersions
<1>8. OfVersions(landed(Inbox!Failure), n)
  BY <1>1, <1>3, <1>6 DEF OfVersions
<1>9. \A m \in Nat : m >= n => OfVersions(q, m)
  BY DEF OfVersions
<1>10. QED
  BY <1>4, <1>5, <1>7, <1>8, <1>9 DEF Inbox!Fetched, Inbox!Invalidated, asking, given, landed

LEMMA VersionsKept ==
  ASSUME NEW q, NEW n \in Nat, OfVersions(q, n),
         NEW e \in {q, Inbox!Fetched(q), Inbox!Invalidated(q)}
  PROVE  OfVersions(e, n)
BY VersionsStay

\* What the screen keeps of its own: the pane, its composer, and how often he went.
LEMMA PaneTyped ==
  ASSUME InboxInv', Inbox!InboxAssumption,
         selection' \in [kind : {"none", "new", "thread"}, peer : Peers \cup {Inbox!Nobody}],
         reply' \in [text : BOOLEAN, sending : 0 .. InboxSlots],
         \A q \in Inbox!Queries : OfVersions(queries'[q], version'),
         version' \in 0 .. MaxInboxChanges, moves' \in 0 .. MaxMoves
  PROVE  InboxTypes'
BY DEF InboxTypes, Inbox!TypeOK, InboxInv, OfVersions

LEMMA SelectedTyped ==
  ASSUME InboxTypes, Inbox!InboxAssumption, NEW kind \in {"none", "new", "thread"},
         NEW p \in Peers \cup {Inbox!Nobody}, Inbox!Selected(kind, p)
  PROVE  /\ selection' \in [kind : {"none", "new", "thread"}, peer : Peers \cup {Inbox!Nobody}]
         /\ reply' \in [text : BOOLEAN, sending : 0 .. InboxSlots]
BY DEF InboxTypes, Inbox!TypeOK, Inbox!Selected, Inbox!Empty, Inbox!InboxAssumption

LEMMA InboxTypesInit ==
  ASSUME Inbox!InboxAssumption, Inbox!Init PROVE InboxTypes
<1>1. \A q \in Inbox!Queries : OfVersions(queries[q], 0)
  <2> SUFFICES ASSUME NEW q \in Inbox!Queries PROVE OfVersions(queries[q], 0)
    OBVIOUS
  <2>1. PICK f \in {Inbox!Asked, Inbox!NoFetch} :
          queries[q] = [held |-> Inbox!NoData, fetch |-> f]
    BY DEF Inbox!Init
  <2>2. Inbox!Asked.at = 0 /\ Inbox!NoFetch.at = 0 /\ Inbox!NoData.at = 0
    BY DEF Inbox!NoData, Inbox!Asked, Inbox!NoFetch
  <2>3. f.at = 0
    BY <2>2
  <2>4. QED
    BY <2>1, <2>2, <2>3 DEF OfVersions
<1>2. /\ version = 0 /\ answered = 0 /\ moves = 0 /\ reply = Inbox!Empty
      /\ replies = [s \in Inbox!Slots |-> Inbox!NoRequest]
      /\ selection = [kind |-> "none", peer |-> Inbox!Nobody]
  BY DEF Inbox!Init
<1>3. Inbox!NoRequest.op = "none"
  BY DEF Inbox!NoRequest
<1>4. reply \in [text : BOOLEAN, sending : 0 .. InboxSlots]
  BY <1>2 DEF Inbox!Empty, Inbox!InboxAssumption
<1>5. QED
  BY <1>1, <1>2, <1>3, <1>4 DEF InboxTypes, Inbox!TypeOK, Inbox!InboxAssumption, OfVersions

\* No step of the inbox leaves its types.
LEMMA InboxTypesStep ==
  ASSUME InboxInv, InboxInv', InboxTypes, Inbox!InboxAssumption, [Inbox!Next]_inboxVars
  PROVE  InboxTypes'
<1>0. /\ selection \in [kind : {"none", "new", "thread"}, peer : Peers \cup {Inbox!Nobody}]
      /\ reply \in [text : BOOLEAN, sending : 0 .. InboxSlots]
      /\ DOMAIN queries = Inbox!Queries
      /\ \A q \in Inbox!Queries : OfVersions(queries[q], version)
      /\ version \in 0 .. MaxInboxChanges /\ moves \in 0 .. MaxMoves /\ version \in Nat
      /\ InboxSlots \in Nat /\ MaxInboxChanges \in Nat /\ MaxMoves \in Nat
      /\ Peers \subseteq Inbox!Queries
  BY DEF InboxTypes, Inbox!TypeOK, InboxInv, Inbox!InboxAssumption, Inbox!Queries
<1>1. CASE UNCHANGED inboxVars
  BY <1>0, <1>1, PaneTyped DEF inboxVars
<1>2. CASE Inbox!Inbound
  <2>1. /\ UNCHANGED <<selection, reply, queries, moves>> /\ version' = version + 1
        /\ version < MaxInboxChanges
    BY <1>2 DEF Inbox!Inbound, Inbox!Changes
  <2>2. ASSUME NEW q \in Inbox!Queries PROVE OfVersions(queries'[q], version')
    <3>1. OfVersions(queries[q], version) /\ queries'[q] = queries[q] /\ version' \in Nat
          /\ version' >= version
      BY <1>0, <2>1
    <3>2. QED
      BY <1>0, <3>1, VersionsStay
  <2>3. version' \in 0 .. MaxInboxChanges
    BY <1>0, <2>1
  <2>4. QED
    BY <1>0, <2>1, <2>2, <2>3, PaneTyped
<1>3. ASSUME NEW p \in Peers, Inbox!ConversationRow(p) PROVE InboxTypes'
  <2>1. /\ Inbox!Selected("thread", p) /\ moves' = moves + 1 /\ moves < MaxMoves
        /\ queries' = [queries EXCEPT ![p] = IF Inbox!Shown(p) THEN @ ELSE Inbox!Fetched(@)]
        /\ UNCHANGED version
    BY <1>3 DEF Inbox!ConversationRow, Inbox!Move
  <2>2. \A q \in Inbox!Queries : queries'[q] \in {queries[q], Inbox!Fetched(queries[q])}
    BY <1>0, <2>1
  <2>3. \A q \in Inbox!Queries : OfVersions(queries'[q], version')
    BY <1>0, <2>1, <2>2, VersionsKept
  <2>4. moves' \in 0 .. MaxMoves
    BY <1>0, <2>1
  <2>5. QED
    BY <1>0, <2>1, <2>3, <2>4, SelectedTyped, PaneTyped
<1>4. ASSUME NEW p \in Peers, Inbox!NewNumberPrompt(p) PROVE InboxTypes'
  <2>1. /\ Inbox!Selected("new", p) /\ moves' = moves + 1 /\ moves < MaxMoves
        /\ UNCHANGED <<queries, version>>
    BY <1>4 DEF Inbox!NewNumberPrompt, Inbox!Move
  <2>2. moves' \in 0 .. MaxMoves
    BY <1>0, <2>1
  <2>3. QED
    BY <1>0, <2>1, <2>2, SelectedTyped, PaneTyped
<1>5. CASE Inbox!ConversationsToolbar \/ Inbox!ThreadView
  <2>1. UNCHANGED <<selection, reply, queries, version, moves>>
    BY <1>5 DEF Inbox!ConversationsToolbar, Inbox!ThreadView
  <2>2. QED
    BY <1>0, <2>1, PaneTyped
<1>6. CASE Inbox!Type \/ Inbox!send
  <2>1. UNCHANGED <<selection, queries, version, moves>>
    BY <1>6 DEF Inbox!Type, Inbox!send
  <2>2. reply' \in [text : BOOLEAN, sending : 0 .. InboxSlots]
    <3>1. CASE Inbox!Type
      BY <1>0, <3>1 DEF Inbox!Type
    <3>2. CASE Inbox!send
      <4>1. Inbox!Slot \in 0 .. InboxSlots
        BY <1>0, <3>2, ReplySlotIs DEF Inbox!send, Inbox!Slots
      <4>2. QED
        BY <1>0, <3>2, <4>1 DEF Inbox!send
    <3>3. QED
      BY <1>6, <3>1, <3>2
  <2>3. QED
    BY <1>0, <2>1, <2>2, PaneTyped
<1>7. ASSUME NEW s \in Inbox!Slots, Inbox!Handle(s) PROVE InboxTypes'
  <2>1. /\ UNCHANGED <<selection, reply, queries, moves>>
        /\ \/ version' = version
           \/ version' = version + 1 /\ version < MaxInboxChanges
    BY <1>7 DEF Inbox!Handle, Inbox!Changes
  <2>2. version' \in 0 .. MaxInboxChanges /\ version' \in Nat /\ version' >= version
    BY <1>0, <2>1
  <2>3. ASSUME NEW q \in Inbox!Queries PROVE OfVersions(queries'[q], version')
    <3>1. OfVersions(queries[q], version) /\ queries'[q] = queries[q]
      BY <1>0, <2>1
    <3>2. QED
      BY <1>0, <2>2, <3>1, VersionsStay
  <2>4. QED
    BY <1>0, <2>1, <2>2, <2>3, PaneTyped
<1>8. ASSUME NEW s \in Inbox!Slots, Inbox!Answered(s) PROVE InboxTypes'
  <2>1. /\ UNCHANGED <<selection, reply, version, moves>>
        /\ \A q \in Inbox!Queries : queries'[q] \in {queries[q], Inbox!Invalidated(queries[q])}
    BY <1>8 DEF Inbox!Answered, Inbox!invalidate
  <2>2. \A q \in Inbox!Queries : OfVersions(queries'[q], version')
    BY <1>0, <2>1, VersionsKept
  <2>3. QED
    BY <1>0, <2>1, <2>2, PaneTyped
<1>9. ASSUME NEW s \in Inbox!Slots, Inbox!ReplyAnswered(s) PROVE InboxTypes'
  <2>1. UNCHANGED <<version, moves>> /\ replies[s].op = "reply" /\ replies[s].answer # "none"
    BY <1>9 DEF Inbox!ReplyAnswered
  <2>2. \A q \in Inbox!Queries :
          queries'[q] \in {queries[q], Inbox!Invalidated(queries[q]), Inbox!Fetched(queries[q])}
    BY <1>9 DEF Inbox!ReplyAnswered
  <2>3. \A q \in Inbox!Queries : OfVersions(queries'[q], version')
    BY <1>0, <2>1, <2>2, VersionsKept
  <2>4. /\ selection' \in [kind : {"none", "new", "thread"}, peer : Peers \cup {Inbox!Nobody}]
        /\ reply' \in [text : BOOLEAN, sending : 0 .. InboxSlots]
    <3>1. Inbox!Empty \in [text : BOOLEAN, sending : 0 .. InboxSlots]
      BY <1>0 DEF Inbox!Empty
    <3>2. CASE Inbox!Heard(s) /\ replies[s].answer = "ok"
      <4>1. replies[s].peer = selection.peer
        BY <3>2 DEF Inbox!Heard, InboxInv, ReplyInv, Inbox!Slots
      <4>2. /\ reply' = Inbox!Empty
            /\ selection' \in {selection, [kind |-> "thread", peer |-> replies[s].peer]}
        BY <1>9, <3>2 DEF Inbox!ReplyAnswered, Inbox!onSent
      <4>3. QED
        BY <1>0, <3>1, <4>1, <4>2
    <3>3. CASE Inbox!Heard(s) /\ replies[s].answer = "error"
      <4>1. reply' = [reply EXCEPT !.sending = 0] /\ UNCHANGED selection
        BY <1>9, <3>3 DEF Inbox!ReplyAnswered
      <4>2. QED
        BY <1>0, <4>1
    <3>4. CASE ~(Inbox!Heard(s) /\ replies[s].answer \in {"ok", "error"})
      BY <1>0, <1>9, <3>4 DEF Inbox!ReplyAnswered
    <3>5. QED
      BY <3>2, <3>3, <3>4
  <2>5. QED
    BY <1>0, <2>1, <2>3, <2>4, PaneTyped
<1>10. ASSUME NEW q \in Inbox!Queries,
              Inbox!Poll(q) \/ Inbox!Read(q) \/ Inbox!FetchOk(q) \/ Inbox!FetchFails(q)
       PROVE  InboxTypes'
  <2>1. UNCHANGED <<selection, version, moves>> /\ reply' \in {reply, Inbox!Empty}
    BY <1>10 DEF Inbox!Poll, Inbox!Read, Inbox!FetchOk, Inbox!FetchFails, Inbox!Land
  <2>2. PICK e \in {Inbox!Fetched(queries[q]), [queries[q] EXCEPT !.fetch = Inbox!Data(version)],
                    Inbox!Landed(queries[q], queries[q].fetch),
                    Inbox!Landed(queries[q], Inbox!Failure)} : queries' = [queries EXCEPT ![q] = e]
    BY <1>10 DEF Inbox!Poll, Inbox!Read, Inbox!FetchOk, Inbox!FetchFails, Inbox!Land
  <2>3. OfVersions(e, version)
    <3> DEFINE had == queries[q]
    <3>1. /\ OfVersions([had EXCEPT !.fetch = Inbox!Data(version)], version)
          /\ OfVersions(Inbox!Fetched(had), version)
          /\ OfVersions(Inbox!Landed(had, had.fetch), version)
          /\ OfVersions(Inbox!Landed(had, Inbox!Failure), version)
      BY <1>0, VersionsStay
    <3>2. QED
      BY <2>2, <3>1
  <2>4. \A r \in Inbox!Queries : OfVersions(queries'[r], version')
    BY <1>0, <2>1, <2>2, <2>3
  <2>5. reply' \in [text : BOOLEAN, sending : 0 .. InboxSlots]
    <3>1. Inbox!Empty \in [text : BOOLEAN, sending : 0 .. InboxSlots]
      BY <1>0 DEF Inbox!Empty
    <3>2. QED
      BY <1>0, <2>1, <3>1
  <2>6. QED
    BY <1>0, <2>1, <2>4, <2>5, PaneTyped
<1>11. QED
  BY <1>1, <1>2, <1>3, <1>4, <1>5, <1>6, <1>7, <1>8, <1>9, <1>10 DEF Inbox!Next

-----------------------------------------------------------------------------
(* The top-up                                                              *)

\* A balance that has the credit in it once it is in, and its fetch if that was read.
CreditedInv(q) ==
  /\ q.held.is = "data" /\ q.fetch = Buying!NoFetch => q.held.at = 1
  /\ q.fetch.is = "data" => q.fetch.at = 1

\* The page asked for the balance since it said PAID, so the credit is on its way; and
\* the checkout asked for last, while it is under way, is what the user wants.
TopUpInv ==
  /\ DOMAIN purchases = Buying!Queries
  /\ \A q \in Buying!Queries : DOMAIN purchases[q] = {"held", "fetch"}
  /\ covered => payment = "PAID" /\ CreditedInv(purchases["summary"])
  /\ DOMAIN checkouts = Buying!Slots
  /\ last # 0 => last \in Buying!Slots /\ checkouts[last] = wanted

\* What happens to a query keeps its fields, and the credit on its way.
LEMMA CreditStays ==
  ASSUME NEW q, DOMAIN q = {"held", "fetch"}
  PROVE  /\ \A f : /\ DOMAIN [q EXCEPT !.fetch = f] = {"held", "fetch"}
                   /\ [q EXCEPT !.fetch = f].held = q.held /\ [q EXCEPT !.fetch = f].fetch = f
         /\ CreditedInv([q EXCEPT !.fetch = Buying!Asked])
         /\ CreditedInv([q EXCEPT !.fetch = Buying!Data(1)])
         /\ DOMAIN Buying!Fetched(q) = {"held", "fetch"}
         /\ q.fetch = Buying!NoFetch \/ CreditedInv(q) => CreditedInv(Buying!Fetched(q))
         /\ DOMAIN Buying!Invalidated(q) = {"held", "fetch"}
         /\ q.held # Buying!NoData \/ q.fetch = Buying!NoFetch \/ CreditedInv(q)
              => CreditedInv(Buying!Invalidated(q))
         /\ \A a : DOMAIN Buying!Landed(q, a) = {"held", "fetch"}
         /\ CreditedInv(q) => CreditedInv(Buying!Landed(q, q.fetch))
         /\ CreditedInv(Buying!Landed(q, Buying!Failure))
<1> DEFINE given(f)  == [q EXCEPT !.fetch = f]
           landed(a) == Buying!Landed(q, a)
<1>1. /\ Buying!Asked.is = "asked" /\ Buying!NoFetch.is = "no fetch"
      /\ Buying!Failure.is = "refusal"
      /\ Buying!Data(1).is = "data" /\ Buying!Data(1).at = 1
  BY DEF Buying!Asked, Buying!NoFetch, Buying!Failure, Buying!Data
<1>2. \A f : DOMAIN given(f) = {"held", "fetch"} /\ given(f).held = q.held /\ given(f).fetch = f
  OBVIOUS
<1>3. \A a : /\ DOMAIN landed(a) = {"held", "fetch"} /\ landed(a).held = a
             /\ landed(a).fetch = Buying!NoFetch
  BY DEF Buying!Landed
<1> HIDE DEF given, landed
<1>4. CreditedInv(given(Buying!Asked)) /\ CreditedInv(given(Buying!Data(1)))
  BY <1>1, <1>2 DEF CreditedInv
<1>5. CreditedInv(q) => CreditedInv(landed(q.fetch))
  BY <1>1, <1>3 DEF CreditedInv
<1>6. CreditedInv(landed(Buying!Failure))
  BY <1>1, <1>3 DEF CreditedInv
<1>7. Buying!Fetched(q) = IF q.fetch = Buying!NoFetch THEN given(Buying!Asked) ELSE q
  BY DEF Buying!Fetched, given
<1>8. Buying!Invalidated(q) = IF q.fetch # Buying!NoFetch /\ q.held = Buying!NoData
                                THEN q ELSE given(Buying!Asked)
  BY DEF Buying!Invalidated, given
<1>9. /\ DOMAIN Buying!Fetched(q) = {"held", "fetch"}
      /\ q.fetch = Buying!NoFetch \/ CreditedInv(q) => CreditedInv(Buying!Fetched(q))
  BY <1>2, <1>4, <1>7
<1>10. /\ DOMAIN Buying!Invalidated(q) = {"held", "fetch"}
       /\ q.held # Buying!NoData \/ q.fetch = Buying!NoFetch \/ CreditedInv(q)
            => CreditedInv(Buying!Invalidated(q))
  BY <1>2, <1>4, <1>8
<1>11. QED
  BY <1>2, <1>3, <1>4, <1>5, <1>6, <1>9, <1>10 DEF given, landed

\* The queries change and the checkouts do not.
LEMMA QueriesKeep ==
  ASSUME TopUpInv, UNCHANGED <<checkouts, last, wanted>>,
         DOMAIN purchases' = Buying!Queries,
         \A q \in Buying!Queries : DOMAIN purchases'[q] = {"held", "fetch"},
         covered' => payment' = "PAID" /\ CreditedInv(purchases'["summary"])
  PROVE  TopUpInv'
BY DEF TopUpInv, CreditedInv

LEMMA AskingKeeps ==
  ASSUME TopUpInv, NEW qs, Buying!Asking(qs)
  PROVE  TopUpInv'
<1>1. /\ UNCHANGED <<payment, covered, checkouts, last, wanted>>
      /\ purchases' = [q \in Buying!Queries |-> IF q \in qs THEN Buying!Fetched(purchases[q])
                                                          ELSE purchases[q]]
  BY DEF Buying!Asking
<1>2. /\ DOMAIN purchases' = Buying!Queries
      /\ \A q \in Buying!Queries : DOMAIN purchases'[q] = {"held", "fetch"}
  BY <1>1, CreditStays DEF TopUpInv
<1>3. /\ "summary" \in Buying!Queries
      /\ purchases'["summary"] \in {Buying!Fetched(purchases["summary"]), purchases["summary"]}
  BY <1>1 DEF Buying!Queries
<1>4. covered' => payment' = "PAID" /\ CreditedInv(purchases'["summary"])
  BY <1>1, <1>3, CreditStays DEF TopUpInv
<1>5. QED
  BY <1>1, <1>2, <1>4, QueriesKeep

LEMMA ReadKeeps ==
  ASSUME TopUpInv, NEW q \in Buying!Queries, Buying!Read(q)
  PROVE  TopUpInv'
<1>1. /\ UNCHANGED <<payment, covered, checkouts, last, wanted>>
      /\ \E n : purchases' = [purchases EXCEPT ![q] = [purchases[q] EXCEPT !.fetch = n]]
  BY DEF Buying!Read, TopUpInv
<1>2. /\ DOMAIN purchases' = Buying!Queries
      /\ \A p \in Buying!Queries : DOMAIN purchases'[p] = {"held", "fetch"}
  BY <1>1, CreditStays DEF TopUpInv
<1>3. ASSUME covered PROVE CreditedInv(purchases'["summary"])
  <2>1. Buying!Settled = 1 /\ "summary" \in Buying!Queries
    BY <1>3 DEF TopUpInv, Buying!Settled, Buying!Queries
  <2>2. CASE q = "summary"
    <3>1. purchases'["summary"] = [purchases["summary"] EXCEPT !.fetch = Buying!Data(1)]
      BY <2>1, <2>2 DEF Buying!Read, TopUpInv
    <3>2. DOMAIN purchases["summary"] = {"held", "fetch"}
      BY <2>1 DEF TopUpInv
    <3>3. CreditedInv([purchases["summary"] EXCEPT !.fetch = Buying!Data(1)])
      BY <3>2, CreditStays
    <3>4. QED
      BY <3>1, <3>3
  <2>3. CASE q # "summary"
    BY <1>1, <1>3, <2>1, <2>3 DEF TopUpInv
  <2>4. QED
    BY <2>2, <2>3
<1>4. QED
  BY <1>1, <1>2, <1>3, QueriesKeep DEF TopUpInv

\* An answer lands: the packages mount the rest, and PAID has the balance fetched.
LEMMA LandKeeps ==
  ASSUME TopUpInv, NEW q \in Buying!Queries,
         NEW answer \in {purchases[q].fetch, Buying!Failure}, Buying!Land(q, answer)
  PROVE  TopUpInv'
<1> DEFINE qs == [purchases EXCEPT ![q] = Buying!Landed(@, answer)]
<1>1. /\ UNCHANGED <<payment, checkouts, last, wanted>>
      /\ \/ Buying!Loaded(qs, "packages") /\ ~Buying!Loaded(purchases, "packages") /\ Buying!Mount(qs)
         \/ q = "outcome" /\ Buying!SaysPaid(qs) /\ Buying!TopUpOutcome(qs)
         \/ purchases' = qs /\ UNCHANGED covered
  BY DEF Buying!Land
<1>2. /\ DOMAIN qs = Buying!Queries /\ qs[q] = Buying!Landed(purchases[q], answer)
      /\ \A p \in Buying!Queries : p # q => qs[p] = purchases[p]
  BY DEF TopUpInv
<1> HIDE DEF qs
<1>3. \A p \in Buying!Queries : DOMAIN qs[p] = {"held", "fetch"}
  <2>1. DOMAIN qs[q] = {"held", "fetch"}
    BY <1>2 DEF Buying!Landed
  <2>2. QED
    BY <1>2, <2>1 DEF TopUpInv
<1>4. "summary" \in Buying!Queries /\ "outcome" \in Buying!Queries /\ "packages" \in Buying!Queries
  BY DEF Buying!Queries
<1>5. covered => payment = "PAID" /\ CreditedInv(qs["summary"])
  <2> SUFFICES ASSUME covered PROVE CreditedInv(qs["summary"])
    BY DEF TopUpInv
  <2>1. CreditedInv(purchases["summary"]) /\ DOMAIN purchases["summary"] = {"held", "fetch"}
    BY <1>4 DEF TopUpInv
  <2>2. /\ CreditedInv(Buying!Landed(purchases["summary"], purchases["summary"].fetch))
        /\ CreditedInv(Buying!Landed(purchases["summary"], Buying!Failure))
    BY <2>1, CreditStays
  <2>3. QED
    BY <1>2, <1>4, <2>1, <2>2
<1>6. CASE Buying!Mount(qs)
  <2>1. /\ purchases' = [p \in Buying!Queries |->
                IF p \in Buying!TopUpScreen(qs) \ {"packages"} THEN Buying!Fetched(qs[p]) ELSE qs[p]]
        /\ covered' = (covered \/ (Buying!SaysPaid(qs) /\ qs["summary"].fetch = Buying!NoFetch))
    BY <1>6 DEF Buying!Mount
  <2>2. /\ DOMAIN purchases' = Buying!Queries
        /\ \A p \in Buying!Queries : DOMAIN purchases'[p] = {"held", "fetch"}
    BY <1>3, <2>1, CreditStays
  <2>3. purchases'["summary"] = IF "summary" \in Buying!TopUpScreen(qs) \ {"packages"}
                                  THEN Buying!Fetched(qs["summary"]) ELSE qs["summary"]
    BY <1>4, <2>1
  <2>4. Buying!SaysPaid(qs) => /\ payment = "PAID"
                               /\ "summary" \in Buying!TopUpScreen(qs) \ {"packages"}
    BY DEF Buying!SaysPaid, Buying!TopUpScreen
  <2>5. covered' => payment' = "PAID" /\ CreditedInv(purchases'["summary"])
    BY <1>1, <1>3, <1>4, <1>5, <2>1, <2>3, <2>4, CreditStays
  <2>6. QED
    BY <1>1, <2>2, <2>5, QueriesKeep
<1>7. CASE q = "outcome" /\ Buying!SaysPaid(qs) /\ Buying!TopUpOutcome(qs)
  <2>1. /\ purchases' = [qs EXCEPT !["summary"] = Buying!Invalidated(qs["summary"])]
        /\ covered' = (covered \/ qs["summary"].held # Buying!NoData
                         \/ qs["summary"].fetch = Buying!NoFetch)
        /\ payment = "PAID"
    BY <1>2, <1>4, <1>7 DEF Buying!TopUpOutcome, Buying!SaysPaid
  <2>2. /\ DOMAIN purchases' = Buying!Queries
        /\ \A p \in Buying!Queries : DOMAIN purchases'[p] = {"held", "fetch"}
        /\ purchases'["summary"] = Buying!Invalidated(qs["summary"])
    BY <1>2, <1>3, <1>4, <2>1, CreditStays
  <2>3. covered' => payment' = "PAID" /\ CreditedInv(purchases'["summary"])
    BY <1>1, <1>3, <1>4, <1>5, <2>1, <2>2, CreditStays
  <2>4. QED
    BY <1>1, <2>2, <2>3, QueriesKeep
<1>8. CASE purchases' = qs /\ UNCHANGED covered
  BY <1>1, <1>2, <1>3, <1>5, <1>8, QueriesKeep
<1>9. QED
  BY <1>1, <1>6, <1>7, <1>8

LEMMA CheckoutSlotIs ==
  ASSUME Buying!Free # {}
  PROVE  Buying!Slot \in Buying!Slots
<1>1. Buying!Free \subseteq Nat
  BY DEF Buying!Free, Buying!Slots
<1>2. \E s \in Buying!Free : \A t \in Buying!Free : s <= t
  BY <1>1, LeastIs
<1>3. QED
  BY <1>2 DEF Buying!Slot, Buying!Free

LEMMA CheckoutsKeep ==
  ASSUME TopUpInv,
         \/ \E c \in Codes : Buying!buy(c)
         \/ \E s \in Buying!Slots : Buying!useTopUpCheckout(s)
  PROVE  TopUpInv'
<1>1. UNCHANGED <<payment, purchases, covered>>
  BY DEF Buying!buy, Buying!useTopUpCheckout
<1>2. ASSUME NEW c \in Codes, Buying!buy(c)
      PROVE  /\ DOMAIN checkouts' = Buying!Slots /\ last' \in Buying!Slots
             /\ checkouts'[last'] = wanted'
  BY <1>2, CheckoutSlotIs DEF Buying!buy, TopUpInv
<1>3. ASSUME NEW s \in Buying!Slots, Buying!useTopUpCheckout(s)
      PROVE  /\ DOMAIN checkouts' = Buying!Slots
             /\ last' # 0 => last' \in Buying!Slots /\ checkouts'[last'] = wanted'
  BY <1>3 DEF Buying!useTopUpCheckout, TopUpInv
<1>4. QED
  BY <1>1, <1>2, <1>3 DEF TopUpInv

LEMMA TopUpInit ==
  ASSUME Buying!Init PROVE TopUpInv
<1>1. /\ DOMAIN purchases = Buying!Queries /\ ~covered /\ last = 0
      /\ DOMAIN checkouts = Buying!Slots
  BY DEF Buying!Init
<1>2. \A q \in Buying!Queries : DOMAIN purchases[q] = {"held", "fetch"}
  BY DEF Buying!Init
<1>3. QED
  BY <1>1, <1>2 DEF TopUpInv

LEMMA TopUpStep ==
  ASSUME TopUpInv, [Buying!Next]_topUpVars PROVE TopUpInv'
<1>1. CASE UNCHANGED topUpVars
  <2>1. UNCHANGED <<payment, purchases, covered, checkouts, last, wanted>>
    BY <1>1 DEF topUpVars
  <2>2. QED
    BY <2>1 DEF TopUpInv, CreditedInv
<1>2. CASE Buying!PaymentSettles
  <2>1. UNCHANGED <<purchases, covered, checkouts, last, wanted>> /\ payment = "PENDING"
    BY <1>2 DEF Buying!PaymentSettles
  <2>2. QED
    BY <2>1 DEF TopUpInv, CreditedInv
<1>3. CASE Buying!Refocus \/ Buying!Poll
  BY <1>3, AskingKeeps DEF Buying!Refocus, Buying!Poll
<1>4. CASE \E q \in Buying!Queries : Buying!Read(q)
  BY <1>4, ReadKeeps
<1>5. CASE \E q \in Buying!Queries : Buying!FetchOk(q) \/ Buying!FetchFails(q)
  BY <1>5, LandKeeps DEF Buying!FetchOk, Buying!FetchFails
<1>6. CASE \/ \E c \in Codes : Buying!buy(c)
           \/ \E s \in Buying!Slots : Buying!useTopUpCheckout(s)
  BY <1>6, CheckoutsKeep
<1>7. QED
  BY <1>1, <1>2, <1>3, <1>4, <1>5, <1>6 DEF Buying!Next

\* The balance on show has the credit in it.
LEMMA TopUpShows ==
  ASSUME TopUpInv PROVE Buying!PaidIsInBalance
BY DEF TopUpInv, CreditedInv, Buying!PaidIsInBalance, Buying!Loaded

\* The browser leaves for what the user asked for last.
LEMMA LeavesAsWanted ==
  ASSUME TopUpInv, Buying!Next, leaving' # leaving PROVE leaving' = wanted
<1>1. PICK s \in Buying!Slots : Buying!useTopUpCheckout(s)
  BY DEF Buying!Next, Buying!buy, Buying!PaymentSettles, Buying!Refocus, Buying!Poll,
         Buying!Asking, Buying!Read, Buying!FetchOk, Buying!FetchFails, Buying!Land
<1>2. s = last /\ s # 0 /\ leaving' = checkouts[s]
  BY <1>1 DEF Buying!useTopUpCheckout, Buying!Heard, Buying!Slots
<1>3. QED
  BY <1>2 DEF TopUpInv

-----------------------------------------------------------------------------
(* The types of the top-up *)

\* What a query of the page holds, and what was read for it, is of before or after the
\* payment was settled.
TopUpTypes ==
  /\ Buying!TypeOK
  /\ \A q \in Buying!Queries : OfVersions(purchases[q], Buying!Settled)
  /\ \A s \in Buying!Slots : checkouts[s] \in Codes \cup {Buying!Nothing}

LEMMA PurchasesStay ==
  ASSUME NEW q, NEW n \in Nat, OfVersions(q, n)
  PROVE  /\ OfVersions(Buying!Fetched(q), n) /\ OfVersions(Buying!Invalidated(q), n)
         /\ \A m \in 0 .. n : OfVersions([q EXCEPT !.fetch = Buying!Data(m)], n)
         /\ OfVersions(Buying!Landed(q, q.fetch), n)
         /\ OfVersions(Buying!Landed(q, Buying!Failure), n)
         /\ \A m \in Nat : m >= n => OfVersions(q, m)
<1> DEFINE asking == [q EXCEPT !.fetch = Buying!Asked]
           given(m)  == [q EXCEPT !.fetch = Buying!Data(m)]
           landed(a) == Buying!Landed(q, a)
<1>1. /\ Buying!Asked.at = 0 /\ Buying!Failure.at = 0 /\ 0 \in 0 .. n
      /\ \A m \in 0 .. n : Buying!Data(m).at \in 0 .. n
  BY DEF Buying!Asked, Buying!Failure, Buying!Data
<1>2. /\ DOMAIN asking = {"held", "fetch"} /\ asking.held = q.held /\ asking.fetch = Buying!Asked
      /\ \A m : /\ DOMAIN given(m) = {"held", "fetch"} /\ given(m).held = q.held
                /\ given(m).fetch = Buying!Data(m)
  BY DEF OfVersions
<1>3. \A a : /\ DOMAIN landed(a) = {"held", "fetch"} /\ landed(a).held = a
             /\ landed(a).fetch = Buying!NoFetch
  BY DEF Buying!Landed
<1> HIDE DEF asking, given, landed
<1>4. OfVersions(asking, n)
  BY <1>1, <1>2 DEF OfVersions
<1>5. \A m \in 0 .. n : OfVersions(given(m), n)
  BY <1>1, <1>2 DEF OfVersions
<1>6. Buying!NoFetch.at = 0
  BY DEF Buying!NoFetch
<1>7. OfVersions(landed(q.fetch), n)
  BY <1>1, <1>3, <1>6 DEF OfVersions
<1>8. OfVersions(landed(Buying!Failure), n)
  BY <1>1, <1>3, <1>6 DEF OfVersions
<1>9. \A m \in Nat : m >= n => OfVersions(q, m)
  BY DEF OfVersions
<1>10. QED
  BY <1>4, <1>5, <1>7, <1>8, <1>9 DEF Buying!Fetched, Buying!Invalidated, asking, given, landed

LEMMA PurchasesKept ==
  ASSUME NEW q, NEW n \in Nat, OfVersions(q, n),
         NEW e \in {q, Buying!Fetched(q), Buying!Invalidated(q)}
  PROVE  OfVersions(e, n)
BY PurchasesStay

LEMMA PurchasesTyped ==
  ASSUME TopUpInv', Buying!TopUpAssumption, covered' \in BOOLEAN,
         payment' \in {Buying!Nothing, "PENDING", "PAID", "EXPIRED"},
         \A q \in Buying!Queries : OfVersions(purchases'[q], Buying!Settled'),
         \A s \in Buying!Slots : checkouts'[s] \in Codes \cup {Buying!Nothing},
         {wanted', leaving'} \subseteq Codes \cup {Buying!Nothing}
  PROVE  TopUpTypes'
<1>1. last' \in 0 .. TopUpSlots /\ (last' # 0 => checkouts'[last'] = wanted')
  BY DEF TopUpInv, Buying!Slots, Buying!TopUpAssumption
<1>2. \A q \in Buying!Queries : purchases'[q].held.at \in 0 .. Buying!Settled'
  BY DEF OfVersions
<1>3. Buying!TypeOK'
  BY <1>1, <1>2 DEF Buying!TypeOK
<1>4. QED
  BY <1>3 DEF TopUpTypes

LEMMA TopUpTypesInit ==
  ASSUME Buying!TopUpAssumption, Buying!Init PROVE TopUpTypes
<1>1. /\ payment \in {Buying!Nothing, "PENDING", "PAID", "EXPIRED"} /\ covered \in BOOLEAN
      /\ checkouts = [s \in Buying!Slots |-> Buying!Nothing]
      /\ last = 0 /\ wanted = Buying!Nothing /\ leaving = Buying!Nothing
  BY DEF Buying!Init
<1>2. Buying!Settled \in 0 .. 1
  BY DEF Buying!Settled
<1>3. \A q \in Buying!Queries : OfVersions(purchases[q], Buying!Settled)
  <2> SUFFICES ASSUME NEW q \in Buying!Queries PROVE OfVersions(purchases[q], Buying!Settled)
    OBVIOUS
  <2>1. PICK f \in {Buying!Asked, Buying!NoFetch} :
          purchases[q] = [held |-> Buying!NoData, fetch |-> f]
    BY DEF Buying!Init
  <2>2. Buying!Asked.at = 0 /\ Buying!NoFetch.at = 0 /\ Buying!NoData.at = 0
    BY DEF Buying!NoData, Buying!Asked, Buying!NoFetch
  <2>3. f.at = 0
    BY <2>2
  <2>4. QED
    BY <1>2, <2>1, <2>2, <2>3 DEF OfVersions
<1>4. \A q \in Buying!Queries : purchases[q].held.at \in 0 .. Buying!Settled
  BY <1>3 DEF OfVersions
<1>5. Buying!TypeOK
  BY <1>1, <1>4 DEF Buying!TypeOK, Buying!TopUpAssumption
<1>6. QED
  BY <1>1, <1>3, <1>5 DEF TopUpTypes

\* No step of the top-up leaves its types.
LEMMA TopUpTypesStep ==
  ASSUME TopUpInv, TopUpInv', TopUpTypes, Buying!TopUpAssumption, [Buying!Next]_topUpVars
  PROVE  TopUpTypes'
<1> DEFINE n == Buying!Settled
<1>0. /\ covered \in BOOLEAN /\ payment \in {Buying!Nothing, "PENDING", "PAID", "EXPIRED"}
      /\ \A q \in Buying!Queries : OfVersions(purchases[q], n)
      /\ \A s \in Buying!Slots : checkouts[s] \in Codes \cup {Buying!Nothing}
      /\ {wanted, leaving} \subseteq Codes \cup {Buying!Nothing}
      /\ DOMAIN purchases = Buying!Queries /\ DOMAIN checkouts = Buying!Slots
  BY DEF TopUpTypes, Buying!TypeOK, TopUpInv
<1>n. n \in Nat /\ n \in 0 .. 1 /\ (UNCHANGED payment => n' = n)
  BY DEF Buying!Settled
<1> HIDE DEF n
<1>q. ASSUME UNCHANGED <<payment, checkouts, wanted, leaving>>, covered' \in BOOLEAN,
             \A q \in Buying!Queries : OfVersions(purchases'[q], n)
      PROVE  TopUpTypes'
  <2>1. n' = n
    BY <1>n, <1>q
  <2>2. \A q \in Buying!Queries : OfVersions(purchases'[q], Buying!Settled')
    BY <1>q, <2>1 DEF n
  <2>3. QED
    BY <1>0, <1>q, <2>2, PurchasesTyped
<1>1. CASE UNCHANGED topUpVars
  <2>1. UNCHANGED <<payment, purchases, covered, checkouts, wanted, leaving>>
    BY <1>1 DEF topUpVars
  <2>2. \A q \in Buying!Queries : OfVersions(purchases'[q], n)
    BY <1>0, <2>1
  <2>3. QED
    BY <1>0, <1>q, <2>1, <2>2
<1>2. CASE Buying!PaymentSettles
  <2>1. /\ UNCHANGED <<purchases, covered, checkouts, wanted, leaving>>
        /\ payment' \in {"PAID", "EXPIRED"}
    BY <1>2 DEF Buying!PaymentSettles
  <2>2. Buying!Settled' = 1
    BY <2>1 DEF Buying!Settled
  <2>3. ASSUME NEW q \in Buying!Queries PROVE OfVersions(purchases'[q], Buying!Settled')
    <3>1. OfVersions(purchases[q], n) /\ 1 >= n /\ 1 \in Nat /\ purchases'[q] = purchases[q]
      BY <1>0, <1>n, <2>1
    <3>2. OfVersions(purchases[q], 1)
      BY <1>n, <3>1, PurchasesStay
    <3>3. QED
      BY <2>2, <3>1, <3>2
  <2>4. QED
    BY <1>0, <2>1, <2>3, PurchasesTyped
<1>3. CASE Buying!Refocus \/ Buying!Poll
  <2>1. PICK qs : Buying!Asking(qs)
    BY <1>3 DEF Buying!Refocus, Buying!Poll
  <2>2. /\ UNCHANGED <<payment, covered, checkouts, wanted, leaving>>
        /\ \A q \in Buying!Queries : purchases'[q] \in {purchases[q], Buying!Fetched(purchases[q])}
    BY <2>1 DEF Buying!Asking
  <2>3. \A q \in Buying!Queries : OfVersions(purchases'[q], n)
    BY <1>0, <1>n, <2>2, PurchasesKept
  <2>4. QED
    BY <1>0, <1>q, <2>2, <2>3
<1>4. ASSUME NEW q \in Buying!Queries, Buying!Read(q) PROVE TopUpTypes'
  <2>1. UNCHANGED <<payment, covered, checkouts, wanted, leaving>>
    BY <1>4 DEF Buying!Read
  <2>r. 0 \in 0 .. n /\ n \in 0 .. n
    BY <1>n
  <2>2. PICK m \in 0 .. n : purchases' = [purchases EXCEPT ![q].fetch = Buying!Data(m)]
    <3>1. CASE q = "packages"
      BY <1>4, <2>r, <3>1 DEF Buying!Read
    <3>2. CASE q # "packages"
      <4>1. purchases' = [purchases EXCEPT ![q].fetch = Buying!Data(n)]
        BY <1>4, <3>2 DEF Buying!Read, n
      <4>2. QED
        BY <2>r, <4>1
    <3>3. QED
      BY <3>1, <3>2
  <2>3. purchases'[q] = [purchases[q] EXCEPT !.fetch = Buying!Data(m)]
    BY <1>0, <2>2
  <2>4. OfVersions(purchases'[q], n)
    <3>1. n \in Nat /\ OfVersions(purchases[q], n)
      BY <1>0, <1>n
    <3>2. \A k \in 0 .. n : OfVersions([purchases[q] EXCEPT !.fetch = Buying!Data(k)], n)
      BY <3>1, PurchasesStay, Zenon
    <3>3. QED
      BY <2>3, <3>2
  <2>5. \A r \in Buying!Queries : OfVersions(purchases'[r], n)
    BY <1>0, <2>2, <2>4
  <2>6. QED
    BY <1>0, <1>q, <2>1, <2>5
<1>5. ASSUME NEW q \in Buying!Queries, Buying!FetchOk(q) \/ Buying!FetchFails(q)
      PROVE  TopUpTypes'
  <2>1. PICK answer \in {purchases[q].fetch, Buying!Failure} : Buying!Land(q, answer)
    BY <1>5 DEF Buying!FetchOk, Buying!FetchFails
  <2> DEFINE qs == [purchases EXCEPT ![q] = Buying!Landed(@, answer)]
  <2>2. /\ UNCHANGED <<payment, checkouts, wanted, leaving>>
        /\ \/ Buying!Mount(qs)
           \/ Buying!TopUpOutcome(qs)
           \/ purchases' = qs /\ UNCHANGED covered
    BY <2>1 DEF Buying!Land
  <2>3. \A r \in Buying!Queries : OfVersions(qs[r], n)
    <3>1. OfVersions(Buying!Landed(purchases[q], answer), n)
      BY <1>0, <1>n, PurchasesStay
    <3>2. QED
      BY <1>0, <3>1
  <2>d. DOMAIN qs = Buying!Queries
    BY <1>0
  <2> HIDE DEF qs
  <2>4. ASSUME Buying!Mount(qs) PROVE TopUpTypes'
    <3>1. covered' \in BOOLEAN
      BY <2>4, <1>0 DEF Buying!Mount
    <3>2. \A r \in Buying!Queries : purchases'[r] \in {qs[r], Buying!Fetched(qs[r])}
      BY <2>4 DEF Buying!Mount
    <3>3. \A r \in Buying!Queries : OfVersions(purchases'[r], n)
      BY <1>n, <2>3, <3>2, PurchasesKept
    <3>4. QED
      BY <1>q, <2>2, <3>1, <3>3
  <2>5. ASSUME Buying!TopUpOutcome(qs) PROVE TopUpTypes'
    <3>1. covered' \in BOOLEAN
      BY <2>5, <1>0 DEF Buying!TopUpOutcome
    <3>2. \A r \in Buying!Queries : purchases'[r] \in {qs[r], Buying!Invalidated(qs[r])}
      BY <2>5, <2>d DEF Buying!TopUpOutcome
    <3>3. \A r \in Buying!Queries : OfVersions(purchases'[r], n)
      BY <1>n, <2>3, <3>2, PurchasesKept
    <3>4. QED
      BY <1>q, <2>2, <3>1, <3>3
  <2>6. ASSUME purchases' = qs, UNCHANGED covered PROVE TopUpTypes'
    BY <1>0, <1>q, <2>2, <2>3, <2>6
  <2>7. QED
    BY <2>2, <2>4, <2>5, <2>6
<1>6. ASSUME NEW c \in Codes, Buying!buy(c) PROVE TopUpTypes'
  <2>1. /\ UNCHANGED <<payment, purchases, covered, leaving>> /\ wanted' = c
        /\ checkouts' = [checkouts EXCEPT ![Buying!Slot] = c]
    BY <1>6 DEF Buying!buy
  <2>2. \A s \in Buying!Slots : checkouts'[s] \in Codes \cup {Buying!Nothing}
    BY <1>0, <2>1
  <2>3. n' = n
    BY <1>n, <2>1
  <2>4. \A q \in Buying!Queries : OfVersions(purchases'[q], Buying!Settled')
    BY <1>0, <2>1, <2>3 DEF n
  <2>5. QED
    BY <1>0, <2>1, <2>2, <2>4, PurchasesTyped
<1>7. ASSUME NEW s \in Buying!Slots, Buying!useTopUpCheckout(s) PROVE TopUpTypes'
  <2>1. /\ UNCHANGED <<payment, purchases, covered, wanted>>
        /\ leaving' \in {leaving, checkouts[s]}
        /\ checkouts' = [checkouts EXCEPT ![s] = Buying!Nothing]
    BY <1>7 DEF Buying!useTopUpCheckout
  <2>2. \A t \in Buying!Slots : checkouts'[t] \in Codes \cup {Buying!Nothing}
    BY <1>0, <2>1
  <2>3. n' = n
    BY <1>n, <2>1
  <2>4. \A q \in Buying!Queries : OfVersions(purchases'[q], Buying!Settled')
    BY <1>0, <2>1, <2>3 DEF n
  <2>5. QED
    BY <1>0, <2>1, <2>2, <2>4, PurchasesTyped
<1>8. QED
  BY <1>1, <1>2, <1>3, <1>4, <1>5, <1>6, <1>7 DEF Buying!Next

=============================================================================
