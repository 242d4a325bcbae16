--------------------------- MODULE ServicesProofs ---------------------------
(***************************************************************************)
(* What the five services of Application keep, for any handlers, runs,     *)
(* people, lists and bounds: no STOP and no move to the opt-out list is    *)
(* lost, an account's contacts and a list's members are counted, what is   *)
(* asked or delivered again is acted on once, and what is billed is what   *)
(* was sent.  Each service has an inductive invariant of its own and,      *)
(* after it, the types of its state.  ApplicationProofs carries them       *)
(* through the composition and has the theorems.                           *)
(***************************************************************************)
EXTENDS Services, Integers, Sequences, FiniteSets, FiniteSetTheorems, TLAPS

-----------------------------------------------------------------------------
(* Replies *)

\* A handler that is about to record a STOP has opted the person out.
StopsAreOut ==
  \A h \in Handlers :
    /\ handler[h].at = "opt out" => handler[h].inbound \in stops
    /\ handler[h].at = "record" /\ handler[h].inbound \in stops => optedOut \/ freed

\* A handler past the marker of a reply is the only one there, and what it has yet to
\* do was not done.
Past(h, i) == handler[h].at \in {"match", "act"} /\ handler[h].inbound = i

OneIsPast ==
  \A h \in Handlers, i \in Inbounds : Past(h, i) =>
    /\ i \in stored /\ noted[i] = 0
    /\ \A r \in 1..Rules : handler[h].at = "match" \/ r \in handler[h].rules => ran[i][r] = 0
    /\ \A g \in Handlers \ {h} : ~Past(g, i)

\* What is not recorded was not acted on, and what is recorded is counted unless a handler
\* is at it or one died.
DoneOnce ==
  \A i \in Inbounds :
    /\ noted[i] <= 1 /\ \A r \in 1..Rules : ran[i][r] <= 1
    /\ i \notin stored => noted[i] = 0 /\ \A r \in 1..Rules : ran[i][r] = 0
    /\ raises = 0 /\ i \in stored /\ (\A h \in Handlers : ~Past(h, i)) => noted[i] = 1

Stages == {"idle", "find", "opt out", "record", "match", "act"}

HandlersAre ==
  /\ handler \in [Handlers -> [at: Stages, inbound: Inbounds \cup {"none"},
                              rules: SUBSET (1..Rules)]]
  /\ \A h \in Handlers : handler[h].at # "idle" => handler[h].inbound \in Inbounds

CountsAre ==
  /\ stored \subseteq Inbounds
  /\ ran \in [Inbounds -> [1..Rules -> Nat]]
  /\ noted \in [Inbounds -> Nat]
  /\ raises \in Nat

RepliesInv ==
  /\ HandlersAre
  /\ CountsAre
  /\ Inbound!StopsAreKept
  /\ StopsAreOut
  /\ OneIsPast
  /\ DoneOnce

\* What follows a place in a path of two or three.
LEMMA FollowsInPair ==
  ASSUME NEW path, NEW a, NEW b, path[1] = a, path[2] = b, a # b
  PROVE  \A next : (\E k \in 2..2 : path[k - 1] = a /\ path[k] = next) <=> next = b
<1>1. \A k \in 2..2 : k = 2
  OBVIOUS
<1>2. 2 \in 2..2 /\ 2 - 1 = 1
  OBVIOUS
<1>3. QED
  BY <1>1, <1>2, Zenon

LEMMA FollowsInTriple ==
  ASSUME NEW path, path[1] # path[2]
  PROVE  /\ \A next : (\E k \in 2..3 : path[k - 1] = path[1] /\ path[k] = next)
                         <=> next = path[2]
         /\ \A next : (\E k \in 2..3 : path[k - 1] = path[2] /\ path[k] = next)
                         <=> next = path[3]
<1>1. \A k \in 2..3 : k = 2 \/ k = 3
  OBVIOUS
<1>2. 2 \in 2..3 /\ 3 \in 2..3 /\ 2 - 1 = 1 /\ 3 - 1 = 2
  OBVIOUS
<1>3. QED
  BY <1>1, <1>2, Zenon

\* The path of a reply: what comes first, and what after each step.
LEMMA PathGoesOn ==
  ASSUME NEW i
  PROVE  /\ Inbound!Path(i)[1] = IF i \in stops THEN "opt out" ELSE "record"
         /\ i \in stops => Inbound!After(i, "opt out") = "record"
         /\ Inbound!After(i, "record") = "match"
<1> DEFINE path == Inbound!Path(i)
<1>1. CASE i \in stops
  <2>1. path = <<"opt out", "record", "match">>
    BY <1>1 DEF Inbound!Path
  <2> HIDE DEF path
  <2>2. Len(path) = 3
    BY <2>1
  <2>3. path[1] = "opt out" /\ path[2] = "record" /\ path[3] = "match"
    BY <2>1
  <2>4. /\ \A next : (\E k \in 2..3 : path[k - 1] = path[1] /\ path[k] = next)
                         <=> next = path[2]
        /\ \A next : (\E k \in 2..3 : path[k - 1] = path[2] /\ path[k] = next)
                         <=> next = path[3]
    <3>1. path[1] # path[2]
      BY <2>3
    <3>2. QED
      BY <3>1, FollowsInTriple, Zenon
  <2>5. {path[2], path[3]} \subseteq {"record", "opt out", "match"}
    BY <2>3
  <2>6. Inbound!After(i, path[1]) = path[2]
    <3>1. path[2] \in {"record", "opt out", "match"}
            /\ \E k \in 2..Len(path) : path[k - 1] = path[1] /\ path[k] = path[2]
      <4>1. 2 \in 2..Len(path) /\ 2 - 1 = 1
        BY <2>2
      <4>2. QED
        BY <2>5, <4>1
    <3>2. \E k \in 2..Len(path) :
            path[k - 1] = path[1] /\ path[k] = Inbound!After(i, path[1])
      BY <3>1 DEF Inbound!After, path
    <3>3. QED
      BY <2>2, <2>4, <3>2
  <2>7. Inbound!After(i, path[2]) = path[3]
    <3>1. path[3] \in {"record", "opt out", "match"}
            /\ \E k \in 2..Len(path) : path[k - 1] = path[2] /\ path[k] = path[3]
      <4>1. 3 \in 2..Len(path) /\ 3 - 1 = 2
        BY <2>2
      <4>2. QED
        BY <2>5, <4>1
    <3>2. \E k \in 2..Len(path) :
            path[k - 1] = path[2] /\ path[k] = Inbound!After(i, path[2])
      BY <3>1 DEF Inbound!After, path
    <3>3. QED
      BY <2>2, <2>4, <3>2
  <2>8. QED
    BY <1>1, <2>3, <2>6, <2>7 DEF path
<1>2. CASE i \notin stops
  <2>1. path = <<"record", "match">>
    BY <1>2 DEF Inbound!Path
  <2> HIDE DEF path
  <2>2. Len(path) = 2
    BY <2>1
  <2>3. path[1] = "record" /\ path[2] = "match"
    BY <2>1
  <2>4. \A next : (\E k \in 2..2 : path[k - 1] = "record" /\ path[k] = next)
                        <=> next = "match"
    BY <2>3, FollowsInPair
  <2>5. Inbound!After(i, "record") = "match"
    BY <2>2, <2>4 DEF Inbound!After, path
  <2>6. QED
    BY <1>2, <2>3, <2>5 DEF path
<1>3. QED
  BY <1>1, <1>2
LEMMA RepliesBegin ==
  ASSUME Inbound!Init
  PROVE  RepliesInv
<1>1. PICK none : none = {}
  OBVIOUS
<1>2. handler = [h \in Handlers |-> [at |-> "idle", inbound |-> "none", rules |-> none]]
  BY <1>1 DEF Inbound!Init, Inbound!Idle
<1>3. none \in SUBSET (1..Rules)
  BY <1>1
<1>4. HandlersAre
  BY <1>2, <1>3 DEF HandlersAre, Stages
<1>5. \A h \in Handlers : handler[h].at = "idle"
  BY <1>2
<1>6. CountsAre /\ Inbound!StopsAreKept
  BY DEF Inbound!Init, CountsAre, Inbound!StopsAreKept
<1>7. StopsAreOut /\ OneIsPast
  BY <1>5 DEF StopsAreOut, OneIsPast, Past
<1>8. DoneOnce
  BY DEF Inbound!Init, DoneOnce
<1>9. QED
  BY <1>4, <1>6, <1>7, <1>8 DEF RepliesInv

\* What a step makes of its handler.
Becomes(h, at, inbound, rules) ==
  /\ HandlersAre'
  /\ handler'[h].at = at /\ handler'[h].inbound = inbound /\ handler'[h].rules = rules
  /\ \A g \in Handlers \ {h} : handler'[g] = handler[g]

LEMMA HandlerSteps ==
  ASSUME HandlersAre, NEW h \in Handlers
  PROVE  /\ \A place \in Stages :
              handler[h].inbound \in Inbounds /\ Inbound!Goto(h, place) =>
                Becomes(h, place, handler[h].inbound, handler[h].rules)
         /\ Inbound!Done(h) => Becomes(h, "idle", "none", {})
<1>1. ASSUME NEW place \in Stages, handler[h].inbound \in Inbounds, Inbound!Goto(h, place)
      PROVE  Becomes(h, place, handler[h].inbound, handler[h].rules)
  BY <1>1 DEF HandlersAre, Becomes, Inbound!Goto
<1>2. ASSUME Inbound!Done(h)
      PROVE  Becomes(h, "idle", "none", {})
  <2>1. PICK none : none = {}
    OBVIOUS
  <2>2. handler' = [handler EXCEPT ![h] = [at |-> "idle", inbound |-> "none", rules |-> none]]
    BY <1>2, <2>1 DEF Inbound!Done, Inbound!Idle
  <2>3. none \in SUBSET (1..Rules)
    BY <2>1
  <2>4. QED
    BY <2>1, <2>2, <2>3 DEF HandlersAre, Becomes, Stages
<1>3. QED
  BY <1>1, <1>2

\* The handler is somewhere before the marker, or done: nothing else depends on it.
LEMMA OthersKeep ==
  ASSUME RepliesInv, NEW h \in Handlers, NEW at \in Stages \ {"match", "act"}, NEW inbound, NEW rules,
         Becomes(h, at, inbound, rules),
         UNCHANGED <<stops, stored, ran, noted>>, raises' \in Nat,
         optedOut \/ freed => optedOut' \/ freed',
         at = "opt out" => inbound \in stops,
         at = "record" /\ inbound \in stops => optedOut' \/ freed',
         raises' = 0 => raises = 0 /\ \A i \in Inbounds : ~Past(h, i)
  PROVE  RepliesInv'
<1> USE DEF RepliesInv, Becomes, Past
<1>0. \A g \in Handlers, i \in Inbounds : Past(g, i)' => Past(g, i) /\ g # h /\ handler'[g] = handler[g]
  OBVIOUS
<1>1. HandlersAre' /\ CountsAre'
  BY DEF CountsAre
<1>2. Inbound!StopsAreKept'
  BY DEF Inbound!StopsAreKept
<1>3. StopsAreOut'
  BY DEF StopsAreOut
<1>4. OneIsPast'
  <2> SUFFICES ASSUME NEW g \in Handlers, NEW i \in Inbounds, Past(g, i)'
               PROVE  (/\ i \in stored /\ noted[i] = 0
                       /\ \A r \in 1..Rules :
                            handler[g].at = "match" \/ r \in handler[g].rules => ran[i][r] = 0
                       /\ \A f \in Handlers \ {g} : ~Past(f, i))'
    BY DEF OneIsPast
  <2>1. Past(g, i) /\ handler'[g] = handler[g]
    BY <1>0
  <2>2. \A f \in Handlers \ {g} : ~Past(f, i)'
    <3>1. OneIsPast
      OBVIOUS
    <3> HIDE DEF Past, RepliesInv, Becomes
    <3>2. QED
      BY <1>0, <2>1, <3>1 DEF OneIsPast
  <2>3. QED
    BY <2>1, <2>2 DEF OneIsPast
<1>5. DoneOnce'
  <2>1. \A g \in Handlers \ {h}, i \in Inbounds : Past(g, i)' <=> Past(g, i)
    OBVIOUS
  <2>2. DoneOnce
    OBVIOUS
  <2> HIDE DEF Past, RepliesInv, Becomes
  <2>3. QED
    BY <2>1, <2>2 DEF DoneOnce
<1>6. QED
  BY <1>1, <1>2, <1>3, <1>4, <1>5

\* The reply that is recorded for the first time.
LEMMA RecordKeeps ==
  ASSUME RepliesInv, NEW h \in Handlers, NEW i \in Inbounds, Inbound!Record(h, i)
  PROVE  RepliesInv'
<1> USE DEF RepliesInv
<1>1. handler[h].at = "record" /\ handler[h].inbound = i /\ stored' = stored \cup {i}
  BY DEF Inbound!Record, Inbound!At
<1>2. UNCHANGED <<stops, ran, noted, optedOut, freed, raises>>
  BY DEF Inbound!Record
<1>3. CASE i \in stored
  <2>1. Becomes(h, "idle", "none", {}) /\ stored' = stored
    BY <1>1, <1>3, HandlerSteps DEF Inbound!Record, Inbound!IsFirst
  <2>2. \A j \in Inbounds : ~Past(h, j)
    BY <1>1 DEF Past
  <2>3. "idle" \in Stages \ {"match", "act"} /\ raises' \in Nat
    BY <1>2 DEF Stages, CountsAre
  <2> HIDE DEF RepliesInv
  <2>4. QED
    BY <1>2, <2>1, <2>2, <2>3, OthersKeep
<1>4. CASE i \notin stored
  <2>1. Becomes(h, "match", i, handler[h].rules)
    BY <1>1, <1>4, HandlerSteps, PathGoesOn DEF Inbound!Record, Inbound!IsFirst, Stages
  <2>2. HandlersAre' /\ CountsAre'
    BY <1>1, <1>2, <2>1 DEF CountsAre, Becomes
  <2>3. Inbound!StopsAreKept'
    BY <1>1, <1>2 DEF Inbound!StopsAreKept, StopsAreOut
  <2>4. StopsAreOut'
    BY <1>2, <2>1 DEF StopsAreOut, Becomes
  <2>5. \A g \in Handlers : ~Past(g, i)
    BY <1>4 DEF OneIsPast
  <2>6. noted[i] = 0 /\ \A r \in 1..Rules : ran[i][r] = 0
    BY <1>4 DEF DoneOnce
  <2>7. \A g \in Handlers, j \in Inbounds :
          Past(g, j)' <=> (IF g = h THEN j = i ELSE Past(g, j))
    BY <2>1, <1>1 DEF Becomes, Past
  <2>8. OneIsPast'
    BY <1>1, <1>2, <2>1, <2>5, <2>6, <2>7 DEF OneIsPast, Becomes, Past
  <2>9. DoneOnce'
    <3>1. \A j \in Inbounds : j # i => (j \in stored' <=> j \in stored)
      BY <1>1
    <3>2. \A j \in Inbounds : j # i =>
            ((\A g \in Handlers : ~Past(g, j)') => \A g \in Handlers : ~Past(g, j))
      BY <2>7, <1>1 DEF Past
    <3>3. Past(h, i)' /\ i \in stored'
      BY <1>1, <2>7
    <3>4. QED
      BY <1>2, <2>6, <3>1, <3>2, <3>3 DEF DoneOnce
  <2>10. QED
    BY <2>2, <2>3, <2>4, <2>8, <2>9
<1>5. QED
  BY <1>3, <1>4

\* What a handler does past the marker concerns its own reply.
LEMMA PastKeeps ==
  ASSUME RepliesInv, NEW h \in Handlers, NEW i \in Inbounds, Past(h, i),
         Inbound!Match(h) \/ (\E r \in 1..Rules : Inbound!Act(h, i, r)) \/ Inbound!Note(h, i)
  PROVE  RepliesInv'
<1> USE DEF RepliesInv
<1>1. UNCHANGED <<stops, stored, optedOut, freed, raises>>
  BY DEF Inbound!Match, Inbound!Act, Inbound!Note
<1>2. /\ i \in stored /\ noted[i] = 0
      /\ \A g \in Handlers \ {h} : ~Past(g, i)
  BY DEF OneIsPast
<1>3. CASE Inbound!Match(h)
  <2>1. PICK matched \in SUBSET (1..Rules) : Becomes(h, "act", i, matched)
    <3>1. PICK matched \in SUBSET (1..Rules) :
            handler' = [handler EXCEPT ![h].at = "act", ![h].rules = matched]
      BY <1>3 DEF Inbound!Match
    <3>2. Becomes(h, "act", i, matched)
      BY <3>1 DEF HandlersAre, Becomes, Stages, Past
    <3>3. QED
      BY <3>2
  <2>2. \A r \in 1..Rules : ran[i][r] = 0
    BY <1>3 DEF OneIsPast, Inbound!Match, Inbound!At
  <2>3. \A g \in Handlers, j \in Inbounds : Past(g, j)' <=> Past(g, j)
    BY <2>1 DEF Becomes, Past
  <2>4. UNCHANGED <<ran, noted>>
    BY <1>3 DEF Inbound!Match
  <2>5. HandlersAre' /\ CountsAre' /\ Inbound!StopsAreKept' /\ StopsAreOut'
    BY <1>1, <2>1, <2>4 DEF Becomes, CountsAre, Inbound!StopsAreKept, StopsAreOut
  <2>6. OneIsPast'
    BY <1>1, <1>2, <2>1, <2>2, <2>3, <2>4 DEF OneIsPast, Becomes, Past
  <2>7. DoneOnce'
    BY <1>1, <2>3, <2>4 DEF DoneOnce
  <2>8. QED
    BY <2>5, <2>6, <2>7
<1>4. CASE \E r \in 1..Rules : Inbound!Act(h, i, r)
  <2>1. PICK r \in 1..Rules : Inbound!Act(h, i, r)
    BY <1>4
  <2>2. PICK left \in SUBSET (1..Rules) : left = handler[h].rules \ {r}
    BY DEF HandlersAre
  <2>3. Becomes(h, "act", i, left) /\ r \in handler[h].rules /\ r \notin left
    BY <2>1, <2>2 DEF Inbound!Act, Inbound!At, HandlersAre, Becomes, Stages
  <2>4. \A q \in 1..Rules : q \in handler[h].rules => ran[i][q] = 0
    BY DEF OneIsPast
  <2>5. /\ noted' = noted /\ CountsAre'
        /\ \A j \in Inbounds, q \in 1..Rules :
             j # i \/ q # r => ran'[j][q] = ran[j][q]
        /\ ran'[i][r] \in {0, 1}
    <3>1. CASE UNCHANGED ran
      BY <1>1, <2>1, <2>3, <2>4, <3>1 DEF Inbound!Act, CountsAre
    <3>2. CASE ran' = [ran EXCEPT ![i][r] = @ + 1]
      BY <1>1, <2>1, <2>3, <2>4, <3>2 DEF Inbound!Act, CountsAre
    <3>3. QED
      BY <2>1, <3>1, <3>2 DEF Inbound!Act
  <2>6. \A g \in Handlers, j \in Inbounds : Past(g, j)' <=> Past(g, j)
    BY <2>1, <2>3 DEF Becomes, Past, Inbound!Act, Inbound!At
  <2>7. HandlersAre' /\ Inbound!StopsAreKept' /\ StopsAreOut'
    BY <1>1, <2>3 DEF Becomes, Inbound!StopsAreKept, StopsAreOut
  <2>8. OneIsPast'
    BY <1>1, <1>2, <2>2, <2>3, <2>4, <2>5, <2>6 DEF OneIsPast, Becomes, Past
  <2>9. DoneOnce'
    BY <1>1, <1>2, <2>5, <2>6 DEF DoneOnce
  <2>10. QED
    BY <2>5, <2>7, <2>8, <2>9
<1>5. CASE Inbound!Note(h, i)
  <2>1. Becomes(h, "idle", "none", {})
    BY <1>5, HandlerSteps DEF Inbound!Note
  <2>2. ran' = ran /\ CountsAre' /\ noted'[i] = 1
        /\ \A j \in Inbounds : j # i => noted'[j] = noted[j]
    BY <1>1, <1>2, <1>5 DEF Inbound!Note, CountsAre
  <2>3. \A g \in Handlers, j \in Inbounds : Past(g, j)' <=> g # h /\ Past(g, j)
    BY <2>1 DEF Becomes, Past
  <2>4. HandlersAre' /\ Inbound!StopsAreKept' /\ StopsAreOut'
    BY <1>1, <2>1 DEF Becomes, Inbound!StopsAreKept, StopsAreOut
  <2>5. OneIsPast'
    BY <1>1, <1>2, <2>1, <2>2, <2>3 DEF OneIsPast, Becomes, Past
  <2>6. DoneOnce'
    BY <1>1, <1>2, <2>2, <2>3 DEF DoneOnce, Past
  <2>7. QED
    BY <2>2, <2>4, <2>5, <2>6
<1>6. QED
  BY <1>3, <1>4, <1>5

\* A handler on its way to the marker, and one that dies.
LEMMA FirstStepsKeep ==
  ASSUME RepliesInv, NEW h \in Handlers, NEW i \in Inbounds,
         Inbound!Deliver(h, i) \/ Inbound!Find(h, i) \/ Inbound!OptOut(h, i)
  PROVE  RepliesInv'
<1>1. UNCHANGED <<stops, stored, ran, noted, freed, raises>> /\ raises' \in Nat
  BY DEF Inbound!Deliver, Inbound!Find, Inbound!OptOut, RepliesInv, CountsAre
<1>2. HandlersAre
  BY DEF RepliesInv
<1>3. \A j \in Inbounds : ~Past(h, j)
  BY DEF Inbound!Deliver, Inbound!Find, Inbound!OptOut, Inbound!At, Past
<1>4. CASE Inbound!Deliver(h, i)
  <2>1. PICK none : none = {}
    OBVIOUS
  <2>2. handler' = [handler EXCEPT ![h] = [at |-> "find", inbound |-> i, rules |-> none]]
    BY <1>4, <2>1 DEF Inbound!Deliver
  <2>3. none \in SUBSET (1..Rules)
    BY <2>1
  <2>4. Becomes(h, "find", i, none) /\ "find" \in Stages \ {"match", "act"}
    BY <1>2, <2>2, <2>3 DEF HandlersAre, Becomes, Stages
  <2>5. optedOut' = optedOut
    BY <1>4 DEF Inbound!Deliver
  <2>6. QED
    BY <1>1, <1>3, <2>4, <2>5, OthersKeep
<1>5. CASE Inbound!Find(h, i)
  <2>1. optedOut' = optedOut /\ handler[h].at = "find" /\ handler[h].inbound = i
    BY <1>5 DEF Inbound!Find, Inbound!At
  <2>2. CASE sent /\ i \in stops
    <3>1. Becomes(h, "opt out", i, handler[h].rules) /\ "opt out" \in Stages \ {"match", "act"}
      BY <1>2, <1>5, <2>1, <2>2, HandlerSteps, PathGoesOn DEF Inbound!Find, Stages
    <3>2. QED
      BY <1>1, <1>3, <2>1, <2>2, <3>1, OthersKeep
  <2>3. CASE sent /\ i \notin stops
    <3>1. Becomes(h, "record", i, handler[h].rules) /\ "record" \in Stages \ {"match", "act"}
      BY <1>2, <1>5, <2>1, <2>3, HandlerSteps, PathGoesOn DEF Inbound!Find, Stages
    <3>2. QED
      BY <1>1, <1>3, <2>1, <2>3, <3>1, OthersKeep
  <2>4. CASE ~sent
    <3>1. Becomes(h, "idle", "none", {}) /\ "idle" \in Stages \ {"match", "act"}
      BY <1>2, <1>5, <2>4, HandlerSteps DEF Inbound!Find, Stages
    <3>2. QED
      BY <1>1, <1>3, <2>1, <3>1, OthersKeep
  <2>5. QED
    BY <2>2, <2>3, <2>4
<1>6. CASE Inbound!OptOut(h, i)
  <2>1. optedOut' = TRUE /\ handler[h].at = "opt out" /\ handler[h].inbound = i
    BY <1>6 DEF Inbound!OptOut, Inbound!At
  <2>2. i \in stops
    BY <2>1 DEF RepliesInv, StopsAreOut
  <2>3. Becomes(h, "record", i, handler[h].rules) /\ "record" \in Stages \ {"match", "act"}
    BY <1>2, <1>6, <2>1, <2>2, HandlerSteps, PathGoesOn DEF Inbound!OptOut, Stages
  <2>4. QED
    BY <1>1, <1>3, <2>1, <2>2, <2>3, OthersKeep
<1>7. QED
  BY <1>4, <1>5, <1>6

LEMMA RaiseKeeps ==
  ASSUME RepliesInv, NEW h \in Handlers, Inbound!Raise(h)
  PROVE  RepliesInv'
<1>1. UNCHANGED <<stops, stored, ran, noted, optedOut, freed>> /\ raises' \in Nat /\ raises' # 0
  BY DEF Inbound!Raise, RepliesInv, CountsAre
<1>2. Becomes(h, "idle", "none", {}) /\ "idle" \in Stages \ {"match", "act"}
  BY HandlerSteps DEF Inbound!Raise, Stages, RepliesInv
<1>3. QED
  BY <1>1, <1>2, OthersKeep

LEMMA RepliesGoOn ==
  ASSUME RepliesInv, Inbound!Next \/ UNCHANGED Inbound!vars
  PROVE  RepliesInv'
<1>1. CASE Inbound!MarkSent \/ Inbound!Free \/ UNCHANGED Inbound!vars
  <2>1. UNCHANGED <<stops, handler, stored, ran, noted, raises>>
    BY <1>1 DEF Inbound!MarkSent, Inbound!Free, Inbound!vars
  <2>2. optedOut \/ freed => optedOut' \/ freed'
    BY <1>1 DEF Inbound!MarkSent, Inbound!Free, Inbound!vars
  <2>3. HandlersAre' /\ CountsAre' /\ OneIsPast' /\ DoneOnce'
    BY <2>1 DEF RepliesInv, HandlersAre, CountsAre, OneIsPast, DoneOnce, Past
  <2>4. Inbound!StopsAreKept' /\ StopsAreOut'
    BY <2>1, <2>2 DEF RepliesInv, Inbound!StopsAreKept, StopsAreOut
  <2>5. QED
    BY <2>3, <2>4 DEF RepliesInv
<1>2. CASE \E h \in Handlers, i \in Inbounds :
             Inbound!Deliver(h, i) \/ Inbound!Find(h, i) \/ Inbound!OptOut(h, i)
  BY <1>2, FirstStepsKeep
<1>3. CASE \E h \in Handlers, i \in Inbounds : Inbound!Record(h, i)
  BY <1>3, RecordKeeps
<1>4. CASE \E h \in Handlers : Inbound!Raise(h)
  BY <1>4, RaiseKeeps
<1>5. CASE \E h \in Handlers : Inbound!Match(h)
  <2>1. PICK h \in Handlers : Inbound!Match(h)
    BY <1>5
  <2>2. handler[h].inbound \in Inbounds
    BY <2>1 DEF RepliesInv, HandlersAre, Inbound!Match, Inbound!At
  <2>3. QED
    BY <2>1, <2>2, PastKeeps DEF Past, Inbound!Match, Inbound!At
<1>6. CASE \E h \in Handlers, i \in Inbounds :
             Inbound!Note(h, i) \/ \E r \in 1..Rules : Inbound!Act(h, i, r)
  <2>1. PICK h \in Handlers, i \in Inbounds :
          Inbound!Note(h, i) \/ \E r \in 1..Rules : Inbound!Act(h, i, r)
    BY <1>6
  <2>2. Past(h, i)
    BY <2>1 DEF Past, Inbound!Note, Inbound!Act, Inbound!At
  <2>3. QED
    BY <2>1, <2>2, PastKeeps
<1>7. QED
  BY <1>1, <1>2, <1>3, <1>4, <1>5, <1>6 DEF Inbound!Next
-----------------------------------------------------------------------------
(* Rentals *)

Why == {"no", "unpaid", "cancelled"}

RentalType ==
  /\ number \in [there: BOOLEAN, period: Nat, due: BOOLEAN, attempt: Nat,
                 cancelled: BOOLEAN, released: Why]
  /\ run \in [at: {"idle", "charge", "check", "record", "attempt", "release"},
              period: Nat, attempt: Nat]
  /\ debits \in [Renting!Periods -> Nat]

\* A rental row is written with the event of its period, and never without.
RowsMatch == \A p \in Renting!Periods : debits[p] = IF p \in charged THEN 1 ELSE 0

\* The row is put once, by the purchase.
PutOnce == buyer # "done" => ~number.there /\ number.released # "unpaid"

\* Only the run moves the number to another period, so what it read of it still holds; and
\* what it is about to give up is not paid.
RunReadTrue ==
  run.at # "idle" =>
    /\ number.there /\ run.period = number.period /\ number.released # "unpaid"
    /\ run.at \in {"attempt", "release"} => run.period \notin charged

UnpaidIsUnpaid == number.released = "unpaid" => number.period \notin charged

RentalInv == RentalType /\ RowsMatch /\ PutOnce /\ RunReadTrue /\ UnpaidIsUnpaid

LEMMA RentalBegins ==
  ASSUME Renting!Init
  PROVE  RentalInv
<1>1. number = [there |-> FALSE, period |-> 0, due |-> FALSE, attempt |-> 0,
                cancelled |-> FALSE, released |-> "no"]
  BY DEF Renting!Init, Renting!NoNumber
<1>2. run = [at |-> "idle", period |-> 0, attempt |-> 0]
  BY DEF Renting!Init, Renting!NoRun
<1>3. debits = [p \in Renting!Periods |-> 0] /\ charged = {}
  BY DEF Renting!Init
<1>4. RentalType
  BY <1>1, <1>2, <1>3 DEF RentalType, Why
<1>5. RowsMatch
  BY <1>3 DEF RowsMatch
<1>6. PutOnce /\ RunReadTrue /\ UnpaidIsUnpaid
  BY <1>1, <1>2 DEF PutOnce, RunReadTrue, UnpaidIsUnpaid
<1>7. QED
  BY <1>4, <1>5, <1>6 DEF RentalInv

\* A charge of a period that was not charged.
LEMMA ChargeMatches ==
  ASSUME RentalType, RowsMatch, NEW p, Renting!CanCharge(p), Renting!Charged(p)
  PROVE  RowsMatch' /\ debits' \in [Renting!Periods -> Nat] /\ charged' = charged \cup {p}
<1>1. /\ charged' = charged \cup {p} /\ p \notin charged
      /\ debits' = [debits EXCEPT ![p] = @ + 1]
  BY DEF Renting!CanCharge, Renting!Charged
<1>2. ASSUME NEW q \in Renting!Periods
      PROVE  /\ debits'[q] \in Nat
             /\ debits'[q] = IF q \in charged' THEN 1 ELSE 0
  <2>1. CASE q = p
    BY <1>1, <2>1 DEF RowsMatch, RentalType
  <2>2. CASE q # p
    BY <1>1, <2>2 DEF RowsMatch, RentalType
  <2>3. QED
    BY <2>1, <2>2
<1>3. debits' \in [Renting!Periods -> Nat]
  BY <1>1, <1>2 DEF RentalType
<1>4. QED
  BY <1>1, <1>2, <1>3 DEF RowsMatch

\* The purchase: nothing runs before there is a number.
LEMMA BuyingKeeps ==
  ASSUME RentalInv, Renting!Buy \/ Renting!PutNumber
  PROVE  RentalInv'
<1> USE DEF RentalInv
<1>1. CASE Renting!Buy
  <2>1. UNCHANGED <<number, run>> /\ buyer = "idle"
    BY <1>1 DEF Renting!Buy
  <2>2. RentalType' /\ RowsMatch'
    <3>1. CASE Renting!CanCharge(0)
      BY <1>1, <2>1, <3>1, ChargeMatches DEF Renting!Buy, RentalType
    <3>2. CASE ~Renting!CanCharge(0)
      BY <1>1, <2>1, <3>2 DEF Renting!Buy, RentalType, RowsMatch
    <3>3. QED
      BY <3>1, <3>2
  <2>3. PutOnce' /\ RunReadTrue' /\ UnpaidIsUnpaid'
    BY <2>1 DEF PutOnce, RunReadTrue, UnpaidIsUnpaid
  <2>4. QED
    BY <2>2, <2>3
<1>2. CASE Renting!PutNumber
  <2>1. /\ UNCHANGED <<charged, debits, run>> /\ buyer = "charged" /\ buyer' = "done"
        /\ number' = [there |-> TRUE, period |-> 1, due |-> FALSE, attempt |-> 0,
                      cancelled |-> FALSE, released |-> "no"]
    BY <1>2 DEF Renting!PutNumber, Renting!NoNumber
  <2>2. RentalType'
    BY <2>1 DEF RentalType, Why
  <2>3. RowsMatch'
    BY <2>1 DEF RowsMatch
  <2>4. run.at = "idle"
    BY <2>1 DEF PutOnce, RunReadTrue
  <2>5. PutOnce' /\ RunReadTrue' /\ UnpaidIsUnpaid'
    BY <2>1, <2>4 DEF PutOnce, RunReadTrue, UnpaidIsUnpaid
  <2>6. QED
    BY <2>2, <2>3, <2>5
<1>3. QED
  BY <1>1, <1>2

\* What changes the row beside the run: cancellation, the sweep, time.
LEMMA BesideRunKeeps ==
  ASSUME RentalInv,
         \/ Renting!Cancel \/ Renting!StartSweep \/ Renting!Sweep
         \/ Renting!BalanceMoves \/ Renting!PeriodEnds \/ UNCHANGED Renting!vars
  PROVE  RentalInv'
<1> USE DEF RentalInv
<1>1. UNCHANGED <<charged, debits, buyer, run>>
  BY DEF Renting!Cancel, Renting!StartSweep, Renting!Sweep, Renting!BalanceMoves,
         Renting!PeriodEnds, Renting!vars
<1>2. /\ number' \in [there: BOOLEAN, period: Nat, due: BOOLEAN, attempt: Nat,
                      cancelled: BOOLEAN, released: Why]
      /\ number'.period = number.period /\ (number'.there <=> number.there)
      /\ number'.released = "unpaid" => number.released = "unpaid"
  <2>1. CASE Renting!Cancel
    BY <2>1 DEF Renting!Cancel, RentalType
  <2>2. CASE Renting!PeriodEnds
    BY <2>2 DEF Renting!PeriodEnds, RentalType
  <2>3. CASE Renting!Sweep
    BY <2>3 DEF Renting!Sweep, RentalType, Why
  <2>4. CASE Renting!StartSweep \/ Renting!BalanceMoves \/ UNCHANGED Renting!vars
    BY <2>4 DEF Renting!StartSweep, Renting!BalanceMoves, Renting!vars, RentalType
  <2>5. QED
    BY <2>1, <2>2, <2>3, <2>4
<1>3. RentalType' /\ RowsMatch'
  BY <1>1, <1>2 DEF RentalType, RowsMatch
<1>4. RunReadTrue'
  <2>1. number'.released # "unpaid" \/ number.released = "unpaid"
    BY <1>2
  <2>2. QED
    BY <1>1, <1>2, <2>1 DEF RunReadTrue
<1>5. PutOnce' /\ UnpaidIsUnpaid'
  BY <1>1, <1>2 DEF PutOnce, UnpaidIsUnpaid
<1>6. QED
  BY <1>3, <1>4, <1>5

\* The run: it charges the period, records it, counts an attempt, or gives the number up.
LEMMA RunKeeps ==
  ASSUME RentalInv, Renting!StartRun \/ Renting!Running
  PROVE  RentalInv'
<1> USE DEF RentalInv
<1>1. CASE Renting!StartRun
  <2>1. /\ UNCHANGED <<number, charged, debits, buyer>> /\ number.there /\ number.released = "no"
        /\ run' = [at |-> "charge", period |-> number.period, attempt |-> number.attempt]
    BY <1>1 DEF Renting!StartRun, Renting!Listed
  <2>2. RentalType'
    BY <2>1 DEF RentalType
  <2>3. RowsMatch' /\ PutOnce' /\ UnpaidIsUnpaid'
    BY <2>1 DEF RowsMatch, PutOnce, UnpaidIsUnpaid
  <2>4. RunReadTrue'
    BY <2>1 DEF RunReadTrue
  <2>5. QED
    BY <2>2, <2>3, <2>4
<1>2. CASE Renting!Charge
  <2>1. UNCHANGED <<number, buyer>> /\ run.at = "charge"
    BY <1>2 DEF Renting!Charge
  <2>2. /\ run' \in [at: {"idle", "charge", "check", "record", "attempt", "release"},
                      period: Nat, attempt: Nat]
        /\ run'.at \in {"record", "check"} /\ run'.period = run.period
    BY <1>2 DEF Renting!Charge, Renting!Goto, RentalType
  <2>3. RentalType' /\ RowsMatch'
    <3>1. CASE Renting!CanCharge(run.period)
      BY <1>2, <2>1, <2>2, <3>1, ChargeMatches DEF Renting!Charge, RentalType
    <3>2. CASE ~Renting!CanCharge(run.period)
      BY <1>2, <2>1, <2>2, <3>2 DEF Renting!Charge, RentalType, RowsMatch
    <3>3. QED
      BY <3>1, <3>2
  <2>4. PutOnce' /\ RunReadTrue' /\ UnpaidIsUnpaid'
    BY <2>1, <2>2 DEF PutOnce, RunReadTrue, UnpaidIsUnpaid
  <2>5. QED
    BY <2>3, <2>4
<1>3. CASE Renting!Check
  <2>1. UNCHANGED <<number, charged, debits, buyer>> /\ run.at = "check"
    BY <1>3 DEF Renting!Check
  <2>2. /\ run' = [run EXCEPT !.at = Renting!Verdict]
        /\ Renting!Verdict \in {"record", "release", "attempt"}
        /\ run.period \in charged => Renting!Verdict = "record"
    BY <1>3 DEF Renting!Check, Renting!Goto, Renting!Verdict, Renting!IsPaid
  <2>3. RentalType' /\ run'.period = run.period /\ run'.at = Renting!Verdict
    BY <2>1, <2>2 DEF RentalType
  <2>4. QED
    BY <2>1, <2>2, <2>3 DEF RowsMatch, PutOnce, RunReadTrue, UnpaidIsUnpaid
<1>4. CASE Renting!Record \/ Renting!RecordAttempt \/ Renting!Release
  <2>1. /\ UNCHANGED <<charged, debits, buyer>> /\ run.at # "idle"
        /\ run' = [at |-> "idle", period |-> 0, attempt |-> 0]
    BY <1>4 DEF Renting!Record, Renting!RecordAttempt, Renting!Release, Renting!NoRun
  <2>2. /\ number.there /\ run.period = number.period /\ number.released # "unpaid"
        /\ run.at = "release" => run.period \notin charged
    BY <2>1 DEF RunReadTrue
  <2>3. /\ number' \in [there: BOOLEAN, period: Nat, due: BOOLEAN, attempt: Nat,
                        cancelled: BOOLEAN, released: Why]
        /\ number'.there <=> number.there
        /\ number'.released = "unpaid" => number'.period \notin charged
    <3>1. CASE Renting!Record
      <4>1. PICK no \in BOOLEAN, next \in Nat :
              number' = [number EXCEPT !.period = next, !.due = no, !.attempt = 0]
        <5>1. run.period + 1 \in Nat
          BY DEF RentalType
        <5>2. number' = [number EXCEPT !.period = run.period + 1, !.due = FALSE, !.attempt = 0]
          BY <3>1 DEF Renting!Record
        <5>3. FALSE \in BOOLEAN
          OBVIOUS
        <5>4. QED
          BY <5>1, <5>2, <5>3, Zenon
      <4>2. /\ number' \in [there: BOOLEAN, period: Nat, due: BOOLEAN, attempt: Nat,
                            cancelled: BOOLEAN, released: Why]
            /\ number'.there = number.there /\ number'.released = number.released
        BY <4>1 DEF RentalType
      <4>3. QED
        BY <2>2, <4>2
    <3>2. CASE Renting!RecordAttempt
      BY <2>2, <3>2 DEF Renting!RecordAttempt, RentalType
    <3>3. CASE Renting!Release
      BY <2>2, <3>3 DEF Renting!Release, RentalType, Why
    <3>4. QED
      BY <1>4, <3>1, <3>2, <3>3
  <2>4. buyer = "done"
    BY <2>2 DEF PutOnce
  <2>5. RentalType'
    BY <2>1, <2>3 DEF RentalType
  <2>6. RowsMatch' /\ PutOnce' /\ RunReadTrue' /\ UnpaidIsUnpaid'
    BY <2>1, <2>3, <2>4 DEF RowsMatch, PutOnce, RunReadTrue, UnpaidIsUnpaid
  <2>7. QED
    BY <2>5, <2>6
<1>5. QED
  BY <1>1, <1>2, <1>3, <1>4 DEF Renting!Running

LEMMA RentalGoesOn ==
  ASSUME RentalInv, Renting!Next \/ UNCHANGED Renting!vars
  PROVE  RentalInv'
<1>1. CASE Renting!Die
  <2>1. /\ UNCHANGED <<number, charged, debits>> /\ (buyer # "done" => ~number.there)
        /\ buyer' = buyer \/ buyer' = "done"
        /\ run' = run \/ run' = [at |-> "idle", period |-> 0, attempt |-> 0]
    BY <1>1 DEF Renting!Die, Renting!NoRun, RentalInv, PutOnce
  <2>2. RentalType'
    BY <2>1 DEF RentalInv, RentalType
  <2>3. RowsMatch' /\ PutOnce' /\ RunReadTrue' /\ UnpaidIsUnpaid'
    BY <2>1 DEF RentalInv, RowsMatch, PutOnce, RunReadTrue, UnpaidIsUnpaid
  <2>4. QED
    BY <2>2, <2>3 DEF RentalInv
<1>2. QED
  BY <1>1, BuyingKeeps, BesideRunKeeps, RunKeeps DEF Renting!Next
-----------------------------------------------------------------------------
(* Lists *)

\* Sets of contacts are finite: their sizes add up.
LEMMA SameSize ==
  ASSUME NEW S
  PROVE  Kept!Cardinality(S) = Cardinality(S) /\ (Kept!IsFiniteSet(S) <=> IsFiniteSet(S))
<1>1. Kept!Cardinality(S) = Cardinality(S)
  BY DEF Cardinality, Kept!Cardinality
<1>2. Kept!IsFiniteSet(S) <=> IsFiniteSet(S)
  BY DEF IsFiniteSet, Kept!IsFiniteSet
<1>3. QED
  BY <1>1, <1>2

LEMMA Sizes ==
  ASSUME Kept!ListsAssumption, NEW S \in SUBSET Mobiles, NEW T \in SUBSET Mobiles
  PROVE  /\ Kept!Cardinality(S) \in Nat
         /\ Kept!Cardinality(S) = 0 <=> S = {}
         /\ Kept!Cardinality(S \cup T) = Kept!Cardinality(S) + Kept!Cardinality(T \ S)
         /\ T \subseteq S =>
              Kept!Cardinality(S \ T) = Kept!Cardinality(S) - Kept!Cardinality(T)
         /\ Kept!Cardinality(T) = 1 =>
              /\ T \cap S = {} \/ T \subseteq S
              /\ T \cap S = {} => Kept!Cardinality(S \cup T) = Kept!Cardinality(S) + 1
<1>1. IsFiniteSet(S) /\ IsFiniteSet(T)
  BY SameSize, FS_Subset DEF Kept!ListsAssumption
<1>2. Cardinality(S) \in Nat /\ (Cardinality(S) = 0 <=> S = {}) /\ Cardinality(T) \in Nat
  BY <1>1, FS_CardinalityType, FS_EmptySet
<1>3. /\ Cardinality(S \cup T) = Cardinality(S) + Cardinality(T) - Cardinality(S \cap T)
      /\ Cardinality(T \ S) = Cardinality(T) - Cardinality(T \cap S)
      /\ Cardinality(S \ T) = Cardinality(S) - Cardinality(S \cap T)
  BY <1>1, FS_Union, FS_Difference
<1>4. Cardinality(S \cap T) \in Nat
  BY <1>1, FS_Intersection, FS_CardinalityType
<1>5. S \cap T = T \cap S /\ (T \subseteq S => S \cap T = T)
  OBVIOUS
<1>6. ASSUME Cardinality(T) = 1
      PROVE  /\ T \cap S = {} \/ T \subseteq S
             /\ T \cap S = {} => Cardinality(S \cap T) = 0
  <2>1. \E x : T = {x}
    BY <1>1, <1>6, FS_Singleton
  <2>2. T \cap S = {} => Cardinality(S \cap T) = 0
    BY <1>5, FS_EmptySet
  <2>3. QED
    BY <2>1, <2>2
<1>7. Cardinality(S \cup T) = Cardinality(S) + Cardinality(T \ S)
  BY <1>2, <1>3, <1>4, <1>5
<1>8. QED
  BY <1>2, <1>3, <1>4, <1>5, <1>6, <1>7, SameSize

Places == {"idle", "room", "insert", "overwrite", "drop", "delete", "opt out", "doomed",
           "existing", "put", "count", "remove", "uncount", "empty", "unlist"}

Records == [at: Places, list: Kept!Kinds, into: Kept!Kinds, mobiles: SUBSET Mobiles,
            room: Int, fresh: Nat, old: SUBSET Mobiles]

KeptType ==
  /\ contacts \in [Kept!Kinds -> SUBSET Mobiles]
  /\ count \in [Kept!Kinds -> Int]
  /\ writer \in [Writers -> Records]
  /\ there \subseteq Kept!Kinds

\* What a request is about: one contact or some, and where from and where to.
Shape(r) ==
  /\ r.at \in {"room", "insert", "overwrite"} => Kept!Cardinality(r.mobiles) = 1
  /\ r.at \in {"room", "insert", "overwrite", "drop"} /\ r.old # {}
       => Kept!Cardinality(r.old) = 1
  /\ r.at = "drop" => r.old # {}
  /\ r.at \in {"doomed", "empty", "unlist"} => r.list = Kept!Standard /\ r.into = Kept!Standard
  /\ r.at \in {"existing", "put", "count", "remove", "uncount"} =>
       /\ r.mobiles # {}
       /\ r.list # r.into => r.list = Kept!Standard /\ r.into = Kept!OptOuts

\* Those whom a request moves to the opt-out list are there before they are taken out of
\* the other.
Taken(w) ==
  writer[w].at \in {"count", "remove"} /\ Kept!Moves(w) =>
    writer[w].mobiles \ released \subseteq contacts[Kept!OptOuts]

\* It is about to take out what it read of the list.
TakesOut(w) ==
  \/ writer[w].at \in {"doomed", "remove"}
  \/ writer[w].at \in {"existing", "put", "count"} /\ Kept!Moves(w)

\* What a request read of a list that nobody wrote to since.
ReadHolds(w, l) ==
  /\ writer[w].list = l /\ TakesOut(w) => writer[w].mobiles \subseteq contacts[l]
  /\ writer[w].into = l /\ writer[w].at = "put"
       => writer[w].fresh = Kept!Cardinality(writer[w].mobiles \ contacts[l])

\* What a request has yet to add to a list's counter.
Debt(w, l) ==
  IF writer[w].at = "count" /\ writer[w].into = l THEN writer[w].fresh
  ELSE IF writer[w].at = "uncount" /\ writer[w].list = l THEN -Kept!Cardinality(writer[w].mobiles)
  ELSE 0

Emptying(l) == \E w \in Writers : writer[w].at = "unlist" /\ writer[w].list = l

Settles(w, l) ==
  /\ count[l] + restored[l] + Debt(w, l) = Kept!Cardinality(contacts[l])
  /\ \A v \in Writers \ {w} : Debt(v, l) = 0

Even(l) ==
  /\ count[l] + restored[l] = Kept!Cardinality(contacts[l])
  /\ \A v \in Writers : Debt(v, l) = 0

\* A list that was not written to under a batch is counted right but for what was put back
\* uncounted and what one request has yet to add, unless all of it is being deleted.
Counted(l) == Emptying(l) \/ Even(l) \/ \E w \in Writers : Settles(w, l)

KeptInv ==
  /\ KeptType
  /\ Kept!OptedOutStay
  /\ restored \in [Kept!Kinds -> Nat]
  /\ \A w \in Writers : Shape(writer[w]) /\ Taken(w)
  /\ \A l \in there \ blurred : Counted(l) /\ \A w \in Writers : ReadHolds(w, l)

LEMMA KindsAre ==
  /\ Kept!Standard \in Kept!Kinds /\ Kept!OptOuts \in Kept!Kinds
  /\ Kept!Standard # Kept!OptOuts
  /\ \A l \in Kept!Kinds : l = Kept!Standard \/ l = Kept!OptOuts
BY DEF Kept!Standard, Kept!OptOuts, Kept!Kinds

\* Whether the step of a request puts back a contact uncounted.
Again(w, l) ==
  IF writer[w].at = "overwrite" /\ contacts'[l] # contacts[l] THEN 1 ELSE 0

\* What keeps the balance of a list in a step of one request.
Balanced(w, l) ==
  /\ count'[l] + Again(w, l) + Debt(w, l)' - Kept!Cardinality(contacts'[l])
       = count[l] + Debt(w, l) - Kept!Cardinality(contacts[l])
  /\ contacts'[l] # contacts[l] \/ Debt(w, l)' = 0 \/ Debt(w, l) # 0
  /\ ~(writer[w].at = "unlist" /\ writer[w].list = l)

\* What a step of one request comes to.
StepOf(w) ==
  /\ KeptType'
  /\ \A v \in Writers \ {w} : writer'[v] = writer[v]
  /\ Shape(writer'[w]) /\ Taken(w)'
  /\ released \subseteq released'
  /\ contacts[Kept!OptOuts] \ released' \subseteq contacts'[Kept!OptOuts]
  /\ (out' \ out) \ released' \subseteq contacts'[Kept!OptOuts]
  /\ there' \subseteq there
  /\ \A l \in there' \ blurred' : ReadHolds(w, l)' /\ (Balanced(w, l) \/ Emptying(l)')

\* Requests that did not read the list, or that see it as it was, are as they were.
LEMMA OthersStand ==
  ASSUME NEW v \in Writers, NEW l \in Kept!Kinds, writer'[v] = writer[v], there' \subseteq there,
         contacts'[l] = contacts[l] \/ ~Kept!StandsOn(v, l)
  PROVE  /\ ReadHolds(v, l) => ReadHolds(v, l)'
         /\ Debt(v, l)' = Debt(v, l)
         /\ contacts'[l] # contacts[l] => Debt(v, l) = 0
<1>1. Debt(v, l)' = Debt(v, l)
  BY DEF Debt
<1>2. CASE contacts'[l] = contacts[l]
  BY <1>1, <1>2 DEF ReadHolds, TakesOut, Kept!Moves
<1>3. CASE ~Kept!StandsOn(v, l)
  BY <1>1, <1>3 DEF ReadHolds, TakesOut, Kept!Moves, Kept!StandsOn, Debt
<1>4. QED
  BY <1>2, <1>3

LEMMA DebtIs ==
  ASSUME Kept!ListsAssumption, NEW v \in Writers, NEW l \in Kept!Kinds
  PROVE  /\ KeptType => /\ Debt(v, l) \in Int /\ count[l] \in Int
                        /\ Kept!Cardinality(contacts[l]) \in Int
         /\ KeptType' => /\ Debt(v, l)' \in Int /\ count'[l] \in Int
                         /\ Kept!Cardinality(contacts'[l]) \in Int
<1>1. \A S \in SUBSET Mobiles : Kept!Cardinality(S) \in Nat
  BY Sizes
<1>2. ASSUME KeptType
      PROVE  /\ Debt(v, l) \in Int /\ count[l] \in Int /\ Kept!Cardinality(contacts[l]) \in Int
  BY <1>1, <1>2 DEF KeptType, Records, Debt
<1>3. ASSUME KeptType'
      PROVE  /\ Debt(v, l)' \in Int /\ count'[l] \in Int
             /\ Kept!Cardinality(contacts'[l]) \in Int
  BY <1>1, <1>3 DEF KeptType, Records, Debt
<1>4. QED
  BY <1>2, <1>3

\* A list stays counted in a step that keeps its balance, and that is alone if it writes.
LEMMA StaysCounted ==
  ASSUME Kept!ListsAssumption, KeptType, KeptType', NEW w \in Writers, NEW l \in Kept!Kinds,
         Counted(l), Balanced(w, l), restored[l] \in Int, restored'[l] = restored[l] + Again(w, l),
         \A v \in Writers \ {w} : writer'[v] = writer[v],
         \A v \in Writers \ {w} : Debt(v, l)' = Debt(v, l),
         contacts'[l] # contacts[l] => \A v \in Writers \ {w} : Debt(v, l) = 0
  PROVE  Counted(l)'
<1>1. /\ Debt(w, l) \in Int /\ count[l] \in Int /\ Kept!Cardinality(contacts[l]) \in Int
  BY DebtIs
<1>2. /\ Debt(w, l)' \in Int /\ count'[l] \in Int /\ Kept!Cardinality(contacts'[l]) \in Int
      /\ Again(w, l) \in Int /\ (contacts'[l] = contacts[l] => Again(w, l) = 0)
  BY DebtIs DEF Again
<1>3. CASE Emptying(l)
  <2>1. PICK v \in Writers : writer[v].at = "unlist" /\ writer[v].list = l
    BY <1>3 DEF Emptying
  <2>2. v # w
    BY <2>1 DEF Balanced
  <2>3. Emptying(l)'
    BY <2>1, <2>2 DEF Emptying
  <2>4. QED
    BY <2>3 DEF Counted
<1>4. CASE Settles(w, l)
  <2>1. count'[l] + restored'[l] + Debt(w, l)' = Kept!Cardinality(contacts'[l])
    <3>1. restored[l] \in Int /\ restored'[l] = restored[l] + Again(w, l)
      OBVIOUS
    <3>2. count[l] + restored[l] + Debt(w, l) = Kept!Cardinality(contacts[l])
      BY <1>4 DEF Settles
    <3>3. count'[l] + Again(w, l) + Debt(w, l)' - Kept!Cardinality(contacts'[l])
            = count[l] + Debt(w, l) - Kept!Cardinality(contacts[l])
      BY DEF Balanced
    <3>4. QED
      BY ONLY <1>1, <1>2, <3>1, <3>2, <3>3
  <2>2. Settles(w, l)'
    BY <1>4, <2>1 DEF Settles
  <2>3. QED
    BY <2>2 DEF Counted
<1>5. CASE Even(l)
  <2>1. Settles(w, l)
    BY <1>1, <1>5 DEF Even, Settles
  <2>2. QED
    BY <1>4, <2>1
<1>6. CASE \E v \in Writers \ {w} : Settles(v, l)
  <2>1. PICK v \in Writers \ {w} : Settles(v, l)
    BY <1>6
  <2>2. Debt(w, l) = 0 /\ \A u \in Writers \ {w, v} : Debt(u, l) = 0
    BY <2>1 DEF Settles
  <2>3. CASE contacts'[l] # contacts[l]
    <3>1. Debt(v, l) = 0
      BY <2>1, <2>3
    <3>2. Settles(w, l)
      BY <1>1, <2>1, <2>2, <3>1 DEF Settles
    <3>3. QED
      BY <1>4, <3>2
  <2>4. CASE contacts'[l] = contacts[l]
    <3>1. Debt(w, l)' = 0
      BY <2>2, <2>4 DEF Balanced
    <3>2. count'[l] = count[l] /\ restored'[l] = restored[l]
      BY <1>1, <1>2, <2>2, <2>4, <3>1 DEF Balanced
    <3>3. Settles(v, l)'
      BY <2>1, <2>2, <2>4, <3>1, <3>2 DEF Settles
    <3>4. QED
      BY <3>3 DEF Counted
  <2>5. QED
    BY <2>3, <2>4
<1>7. QED
  BY <1>3, <1>4, <1>5, <1>6 DEF Counted

LEMMA StepKeeps ==
  ASSUME Kept!ListsAssumption, KeptInv, NEW w \in Writers, StepOf(w), blurred \subseteq blurred',
         restored' = [l \in Kept!Kinds |-> restored[l] + Again(w, l)],
         \A l \in Kept!Kinds :
           contacts'[l] # contacts[l] /\ (\E v \in Writers \ {w} : Kept!StandsOn(v, l))
             => l \in blurred'
  PROVE  KeptInv'
<1>1. KeptType' /\ KeptType
  BY DEF StepOf, KeptInv
<1>2. Kept!OptedOutStay'
  BY DEF StepOf, KeptInv, Kept!OptedOutStay
<1>3. ASSUME NEW v \in Writers
      PROVE  Shape(writer'[v]) /\ Taken(v)'
  <2>1. CASE v = w
    BY <2>1 DEF StepOf
  <2>2. CASE v # w
    <3>1. writer'[v] = writer[v] /\ Shape(writer[v]) /\ Taken(v)
      BY <2>2 DEF StepOf, KeptInv
    <3>2. /\ released \subseteq released'
          /\ contacts[Kept!OptOuts] \ released' \subseteq contacts'[Kept!OptOuts]
      BY DEF StepOf
    <3>3. Taken(v)'
      BY <3>1, <3>2 DEF Taken, Kept!Moves
    <3>4. QED
      BY <3>1, <3>3
  <2>3. QED
    BY <2>1, <2>2
<1>4. ASSUME NEW l \in there' \ blurred'
      PROVE  Counted(l)' /\ \A v \in Writers : ReadHolds(v, l)'
  <2>1. /\ l \in Kept!Kinds /\ l \in there \ blurred /\ there' \subseteq there
        /\ ReadHolds(w, l)' /\ (Balanced(w, l) \/ Emptying(l)')
    BY <1>1, <1>4 DEF StepOf, KeptType
  <2>2. Counted(l) /\ \A v \in Writers : ReadHolds(v, l)
    BY <2>1 DEF KeptInv
  <2>3. \A v \in Writers \ {w} :
          /\ writer'[v] = writer[v]
          /\ contacts'[l] = contacts[l] \/ ~Kept!StandsOn(v, l)
    BY <1>4, <2>1 DEF StepOf
  <2>4. \A v \in Writers \ {w} :
          /\ ReadHolds(v, l)' /\ Debt(v, l)' = Debt(v, l)
          /\ contacts'[l] # contacts[l] => Debt(v, l) = 0
    BY <2>1, <2>2, <2>3, OthersStand
  <2>5. Counted(l)'
    <3>1. CASE Emptying(l)'
      BY <3>1 DEF Counted
    <3>2. CASE Balanced(w, l)
      <4>1. restored[l] \in Int /\ restored'[l] = restored[l] + Again(w, l)
        BY <2>1 DEF KeptInv
      <4>2. QED
        BY <1>1, <2>1, <2>2, <2>3, <2>4, <3>2, <4>1, StaysCounted
    <3>3. QED
      BY <2>1, <3>1, <3>2
  <2>6. QED
    BY <2>1, <2>4, <2>5
<1>5. restored' \in [Kept!Kinds -> Nat]
  BY DEF KeptInv, Again
<1>6. QED
  BY <1>1, <1>2, <1>3, <1>4, <1>5 DEF KeptInv

-----------------------------------------------------------------------------
(* Lists: the steps *)

LEMMA Quiet ==
  ASSUME Kept!ListsAssumption, KeptInv, NEW w \in Writers, KeptType',
         UNCHANGED <<there, contacts, count, out>>, UNCHANGED released,
         \A v \in Writers \ {w} : writer'[v] = writer[v],
         Shape(writer'[w]), Taken(w)',
         writer[w].at \notin {"count", "uncount", "unlist"},
         writer'[w].at \notin {"count", "uncount"},
         \A l \in there \ blurred' : ReadHolds(w, l)'
  PROVE  StepOf(w)
<1>1. \A l \in Kept!Kinds : Debt(w, l) = 0 /\ Debt(w, l)' = 0
  BY DEF Debt
<1>2. ASSUME NEW l \in Kept!Kinds
      PROVE  Balanced(w, l)
  <2>1. Again(w, l) = 0 /\ count[l] \in Int /\ KeptType
    BY DEF Again, KeptInv, KeptType
  <2>2. QED
    BY <1>1, <2>1 DEF Balanced
<1>3. there \subseteq Kept!Kinds
  BY DEF KeptInv, KeptType
<1>4. (out' \ out) \ released' \subseteq contacts'[Kept!OptOuts]
  OBVIOUS
<1>5. QED
  BY <1>2, <1>3, <1>4 DEF StepOf

LEMMA IdleIs ==
  ASSUME Kept!ListsAssumption
  PROVE  /\ Kept!Idle \in Records /\ Kept!Idle.at = "idle" /\ Kept!Idle.old = {}
         /\ Kept!Idle.list = Kept!Standard /\ Kept!Idle.into = Kept!Standard
<1>1. PICK none : none = {}
  OBVIOUS
<1>2. none \in SUBSET Mobiles
  BY <1>1
<1>3. Kept!Idle = [at |-> "idle", list |-> Kept!Standard, into |-> Kept!Standard,
                   mobiles |-> none, room |-> 0, fresh |-> 0, old |-> none]
  BY <1>1 DEF Kept!Idle
<1>4. Kept!Idle \in Records
  BY <1>2, <1>3, KindsAre DEF Records, Places
<1>5. QED
  BY <1>1, <1>3, <1>4

Firsts == {"room", "insert", "drop", "delete", "opt out", "doomed", "empty", "existing"}

LEMMA Begun ==
  ASSUME Kept!ListsAssumption, KeptInv, NEW w \in Writers, NEW l \in Kept!Kinds,
         NEW begun \in Records, Kept!Begin(w, l, begun), Shape(begun),
         begun.at \in Firsts,
         begun.at = "existing" => begun.list = begun.into,
         begun.at = "doomed" => begun.mobiles \subseteq contacts[begun.list]
  PROVE  StepOf(w)
<1>1. /\ UNCHANGED <<there, contacts, count, out>> /\ UNCHANGED released
      /\ writer[w].at = "idle" /\ writer' = [writer EXCEPT ![w] = begun]
  BY DEF Kept!Begin, Kept!At
<1>2. KeptType' /\ writer'[w] = begun /\ \A v \in Writers \ {w} : writer'[v] = writer[v]
  BY <1>1 DEF KeptInv, KeptType
<1>3. Taken(w)' /\ \A k \in there \ blurred' : ReadHolds(w, k)'
  BY <1>1, <1>2 DEF Taken, ReadHolds, TakesOut, Kept!Moves, Firsts
<1>4. writer'[w].at \notin {"count", "uncount"}
  BY <1>2 DEF Firsts
<1>5. QED
  BY <1>1, <1>2, <1>3, <1>4, Quiet

\* One contact and room for it.
LEMMA OneContact ==
  ASSUME NEW m \in Mobiles
  PROVE  {m} \in SUBSET Mobiles /\ Kept!Cardinality({m}) = 1
<1>1. Kept!Cardinality({m}) = 1
  BY SameSize, FS_Singleton
<1>2. QED
  BY <1>1

LEMMA RoomIsSome ==
  ASSUME Kept!ListsAssumption, KeptInv, NEW l \in Kept!Kinds
  PROVE  Kept!RoomOf(l) \in Int /\ Kept!Cardinality(Mobiles) \in Int
<1>1. \A S \in SUBSET Mobiles : Kept!Cardinality(S) \in Nat
  BY Sizes
<1>2. Kept!Cardinality(Mobiles) \in Int
  BY <1>1
<1>3. LIST_CEILING \in Int /\ count[l] \in Int
  BY DEF Kept!ListsAssumption, KeptInv, KeptType
<1>4. QED
  BY <1>2, <1>3 DEF Kept!RoomOf

LEMMA BeginKeeps ==
  ASSUME Kept!ListsAssumption, KeptInv, NEW w \in Writers, Kept!Begins(w)
  PROVE  StepOf(w)
<1>1. CASE Kept!StartCleanUp(w) \/ Kept!StartDeleteList(w)
  <2>1. PICK ms \in SUBSET Mobiles : ms = contacts[Kept!Standard]
    BY KindsAre DEF KeptInv, KeptType
  <2>2. PICK place \in {"doomed", "empty"} :
          Kept!Begin(w, Kept!Standard, [Kept!Idle EXCEPT !.at = place, !.mobiles = ms])
    BY <1>1, <2>1 DEF Kept!StartCleanUp, Kept!StartDeleteList
  <2>3. PICK begun : begun = [Kept!Idle EXCEPT !.at = place, !.mobiles = ms]
    OBVIOUS
  <2>4. /\ begun \in Records /\ begun.at = place /\ begun.mobiles = ms
        /\ begun.list = Kept!Standard /\ begun.into = Kept!Standard
    BY <2>2, <2>3, IdleIs DEF Records, Places
  <2>5. Shape(begun)
    BY <2>2, <2>4 DEF Shape
  <2>6. QED
    BY <2>1, <2>2, <2>3, <2>4, <2>5, KindsAre, Begun DEF Firsts
<1>2. CASE \E m \in Mobiles : Kept!StartOptOut(w, m)
  <2>1. PICK m \in Mobiles : Kept!StartOptOut(w, m)
    BY <1>2
  <2>2. PICK ms \in SUBSET Mobiles : ms = {m} /\ Kept!Cardinality(ms) = 1
    BY <2>1, OneContact, KindsAre
  <2>3. PICK begun : begun = [Kept!Idle EXCEPT !.at = "insert", !.list = Kept!OptOuts,
                                                    !.mobiles = ms]
    OBVIOUS
  <2>4. /\ begun \in Records /\ begun.at = "insert" /\ begun.mobiles = ms
        /\ begun.old = {}
    BY <2>2, <2>3, IdleIs, KindsAre DEF Records, Places
  <2>5. Shape(begun)
    BY <2>2, <2>4 DEF Shape
  <2>6. Kept!Begin(w, Kept!OptOuts, begun)
    BY <2>1, <2>2, <2>3 DEF Kept!StartOptOut
  <2>7. QED
    BY <2>4, <2>5, <2>6, KindsAre, Begun DEF Firsts
<1>3. CASE \E l \in Kept!Kinds, m \in Mobiles : Kept!StartAdd(w, l, m)
  <2>1. PICK l \in Kept!Kinds, m \in Mobiles : Kept!StartAdd(w, l, m)
    BY <1>3
  <2>2. PICK ms \in SUBSET Mobiles, room \in Int :
          ms = {m} /\ Kept!Cardinality(ms) = 1 /\ room = Kept!RoomOf(l)
    BY <2>1, OneContact, RoomIsSome
  <2>3. PICK begun : begun = [Kept!Idle EXCEPT !.at = "room", !.list = l,
                                                    !.mobiles = ms, !.room = room]
    OBVIOUS
  <2>4. /\ begun \in Records /\ begun.at = "room" /\ begun.mobiles = ms
        /\ begun.old = {}
    BY <2>1, <2>2, <2>3, IdleIs DEF Records, Places
  <2>5. Shape(begun)
    BY <2>2, <2>4 DEF Shape
  <2>6. Kept!Begin(w, l, begun)
    BY <2>1, <2>2, <2>3 DEF Kept!StartAdd
  <2>7. QED
    BY <2>1, <2>4, <2>5, <2>6, Begun DEF Firsts
<1>4. CASE \E l \in Kept!Kinds, m \in Mobiles, old \in Mobiles : Kept!StartUpdate(w, l, old, m)
  <2>1. PICK l \in Kept!Kinds, m \in Mobiles, old \in Mobiles : Kept!StartUpdate(w, l, old, m)
    BY <1>4
  <2>2. PICK ms \in SUBSET Mobiles, room \in Int :
          ms = {m} /\ Kept!Cardinality(ms) = 1 /\ room = Kept!RoomOf(l)
    BY <2>1, OneContact, RoomIsSome
  <2>3. PICK gone \in SUBSET Mobiles :
          gone = {old} \ {m} /\ (gone # {} => Kept!Cardinality(gone) = 1)
    <3>1. {old} \ {m} = {} \/ {old} \ {m} = {old}
      OBVIOUS
    <3>2. {old} \in SUBSET Mobiles /\ Kept!Cardinality({old}) = 1
      BY <2>1, OneContact
    <3>3. QED
      BY <3>1, <3>2
  <2>4. PICK begun : begun = [Kept!Idle EXCEPT !.at = "room", !.list = l, !.mobiles = ms,
                                                    !.room = room, !.old = gone]
    OBVIOUS
  <2>5. /\ begun \in Records /\ begun.at = "room" /\ begun.mobiles = ms
        /\ begun.old = gone
    BY <2>1, <2>2, <2>3, <2>4, IdleIs DEF Records, Places
  <2>6. Shape(begun)
    BY <2>2, <2>3, <2>5 DEF Shape
  <2>7. Kept!Begin(w, l, begun)
    BY <2>1, <2>2, <2>3, <2>4 DEF Kept!StartUpdate
  <2>8. QED
    BY <2>1, <2>5, <2>6, <2>7, Begun DEF Firsts
<1>5. CASE \E l \in Kept!Kinds, m \in Mobiles : Kept!StartRemove(w, l, m)
  <2>1. PICK l \in Kept!Kinds, m \in Mobiles : Kept!StartRemove(w, l, m)
    BY <1>5
  <2>2. PICK ms \in SUBSET Mobiles : ms = {m} /\ ms # {} /\ Kept!Cardinality(ms) = 1
    BY <2>1, OneContact
  <2>3. PICK begun : begun = [Kept!Idle EXCEPT !.at = "drop", !.list = l, !.old = ms]
    OBVIOUS
  <2>4. begun \in Records /\ begun.at = "drop" /\ begun.old = ms
    BY <2>1, <2>2, <2>3, IdleIs DEF Records, Places
  <2>5. Shape(begun)
    BY <2>2, <2>4 DEF Shape
  <2>6. Kept!Begin(w, l, begun)
    BY <2>1, <2>2, <2>3 DEF Kept!StartRemove
  <2>7. QED
    BY <2>1, <2>4, <2>5, <2>6, Begun DEF Firsts
<1>6. CASE \E l \in Kept!Kinds, ms \in (SUBSET Mobiles) \ {{}} : Kept!StartImport(w, l, ms)
  <2>1. PICK l \in Kept!Kinds, ms \in (SUBSET Mobiles) \ {{}} : Kept!StartImport(w, l, ms)
    BY <1>6
  <2>2. PICK room \in Int : room = Kept!RoomOf(l)
    BY <2>1, RoomIsSome
  <2>3. PICK begun : begun = [Kept!Idle EXCEPT !.at = "existing", !.list = l, !.into = l,
                                                    !.mobiles = ms, !.room = room]
    OBVIOUS
  <2>4. /\ begun \in Records /\ begun.at = "existing" /\ begun.mobiles = ms
        /\ begun.list = l /\ begun.into = l
    BY <2>1, <2>2, <2>3, IdleIs DEF Records, Places
  <2>5. Shape(begun)
    BY <2>1, <2>4 DEF Shape
  <2>6. Kept!Begin(w, l, begun)
    BY <2>1, <2>2, <2>3 DEF Kept!StartImport
  <2>7. QED
    BY <2>1, <2>4, <2>5, <2>6, Begun DEF Firsts
<1>7. CASE \E l \in Kept!Kinds, ms \in (SUBSET Mobiles) \ {{}}, action \in {"delete", "opt out"} :
             Kept!StartBulk(w, l, ms, action)
  <2>1. PICK l \in Kept!Kinds, ms \in (SUBSET Mobiles) \ {{}}, action \in {"delete", "opt out"} :
          Kept!StartBulk(w, l, ms, action)
    BY <1>7
  <2>2. PICK begun : begun = [Kept!Idle EXCEPT !.at = action, !.list = l, !.mobiles = ms]
    OBVIOUS
  <2>3. begun \in Records /\ begun.at = action
    BY <2>1, <2>2, IdleIs DEF Records, Places
  <2>4. Shape(begun)
    BY <2>1, <2>3 DEF Shape
  <2>5. Kept!Begin(w, l, begun)
    BY <2>1, <2>2 DEF Kept!StartBulk
  <2>6. QED
    BY <2>1, <2>3, <2>4, <2>5, Begun DEF Firsts
<1>8. QED
  BY <1>1, <1>2, <1>3, <1>4, <1>5, <1>6, <1>7 DEF Kept!Begins

\* Where a request goes on to, with what it has, or ends.
GoesOn(w, place) ==
  /\ writer' \in [Writers -> Records]
  /\ \A v \in Writers \ {w} : writer'[v] = writer[v]
  /\ writer'[w].at = place
  /\ writer'[w].list = writer[w].list /\ writer'[w].into = writer[w].into
  /\ writer'[w].mobiles = writer[w].mobiles /\ writer'[w].old = writer[w].old
  /\ writer'[w].fresh = writer[w].fresh

Ends(w) ==
  /\ writer' \in [Writers -> Records]
  /\ \A v \in Writers \ {w} : writer'[v] = writer[v]
  /\ writer'[w].at = "idle"

LEMMA GoingOn ==
  ASSUME Kept!ListsAssumption, KeptInv, NEW w \in Writers
  PROVE  /\ \A place \in Places : Kept!Goto(w, place) => GoesOn(w, place)
         /\ Kept!Done(w) => Ends(w)
<1>1. writer \in [Writers -> Records]
  BY DEF KeptInv, KeptType
<1>2. ASSUME NEW place \in Places, Kept!Goto(w, place)
      PROVE  GoesOn(w, place)
  BY <1>1, <1>2 DEF Kept!Goto, GoesOn, Records
<1>3. Kept!Done(w) => Ends(w)
  BY <1>1, IdleIs DEF Kept!Done, Ends
<1>4. QED
  BY <1>2, <1>3

\* Nothing depends on a request that ended.
LEMMA EndedIsNothing ==
  ASSUME NEW w \in Writers, writer'[w].at = "idle"
  PROVE  /\ Shape(writer'[w]) /\ Taken(w)'
         /\ \A l : ReadHolds(w, l)' /\ Debt(w, l)' = 0
<1>1. Shape(writer'[w])
  BY DEF Shape
<1>2. Taken(w)'
  BY DEF Taken
<1>3. \A l : ReadHolds(w, l)' /\ Debt(w, l)' = 0
  BY DEF ReadHolds, TakesOut, Debt
<1>4. QED
  BY <1>1, <1>2, <1>3

LEMMA QuietEnd ==
  ASSUME Kept!ListsAssumption, KeptInv, NEW w \in Writers, Ends(w),
         UNCHANGED <<there, contacts, count, out>>, UNCHANGED released,
         writer[w].at \notin {"count", "uncount", "unlist"}
  PROVE  StepOf(w)
<1>1. KeptType'
  BY DEF Ends, KeptInv, KeptType
<1>2. Shape(writer'[w]) /\ Taken(w)' /\ \A l : ReadHolds(w, l)'
  BY EndedIsNothing DEF Ends
<1>3. writer'[w].at \notin {"count", "uncount"} /\ \A v \in Writers \ {w} : writer'[v] = writer[v]
  BY DEF Ends
<1>4. QED
  BY <1>1, <1>2, <1>3, Quiet

\* Steps that only read.
LEMMA RoomKeeps ==
  ASSUME Kept!ListsAssumption, KeptInv, NEW w \in Writers, NEW l \in Kept!Kinds, Kept!Room(w, l)
  PROVE  StepOf(w)
<1>1. /\ writer[w].at = "room" /\ UNCHANGED <<there, contacts, count, out>>
      /\ UNCHANGED released /\ (Kept!Goto(w, "insert") \/ Kept!Done(w))
  BY DEF Kept!Room, Kept!At, Kept!Keeps, Kept!History
<1>2. CASE Kept!Goto(w, "insert")
  <2>1. GoesOn(w, "insert")
    BY <1>2, GoingOn DEF Places
  <2>2. KeptType' /\ Shape(writer'[w]) /\ Taken(w)'
    BY <1>1, <2>1 DEF GoesOn, KeptInv, KeptType, Shape, Taken
  <2>3. \A k \in there \ blurred' : ReadHolds(w, k)'
    BY <2>1 DEF GoesOn, ReadHolds, TakesOut
  <2>4. writer'[w].at \notin {"count", "uncount"} /\ \A v \in Writers \ {w} : writer'[v] = writer[v]
    BY <2>1 DEF GoesOn
  <2>5. QED
    BY <1>1, <2>2, <2>3, <2>4, Quiet
<1>3. CASE Kept!Done(w)
  BY <1>1, <1>3, GoingOn, QuietEnd
<1>4. QED
  BY <1>1, <1>2, <1>3

LEMMA DoomedKeeps ==
  ASSUME Kept!ListsAssumption, KeptInv, NEW w \in Writers, Kept!Doomed(w), blurred \subseteq blurred'
  PROVE  StepOf(w)
<1>1. /\ writer[w].at = "doomed" /\ UNCHANGED <<there, contacts, count, out>>
      /\ UNCHANGED released
  BY DEF Kept!Doomed, Kept!At, Kept!Keeps, Kept!History
<1>2. PICK doomed \in SUBSET Mobiles : doomed = writer[w].mobiles \cap contacts[Kept!OptOuts]
  BY DEF KeptInv, KeptType, Records
<1>3. CASE doomed = {}
  <2>1. Kept!Done(w)
    BY <1>2, <1>3 DEF Kept!Doomed
  <2>2. QED
    BY <1>1, <2>1, GoingOn, QuietEnd
<1>4. CASE doomed # {}
  <2>1. writer' = [writer EXCEPT ![w].mobiles = doomed, ![w].at = "remove"]
    BY <1>2, <1>4 DEF Kept!Doomed
  <2>2. /\ KeptType' /\ \A v \in Writers \ {w} : writer'[v] = writer[v]
        /\ writer'[w].at = "remove" /\ writer'[w].mobiles = doomed
        /\ writer'[w].list = writer[w].list /\ writer'[w].into = writer[w].into
    BY <1>1, <2>1, ZenonT(40) DEF KeptInv, KeptType, Records, Places
  <2>3. Shape(writer[w])
    BY DEF KeptInv
  <2>4. writer'[w].list = Kept!Standard /\ writer'[w].into = Kept!Standard
    BY <1>1, <2>2, <2>3 DEF Shape
  <2>5. Shape(writer'[w])
    BY <1>4, <2>2, <2>4 DEF Shape
  <2>6. Taken(w)'
    BY <2>4 DEF Taken, Kept!Moves
  <2>7. \A k \in there \ blurred' : ReadHolds(w, k)'
    <3> SUFFICES ASSUME NEW k \in there \ blurred', writer[w].list = k
                 PROVE  doomed \subseteq contacts[k]
      BY <1>1, <2>2 DEF ReadHolds, TakesOut
    <3>1. ReadHolds(w, k)
      BY DEF KeptInv
    <3>2. writer[w].mobiles \subseteq contacts[k]
      BY <1>1, <3>1 DEF ReadHolds, TakesOut
    <3>3. QED
      BY <1>2, <3>2
  <2>8. QED
    BY <1>1, <2>2, <2>5, <2>6, <2>7, Quiet
<1>5. QED
  BY <1>3, <1>4

LEMMA BulkKeeps ==
  ASSUME Kept!ListsAssumption, KeptInv, NEW w \in Writers, NEW l \in Kept!Kinds,
         Kept!BulkPresent(w, l)
  PROVE  StepOf(w)
<1>1. /\ writer[w].at \in {"delete", "opt out"} /\ writer[w].list = l
      /\ UNCHANGED <<there, contacts, count, out>> /\ UNCHANGED released
  BY DEF Kept!BulkPresent, Kept!At, Kept!Keeps, Kept!History
<1>2. PICK present \in SUBSET Mobiles : present = writer[w].mobiles \cap contacts[l]
  BY DEF KeptInv, KeptType, Records
<1>3. CASE present = {} \/ (writer[w].at = "opt out" /\ l = Kept!OptOuts)
  <2>1. Kept!Done(w)
    BY <1>2, <1>3 DEF Kept!BulkPresent, Kept!Present, Kept!At
  <2>2. QED
    BY <1>1, <2>1, GoingOn, QuietEnd
<1>4. CASE ~(present = {} \/ (writer[w].at = "opt out" /\ l = Kept!OptOuts))
  <2>1. PICK place \in {"remove", "existing"}, into \in Kept!Kinds, room \in Int :
          /\ writer' = [writer EXCEPT ![w].mobiles = present, ![w].at = place,
                                      ![w].into = into, ![w].room = room]
          /\ IF writer[w].at = "delete" THEN place = "remove" /\ into = l
             ELSE place = "existing" /\ into = Kept!OptOuts
    BY <1>2, <1>4, RoomIsSome, KindsAre DEF Kept!BulkPresent, Kept!Present, Kept!At
  <2>2. /\ KeptType' /\ \A v \in Writers \ {w} : writer'[v] = writer[v]
        /\ writer'[w].at = place /\ writer'[w].mobiles = present
        /\ writer'[w].list = l /\ writer'[w].into = into
    <3>1. /\ place \in Places /\ writer \in [Writers -> Records]
          /\ into \in Kept!Kinds /\ room \in Int /\ present \in SUBSET Mobiles
      BY <1>2, <2>1 DEF Places, KeptInv, KeptType
    <3>2. writer' = [writer EXCEPT ![w].mobiles = present, ![w].at = place,
                                   ![w].into = into, ![w].room = room]
      BY <2>1
    <3>3. /\ writer' \in [Writers -> Records] /\ \A v \in Writers \ {w} : writer'[v] = writer[v]
          /\ writer'[w].at = place /\ writer'[w].mobiles = present
          /\ writer'[w].list = writer[w].list /\ writer'[w].into = into
      <4>1. PICK r : r = [[[[writer[w] EXCEPT !.mobiles = present] EXCEPT !.at = place]
                              EXCEPT !.into = into] EXCEPT !.room = room]
        OBVIOUS
      <4>2. r \in Records /\ r.at = place /\ r.mobiles = present /\ r.into = into
            /\ r.list = writer[w].list
        BY <3>1, <4>1 DEF Records
      <4>3. writer' = [writer EXCEPT ![w] = r]
        BY <3>1, <3>2, <4>1
      <4>4. QED
        BY <3>1, <4>2, <4>3
    <3>4. QED
      BY <1>1, <3>3 DEF KeptInv, KeptType
  <2>3. into # l => l = Kept!Standard /\ into = Kept!OptOuts
    BY <1>1, <1>4, <2>1, KindsAre
  <2>4. Shape(writer'[w])
    BY <1>4, <2>1, <2>2, <2>3 DEF Shape
  <2>5. Taken(w)'
    BY <1>1, <2>1, <2>2 DEF Taken, Kept!Moves
  <2>6. present \subseteq contacts[l]
    BY <1>2
  <2>7. \A k \in there \ blurred' : ReadHolds(w, k)'
    BY <1>1, <2>1, <2>2, <2>6 DEF ReadHolds, TakesOut, Kept!Moves
  <2>8. writer'[w].at \notin {"count", "uncount"}
    BY <2>1, <2>2
  <2>9. QED
    BY <1>1, <2>2, <2>4, <2>5, <2>7, <2>8, Quiet
<1>5. QED
  BY <1>3, <1>4

LEMMA ExistingKeeps ==
  ASSUME Kept!ListsAssumption, KeptInv, NEW w \in Writers, NEW l \in Kept!Kinds,
         Kept!Existing(w, l), blurred \subseteq blurred'
  PROVE  StepOf(w)
<1>1. /\ writer[w].at = "existing" /\ writer[w].into = l
      /\ UNCHANGED <<there, contacts, count, out>> /\ UNCHANGED released
  BY DEF Kept!Existing, Kept!At, Kept!Keeps, Kept!History
<1>2. writer[w].mobiles \in SUBSET Mobiles /\ contacts[l] \in SUBSET Mobiles
  BY DEF KeptInv, KeptType, Records
<1>3. writer[w].mobiles \ contacts[l] \in SUBSET Mobiles
  BY <1>2
<1>4. PICK fresh \in Nat : fresh = Kept!Cardinality(writer[w].mobiles \ contacts[l])
  BY <1>3, Sizes
<1>5. CASE Kept!Done(w)
  BY <1>1, <1>5, GoingOn, QuietEnd
<1>6. CASE writer' = [writer EXCEPT ![w].fresh = fresh, ![w].at = "put"]
  <2>1. /\ KeptType' /\ \A v \in Writers \ {w} : writer'[v] = writer[v]
        /\ writer'[w].at = "put" /\ writer'[w].mobiles = writer[w].mobiles
        /\ writer'[w].list = writer[w].list /\ writer'[w].into = l /\ writer'[w].fresh = fresh
    BY <1>1, <1>6, ZenonT(40) DEF KeptInv, KeptType, Records, Places
  <2>2. Shape(writer[w])
    BY DEF KeptInv
  <2>3. Shape(writer'[w])
    BY <1>1, <2>1, <2>2 DEF Shape
  <2>4. Taken(w)'
    BY <2>1 DEF Taken
  <2>5. \A k \in there \ blurred' : ReadHolds(w, k)'
    <3> SUFFICES ASSUME NEW k \in there \ blurred'
                 PROVE  ReadHolds(w, k)'
      OBVIOUS
    <3>1. ReadHolds(w, k)
      BY DEF KeptInv
    <3>2. QED
      BY <1>1, <1>4, <2>1, <3>1 DEF ReadHolds, TakesOut, Kept!Moves
  <2>6. QED
    BY <1>1, <2>1, <2>3, <2>4, <2>5, Quiet
<1>7. QED
  BY <1>4, <1>5, <1>6 DEF Kept!Existing

\* What writing to a list makes of the contacts and the counter.
Others(l) == \A k \in Kept!Kinds \ {l} : contacts'[k] = contacts[k]

LEMMA WritingIs ==
  ASSUME KeptType, NEW l \in Kept!Kinds, NEW ms \in SUBSET Mobiles
  PROVE  /\ Kept!Put(l, ms) =>
              /\ contacts' \in [Kept!Kinds -> SUBSET Mobiles]
              /\ contacts'[l] = contacts[l] \cup ms /\ Others(l)
         /\ Kept!Delete(l, ms) =>
              /\ contacts' \in [Kept!Kinds -> SUBSET Mobiles]
              /\ contacts'[l] = contacts[l] \ ms /\ Others(l)
         /\ \A delta \in Int : Kept!CountChange(l, delta) =>
              /\ count' \in [Kept!Kinds -> Int]
              /\ l \in there => count'[l] = count[l] + delta
              /\ \A k \in Kept!Kinds \ {l} : count'[k] = count[k]
<1>1. ASSUME Kept!Put(l, ms)
      PROVE  /\ contacts' \in [Kept!Kinds -> SUBSET Mobiles]
             /\ contacts'[l] = contacts[l] \cup ms /\ Others(l)
  BY <1>1 DEF Kept!Put, KeptType, Others
<1>2. ASSUME Kept!Delete(l, ms)
      PROVE  /\ contacts' \in [Kept!Kinds -> SUBSET Mobiles]
             /\ contacts'[l] = contacts[l] \ ms /\ Others(l)
  BY <1>2 DEF Kept!Delete, KeptType, Others
<1>3. ASSUME NEW delta \in Int, Kept!CountChange(l, delta)
      PROVE  /\ count' \in [Kept!Kinds -> Int]
             /\ l \in there => count'[l] = count[l] + delta
             /\ \A k \in Kept!Kinds \ {l} : count'[k] = count[k]
  <2>1. CASE l \in there
    BY <1>3, <2>1 DEF Kept!CountChange, KeptType
  <2>2. CASE l \notin there
    BY <1>3, <2>2 DEF Kept!CountChange, KeptType
  <2>3. QED
    BY <2>1, <2>2
<1>4. QED
  BY <1>1, <1>2, <1>3

\* What is taken off the opt-out list is released.
LEMMA ReleasedAreOut ==
  ASSUME KeptType, NEW l \in Kept!Kinds, NEW ms \in SUBSET Mobiles,
         Kept!Delete(l, ms), Kept!Releases(l, ms)
  PROVE  /\ released \subseteq released'
         /\ contacts[Kept!OptOuts] \ released' \subseteq contacts'[Kept!OptOuts]
         /\ l # Kept!OptOuts => released' = released /\ contacts'[Kept!OptOuts] = contacts[Kept!OptOuts]
<1>1. contacts'[l] = contacts[l] \ ms /\ \A k \in Kept!Kinds \ {l} : contacts'[k] = contacts[k]
  BY WritingIs DEF Others
<1>2. CASE l = Kept!OptOuts
  BY <1>1, <1>2 DEF Kept!Releases
<1>3. CASE l # Kept!OptOuts
  BY <1>1, <1>3, KindsAre DEF Kept!Releases
<1>4. QED
  BY <1>2, <1>3

\* A contact that is in a list: the one it replaces is dropped, or the request is done.
LEMMA StoredIs ==
  ASSUME Kept!ListsAssumption, KeptInv, NEW w \in Writers, NEW l \in Kept!Kinds,
         writer[w].at \in {"insert", "overwrite"}, writer[w].list = l, Kept!Stored(w, l),
         Kept!Put(l, writer[w].mobiles), UNCHANGED released
  PROVE  /\ writer' \in [Writers -> Records]
         /\ \A v \in Writers \ {w} : writer'[v] = writer[v]
         /\ Shape(writer'[w]) /\ Taken(w)'
         /\ \A k : ReadHolds(w, k)' /\ Debt(w, k) = 0 /\ Debt(w, k)' = 0
         /\ released \subseteq released'
         /\ contacts[Kept!OptOuts] \ released' \subseteq contacts'[Kept!OptOuts]
         /\ (out' \ out) \ released' \subseteq contacts'[Kept!OptOuts]
<1>1. writer[w].mobiles \in SUBSET Mobiles /\ KeptType /\ Shape(writer[w])
  BY DEF KeptInv, KeptType, Records
<1>2. contacts'[l] = contacts[l] \cup writer[w].mobiles
      /\ \A k \in Kept!Kinds \ {l} : contacts'[k] = contacts[k]
  BY <1>1, WritingIs DEF Others
<1>3. contacts[Kept!OptOuts] \subseteq contacts'[Kept!OptOuts]
  BY <1>2, KindsAre
<1>4. (out' \ out) \ released' \subseteq contacts'[Kept!OptOuts]
  BY <1>2, KindsAre DEF Kept!Stored
<1>5. \A k : Debt(w, k) = 0
  BY DEF Debt
<1>6. CASE writer[w].old = {}
  <2>1. Ends(w)
    BY <1>6, GoingOn DEF Kept!Stored
  <2>2. QED
    BY <1>3, <1>4, <1>5, <2>1, EndedIsNothing DEF Ends
<1>7. CASE writer[w].old # {}
  <2>1. GoesOn(w, "drop")
    BY <1>7, GoingOn DEF Kept!Stored, Places
  <2>2. Shape(writer'[w])
    BY <1>1, <1>7, <2>1 DEF GoesOn, Shape
  <2>3. Taken(w)'
    BY <2>1 DEF GoesOn, Taken
  <2>4. \A k : ReadHolds(w, k)' /\ Debt(w, k)' = 0
    BY <2>1 DEF GoesOn, ReadHolds, TakesOut, Debt
  <2>5. QED
    BY <1>3, <1>4, <1>5, <2>1, <2>2, <2>3, <2>4 DEF GoesOn
<1>8. QED
  BY <1>6, <1>7

\* A list that the request leaves alone, and one to which it settles what it does.
LEMMA BalanceIs ==
  ASSUME Kept!ListsAssumption, KeptType, KeptType', NEW w \in Writers, NEW k \in Kept!Kinds,
         ~(writer[w].at = "unlist" /\ writer[w].list = k),
         writer[w].at # "overwrite" \/ contacts'[k] = contacts[k]
  PROVE  /\ contacts'[k] = contacts[k] /\ count'[k] = count[k] /\ Debt(w, k)' = Debt(w, k)
              => Balanced(w, k)
         /\ \A delta \in Int :
              /\ Debt(w, k)' = 0 /\ count'[k] + 0 = count[k] + Debt(w, k) + delta
              /\ Kept!Cardinality(contacts'[k]) = Kept!Cardinality(contacts[k]) + delta
              => Balanced(w, k)
<1>1. /\ Debt(w, k) \in Int /\ count[k] \in Int /\ Kept!Cardinality(contacts[k]) \in Int
      /\ Debt(w, k)' \in Int /\ count'[k] \in Int /\ Kept!Cardinality(contacts'[k]) \in Int
      /\ Again(w, k) = 0
  BY DebtIs DEF Again
<1>2. ASSUME contacts'[k] = contacts[k], count'[k] = count[k], Debt(w, k)' = Debt(w, k)
      PROVE  Balanced(w, k)
  BY <1>1, <1>2 DEF Balanced
<1>3. ASSUME NEW delta \in Int,
             Debt(w, k)' = 0, count'[k] + 0 = count[k] + Debt(w, k) + delta,
             Kept!Cardinality(contacts'[k]) = Kept!Cardinality(contacts[k]) + delta
      PROVE  Balanced(w, k)
  BY <1>1, <1>3 DEF Balanced
<1>4. QED
  BY <1>2, <1>3

LEMMA InsertKeeps ==
  ASSUME Kept!ListsAssumption, KeptInv, NEW w \in Writers, NEW l \in Kept!Kinds,
         Kept!Insert(w, l), blurred \subseteq blurred'
  PROVE  StepOf(w)
<1>1. /\ writer[w].at = "insert" /\ writer[w].list = l
      /\ UNCHANGED there /\ UNCHANGED released
  BY DEF Kept!Insert, Kept!At
<1>2. /\ writer[w].mobiles \in SUBSET Mobiles /\ KeptType /\ contacts[l] \in SUBSET Mobiles
      /\ Shape(writer[w])
  BY DEF KeptInv, KeptType, Records
<1>3. Kept!Cardinality(writer[w].mobiles) = 1
  BY <1>1, <1>2 DEF Shape
<1>4. CASE l \in there /\ writer[w].mobiles \cap contacts[l] = {}
  <2>1. Kept!Put(l, writer[w].mobiles) /\ Kept!CountChange(l, 1) /\ Kept!Stored(w, l)
    BY <1>4 DEF Kept!Insert
  <2>2. /\ writer' \in [Writers -> Records]
        /\ \A v \in Writers \ {w} : writer'[v] = writer[v]
        /\ Shape(writer'[w]) /\ Taken(w)'
        /\ \A k : ReadHolds(w, k)' /\ Debt(w, k) = 0 /\ Debt(w, k)' = 0
        /\ released \subseteq released'
        /\ contacts[Kept!OptOuts] \ released' \subseteq contacts'[Kept!OptOuts]
        /\ (out' \ out) \ released' \subseteq contacts'[Kept!OptOuts]
    BY <1>1, <2>1, StoredIs
  <2>3. /\ contacts' \in [Kept!Kinds -> SUBSET Mobiles]
        /\ contacts'[l] = contacts[l] \cup writer[w].mobiles
        /\ \A k \in Kept!Kinds \ {l} : contacts'[k] = contacts[k]
    BY <1>2, <2>1, WritingIs DEF Others
  <2>4. /\ count' \in [Kept!Kinds -> Int] /\ count'[l] = count[l] + 1
        /\ \A k \in Kept!Kinds \ {l} : count'[k] = count[k]
    BY <1>2, <1>4, <2>1, WritingIs
  <2>5. Kept!Cardinality(contacts'[l]) = Kept!Cardinality(contacts[l]) + 1
    BY <1>2, <1>3, <1>4, <2>3, Sizes
  <2>6. Kept!Cardinality(contacts[l]) \in Nat /\ count[l] \in Int
    BY <1>2, Sizes DEF KeptType
  <2>7. KeptType'
    BY <1>1, <1>2, <2>2, <2>3, <2>4 DEF KeptType
  <2>8. \A k \in Kept!Kinds : Balanced(w, k)
    <3>1. count'[l] + 0 = count[l] + Debt(w, l) + 1
      BY <2>2, <2>4, <2>6
    <3>2. Balanced(w, l)
      BY <1>1, <1>2, <2>2, <2>5, <2>7, <3>1, BalanceIs
    <3>3. QED
      BY <1>1, <1>2, <2>2, <2>3, <2>4, <2>7, <3>2, BalanceIs
  <2>9. QED
    BY <1>1, <1>2, <2>2, <2>7, <2>8 DEF StepOf, KeptType
<1>5. CASE ~(l \in there /\ writer[w].mobiles \cap contacts[l] = {})
  <2>1. Kept!Goto(w, "overwrite") /\ UNCHANGED <<contacts, count, out>>
    BY <1>5 DEF Kept!Insert
  <2>2. GoesOn(w, "overwrite")
    BY <2>1, GoingOn DEF Places
  <2>3. KeptType' /\ Shape(writer'[w]) /\ Taken(w)'
    BY <1>1, <1>2, <2>1, <2>2 DEF GoesOn, KeptType, Shape, Taken
  <2>4. \A k \in there \ blurred' : ReadHolds(w, k)'
    BY <2>2 DEF GoesOn, ReadHolds, TakesOut
  <2>5. writer'[w].at \notin {"count", "uncount"} /\ \A v \in Writers \ {w} : writer'[v] = writer[v]
    BY <2>2 DEF GoesOn
  <2>6. QED
    BY <1>1, <2>1, <2>3, <2>4, <2>5, Quiet
<1>6. QED
  BY <1>4, <1>5

LEMMA OverwriteKeeps ==
  ASSUME Kept!ListsAssumption, KeptInv, NEW w \in Writers, NEW l \in Kept!Kinds,
         Kept!Overwrite(w, l), blurred \subseteq blurred'
  PROVE  StepOf(w)
<1>1. /\ writer[w].at = "overwrite" /\ writer[w].list = l
      /\ UNCHANGED <<there, count>> /\ UNCHANGED released
      /\ Kept!Put(l, writer[w].mobiles) /\ Kept!Stored(w, l)
  BY DEF Kept!Overwrite, Kept!At
<1>2. /\ writer[w].mobiles \in SUBSET Mobiles /\ KeptType /\ contacts[l] \in SUBSET Mobiles
      /\ Shape(writer[w])
  BY DEF KeptInv, KeptType, Records
<1>3. /\ writer' \in [Writers -> Records]
      /\ \A v \in Writers \ {w} : writer'[v] = writer[v]
      /\ Shape(writer'[w]) /\ Taken(w)'
      /\ \A k : ReadHolds(w, k)' /\ Debt(w, k) = 0 /\ Debt(w, k)' = 0
      /\ released \subseteq released'
      /\ contacts[Kept!OptOuts] \ released' \subseteq contacts'[Kept!OptOuts]
      /\ (out' \ out) \ released' \subseteq contacts'[Kept!OptOuts]
  BY <1>1, StoredIs
<1>4. /\ contacts' \in [Kept!Kinds -> SUBSET Mobiles]
      /\ contacts'[l] = contacts[l] \cup writer[w].mobiles
      /\ \A k \in Kept!Kinds \ {l} : contacts'[k] = contacts[k]
  BY <1>1, <1>2, WritingIs DEF Others
<1>5. contacts'[l] # contacts[l] =>
        Kept!Cardinality(contacts'[l]) = Kept!Cardinality(contacts[l]) + 1
  <2>1. Kept!Cardinality(writer[w].mobiles) = 1
    BY <1>1, <1>2 DEF Shape
  <2>2. writer[w].mobiles \cap contacts[l] = {} \/ writer[w].mobiles \subseteq contacts[l]
    BY <1>2, <2>1, Sizes, Zenon
  <2>3. writer[w].mobiles \subseteq contacts[l] => contacts'[l] = contacts[l]
    BY <1>4
  <2>4. writer[w].mobiles \cap contacts[l] = {} =>
          Kept!Cardinality(contacts[l] \cup writer[w].mobiles)
            = Kept!Cardinality(contacts[l]) + 1
    BY <1>2, <2>1, Sizes
  <2>5. QED
    BY <1>4, <2>1, <2>2, <2>3, <2>4
<1>6. KeptType'
  BY <1>1, <1>2, <1>3, <1>4 DEF KeptType
<1>7. ASSUME NEW k \in there \ blurred'
      PROVE  Balanced(w, k)
  <2>1. k \in Kept!Kinds
    BY <1>2 DEF KeptType
  <2>2. CASE contacts'[k] = contacts[k]
    BY <1>1, <1>2, <1>3, <1>6, <2>1, <2>2, BalanceIs
  <2>3. CASE contacts'[k] # contacts[k]
    <3>1. k = l /\ count'[k] = count[k] /\ Again(w, k) = 1
      BY <1>1, <1>4, <2>1, <2>3 DEF Again
    <3>2. Kept!Cardinality(contacts'[k]) = Kept!Cardinality(contacts[k]) + 1
      BY <1>5, <2>3, <3>1
    <3>3. count[k] \in Int /\ Kept!Cardinality(contacts[k]) \in Int
      BY <1>2, <2>1, DebtIs
    <3>4. QED
      BY <1>1, <1>3, <2>3, <3>1, <3>2, <3>3 DEF Balanced
  <2>4. QED
    BY <2>2, <2>3
<1>8. QED
  BY <1>1, <1>3, <1>6, <1>7 DEF StepOf

LEMMA DropKeeps ==
  ASSUME Kept!ListsAssumption, KeptInv, NEW w \in Writers, NEW l \in Kept!Kinds, Kept!Drop(w, l)
  PROVE  StepOf(w)
<1>1. /\ writer[w].at = "drop" /\ writer[w].list = l /\ UNCHANGED <<there, out>>
      /\ Kept!DeleteOne(l, writer[w].old) /\ Kept!Done(w)
  BY DEF Kept!Drop, Kept!At
<1>2. /\ writer[w].old \in SUBSET Mobiles /\ KeptType /\ contacts[l] \in SUBSET Mobiles
      /\ Shape(writer[w])
  BY DEF KeptInv, KeptType, Records
<1>3. Kept!Cardinality(writer[w].old) = 1
  BY <1>1, <1>2 DEF Shape
<1>4. Ends(w)
  BY <1>1, GoingOn
<1>5. CASE l \in there /\ writer[w].old \subseteq contacts[l]
  <2>1. /\ Kept!Delete(l, writer[w].old) /\ Kept!CountChange(l, -1)
        /\ Kept!Releases(l, writer[w].old)
    BY <1>1, <1>5 DEF Kept!DeleteOne
  <2>2. /\ contacts' \in [Kept!Kinds -> SUBSET Mobiles]
        /\ contacts'[l] = contacts[l] \ writer[w].old
        /\ \A k \in Kept!Kinds \ {l} : contacts'[k] = contacts[k]
    BY <1>2, <2>1, WritingIs DEF Others
  <2>3. /\ count' \in [Kept!Kinds -> Int] /\ count'[l] = count[l] + (-1)
        /\ \A k \in Kept!Kinds \ {l} : count'[k] = count[k]
    <3>1. -1 \in Int
      OBVIOUS
    <3>2. QED
      BY <1>2, <1>5, <2>1, <3>1, WritingIs
  <2>4. /\ released \subseteq released'
        /\ contacts[Kept!OptOuts] \ released' \subseteq contacts'[Kept!OptOuts]
    BY <1>2, <2>1, ReleasedAreOut
  <2>5. Kept!Cardinality(contacts'[l]) = Kept!Cardinality(contacts[l]) - 1
    <3>1. Kept!Cardinality(contacts[l] \ writer[w].old)
            = Kept!Cardinality(contacts[l]) - Kept!Cardinality(writer[w].old)
      BY <1>2, <1>5, Sizes
    <3>2. QED
      BY <1>3, <2>2, <3>1
  <2>6. Kept!Cardinality(contacts[l]) \in Nat /\ count[l] \in Int
    BY <1>2, Sizes DEF KeptType
  <2>7. \A k : Debt(w, k) = 0 /\ Debt(w, k)' = 0
    BY <1>1, <1>4, EndedIsNothing DEF Ends, Debt
  <2>8. KeptType'
    BY <1>1, <1>2, <1>4, <2>2, <2>3 DEF KeptType, Ends
  <2>9. \A k \in Kept!Kinds : Balanced(w, k)
    <3>1. /\ -1 \in Int /\ count'[l] + 0 = count[l] + Debt(w, l) + (-1)
          /\ Kept!Cardinality(contacts'[l]) = Kept!Cardinality(contacts[l]) + (-1)
      BY <2>3, <2>5, <2>6, <2>7
    <3>2. Balanced(w, l)
      BY <1>1, <1>2, <2>7, <2>8, <3>1, BalanceIs
    <3>3. QED
      BY <1>1, <1>2, <2>2, <2>3, <2>7, <2>8, <3>2, BalanceIs
  <2>10. Shape(writer'[w]) /\ Taken(w)' /\ \A k : ReadHolds(w, k)'
    BY <1>4, EndedIsNothing DEF Ends
  <2>11. QED
    BY <1>1, <1>2, <1>4, <2>4, <2>8, <2>9, <2>10 DEF StepOf, KeptType, Ends
<1>6. CASE ~(l \in there /\ writer[w].old \subseteq contacts[l])
  <2>1. UNCHANGED <<contacts, count, released>>
    BY <1>1, <1>6 DEF Kept!DeleteOne
  <2>2. QED
    BY <1>1, <1>4, <2>1, QuietEnd
<1>7. QED
  BY <1>5, <1>6

\* Where batches go: what they were about they still are about.
LEMMA BatchGoes ==
  ASSUME NEW w \in Writers, NEW place, Shape(writer[w]), GoesOn(w, place),
         writer[w].at \in {"put", "count", "remove"}, place \in {"count", "remove", "uncount"}
  PROVE  /\ Shape(writer'[w])
         /\ Kept!Moves(w)' <=> Kept!Moves(w)
         /\ Kept!Moves(w) => writer[w].list = Kept!Standard /\ writer[w].into = Kept!OptOuts
BY DEF GoesOn, Shape, Kept!Moves

LEMMA PutKeeps ==
  ASSUME Kept!ListsAssumption, KeptInv, NEW w \in Writers, NEW l \in Kept!Kinds,
         Kept!PutMany(w, l), blurred \subseteq blurred'
  PROVE  StepOf(w)
<1>1. /\ writer[w].at = "put" /\ writer[w].into = l
      /\ UNCHANGED <<there, count, out>> /\ UNCHANGED released
      /\ Kept!Put(l, writer[w].mobiles)
  BY DEF Kept!PutMany, Kept!At, Kept!History
<1>2. /\ writer[w].mobiles \in SUBSET Mobiles /\ KeptType /\ contacts[l] \in SUBSET Mobiles
      /\ writer[w].fresh \in Nat /\ Shape(writer[w])
  BY DEF KeptInv, KeptType, Records
<1>3. /\ contacts' \in [Kept!Kinds -> SUBSET Mobiles]
      /\ contacts'[l] = contacts[l] \cup writer[w].mobiles
      /\ \A k \in Kept!Kinds \ {l} : contacts'[k] = contacts[k]
  BY <1>1, <1>2, WritingIs DEF Others
<1>4. /\ contacts[Kept!OptOuts] \ released' \subseteq contacts'[Kept!OptOuts]
      /\ (out' \ out) \ released' \subseteq contacts'[Kept!OptOuts]
  BY <1>1, <1>3, KindsAre
<1>5. \A k \in there \ blurred' : ReadHolds(w, k)
  BY DEF KeptInv
<1>6. \A k : Debt(w, k) = 0
  BY <1>1 DEF Debt
<1>7. l \in there \ blurred' =>
        Kept!Cardinality(contacts'[l]) = Kept!Cardinality(contacts[l]) + writer[w].fresh
  <2>1. Kept!Cardinality(contacts'[l])
          = Kept!Cardinality(contacts[l]) + Kept!Cardinality(writer[w].mobiles \ contacts[l])
    BY <1>2, <1>3, Sizes
  <2>2. QED
    BY <1>1, <1>5, <2>1 DEF ReadHolds
<1>8. ASSUME NEW place \in {"count", "remove"}, GoesOn(w, place)
      PROVE  /\ KeptType' /\ \A v \in Writers \ {w} : writer'[v] = writer[v]
             /\ Shape(writer'[w]) /\ Taken(w)'
             /\ \A k \in there \ blurred' : ReadHolds(w, k)'
  <2>1. KeptType' /\ \A v \in Writers \ {w} : writer'[v] = writer[v]
    BY <1>1, <1>2, <1>3, <1>8 DEF KeptType, GoesOn
  <2>2. /\ Shape(writer'[w]) /\ (Kept!Moves(w)' <=> Kept!Moves(w))
        /\ Kept!Moves(w) => writer[w].into = Kept!OptOuts
    BY <1>1, <1>2, <1>8, BatchGoes
  <2>3. Taken(w)'
    BY <1>1, <1>3, <1>8, <2>2 DEF Taken, GoesOn
  <2>4. ASSUME NEW k \in there \ blurred'
        PROVE  ReadHolds(w, k)'
    <3>1. CASE Kept!Moves(w)
      <4>1. k = l => writer[w].list # k
        BY <1>1, <3>1 DEF Kept!Moves
      <4>2. k # l => contacts'[k] = contacts[k]
        BY <1>2, <1>3 DEF KeptType
      <4>3. writer[w].list = k => writer[w].mobiles \subseteq contacts[k]
        BY <1>1, <1>5, <3>1 DEF ReadHolds, TakesOut
      <4>4. QED
        BY <1>8, <4>1, <4>2, <4>3 DEF ReadHolds, TakesOut, GoesOn
    <3>2. CASE ~Kept!Moves(w)
      <4>1. writer[w].list = l
        BY <1>1, <3>2 DEF Kept!Moves
      <4>2. writer'[w].mobiles \subseteq contacts'[l]
        BY <1>3, <1>8 DEF GoesOn
      <4>3. QED
        BY <1>8, <4>1, <4>2 DEF ReadHolds, TakesOut, GoesOn
    <3>3. QED
      BY <3>1, <3>2
  <2>5. QED
    BY <2>1, <2>2, <2>3, <2>4
<1>9. CASE writer[w].fresh > 0
  <2>1. GoesOn(w, "count")
    BY <1>9, GoingOn DEF Kept!PutMany, Places
  <2>2. KeptType' /\ \A k : Debt(w, k)' = IF k = l THEN writer[w].fresh ELSE 0
    BY <1>1, <1>8, <2>1 DEF GoesOn, Debt
  <2>3. ASSUME NEW k \in there \ blurred'
        PROVE  Balanced(w, k)
    <3>1. k \in Kept!Kinds
      BY <1>2 DEF KeptType
    <3>2. CASE k = l
      <4>1. /\ Kept!Cardinality(contacts[l]) \in Nat /\ count[l] \in Int
            /\ Kept!Cardinality(contacts'[l]) = Kept!Cardinality(contacts[l]) + writer[w].fresh
        BY <1>2, <1>7, <2>3, <3>2, Sizes DEF KeptType
      <4>2. contacts'[l] # contacts[l]
        BY <1>2, <1>9, <4>1
      <4>3. QED
        BY <1>1, <1>2, <1>6, <2>2, <3>2, <4>1, <4>2 DEF Again, Balanced
    <3>3. CASE k # l
      BY <1>1, <1>2, <1>3, <1>6, <2>2, <3>1, <3>3, BalanceIs
    <3>4. QED
      BY <3>2, <3>3
  <2>4. QED
    BY <1>1, <1>4, <1>8, <2>1, <2>3 DEF StepOf
<1>10. ASSUME writer[w].fresh = 0, KeptType', \A k : Debt(w, k)' = 0
       PROVE  \A k \in there \ blurred' : Balanced(w, k)
  <2> SUFFICES ASSUME NEW k \in there \ blurred'
               PROVE  Balanced(w, k)
    OBVIOUS
  <2>1. k \in Kept!Kinds
    BY <1>2 DEF KeptType
  <2>2. CASE k = l
    <3>1. /\ 0 \in Int /\ count'[k] + 0 = count[k] + Debt(w, k) + 0
          /\ Kept!Cardinality(contacts'[k]) = Kept!Cardinality(contacts[k]) + 0
      BY <1>1, <1>2, <1>6, <1>7, <1>10, <2>2 DEF KeptType
    <3>2. QED
      BY <1>1, <1>2, <1>10, <2>1, <3>1, BalanceIs
  <2>3. CASE k # l
    BY <1>1, <1>2, <1>3, <1>6, <1>10, <2>1, <2>3, BalanceIs
  <2>4. QED
    BY <2>2, <2>3
<1>11. CASE writer[w].fresh = 0 /\ Kept!Moves(w)
  <2>1. GoesOn(w, "remove")
    <3>1. ~(writer[w].fresh > 0)
      BY <1>11
    <3>2. Kept!Goto(w, "remove")
      BY <1>11, <3>1 DEF Kept!PutMany
    <3>3. QED
      BY <3>2, GoingOn DEF Places
  <2>2. KeptType' /\ \A k : Debt(w, k)' = 0
    BY <1>8, <2>1 DEF GoesOn, Debt
  <2>3. QED
    BY <1>1, <1>4, <1>8, <1>10, <1>11, <2>1, <2>2 DEF StepOf
<1>12. CASE writer[w].fresh = 0 /\ ~Kept!Moves(w)
  <2>1. Ends(w)
    BY <1>12, GoingOn DEF Kept!PutMany
  <2>2. KeptType'
    BY <1>1, <1>2, <1>3, <2>1 DEF KeptType, Ends
  <2>3. /\ Shape(writer'[w]) /\ Taken(w)'
        /\ \A k : ReadHolds(w, k)' /\ Debt(w, k)' = 0
    BY <2>1, EndedIsNothing DEF Ends
  <2>4. QED
    BY <1>1, <1>4, <1>10, <1>12, <2>1, <2>2, <2>3 DEF StepOf, Ends
<1>13. QED
  BY <1>2, <1>9, <1>11, <1>12

LEMMA CountKeeps ==
  ASSUME Kept!ListsAssumption, KeptInv, NEW w \in Writers, NEW l \in Kept!Kinds,
         Kept!Count(w, l), blurred \subseteq blurred'
  PROVE  StepOf(w)
<1>1. /\ writer[w].at = "count" /\ writer[w].into = l
      /\ UNCHANGED <<there, contacts, out>> /\ UNCHANGED released
      /\ Kept!CountChange(l, writer[w].fresh)
  BY DEF Kept!Count, Kept!At, Kept!History
<1>2. KeptType /\ writer[w].fresh \in Int /\ Shape(writer[w]) /\ Taken(w)
  BY DEF KeptInv, KeptType, Records
<1>3. /\ count' \in [Kept!Kinds -> Int]
      /\ l \in there => count'[l] = count[l] + writer[w].fresh
      /\ \A k \in Kept!Kinds \ {l} : count'[k] = count[k]
  <2>1. {} \in SUBSET Mobiles
    OBVIOUS
  <2>2. QED
    BY <1>1, <1>2, <2>1, WritingIs
<1>4. /\ contacts[Kept!OptOuts] \ released' \subseteq contacts'[Kept!OptOuts]
      /\ (out' \ out) \ released' \subseteq contacts'[Kept!OptOuts]
  BY <1>1
<1>5. \A k : Debt(w, k) = IF k = l THEN writer[w].fresh ELSE 0
  BY <1>1 DEF Debt
<1>6. ASSUME KeptType', \A k : Debt(w, k)' = 0
      PROVE  \A k \in there \ blurred' : Balanced(w, k)
  <2> SUFFICES ASSUME NEW k \in there \ blurred'
               PROVE  Balanced(w, k)
    OBVIOUS
  <2>1. k \in Kept!Kinds
    BY <1>2 DEF KeptType
  <2>2. CASE k = l
    <3>1. /\ 0 \in Int /\ count'[k] + 0 = count[k] + Debt(w, k) + 0
          /\ Kept!Cardinality(contacts'[k]) = Kept!Cardinality(contacts[k]) + 0
      <4>1. Kept!Cardinality(contacts[k]) \in Int /\ count[k] \in Int
        BY <1>2, <2>1, DebtIs
      <4>2. QED
        BY <1>1, <1>2, <1>3, <1>5, <2>2, <4>1
    <3>2. QED
      BY <1>1, <1>2, <1>6, <2>1, <3>1, BalanceIs
  <2>3. CASE k # l
    BY <1>1, <1>2, <1>3, <1>5, <1>6, <2>1, <2>3, BalanceIs
  <2>4. QED
    BY <2>2, <2>3
<1>7. CASE Kept!Moves(w)
  <2>1. GoesOn(w, "remove")
    BY <1>7, GoingOn DEF Kept!Count, Places
  <2>2. KeptType' /\ \A k : Debt(w, k)' = 0
    BY <1>1, <1>2, <1>3, <2>1 DEF KeptType, GoesOn, Debt
  <2>3. Shape(writer'[w]) /\ (Kept!Moves(w)' <=> Kept!Moves(w))
    BY <1>1, <1>2, <2>1, BatchGoes
  <2>4. Taken(w)'
    BY <1>1, <1>2, <2>1, <2>3 DEF Taken, GoesOn
  <2>5. ASSUME NEW k \in there \ blurred'
        PROVE  ReadHolds(w, k)'
    <3>1. ReadHolds(w, k)
      BY DEF KeptInv
    <3>2. writer[w].list = k => writer[w].mobiles \subseteq contacts[k]
      BY <1>1, <1>7, <3>1 DEF ReadHolds, TakesOut
    <3>3. QED
      BY <1>1, <2>1, <3>2 DEF ReadHolds, TakesOut, GoesOn
  <2>6. QED
    BY <1>1, <1>4, <1>6, <2>1, <2>2, <2>3, <2>4, <2>5 DEF StepOf, GoesOn
<1>8. CASE ~Kept!Moves(w)
  <2>1. Ends(w)
    BY <1>8, GoingOn DEF Kept!Count
  <2>2. KeptType'
    BY <1>1, <1>2, <1>3, <2>1 DEF KeptType, Ends
  <2>3. /\ Shape(writer'[w]) /\ Taken(w)'
        /\ \A k : ReadHolds(w, k)' /\ Debt(w, k)' = 0
    BY <2>1, EndedIsNothing DEF Ends
  <2>4. QED
    BY <1>1, <1>4, <1>6, <2>1, <2>2, <2>3 DEF StepOf, Ends
<1>9. QED
  BY <1>7, <1>8

LEMMA RemoveKeeps ==
  ASSUME Kept!ListsAssumption, KeptInv, NEW w \in Writers, NEW l \in Kept!Kinds,
         Kept!RemoveMany(w, l), blurred \subseteq blurred'
  PROVE  StepOf(w)
<1>1. /\ writer[w].at = "remove" /\ writer[w].list = l
      /\ UNCHANGED <<there, count>>
      /\ Kept!Delete(l, writer[w].mobiles) /\ Kept!Releases(l, writer[w].mobiles)
      /\ out' = IF Kept!Moves(w) THEN out \cup writer[w].mobiles ELSE out
      /\ GoesOn(w, "uncount")
  BY GoingOn DEF Kept!RemoveMany, Kept!At, Places
<1>2. /\ writer[w].mobiles \in SUBSET Mobiles /\ KeptType /\ contacts[l] \in SUBSET Mobiles
      /\ Shape(writer[w]) /\ Taken(w)
  BY DEF KeptInv, KeptType, Records
<1>3. /\ contacts' \in [Kept!Kinds -> SUBSET Mobiles]
      /\ contacts'[l] = contacts[l] \ writer[w].mobiles
      /\ \A k \in Kept!Kinds \ {l} : contacts'[k] = contacts[k]
  BY <1>1, <1>2, WritingIs DEF Others
<1>4. KeptType' /\ Shape(writer'[w]) /\ (Kept!Moves(w) => l = Kept!Standard)
  BY <1>1, <1>2, <1>3, BatchGoes DEF KeptType, GoesOn
<1>5. /\ released \subseteq released'
      /\ contacts[Kept!OptOuts] \ released' \subseteq contacts'[Kept!OptOuts]
      /\ l # Kept!OptOuts => released' = released /\ contacts'[Kept!OptOuts] = contacts[Kept!OptOuts]
  BY <1>1, <1>2, ReleasedAreOut
<1>6. (out' \ out) \ released' \subseteq contacts'[Kept!OptOuts]
  <2>1. CASE Kept!Moves(w)
    <3>1. writer[w].mobiles \ released \subseteq contacts[Kept!OptOuts]
      BY <1>1, <1>2, <2>1 DEF Taken
    <3>2. l # Kept!OptOuts
      BY <1>4, <2>1, KindsAre
    <3>3. QED
      BY <1>1, <1>5, <2>1, <3>1, <3>2
  <2>2. CASE ~Kept!Moves(w)
    BY <1>1, <2>2
  <2>3. QED
    BY <2>1, <2>2
<1>7. Taken(w)' /\ \A k \in there \ blurred' : ReadHolds(w, k)'
  BY <1>1 DEF Taken, ReadHolds, TakesOut, GoesOn
<1>8. /\ \A k : Debt(w, k) = 0
      /\ \A k : Debt(w, k)' = IF k = l THEN -Kept!Cardinality(writer[w].mobiles) ELSE 0
  BY <1>1 DEF Debt, GoesOn
<1>9. ASSUME NEW k \in there \ blurred'
      PROVE  Balanced(w, k)
  <2>1. k \in Kept!Kinds
    BY <1>2 DEF KeptType
  <2>2. CASE k = l
    <3>1. ReadHolds(w, k)
      BY DEF KeptInv
    <3>2. writer[w].mobiles \subseteq contacts[l]
      BY <1>1, <2>2, <3>1 DEF ReadHolds, TakesOut
    <3>3. Kept!Cardinality(contacts'[l])
            = Kept!Cardinality(contacts[l]) - Kept!Cardinality(writer[w].mobiles)
      BY <1>2, <1>3, <3>2, Sizes
    <3>4. /\ Kept!Cardinality(writer[w].mobiles) \in Nat /\ Kept!Cardinality(writer[w].mobiles) # 0
          /\ Kept!Cardinality(contacts[l]) \in Nat /\ count[l] \in Int
      <4>1. writer[w].mobiles # {}
        BY <1>1, <1>2 DEF Shape
      <4>2. \A S \in SUBSET Mobiles :
              Kept!Cardinality(S) \in Nat /\ (Kept!Cardinality(S) = 0 => S = {})
        BY Sizes
      <4>3. Kept!Cardinality(writer[w].mobiles) = 0 => writer[w].mobiles = {}
        BY <1>2, <4>2
      <4>4. Kept!Cardinality(writer[w].mobiles) # 0
        BY <4>1, <4>3
      <4>5. count[l] \in Int
        BY <1>2 DEF KeptType
      <4>6. Kept!Cardinality(writer[w].mobiles) \in Nat /\ Kept!Cardinality(contacts[l]) \in Nat
        BY <1>2, <4>2
      <4>7. QED
        BY <4>4, <4>5, <4>6
    <3>5. contacts'[l] # contacts[l]
      BY <3>3, <3>4
    <3>6. QED
      BY <1>1, <1>8, <2>2, <3>3, <3>4, <3>5 DEF Again, Balanced
  <2>3. CASE k # l
    BY <1>1, <1>2, <1>3, <1>4, <1>8, <2>1, <2>3, BalanceIs
  <2>4. QED
    BY <2>2, <2>3
<1>10. QED
  BY <1>1, <1>4, <1>5, <1>6, <1>7, <1>9 DEF StepOf, GoesOn

LEMMA UncountKeeps ==
  ASSUME Kept!ListsAssumption, KeptInv, NEW w \in Writers, NEW l \in Kept!Kinds,
         Kept!Uncount(w, l), blurred \subseteq blurred'
  PROVE  StepOf(w)
<1>1. /\ writer[w].at = "uncount" /\ writer[w].list = l
      /\ UNCHANGED <<there, contacts, out>> /\ UNCHANGED released
      /\ Kept!CountChange(l, -Kept!Cardinality(writer[w].mobiles))
      /\ Ends(w)
  BY GoingOn DEF Kept!Uncount, Kept!At, Kept!History
<1>2. KeptType /\ writer[w].mobiles \in SUBSET Mobiles
  BY DEF KeptInv, KeptType, Records
<1>3. PICK delta \in Int : delta = -Kept!Cardinality(writer[w].mobiles)
  <2>1. \A S \in SUBSET Mobiles : Kept!Cardinality(S) \in Nat
    BY Sizes
  <2>2. QED
    BY <1>2, <2>1
<1>4. /\ count' \in [Kept!Kinds -> Int]
      /\ l \in there => count'[l] = count[l] + delta
      /\ \A k \in Kept!Kinds \ {l} : count'[k] = count[k]
  BY <1>1, <1>2, <1>3, WritingIs
<1>5. KeptType'
  BY <1>1, <1>2, <1>4 DEF KeptType, Ends
<1>6. /\ Shape(writer'[w]) /\ Taken(w)'
      /\ \A k : ReadHolds(w, k)' /\ Debt(w, k)' = 0
  BY <1>1, EndedIsNothing DEF Ends
<1>7. \A k : Debt(w, k) = IF k = l THEN delta ELSE 0
  BY <1>1, <1>3 DEF Debt
<1>8. ASSUME NEW k \in there \ blurred'
      PROVE  Balanced(w, k)
  <2>1. k \in Kept!Kinds
    BY <1>2 DEF KeptType
  <2>2. Kept!Cardinality(contacts[k]) \in Int /\ count[k] \in Int
    BY <1>2, <2>1, DebtIs
  <2>3. CASE k = l
    <3>1. /\ 0 \in Int /\ count'[k] + 0 = count[k] + Debt(w, k) + 0
          /\ Kept!Cardinality(contacts'[k]) = Kept!Cardinality(contacts[k]) + 0
      BY <1>1, <1>3, <1>4, <1>7, <2>2, <2>3
    <3>2. QED
      BY <1>1, <1>2, <1>5, <1>6, <2>1, <3>1, BalanceIs
  <2>4. CASE k # l
    BY <1>1, <1>2, <1>4, <1>5, <1>6, <1>7, <2>1, <2>4, BalanceIs
  <2>5. QED
    BY <2>3, <2>4
<1>9. /\ contacts[Kept!OptOuts] \ released' \subseteq contacts'[Kept!OptOuts]
      /\ (out' \ out) \ released' \subseteq contacts'[Kept!OptOuts]
  BY <1>1
<1>10. QED
  BY <1>1, <1>5, <1>6, <1>8, <1>9 DEF StepOf, Ends

LEMMA EmptyKeeps ==
  ASSUME Kept!ListsAssumption, KeptInv, NEW w \in Writers, Kept!Empty(w),
         blurred \subseteq blurred'
  PROVE  StepOf(w)
<1>1. /\ writer[w].at = "empty"
      /\ UNCHANGED <<there, count, out>> /\ UNCHANGED released
      /\ Kept!Delete(Kept!Standard, writer[w].mobiles)
      /\ GoesOn(w, "unlist")
  BY GoingOn DEF Kept!Empty, Kept!At, Kept!History, Places
<1>2. KeptType /\ writer[w].mobiles \in SUBSET Mobiles /\ Shape(writer[w])
  BY DEF KeptInv, KeptType, Records
<1>3. /\ contacts' \in [Kept!Kinds -> SUBSET Mobiles]
      /\ \A k \in Kept!Kinds \ {Kept!Standard} : contacts'[k] = contacts[k]
  BY <1>1, <1>2, KindsAre, WritingIs DEF Others
<1>4. writer[w].list = Kept!Standard /\ writer[w].into = Kept!Standard
  BY <1>1, <1>2 DEF Shape
<1>5. KeptType' /\ Shape(writer'[w])
  BY <1>1, <1>2, <1>3, <1>4 DEF KeptType, Shape, GoesOn
<1>6. Taken(w)' /\ \A k : ReadHolds(w, k)' /\ Debt(w, k) = 0 /\ Debt(w, k)' = 0
  BY <1>1 DEF Taken, ReadHolds, TakesOut, Debt, GoesOn
<1>7. ASSUME NEW k \in there \ blurred'
      PROVE  Balanced(w, k) \/ Emptying(k)'
  <2>1. k \in Kept!Kinds
    BY <1>2 DEF KeptType
  <2>2. CASE k = Kept!Standard
    BY <1>1, <1>4, <2>2 DEF Emptying, GoesOn
  <2>3. CASE k # Kept!Standard
    BY <1>1, <1>2, <1>3, <1>5, <1>6, <2>1, <2>3, BalanceIs
  <2>4. QED
    BY <2>2, <2>3
<1>8. /\ contacts[Kept!OptOuts] \ released' \subseteq contacts'[Kept!OptOuts]
      /\ (out' \ out) \ released' \subseteq contacts'[Kept!OptOuts]
  BY <1>1, <1>3, KindsAre
<1>9. QED
  BY <1>1, <1>5, <1>6, <1>7, <1>8 DEF StepOf, GoesOn

LEMMA UnlistKeeps ==
  ASSUME Kept!ListsAssumption, KeptInv, NEW w \in Writers, Kept!Unlist(w),
         blurred \subseteq blurred'
  PROVE  StepOf(w)
<1>1. /\ writer[w].at = "unlist" /\ there' = there \ {Kept!Standard}
      /\ UNCHANGED <<contacts, count, out>> /\ UNCHANGED released
      /\ Ends(w)
  BY GoingOn DEF Kept!Unlist, Kept!At, Kept!History
<1>2. KeptType /\ Shape(writer[w])
  BY DEF KeptInv, KeptType, Records
<1>3. KeptType'
  BY <1>1, <1>2 DEF KeptType, Ends
<1>4. writer[w].list = Kept!Standard
  BY <1>1, <1>2 DEF Shape
<1>5. /\ Shape(writer'[w]) /\ Taken(w)'
      /\ \A k : ReadHolds(w, k)' /\ Debt(w, k)' = 0
  BY <1>1, EndedIsNothing DEF Ends
<1>6. \A k : Debt(w, k) = 0
  BY <1>1 DEF Debt
<1>7. ASSUME NEW k \in there' \ blurred'
      PROVE  Balanced(w, k)
  <2>1. k \in Kept!Kinds /\ k # Kept!Standard
    BY <1>1, <1>2, <1>7 DEF KeptType
  <2>2. QED
    BY <1>1, <1>2, <1>3, <1>4, <1>5, <1>6, <2>1, BalanceIs
<1>8. /\ contacts[Kept!OptOuts] \ released' \subseteq contacts'[Kept!OptOuts]
      /\ (out' \ out) \ released' \subseteq contacts'[Kept!OptOuts]
      /\ there' \subseteq there /\ released \subseteq released'
  BY <1>1
<1>9. QED
  BY <1>1, <1>3, <1>5, <1>7, <1>8 DEF StepOf, Ends

\* A request that dies leaves alone the lists that it did not stand on.
LEMMA HaltKeeps ==
  ASSUME Kept!ListsAssumption, KeptInv, NEW w \in Writers, Kept!Halt(w),
         \A l \in Kept!Kinds : Kept!StandsOn(w, l) => l \in blurred'
  PROVE  StepOf(w)
<1>1. UNCHANGED <<there, count, out>> /\ Ends(w)
  BY GoingOn DEF Kept!Halt
<1>2. /\ KeptType /\ writer[w].mobiles \in SUBSET Mobiles
      /\ writer[w].list \in Kept!Kinds /\ writer[w].into \in Kept!Kinds
  BY DEF KeptInv, KeptType, Records
<1>3. /\ contacts' \in [Kept!Kinds -> SUBSET Mobiles]
      /\ released \subseteq released'
      /\ contacts[Kept!OptOuts] \ released' \subseteq contacts'[Kept!OptOuts]
      /\ \A l \in Kept!Kinds : ~Kept!StandsOn(w, l) => contacts'[l] = contacts[l]
  <2>1. CASE UNCHANGED <<contacts, released>>
    BY <1>2, <2>1 DEF KeptType
  <2>2. ASSUME writer[w].at = "put", UNCHANGED released,
               NEW some \in SUBSET writer[w].mobiles, Kept!Put(writer[w].into, some)
        PROVE  <1>3!:
    <3>1. some \in SUBSET Mobiles
      BY <1>2
    <3>2. /\ contacts' \in [Kept!Kinds -> SUBSET Mobiles]
          /\ contacts'[writer[w].into] = contacts[writer[w].into] \cup some
          /\ \A k \in Kept!Kinds \ {writer[w].into} : contacts'[k] = contacts[k]
      BY <1>2, <2>2, <3>1, WritingIs DEF Others
    <3>3. Kept!StandsOn(w, writer[w].into)
      BY <2>2 DEF Kept!StandsOn
    <3>4. contacts[Kept!OptOuts] \subseteq contacts'[Kept!OptOuts]
      BY <3>2, KindsAre
    <3>5. QED
      BY <2>2, <3>2, <3>3, <3>4
  <2>3. ASSUME writer[w].at = "remove" \/ writer[w].at = "empty",
               NEW some \in SUBSET writer[w].mobiles,
               Kept!Delete(writer[w].list, some), Kept!Releases(writer[w].list, some)
        PROVE  <1>3!:
    <3>1. some \in SUBSET Mobiles
      BY <1>2
    <3>2. /\ contacts' \in [Kept!Kinds -> SUBSET Mobiles]
          /\ \A k \in Kept!Kinds \ {writer[w].list} : contacts'[k] = contacts[k]
      BY <1>2, <2>3, <3>1, WritingIs DEF Others
    <3>3. Kept!StandsOn(w, writer[w].list)
      BY <2>3 DEF Kept!StandsOn
    <3>4. /\ released \subseteq released'
          /\ contacts[Kept!OptOuts] \ released' \subseteq contacts'[Kept!OptOuts]
      BY <1>2, <2>3, <3>1, ReleasedAreOut
    <3>5. QED
      BY <3>2, <3>3, <3>4
  <2>4. QED
    BY <2>1, <2>2, <2>3 DEF Kept!Halt, Kept!At
<1>4. KeptType'
  BY <1>1, <1>2, <1>3 DEF KeptType, Ends
<1>5. /\ Shape(writer'[w]) /\ Taken(w)'
      /\ \A k : ReadHolds(w, k)' /\ Debt(w, k)' = 0
  BY <1>1, EndedIsNothing DEF Ends
<1>6. ASSUME NEW k \in there \ blurred'
      PROVE  Balanced(w, k)
  <2>1. k \in Kept!Kinds
    BY <1>2 DEF KeptType
  <2>2. ~Kept!StandsOn(w, k)
    BY <2>1
  <2>3. Debt(w, k) = 0 /\ ~(writer[w].at = "unlist" /\ writer[w].list = k)
    BY <2>2 DEF Debt, Kept!StandsOn
  <2>4. contacts'[k] = contacts[k]
    BY <1>3, <2>1, <2>2
  <2>5. QED
    BY <1>1, <1>2, <1>4, <1>5, <2>1, <2>3, <2>4, BalanceIs
<1>7. (out' \ out) \ released' \subseteq contacts'[Kept!OptOuts] /\ there' \subseteq there
  BY <1>1
<1>8. QED
  BY <1>1, <1>3, <1>4, <1>5, <1>6, <1>7 DEF StepOf, Ends

\* A put that nothing counts is not one that is cut short.
LEMMA HaltRestores ==
  ASSUME NEW w \in Writers, NEW l \in Kept!Kinds, Kept!Halt(w)
  PROVE  Again(w, l) = 0
BY DEF Kept!Halt, Kept!At, Again

-----------------------------------------------------------------------------
(* Lists: every step *)

LEMMA KeptBegins ==
  ASSUME Kept!ListsAssumption, Kept!Init
  PROVE  KeptInv
<1>1. /\ there = Kept!Kinds /\ contacts \in [Kept!Kinds -> SUBSET Mobiles]
      /\ count = [l \in Kept!Kinds |-> Kept!Cardinality(contacts[l])]
      /\ writer = [w \in Writers |-> Kept!Idle]
      /\ out = {} /\ restored = [l \in Kept!Kinds |-> 0]
  BY DEF Kept!Init
<1>2. \A S \in SUBSET Mobiles : Kept!Cardinality(S) \in Nat
  BY Sizes
<1>3. \A w \in Writers : writer[w] \in Records /\ writer[w].at = "idle"
  BY <1>1, IdleIs
<1>4. KeptType
  <2>1. count \in [Kept!Kinds -> Int]
    BY <1>1, <1>2
  <2>2. writer \in [Writers -> Records]
    BY <1>1, IdleIs
  <2>3. QED
    BY <1>1, <2>1, <2>2 DEF KeptType
<1>5. Kept!OptedOutStay
  BY <1>1 DEF Kept!OptedOutStay
<1>6. ASSUME NEW w \in Writers
      PROVE  Shape(writer[w]) /\ Taken(w) /\ \A l : ReadHolds(w, l) /\ Debt(w, l) = 0
  BY <1>3 DEF Shape, Taken, ReadHolds, TakesOut, Debt
<1>7. \A l \in Kept!Kinds : Counted(l)
  BY <1>1, <1>2, <1>6 DEF Counted, Even
<1>8. restored \in [Kept!Kinds -> Nat]
  BY <1>1
<1>9. QED
  BY <1>1, <1>4, <1>5, <1>6, <1>7, <1>8 DEF KeptInv

LEMMA KeptGoesOn ==
  ASSUME Kept!ListsAssumption, KeptInv, Kept!Next \/ UNCHANGED Kept!vars
  PROVE  KeptInv'
<1>1. ASSUME NEW w \in Writers, Kept!Writes(w)
      PROVE  KeptInv'
  <2>1. /\ blurred \subseteq blurred'
        /\ restored' = [l \in Kept!Kinds |-> restored[l] + Again(w, l)]
        /\ \A l \in Kept!Kinds :
             contacts'[l] # contacts[l] /\ (\E v \in Writers \ {w} : Kept!StandsOn(v, l))
               => l \in blurred'
    BY <1>1 DEF Kept!Writes, Kept!PutBack, Kept!At, Again
  <2>2. CASE Kept!Begins(w)
    <3>1. StepOf(w)
      BY <2>1, <2>2, BeginKeeps
    <3>2. QED
      BY <2>1, <3>1, StepKeeps
  <2>3. CASE Kept!Goes(w)
    <3>1. /\ Kept!Doomed(w) => StepOf(w)
          /\ Kept!Empty(w) => StepOf(w)
          /\ Kept!Unlist(w) => StepOf(w)
      BY <2>1, DoomedKeeps, EmptyKeeps, UnlistKeeps
    <3>2. ASSUME NEW l \in Kept!Kinds,
                 \/ Kept!Room(w, l) \/ Kept!Insert(w, l) \/ Kept!Overwrite(w, l)
                 \/ Kept!Drop(w, l)
          PROVE  StepOf(w)
      BY <2>1, <3>2, RoomKeeps, InsertKeeps, OverwriteKeeps, DropKeeps
    <3>3. ASSUME NEW l \in Kept!Kinds,
                 \/ Kept!BulkPresent(w, l) \/ Kept!Existing(w, l) \/ Kept!PutMany(w, l)
                 \/ Kept!Count(w, l) \/ Kept!RemoveMany(w, l) \/ Kept!Uncount(w, l)
          PROVE  StepOf(w)
      BY <2>1, <3>3, BulkKeeps, ExistingKeeps, PutKeeps, CountKeeps, RemoveKeeps, UncountKeeps
    <3>4. StepOf(w)
      BY ONLY <2>3, <3>1, <3>2, <3>3 DEF Kept!Goes
    <3>5. QED
      BY <2>1, <3>4, StepKeeps
  <2>4. QED
    BY <1>1, <2>2, <2>3 DEF Kept!Writes
<1>2. ASSUME NEW w \in Writers, Kept!Dies(w)
      PROVE  KeptInv'
  <2>1. /\ blurred \subseteq blurred'
        /\ \A l \in Kept!Kinds : Kept!StandsOn(w, l) => l \in blurred'
        /\ \A l \in Kept!Kinds :
             contacts'[l] # contacts[l] /\ (\E v \in Writers \ {w} : Kept!StandsOn(v, l))
               => l \in blurred'
    BY <1>2 DEF Kept!Dies
  <2>2. StepOf(w)
    BY <1>2, <2>1, HaltKeeps DEF Kept!Dies
  <2>3. restored' = [l \in Kept!Kinds |-> restored[l] + Again(w, l)]
    <3>1. restored' = restored /\ restored \in [Kept!Kinds -> Nat]
      BY <1>2 DEF Kept!Dies, KeptInv
    <3>2. \A l \in Kept!Kinds : Again(w, l) = 0
      BY <1>2, HaltRestores DEF Kept!Dies
    <3>3. \A l \in Kept!Kinds : restored[l] + Again(w, l) = restored[l]
      BY <3>1, <3>2
    <3>4. [l \in Kept!Kinds |-> restored[l] + Again(w, l)] = [l \in Kept!Kinds |-> restored[l]]
      BY <3>3
    <3>5. QED
      BY <3>1, <3>4
  <2>4. QED
    BY <2>1, <2>2, <2>3, StepKeeps
<1>3. CASE UNCHANGED Kept!vars
  <2>1. UNCHANGED <<there, contacts, count, writer, out, released, blurred, restored>>
    BY <1>3 DEF Kept!vars
  <2>2. (KeptType /\ Kept!OptedOutStay /\ restored \in [Kept!Kinds -> Nat])'
    BY <2>1 DEF KeptInv, KeptType, Kept!OptedOutStay
  <2>3. \A w \in Writers : Shape(writer'[w]) /\ Taken(w)'
    BY <2>1 DEF KeptInv, Taken, Kept!Moves
  <2>4. \A l : Counted(l) => Counted(l)'
    BY <2>1 DEF Counted, Emptying, Even, Settles, Debt
  <2>5. \A w, l : ReadHolds(w, l) => ReadHolds(w, l)'
    BY <2>1 DEF ReadHolds, TakesOut, Kept!Moves
  <2>6. QED
    BY <2>1, <2>2, <2>3, <2>4, <2>5 DEF KeptInv
<1>4. QED
  BY <1>1, <1>2, <1>3 DEF Kept!Next

-----------------------------------------------------------------------------
(* First sign-ins *)

\* A request that has not opened an account yet, nor was let in.
Before == {"new", "find", "link", "create", "reread", "signed in"}

Entries == [at: Before \cup {"hooks", "in", "refused"}, sub: Subs \cup {"none"},
            owner: BOOLEAN, hook: Nat \ {0}, as: Joining!Users \cup {Joining!Nobody}]

JoinType ==
  /\ pointer \in [Subs -> Joining!Users \cup {Joining!Nobody}]
  /\ session \in [Sessions -> Entries]
  /\ hooked \in [Sessions -> [1..Hooks -> Nat]]

\* The pointer that names the owner of an account is that of the one who opened it.
PointersOwn ==
  \A u \in Subs, r \in Sessions : pointer[u] = r =>
    session[r].sub = u /\ session[r].at \notin Before

\* Whom a request has found is whom the pointer names, and goes on naming.
Placed(r) ==
  /\ session[r].at # "new" => session[r].sub \in Subs
  /\ session[r].at = "signed in" => pointer[session[r].sub] # Joining!Nobody
  /\ session[r].at = "hooks" => pointer[session[r].sub] = r
  /\ session[r].at = "in" =>
       pointer[session[r].sub] = session[r].as /\ session[r].as # Joining!Nobody

\* The hooks of an account run in order, each once, after its pointer is there.
HooksRan(r) ==
  /\ session[r].at \in Before => session[r].hook = 1
  /\ session[r].at \in Before \cup {"hooks"} =>
       \A k \in 1..Hooks : hooked[r][k] = IF k < session[r].hook THEN 1 ELSE 0
  /\ \A k \in 1..Hooks :
       hooked[r][k] <= 1 /\ (hooked[r][k] = 1 => \E u \in Subs : pointer[u] = r)
  /\ session[r].at = "in" /\ session[r].as = r => \A k \in 1..Hooks : hooked[r][k] = 1

JoinInv == JoinType /\ PointersOwn /\ \A r \in Sessions : Placed(r) /\ HooksRan(r)

\* A pointer is set once.
Grows == \A u \in Subs : pointer[u] # Joining!Nobody => pointer'[u] = pointer[u]

LEMMA JoinBegins ==
  ASSUME Joining!SignInAssumption, Joining!Init
  PROVE  JoinInv
<1>1. /\ pointer = [u \in Subs |-> Joining!Nobody]
      /\ session = [r \in Sessions |-> [at |-> "new", sub |-> "none", owner |-> FALSE,
                                        hook |-> 1, as |-> Joining!Nobody]]
      /\ hooked = [r \in Sessions |-> [k \in 1..Hooks |-> 0]]
  BY DEF Joining!Init, Joining!NoSession
<1>2. Joining!Nobody \notin Sessions
  BY DEF Joining!SignInAssumption
<1>3. JoinType
  BY <1>1 DEF JoinType, Entries, Before
<1>4. PointersOwn
  BY <1>1, <1>2 DEF PointersOwn
<1>5. ASSUME NEW r \in Sessions
      PROVE  Placed(r) /\ HooksRan(r)
  <2>1. /\ session[r].at = "new" /\ session[r].hook = 1
        /\ \A k \in 1..Hooks : hooked[r][k] = 0
    BY <1>1
  <2>2. Placed(r)
    BY <2>1 DEF Placed
  <2>3. \A k \in 1..Hooks : ~(k < 1)
    OBVIOUS
  <2>4. HooksRan(r)
    BY <2>1, <2>3 DEF HooksRan
  <2>5. QED
    BY <2>2, <2>4
<1>6. QED
  BY <1>3, <1>4, <1>5 DEF JoinInv

\* One request steps, and the pointers that are set stay.
LEMMA JoinStep ==
  ASSUME JoinInv, JoinType', NEW r \in Sessions, Grows,
         Joining!Nobody \notin Sessions,
         \A q \in Sessions \ {r} : session'[q] = session[q] /\ hooked'[q] = hooked[q],
         \A u \in Subs, q \in Sessions \ {r} : pointer'[u] = q => pointer[u] = q,
         \A u \in Subs : pointer'[u] = r => session'[r].sub = u /\ session'[r].at \notin Before,
         Placed(r)', HooksRan(r)'
  PROVE  JoinInv'
<1>1. PointersOwn'
  BY DEF JoinInv, PointersOwn
<1>2. ASSUME NEW q \in Sessions \ {r}
      PROVE  Placed(q)' /\ HooksRan(q)'
  <2>1. session'[q] = session[q] /\ hooked'[q] = hooked[q] /\ Placed(q) /\ HooksRan(q)
    BY DEF JoinInv
  <2>2. \A u \in Subs : pointer[u] = q => pointer'[u] = q
    BY DEF Grows
  <2>3. Placed(q)'
    <3>1. session[q].at = "new" \/ pointer[session[q].sub] = Joining!Nobody
            \/ pointer'[session[q].sub] = pointer[session[q].sub]
      BY <2>1 DEF Placed, Grows
    <3>2. q # Joining!Nobody
      OBVIOUS
    <3>3. CASE session[q].at = "new"
      BY <2>1, <3>3 DEF Placed
    <3>4. CASE pointer[session[q].sub] = Joining!Nobody
      <4>1. session[q].at \notin {"signed in", "hooks", "in"}
        BY <2>1, <3>2, <3>4 DEF Placed
      <4>2. QED
        BY <2>1, <4>1 DEF Placed
    <3>5. CASE pointer'[session[q].sub] = pointer[session[q].sub]
      BY <2>1, <3>5 DEF Placed
    <3>6. QED
      BY <3>1, <3>3, <3>4, <3>5
  <2>4. HooksRan(q)'
    BY <2>1, <2>2 DEF HooksRan
  <2>5. QED
    BY <2>3, <2>4
<1>3. QED
  BY <1>1, <1>2 DEF JoinInv

\* A step that sets no pointer and runs no hook.
LEMMA JoinMoves ==
  ASSUME JoinInv, NEW r \in Sessions, UNCHANGED <<pointer, hooked>>,
         Joining!Nobody \notin Sessions,
         NEW s \in Entries,
         session' = [session EXCEPT ![r] = s],
         s.hook = session[r].hook,
         session[r].at \in Before \/ (s.sub = session[r].sub /\ s.at \notin Before),
         s.at # "hooks",
         s.at # "new" => s.sub \in Subs,
         s.at = "signed in" => pointer[s.sub] # Joining!Nobody,
         s.at = "in" => pointer[s.sub] = s.as /\ s.as # Joining!Nobody,
         s.at = "in" /\ s.as = r => \A k \in 1..Hooks : hooked[r][k] = 1
  PROVE  JoinInv'
<1>1. session'[r] = s /\ \A q \in Sessions \ {r} : session'[q] = session[q]
  BY DEF JoinInv, JoinType, Entries
<1>2. JoinType'
  BY DEF JoinInv, JoinType, Entries
<1>3. \A u \in Subs : pointer'[u] = r => session'[r].sub = u /\ session'[r].at \notin Before
  BY <1>1 DEF JoinInv, PointersOwn
<1>4. Placed(r)'
  BY <1>1 DEF Placed
<1>5. HooksRan(r)'
  <2>1. HooksRan(r)
    BY DEF JoinInv
  <2>2. s.at \in Before => session[r].at \in Before
    OBVIOUS
  <2>3. s.at \in Before \cup {"hooks"} => session[r].at \in Before \cup {"hooks"}
    BY <2>2
  <2>4. QED
    BY <1>1, <2>1, <2>2, <2>3 DEF HooksRan
<1>6. Grows
  BY DEF Grows
<1>7. QED
  BY <1>1, <1>2, <1>3, <1>4, <1>5, <1>6, JoinStep

LEMMA JoinGoesOn ==
  ASSUME Joining!SignInAssumption, JoinInv, Joining!Next \/ UNCHANGED Joining!vars
  PROVE  JoinInv'
<1>1. /\ Joining!Nobody \notin Sessions /\ Joining!Invited \notin Sessions /\ Hooks \in Nat
      /\ Joining!Invited # Joining!Nobody
      /\ Joining!Invited \in Joining!Users /\ Sessions \subseteq Joining!Users
  BY DEF Joining!SignInAssumption, Joining!Nobody, Joining!Invited, Joining!Users
<1>2. CASE UNCHANGED <<pointer, session, hooked>>
  <2>1. pointer' = pointer /\ session' = session /\ hooked' = hooked
    BY <1>2
  <2>2. JoinType' /\ PointersOwn'
    BY <2>1 DEF JoinInv, JoinType, Entries, PointersOwn
  <2>3. ASSUME NEW r \in Sessions
        PROVE  Placed(r)' /\ HooksRan(r)'
    BY <2>1 DEF JoinInv, Placed, HooksRan
  <2>4. QED
    BY <2>2, <2>3 DEF JoinInv
<1>3. CASE Joining!Invite \/ Joining!StartUpdate \/ Joining!Update \/ UNCHANGED Joining!vars
  BY <1>2, <1>3 DEF Joining!Invite, Joining!StartUpdate, Joining!Update, Joining!vars
<1>4. ASSUME NEW r \in Sessions
      PROVE  /\ session[r] \in Entries
             /\ Placed(r) /\ HooksRan(r)
  BY <1>4 DEF JoinInv, JoinType, Entries
\* Where a request goes with nothing but its place changed.
<1>5. ASSUME NEW r \in Sessions, NEW place \in {"create", "reread", "refused", "signed in"},
             UNCHANGED <<pointer, hooked>>, Joining!Goto(r, place),
             session[r].at # "new",
             session[r].at \in Before \/ place = "refused",
             place = "signed in" => pointer[session[r].sub] # Joining!Nobody
      PROVE  JoinInv'
  <2>1. PICK s : s = [session[r] EXCEPT !.at = place]
    OBVIOUS
  <2>2. session' = [session EXCEPT ![r] = s]
    BY <1>5, <2>1 DEF Joining!Goto
  <2>3. /\ s \in Entries
        /\ s.at = place /\ s.sub = session[r].sub /\ s.hook = session[r].hook
    BY <1>4, <1>5, <2>1 DEF Before, Entries
  <2>4. s.sub \in Subs
    BY <1>4, <1>5, <2>3 DEF Placed
  <2>5. s.at # "hooks" /\ s.at # "in"
    BY <1>5, <2>3
  <2>6. session[r].at \in Before \/ (s.sub = session[r].sub /\ s.at \notin Before)
    BY <1>5, <2>3 DEF Before
  <2>7. s.at = "signed in" => pointer[s.sub] # Joining!Nobody
    BY <1>5, <2>3
  <2>8. QED
    BY <1>1, <1>5, <2>2, <2>3, <2>4, <2>5, <2>6, <2>7, JoinMoves
\* Who is let in.
<1>6. ASSUME NEW r \in Sessions, NEW user \in Joining!Users, UNCHANGED <<pointer, hooked>>,
             Joining!Answer(r, user), session[r].at \in {"hooks", "signed in"},
             pointer[session[r].sub] = user,
             user = r => \A k \in 1..Hooks : hooked[r][k] = 1
      PROVE  JoinInv'
  <2>1. PICK s0 : s0 = [session[r] EXCEPT !.at = "in"]
    OBVIOUS
  <2>2. PICK s : s = [s0 EXCEPT !.as = user]
    OBVIOUS
  <2>3. session' = [session EXCEPT ![r] = s]
    BY <1>4, <1>6, <2>1, <2>2 DEF Joining!Answer, JoinInv, JoinType, Entries
  <2>4. /\ s \in Entries
        /\ s.at = "in" /\ s.sub = session[r].sub /\ s.hook = session[r].hook /\ s.as = user
    BY <1>4, <1>6, <2>1, <2>2 DEF Before, Entries
  <2>5. s.sub \in Subs /\ user # Joining!Nobody
    BY <1>1, <1>4, <1>6, <2>4 DEF Placed, Joining!Users
  <2>6. s.at \notin Before
    BY <2>4 DEF Before
  <2>7. QED
    BY <1>1, <1>6, <2>3, <2>4, <2>5, <2>6, JoinMoves
<1>7. ASSUME NEW r \in Sessions, NEW u \in Subs, Joining!Open(r, u)
      PROVE  JoinInv'
  <2>1. PICK place \in {"find", "signed in"} :
          /\ session[r].at = "new" /\ UNCHANGED <<pointer, hooked>>
          /\ session' = [session EXCEPT ![r].sub = u, ![r].at = place]
          /\ place = "signed in" => pointer[u] # Joining!Nobody
    BY <1>7 DEF Joining!Open, Joining!At
  <2>2. PICK s0 : s0 = [session[r] EXCEPT !.sub = u]
    OBVIOUS
  <2>3. PICK s : s = [s0 EXCEPT !.at = place]
    OBVIOUS
  <2>4. session' = [session EXCEPT ![r] = s]
    BY <1>4, <2>1, <2>2, <2>3 DEF JoinInv, JoinType, Entries
  <2>5. /\ s \in Entries
        /\ s.at = place /\ s.sub = u /\ s.hook = session[r].hook
    BY <1>4, <1>7, <2>1, <2>2, <2>3 DEF Before, Entries
  <2>6. session[r].at \in Before /\ s.at # "in" /\ s.at # "hooks"
    BY <2>1, <2>5 DEF Before
  <2>7. QED
    BY <1>1, <2>1, <2>4, <2>5, <2>6, JoinMoves
<1>8. ASSUME NEW r \in Sessions, Joining!Find(r)
      PROVE  JoinInv'
  <2>1. session[r].at = "find" /\ session[r].at \in Before /\ UNCHANGED <<pointer, hooked>>
    BY <1>8 DEF Joining!Find, Joining!At, Before
  <2>2. CASE Joining!Goto(r, "create")
    BY <1>5, <2>1, <2>2
  <2>3. ASSUME NEW place \in {"refused", "link"}, NEW owner \in BOOLEAN,
               session' = [session EXCEPT ![r].at = place, ![r].owner = owner]
        PROVE  JoinInv'
    <3>1. PICK s0 : s0 = [session[r] EXCEPT !.at = place]
      OBVIOUS
    <3>2. PICK s : s = [s0 EXCEPT !.owner = owner]
      OBVIOUS
    <3>3. session' = [session EXCEPT ![r] = s]
      BY <1>4, <2>3, <3>1, <3>2 DEF JoinInv, JoinType, Entries
    <3>4. /\ s \in Entries
          /\ s.at = place /\ s.sub = session[r].sub /\ s.hook = session[r].hook
      BY <1>4, <2>3, <3>1, <3>2 DEF Before, Entries
    <3>5. s.sub \in Subs
      BY <1>4, <2>1, <3>4 DEF Placed
    <3>6. s.at # "in" /\ s.at # "hooks" /\ s.at # "signed in"
      BY <2>3, <3>4
    <3>7. QED
      BY <1>1, <2>1, <3>3, <3>4, <3>5, <3>6, JoinMoves
  <2>4. QED
    BY <1>8, <2>2, <2>3 DEF Joining!Find
<1>9. ASSUME NEW r \in Sessions, NEW u \in Subs,
             Joining!Reread(r, u) \/ Joining!Enter(r, u)
      PROVE  JoinInv'
  <2>1. /\ session[r].at \in {"reread", "signed in"} /\ session[r].at \in Before
        /\ session[r].sub = u /\ UNCHANGED <<pointer, hooked>>
    BY <1>9 DEF Joining!Reread, Joining!Enter, Joining!At, Before
  <2>2. CASE Joining!Reread(r, u)
    BY <1>5, <2>1, <2>2 DEF Joining!Reread
  <2>3. CASE Joining!Enter(r, u)
    <3>1. session[r].at = "signed in" /\ pointer[u] # Joining!Nobody
      BY <1>4, <2>1, <2>3 DEF Joining!Enter, Joining!At, Placed
    <3>2. CASE Joining!Refuse(r)
      BY <1>5, <2>1, <3>1, <3>2 DEF Joining!Refuse
    <3>3. CASE Joining!Answer(r, pointer[u])
      <4>1. pointer[u] \in Joining!Users
        BY <3>1 DEF JoinInv, JoinType, Entries
      <4>2. pointer[u] # r
        BY <2>1 DEF JoinInv, PointersOwn
      <4>3. QED
        BY <1>6, <2>1, <3>1, <3>3, <4>1, <4>2
    <3>4. QED
      BY <2>3, <3>2, <3>3 DEF Joining!Enter, Joining!SignedIn
  <2>4. QED
    BY <1>9, <2>2, <2>3
<1>10. ASSUME NEW r \in Sessions, Joining!Welcome(r)
       PROVE  JoinInv'
  <2>1. /\ session[r].at = "hooks" /\ session[r].hook > Hooks /\ UNCHANGED <<pointer, hooked>>
        /\ Joining!Answer(r, r)
    BY <1>10 DEF Joining!Welcome, Joining!At
  <2>2. pointer[session[r].sub] = r
    BY <1>4, <2>1 DEF Placed
  <2>3. \A k \in 1..Hooks : k < session[r].hook
    BY <1>1, <1>4, <2>1 DEF Entries
  <2>4. \A k \in 1..Hooks : hooked[r][k] = 1
    BY <1>4, <2>1, <2>3 DEF HooksRan
  <2>5. QED
    BY <1>1, <1>6, <2>1, <2>2, <2>4
<1>11. ASSUME NEW r \in Sessions, Joining!RunHook(r)
       PROVE  JoinInv'
  <2>1. PICK n \in 1..Hooks : n = session[r].hook
    BY <1>1, <1>4, <1>11 DEF Joining!RunHook, Entries
  <2>2. /\ session[r].at = "hooks" /\ pointer' = pointer
        /\ hooked' = [hooked EXCEPT ![r][n] = @ + 1]
        /\ session' = [session EXCEPT ![r].hook = @ + 1]
    BY <1>11, <2>1 DEF Joining!RunHook, Joining!At
  <2>3. /\ session'[r].at = "hooks" /\ session'[r].hook = n + 1
        /\ session'[r].sub = session[r].sub
        /\ \A q \in Sessions \ {r} : session'[q] = session[q] /\ hooked'[q] = hooked[q]
    BY <1>4, <2>1, <2>2 DEF JoinInv, JoinType, Entries
  <2>4. \A k \in 1..Hooks : hooked[r][k] = IF k < n THEN 1 ELSE 0
    BY <1>4, <2>1, <2>2 DEF HooksRan
  <2>5. \A k \in 1..Hooks : hooked'[r][k] = IF k < n + 1 THEN 1 ELSE 0
    <3>1. hooked'[r][n] = hooked[r][n] + 1
          /\ \A k \in (1..Hooks) \ {n} : hooked'[r][k] = hooked[r][k]
      BY <2>1, <2>2 DEF JoinInv, JoinType, Entries
    <3>2. \A k \in 1..Hooks : k # n => (k < n <=> k < n + 1)
      BY <1>1, <2>1
    <3>3. QED
      BY <1>1, <2>1, <2>4, <3>1, <3>2
  <2>6. JoinType'
    <3>1. session' \in [Sessions -> Entries]
      <4>1. PICK m \in Nat \ {0} : m = session[r].hook + 1
        BY <1>4 DEF Entries
      <4>2. PICK s : s = [session[r] EXCEPT !.hook = m]
        OBVIOUS
      <4>3. s \in Entries
        BY <1>4, <4>1, <4>2 DEF Entries
      <4>4. session' = [session EXCEPT ![r] = s]
        BY <2>2, <4>1, <4>2 DEF JoinInv, JoinType, Entries
      <4>5. QED
        BY <4>3, <4>4 DEF JoinInv, JoinType, Entries
    <3>2. hooked' \in [Sessions -> [1..Hooks -> Nat]]
      <4>1. hooked[r] \in [1..Hooks -> Nat]
        BY DEF JoinInv, JoinType
      <4>2. PICK times \in Nat : times = hooked[r][n] + 1
        <5>1. ~(n < n)
          BY <1>1, <2>1
        <5>2. hooked[r][n] = 0
          BY <2>1, <2>4, <5>1
        <5>3. 1 \in Nat /\ 1 = hooked[r][n] + 1
          BY <5>2
        <5>4. QED
          BY <5>3
      <4>3. [hooked[r] EXCEPT ![n] = times] \in [1..Hooks -> Nat]
        BY <4>1
      <4>4. hooked' = [hooked EXCEPT ![r] = [hooked[r] EXCEPT ![n] = times]]
        BY <2>2, <4>2 DEF JoinInv, JoinType
      <4>5. QED
        BY <4>3, <4>4 DEF JoinInv, JoinType
    <3>3. QED
      BY <2>2, <3>1, <3>2 DEF JoinInv, JoinType, Entries
  <2>7. session[r].sub \in Subs /\ pointer[session[r].sub] = r
    BY <1>4, <2>2 DEF Placed
  <2>8. Placed(r)'
    BY <2>2, <2>3, <2>7 DEF Placed
  <2>9. HooksRan(r)'
    <3>1. session'[r].at \notin Before /\ session'[r].at # "in"
      BY <2>3 DEF Before
    <3>2. \A k \in 1..Hooks : hooked'[r][k] <= 1
      BY <2>5
    <3>3. \E u \in Subs : pointer'[u] = r
      BY <2>2, <2>7
    <3>4. QED
      BY <2>3, <2>5, <3>1, <3>2, <3>3 DEF HooksRan
  <2>10. \A u \in Subs : pointer'[u] = r => session'[r].sub = u /\ session'[r].at \notin Before
    BY <2>2, <2>3 DEF JoinInv, PointersOwn, Before
  <2>11. QED
    BY <1>1, <2>2, <2>3, <2>6, <2>8, <2>9, <2>10, JoinStep DEF Grows
\* A pointer is set.
<1>12. ASSUME NEW r \in Sessions, NEW u \in Subs, NEW user \in {r, Joining!Invited},
              session[r].at \in {"link", "create"}, session[r].sub = u,
              pointer[u] = Joining!Nobody,
              pointer' = [pointer EXCEPT ![u] = user], hooked' = hooked,
              JoinType',
              \A q \in Sessions \ {r} : session'[q] = session[q],
              session'[r].sub = u, session'[r].hook = session[r].hook,
              IF user = r THEN session'[r].at = "hooks"
                          ELSE session'[r].at = "in" /\ session'[r].as = user
       PROVE  JoinInv'
  <2>1. /\ session[r].at \in Before /\ session'[r].at \notin Before
        /\ session'[r].at \in {"hooks", "in"}
    BY <1>12 DEF Before
  <2>2. pointer'[u] = user /\ \A v \in Subs \ {u} : pointer'[v] = pointer[v]
    BY <1>12 DEF JoinInv, JoinType, Entries
  <2>3. Grows
    BY <1>12, <2>2 DEF Grows
  <2>4. \A v \in Subs : pointer[v] # r
    BY <2>1 DEF JoinInv, PointersOwn
  <2>5. \A v \in Subs : pointer'[v] = r => session'[r].sub = v /\ session'[r].at \notin Before
    BY <1>12, <2>1, <2>2, <2>4
  <2>6. \A v \in Subs, q \in Sessions \ {r} : pointer'[v] = q => pointer[v] = q
    BY <1>1, <1>12, <2>2
  <2>7. Placed(r)'
    BY <1>1, <1>12, <2>2 DEF Placed
  <2>8. HooksRan(r)'
    <3>1. session[r].hook = 1 /\ \A k \in 1..Hooks : hooked[r][k] = IF k < 1 THEN 1 ELSE 0
      BY <1>4, <2>1 DEF HooksRan
    <3>2. \A k \in 1..Hooks : ~(k < 1)
      OBVIOUS
    <3>3. \A k \in 1..Hooks : hooked'[r][k] = 0
      BY <1>12, <3>1, <3>2
    <3>4. ~(session'[r].at = "in" /\ session'[r].as = r)
      BY <1>1, <1>12
    <3>5. QED
      BY <1>12, <2>1, <3>1, <3>2, <3>3, <3>4 DEF HooksRan
  <2>9. QED
    BY <1>1, <1>12, <2>3, <2>5, <2>6, <2>7, <2>8, JoinStep
<1>13. ASSUME NEW r \in Sessions, NEW u \in Subs, Joining!Create(r, u)
       PROVE  JoinInv'
  <2>1. session[r].at = "create" /\ session[r].at \in Before /\ session[r].sub = u /\ hooked' = hooked
    BY <1>13 DEF Joining!Create, Joining!At, Before
  <2>2. CASE pointer[u] = Joining!Nobody
    <3>1. /\ pointer' = [pointer EXCEPT ![u] = r]
          /\ session' = [session EXCEPT ![r].at = "hooks"]
      BY <1>13, <2>2 DEF Joining!Create, Joining!IsUnknown, Joining!Goto
    <3>2. JoinType'
      BY <1>1, <2>1, <3>1, ZenonT(40) DEF JoinInv, JoinType, Entries
    <3>3. /\ session'[r].at = "hooks" /\ session'[r].sub = u /\ session'[r].hook = session[r].hook
          /\ \A q \in Sessions \ {r} : session'[q] = session[q]
      BY <1>4, <2>1, <3>1 DEF JoinInv, JoinType, Entries
    <3>4. QED
      BY <1>12, <2>1, <2>2, <3>1, <3>2, <3>3
  <2>3. CASE pointer[u] # Joining!Nobody
    BY <1>5, <1>13, <2>1, <2>3 DEF Joining!Create, Joining!IsUnknown
  <2>4. QED
    BY <2>2, <2>3
<1>14. ASSUME NEW r \in Sessions, NEW u \in Subs, Joining!Link(r, u)
       PROVE  JoinInv'
  <2>1. session[r].at = "link" /\ session[r].at \in Before /\ session[r].sub = u /\ hooked' = hooked
    BY <1>14 DEF Joining!Link, Joining!At, Before
  <2>2. CASE Joining!Answer(r, Joining!Invited) /\ pointer[u] = Joining!Nobody
             /\ pointer' = [pointer EXCEPT ![u] = Joining!Invited]
    <3>1. PICK user \in Joining!Users : user = Joining!Invited
      BY <1>1
    <3>2. session' = [session EXCEPT ![r].at = "in", ![r].as = user]
      BY <2>2, <3>1 DEF Joining!Answer
    <3>3. JoinType'
      <4>1. PICK s0 : s0 = [session[r] EXCEPT !.at = "in"]
        OBVIOUS
      <4>2. PICK s : s = [s0 EXCEPT !.as = user]
        OBVIOUS
      <4>3. s \in Entries
        BY <1>4, <3>1, <4>1, <4>2 DEF Entries
      <4>4. session' = [session EXCEPT ![r] = s]
        BY <3>2, <4>1, <4>2 DEF JoinInv, JoinType, Entries
      <4>5. session' \in [Sessions -> Entries]
        BY <4>3, <4>4 DEF JoinInv, JoinType, Entries
      <4>6. pointer' \in [Subs -> Joining!Users \cup {Joining!Nobody}]
        BY <1>1, <2>2 DEF JoinInv, JoinType, Entries
      <4>7. QED
        BY <2>1, <4>5, <4>6 DEF JoinInv, JoinType, Entries
    <3>4. /\ session'[r].at = "in" /\ session'[r].sub = u /\ session'[r].as = user
          /\ session'[r].hook = session[r].hook
          /\ \A q \in Sessions \ {r} : session'[q] = session[q]
      BY <1>4, <2>1, <3>2 DEF JoinInv, JoinType, Entries
    <3>5. user # r
      BY <1>1, <3>1
    <3>6. QED
      BY <1>12, <2>1, <2>2, <3>1, <3>3, <3>4, <3>5
  <2>3. CASE Joining!Goto(r, "reread") /\ pointer' = pointer
    BY <1>5, <2>1, <2>3
  <2>4. QED
    BY <1>14, <2>2, <2>3 DEF Joining!Link, Joining!IsUnknown
<1>15. ASSUME NEW r \in Sessions, Joining!Fail(r)
       PROVE  JoinInv'
  BY <1>5, <1>15 DEF Joining!Fail, Joining!Refuse
<1>16. QED
  BY <1>3, <1>7, <1>8, <1>9, <1>10, <1>11, <1>13, <1>14, <1>15 DEF Joining!Next

LEMMA JoinedOnce ==
  ASSUME JoinInv
  PROVE  Joining!OneUser
<1>1. ASSUME NEW r \in Sessions, NEW q \in Sessions, session[r].at = "in", session[q].at = "in"
      PROVE  /\ session[r].sub = session[q].sub => session[r].as = session[q].as
             /\ session[r].as = session[q].as /\ session[r].as \in Sessions
                  => session[r].sub = session[q].sub
  <2>1. \A s \in {r, q} : session[s].sub \in Subs /\ pointer[session[s].sub] = session[s].as
    BY <1>1 DEF JoinInv, Placed
  <2>2. ASSUME session[r].as = session[q].as, session[r].as \in Sessions
        PROVE  session[r].sub = session[q].sub
    BY <2>1, <2>2 DEF JoinInv, PointersOwn
  <2>3. QED
    BY <2>1, <2>2
<1>2. ASSUME NEW r \in Sessions, NEW k \in 1..Hooks
      PROVE  /\ hooked[r][k] <= 1
             /\ hooked[r][k] = 1 => \E u \in Subs : pointer[u] = r
             /\ session[r].at = "in" /\ session[r].as = r => hooked[r][k] = 1
  BY <1>2 DEF JoinInv, HooksRan
<1>3. QED
  BY <1>1, <1>2 DEF Joining!OneUser, Joining!At, Joining!IsOwner

-----------------------------------------------------------------------------
(* API sends *)

\* Where a request is past the record of its key, and not answered.
Doing == {"price", "landing", "remember", "reserve", "dispatch", "raised", "finish"}

\* Where nothing was reserved yet.
Unpaid == {"new", "begin", "peek", "price", "landing", "remember", "reserve"}

Outs == UNION {[1..n -> Api!Outcomes] : n \in Nat}

Asks == [at: Doing \cup Unpaid \cup {"answered", "conflict", "replayed", "failed"},
         key: Keys \cup {NoKey}, life: Nat, batch: Seq(Destinations), outcome: Outs,
         debited: Nat, refunded: Int, total: Int]

ApiType ==
  /\ record \in [Keys -> [status: {"absent", "in flight", "done"}, total: Int]]
  /\ lives \in [Keys -> Nat]
  /\ request \in [Requests -> Asks]
  /\ \A r \in Requests :
       request[r].outcome \in [1..Len(request[r].batch) -> Api!Outcomes]

\* A request that got past the record of its key, and one whose record still lives.
Acted(r) == Api!Keyed(r) /\ (request[r].at \in Doing \/ request[r].debited > 0)
Now(r)   == Api!Keyed(r) /\ request[r].life = lives[request[r].key]
Same(r, q) == request[r].key = request[q].key /\ request[r].life = request[q].life

Lived(r) ==
  Api!Keyed(r) =>
    /\ request[r].life <= lives[request[r].key]
    /\ request[r].at \in Doing \cup {"begin", "peek"} => Now(r)

ActedOnce == \A r, q \in Requests : Acted(r) /\ Acted(q) /\ Same(r, q) => r = q

\* The record of one that acted is there while it lives, and says what that one was billed
\* once it is answered.
Recorded(r) ==
  /\ Acted(r) /\ Now(r) => record[request[r].key].status # "absent"
  /\ Acted(r) /\ Now(r) /\ record[request[r].key].status = "done" =>
       /\ request[r].at = "answered"
       /\ record[request[r].key].total = request[r].debited - request[r].refunded
  /\ Now(r) /\ request[r].at = "replayed" =>
       /\ record[request[r].key].status = "done"
       /\ request[r].total = record[request[r].key].total

Replayed ==
  \A r, q \in Requests : request[r].at = "replayed" /\ Acted(q) /\ Same(r, q) =>
    /\ request[q].at = "answered"
    /\ request[r].total = request[q].debited - request[q].refunded

\* What a request reserved and what it gave back.
Money(r) ==
  /\ request[r].at \in Unpaid => request[r].debited = 0
  /\ request[r].at \in {"dispatch", "raised"} => request[r].debited = Len(request[r].batch)
  /\ request[r].refunded # 0 \/ request[r].at \in {"finish", "answered"} =>
       /\ request[r].at \in {"finish", "answered", "failed"}
       /\ \A i \in Api!Messages(r) : Api!Over(r, i)
  /\ request[r].at \in {"finish", "answered"} =>
       /\ request[r].refunded = Api!Cardinality(Api!Refused(r))
       /\ request[r].total = request[r].debited - request[r].refunded

ApiInv ==
  /\ ApiType /\ ActedOnce /\ Replayed
  /\ \A r \in Requests : Lived(r) /\ Recorded(r) /\ Money(r)

LEMMA OutsAre ==
  ASSUME NEW n \in Nat
  PROVE  [1..n -> Api!Outcomes] \subseteq Outs
BY DEF Outs

LEMMA NoRequestIs ==
  /\ Api!NoRequest \in Asks /\ Api!NoRequest.at = "new" /\ Api!NoRequest.key = NoKey
  /\ Api!NoRequest.debited = 0 /\ Api!NoRequest.refunded = 0
  /\ Api!NoRequest.outcome \in [1..Len(Api!NoRequest.batch) -> Api!Outcomes]
<1>1. PICK none : none = <<>>
  OBVIOUS
<1>2. none \in Seq(Destinations) /\ Len(none) = 0 /\ none \in [1..0 -> Api!Outcomes]
  BY <1>1
<1>3. Api!NoRequest = [at |-> "new", key |-> NoKey, life |-> 0, batch |-> none,
                       outcome |-> none, debited |-> 0, refunded |-> 0, total |-> 0]
  BY <1>1 DEF Api!NoRequest
<1>4. none \in Outs
  <2>1. 0 \in Nat
    OBVIOUS
  <2>2. [1..0 -> Api!Outcomes] \subseteq Outs
    BY <2>1, OutsAre
  <2>3. QED
    BY <1>2, <2>2
<1>5. Api!NoRequest \in Asks
  BY <1>2, <1>3, <1>4 DEF Asks, Unpaid
<1>6. none \in [1..Len(none) -> Api!Outcomes]
  BY <1>2
<1>7. QED
  BY <1>3, <1>5, <1>6

LEMMA ApiBegins ==
  ASSUME Api!ApiSendAssumption, Api!Init
  PROVE  ApiInv
<1>1. /\ record = [k \in Keys |-> [status |-> "absent", total |-> 0]]
      /\ lives = [k \in Keys |-> 0]
      /\ request = [r \in Requests |-> Api!NoRequest]
  BY DEF Api!Init, Api!Absent
<1>2. \A r \in Requests : request[r] = Api!NoRequest
  BY <1>1
<1>3. ApiType
  <2>1. /\ record \in [Keys -> [status: {"absent", "in flight", "done"}, total: Int]]
        /\ lives \in [Keys -> Nat] /\ request \in [Requests -> Asks]
    BY <1>1, NoRequestIs
  <2>2. QED
    BY <1>2, <2>1, NoRequestIs DEF ApiType
<1>4. ASSUME NEW r \in Requests
      PROVE  /\ ~Api!Keyed(r) /\ request[r].at = "new" /\ request[r].debited = 0
             /\ request[r].refunded = 0
  BY <1>2, NoRequestIs DEF Api!Keyed
<1>5. ActedOnce /\ Replayed
  BY <1>4 DEF ActedOnce, Replayed, Acted
<1>6. \A r \in Requests : Lived(r) /\ Recorded(r) /\ Money(r)
  BY <1>4 DEF Lived, Recorded, Money, Acted, Now
<1>7. QED
  BY <1>3, <1>5, <1>6 DEF ApiInv

LEMMA BatchIs ==
  ASSUME ApiType, NEW r \in Requests
  PROVE  /\ Len(request[r].batch) \in Nat
         /\ Api!Messages(r) = 1..Len(request[r].batch)
<1>1. request[r].batch \in Seq(Destinations)
  BY DEF ApiType, Asks
<1>2. QED
  BY <1>1 DEF Api!Messages

LEMMA KeyedIs ==
  ASSUME ApiType, NEW r \in Requests, Api!Keyed(r)
  PROVE  request[r].key \in Keys
BY DEF ApiType, Asks, Api!Keyed

\* A request that is not answered steps, and no record changes.
LEMMA ApiStep ==
  ASSUME ApiInv, ApiType', NEW r \in Requests, UNCHANGED <<record, lives>>,
         \A q \in Requests \ {r} : request'[q] = request[q],
         request[r].at # "answered", request'[r].at # "replayed",
         Acted(r)' => /\ Acted(r)
                      /\ request'[r].key = request[r].key /\ request'[r].life = request[r].life,
         Lived(r)', Money(r)'
  PROVE  ApiInv'
<1>1. ASSUME NEW q \in Requests \ {r}
      PROVE  /\ Acted(q)' <=> Acted(q)
             /\ Now(q)' <=> Now(q)
             /\ Lived(q)' /\ Recorded(q)' /\ Money(q)'
             /\ request'[q] = request[q]
  <2>1. request'[q] = request[q] /\ Lived(q) /\ Recorded(q) /\ Money(q)
    BY DEF ApiInv
  <2>2. (Acted(q)' <=> Acted(q)) /\ (Now(q)' <=> Now(q)) /\ Lived(q)'
    BY <2>1 DEF Acted, Now, Lived, Api!Keyed
  <2>3. Recorded(q)'
    BY <2>1, <2>2 DEF Recorded
  <2>4. Money(q)'
    BY <2>1 DEF Money, Api!Messages, Api!Over, Api!Refused
  <2>5. QED
    BY <2>1, <2>2, <2>3, <2>4
<1>2. ActedOnce'
  BY <1>1 DEF ApiInv, ActedOnce, Same
<1>3. Recorded(r)'
  <2>1. ASSUME Acted(r)', Now(r)'
        PROVE  Acted(r) /\ Now(r) /\ request'[r].key = request[r].key
    BY <2>1 DEF Now, Acted, Api!Keyed
  <2>2. Recorded(r)
    BY DEF ApiInv
  <2>3. QED
    BY <2>1, <2>2 DEF Recorded
<1>4. Replayed'
  <2> SUFFICES ASSUME NEW p \in Requests, NEW q \in Requests,
                      request'[p].at = "replayed", Acted(q)', Same(p, q)'
               PROVE  /\ request'[q].at = "answered"
                      /\ request'[p].total = request'[q].debited - request'[q].refunded
    BY DEF Replayed
  <2>1. p # r /\ request'[p] = request[p]
    BY <1>1
  <2>2. Acted(q) /\ Same(p, q)
    BY <1>1, <2>1 DEF Same
  <2>3. request[q].at = "answered" /\ request[p].total = request[q].debited - request[q].refunded
    BY <2>1, <2>2 DEF ApiInv, Replayed
  <2>4. QED
    BY <1>1, <2>1, <2>3
<1>5. QED
  BY <1>1, <1>2, <1>3, <1>4 DEF ApiInv

\* What an assignment to a request's fields comes to.
LEMMA AskIs ==
  ASSUME ApiType, NEW r \in Requests, NEW s \in Asks,
         s.outcome \in [1..Len(s.batch) -> Api!Outcomes],
         request' = [request EXCEPT ![r] = s]
  PROVE  /\ request' \in [Requests -> Asks]
         /\ \A q \in Requests :
              request'[q].outcome \in [1..Len(request'[q].batch) -> Api!Outcomes]
         /\ request'[r] = s
         /\ \A q \in Requests \ {r} : request'[q] = request[q]
<1>1. /\ request' \in [Requests -> Asks] /\ request'[r] = s
      /\ \A q \in Requests \ {r} : request'[q] = request[q]
  BY DEF ApiType
<1>2. QED
  BY <1>1 DEF ApiType

LEMMA AskGoes ==
  ASSUME ApiType, NEW r \in Requests,
         NEW place \in Doing \cup Unpaid \cup {"answered", "conflict", "replayed", "failed"},
         Api!Goto(r, place)
  PROVE  /\ request' \in [Requests -> Asks]
         /\ \A q \in Requests :
              request'[q].outcome \in [1..Len(request'[q].batch) -> Api!Outcomes]
         /\ request'[r].at = place
         /\ request'[r].key = request[r].key /\ request'[r].life = request[r].life
         /\ request'[r].batch = request[r].batch /\ request'[r].outcome = request[r].outcome
         /\ request'[r].debited = request[r].debited
         /\ request'[r].refunded = request[r].refunded
         /\ request'[r].total = request[r].total
         /\ \A q \in Requests \ {r} : request'[q] = request[q]
<1>1. PICK s : s = [request[r] EXCEPT !.at = place]
  OBVIOUS
<1>2. request' = [request EXCEPT ![r] = s]
  BY <1>1 DEF Api!Goto, ApiType
<1>3. request[r] \in Asks /\ request[r].outcome \in [1..Len(request[r].batch) -> Api!Outcomes]
  BY DEF ApiType
<1>4. /\ s \in Asks
      /\ s.at = place /\ s.key = request[r].key /\ s.life = request[r].life
      /\ s.batch = request[r].batch /\ s.outcome = request[r].outcome
      /\ s.debited = request[r].debited /\ s.refunded = request[r].refunded
      /\ s.total = request[r].total
  BY <1>1, <1>3 DEF Asks
<1>5. s.outcome \in [1..Len(s.batch) -> Api!Outcomes]
  BY <1>3, <1>4
<1>6. QED
  BY <1>2, <1>4, <1>5, AskIs

\* Steps that only go on to another place.
LEMMA ApiGoes ==
  ASSUME ApiInv, NEW r \in Requests, UNCHANGED <<record, lives>>,
         NEW place \in Doing \cup Unpaid \cup {"failed"}, Api!Goto(r, place),
         request[r].at \in Doing \cup {"begin", "peek"},
         place \in Doing => request[r].at \in Doing,
         place \in Unpaid => request[r].at \in Unpaid,
         place \in {"dispatch", "finish", "raised"} => place = request[r].at
  PROVE  ApiInv'
<1>1. /\ ApiType /\ Lived(r) /\ Money(r)
  BY DEF ApiInv
<1>2. /\ request' \in [Requests -> Asks]
      /\ \A q \in Requests :
           request'[q].outcome \in [1..Len(request'[q].batch) -> Api!Outcomes]
      /\ request'[r].at = place
      /\ request'[r].key = request[r].key /\ request'[r].life = request[r].life
      /\ request'[r].batch = request[r].batch /\ request'[r].outcome = request[r].outcome
      /\ request'[r].debited = request[r].debited /\ request'[r].refunded = request[r].refunded
      /\ request'[r].total = request[r].total
      /\ \A q \in Requests \ {r} : request'[q] = request[q]
  BY <1>1, AskGoes
<1>3. ApiType'
  BY <1>1, <1>2 DEF ApiType
<1>4. request[r].at # "answered" /\ place # "replayed" /\ place # "answered"
  BY DEF Doing, Unpaid
<1>5. Acted(r)' => Acted(r)
  BY <1>2 DEF Acted, Api!Keyed
<1>6. Lived(r)'
  BY <1>1, <1>2 DEF Lived, Now, Api!Keyed
<1>7. Money(r)'
  <2>1. request[r].refunded # 0 => request[r].at \in {"finish", "failed"}
    BY <1>1, <1>4 DEF Money
  <2>2. request[r].at = "finish" => place \in {"finish", "failed"} \/ place \in Doing \ Unpaid
    BY DEF Doing, Unpaid
  <2>3. request[r].refunded # 0 => place \in {"finish", "failed"}
    BY <2>1, <2>2, <1>4 DEF Doing, Unpaid
  <2>4. \A i \in Api!Messages(r) : Api!Over(r, i) => Api!Over(r, i)'
    BY <1>2 DEF Api!Over
  <2>5. Api!Messages(r)' = Api!Messages(r) /\ Api!Refused(r)' = Api!Refused(r)
    BY <1>2 DEF Api!Messages, Api!Refused
  <2>6. request[r].refunded # 0 => \A i \in Api!Messages(r) : Api!Over(r, i)
    BY <1>1 DEF Money
  <2>7. QED
    BY <1>1, <1>2, <1>4, <2>3, <2>4, <2>5, <2>6 DEF Money
<1>8. QED
  BY <1>2, <1>3, <1>4, <1>5, <1>6, <1>7, ApiStep

LEMMA ArriveKeeps ==
  ASSUME Api!ApiSendAssumption, ApiInv, NEW r \in Requests, NEW k \in Keys \cup {NoKey},
         NEW batch \in Batches, Api!Arrive(r, k, batch)
  PROVE  ApiInv'
<1>1. PICK n \in Nat : n = Len(batch) /\ DOMAIN batch = 1..n /\ batch \in Seq(Destinations)
  BY DEF Api!ApiSendAssumption
<1>2. PICK life \in Nat : life = IF k = NoKey THEN 0 ELSE lives[k]
  BY DEF ApiInv, ApiType
<1>3. PICK place \in {"price", "begin"} : place = IF k = NoKey THEN "price" ELSE "begin"
  OBVIOUS
<1>4. PICK outs : outs = [i \in DOMAIN batch |-> "open"]
  OBVIOUS
<1>5. outs \in [1..n -> Api!Outcomes] /\ outs \in Outs
  BY <1>1, <1>4, OutsAre DEF Api!Outcomes
<1>6. PICK s : s = [Api!NoRequest EXCEPT !.key = k, !.batch = batch, !.life = life,
                                        !.outcome = outs, !.at = place]
  OBVIOUS
<1>7. request[r].at = "new" /\ UNCHANGED <<record, lives>>
      /\ request' = [request EXCEPT ![r] = s]
  BY <1>2, <1>3, <1>4, <1>6 DEF Api!Arrive, Api!At
<1>8. /\ s \in Asks /\ s.at = place /\ s.key = k /\ s.life = life /\ s.batch = batch
      /\ s.outcome = outs /\ s.debited = 0 /\ s.refunded = 0
  BY <1>1, <1>2, <1>3, <1>5, <1>6, NoRequestIs DEF Asks, Unpaid
<1>9. s.outcome \in [1..Len(s.batch) -> Api!Outcomes]
  BY <1>1, <1>5, <1>8
<1>10. /\ request' \in [Requests -> Asks]
       /\ \A q \in Requests :
            request'[q].outcome \in [1..Len(request'[q].batch) -> Api!Outcomes]
       /\ request'[r] = s
       /\ \A q \in Requests \ {r} : request'[q] = request[q]
  BY <1>7, <1>8, <1>9, AskIs DEF ApiInv
<1>11. ApiType'
  BY <1>7, <1>10 DEF ApiInv, ApiType
<1>12. Api!Keyed(r)' => k # NoKey /\ request'[r].at = "begin" /\ life = lives[k] /\ k \in Keys
  BY <1>2, <1>3, <1>8, <1>10 DEF Api!Keyed
<1>13. ~Acted(r)'
  BY <1>8, <1>10, <1>12 DEF Acted, Doing
<1>14. Lived(r)'
  <2>1. Api!Keyed(r)' => lives[k] \in Nat /\ lives[k] <= lives[k]
    <3>1. lives \in [Keys -> Nat]
      BY DEF ApiInv, ApiType
    <3>2. \A key \in Keys : lives[key] \in Nat /\ lives[key] <= lives[key]
      BY <3>1
    <3>3. QED
      BY <1>12, <3>2
  <2>2. QED
    BY <1>7, <1>8, <1>10, <1>12, <2>1 DEF Lived, Now, Api!Keyed
<1>15. Money(r)'
  BY <1>3, <1>8, <1>10 DEF Money, Unpaid
<1>16. request[r].at # "answered" /\ request'[r].at # "replayed"
  BY <1>3, <1>7, <1>8, <1>10
<1>17. QED
  BY <1>7, <1>10, <1>11, <1>13, <1>14, <1>15, <1>16, ApiStep

LEMMA ReserveKeeps ==
  ASSUME ApiInv, NEW r \in Requests, Api!Reserve(r)
  PROVE  ApiInv'
<1>1. /\ request[r].at = "reserve" /\ request[r].at \in Doing /\ request[r].at \in Unpaid
      /\ UNCHANGED <<record, lives>>
  BY DEF Api!Reserve, Api!At, Doing, Unpaid
<1>2. CASE Api!Goto(r, "failed")
  <2>1. /\ "failed" \in Doing \cup Unpaid \cup {"failed"} /\ "failed" \notin Doing
        /\ "failed" \notin Unpaid
    BY DEF Doing, Unpaid
  <2>2. QED
    BY <1>1, <1>2, <2>1, ApiGoes
<1>3. CASE request' = [request EXCEPT ![r].at = "dispatch", ![r].debited = Len(request[r].batch)]
  <2>1. PICK n \in Nat : n = Len(request[r].batch)
    BY BatchIs DEF ApiInv
  <2>2. PICK s0 : s0 = [request[r] EXCEPT !.at = "dispatch"]
    OBVIOUS
  <2>3. PICK s : s = [s0 EXCEPT !.debited = n]
    OBVIOUS
  <2>4. request' = [request EXCEPT ![r] = s]
    BY <1>3, <2>1, <2>2, <2>3 DEF ApiInv, ApiType
  <2>5. request[r] \in Asks /\ request[r].outcome \in [1..n -> Api!Outcomes]
    BY <2>1 DEF ApiInv, ApiType
  <2>6. /\ s \in Asks
        /\ s.at = "dispatch" /\ s.key = request[r].key /\ s.life = request[r].life
        /\ s.batch = request[r].batch /\ s.outcome = request[r].outcome
        /\ s.debited = n /\ s.refunded = request[r].refunded
    BY <2>1, <2>2, <2>3, <2>5 DEF Asks, Doing
  <2>7. s.outcome \in [1..Len(s.batch) -> Api!Outcomes]
    BY <2>1, <2>5, <2>6
  <2>8. /\ request' \in [Requests -> Asks]
        /\ \A q \in Requests :
             request'[q].outcome \in [1..Len(request'[q].batch) -> Api!Outcomes]
        /\ request'[r] = s
        /\ \A q \in Requests \ {r} : request'[q] = request[q]
    BY <2>4, <2>6, <2>7, AskIs DEF ApiInv
  <2>9. ApiType'
    BY <1>1, <2>8 DEF ApiInv, ApiType
  <2>10. /\ Acted(r)' => Acted(r)
         /\ request'[r].key = request[r].key /\ request'[r].life = request[r].life
    BY <1>1, <2>6, <2>8 DEF Acted, Api!Keyed
  <2>11. Lived(r)'
    BY <1>1, <2>6, <2>8 DEF ApiInv, Lived, Now, Api!Keyed
  <2>12. Money(r)'
    <3>1. s.refunded = 0
      BY <1>1, <2>6 DEF ApiInv, Money
    <3>2. QED
      BY <2>1, <2>6, <2>8, <3>1 DEF Money, Unpaid
  <2>13. request[r].at # "answered" /\ request'[r].at # "replayed"
    BY <1>1, <2>6, <2>8
  <2>14. QED
    BY <1>1, <2>8, <2>9, <2>10, <2>11, <2>12, <2>13, ApiStep
<1>4. QED
  BY <1>2, <1>3 DEF Api!Reserve

\* A dispatch gets on: it is claimed, over, or raises.
LEMMA DispatchKeeps ==
  ASSUME ApiInv, NEW r \in Requests, NEW i \in Api!Messages(r), NEW outcome \in Api!Outcomes,
         NEW place \in {"dispatch", "raised"}, UNCHANGED <<record, lives>>,
         request[r].at \in {"dispatch", "raised"},
         request' = [request EXCEPT ![r].at = place, ![r].outcome[i] = outcome]
  PROVE  ApiInv'
<1>1. PICK n \in Nat : n = Len(request[r].batch) /\ Api!Messages(r) = 1..n
  BY BatchIs DEF ApiInv
<1>2. request[r] \in Asks /\ request[r].outcome \in [1..n -> Api!Outcomes]
  BY <1>1 DEF ApiInv, ApiType
<1>3. PICK outs : outs = [request[r].outcome EXCEPT ![i] = outcome]
  OBVIOUS
<1>4. outs \in [1..n -> Api!Outcomes] /\ outs \in Outs
  BY <1>1, <1>2, <1>3, OutsAre
<1>5. PICK s0 : s0 = [request[r] EXCEPT !.at = place]
  OBVIOUS
<1>6. PICK s : s = [s0 EXCEPT !.outcome = outs]
  OBVIOUS
<1>7. request' = [request EXCEPT ![r] = s]
  BY <1>2, <1>3, <1>5, <1>6 DEF ApiInv, ApiType, Asks
<1>8. /\ s \in Asks
      /\ s.at = place /\ s.key = request[r].key /\ s.life = request[r].life
      /\ s.batch = request[r].batch /\ s.outcome = outs
      /\ s.debited = request[r].debited /\ s.refunded = request[r].refunded
  BY <1>2, <1>4, <1>5, <1>6 DEF Asks, Doing
<1>9. s.outcome \in [1..Len(s.batch) -> Api!Outcomes]
  BY <1>1, <1>4, <1>8
<1>10. /\ request' \in [Requests -> Asks]
       /\ \A q \in Requests :
            request'[q].outcome \in [1..Len(request'[q].batch) -> Api!Outcomes]
       /\ request'[r] = s
       /\ \A q \in Requests \ {r} : request'[q] = request[q]
  BY <1>7, <1>8, <1>9, AskIs DEF ApiInv
<1>11. ApiType'
  BY <1>10 DEF ApiInv, ApiType
<1>12. request[r].at \in Doing /\ place \in Doing /\ place \notin Unpaid
  BY DEF Doing, Unpaid
<1>13. /\ Acted(r)' => Acted(r)
       /\ request'[r].key = request[r].key /\ request'[r].life = request[r].life
  BY <1>8, <1>10, <1>12 DEF Acted, Api!Keyed
<1>14. Lived(r)'
  BY <1>8, <1>10, <1>12 DEF ApiInv, Lived, Now, Api!Keyed
<1>15. Money(r)'
  <2>1. request[r].debited = Len(request[r].batch) /\ request[r].refunded = 0
    BY DEF ApiInv, Money
  <2>2. QED
    BY <1>8, <1>10, <1>12, <2>1 DEF Money
<1>16. request[r].at # "answered" /\ request'[r].at # "replayed"
  BY <1>8, <1>10
<1>17. QED
  BY <1>10, <1>11, <1>13, <1>14, <1>15, <1>16, ApiStep

\* A request's record with another refund, total or place.
LEMMA Refunded ==
  ASSUME NEW a \in Asks, NEW n \in Int, NEW b, b = [a EXCEPT !.refunded = n]
  PROVE  /\ b \in Asks /\ b.key = a.key /\ b.life = a.life /\ b.batch = a.batch
         /\ b.outcome = a.outcome /\ b.debited = a.debited /\ b.refunded = n
BY DEF Asks

LEMMA Totalled ==
  ASSUME NEW a \in Asks, NEW n \in Int, NEW b, b = [a EXCEPT !.total = n]
  PROVE  /\ b \in Asks /\ b.key = a.key /\ b.life = a.life /\ b.batch = a.batch
         /\ b.outcome = a.outcome /\ b.debited = a.debited /\ b.refunded = a.refunded
         /\ b.total = n
BY DEF Asks

LEMMA Moved ==
  ASSUME NEW a \in Asks, NEW at \in Doing \cup {"answered"}, NEW b, b = [a EXCEPT !.at = at]
  PROVE  /\ b \in Asks /\ b.key = a.key /\ b.life = a.life /\ b.batch = a.batch
         /\ b.outcome = a.outcome /\ b.debited = a.debited /\ b.refunded = a.refunded
         /\ b.total = a.total /\ b.at = at
BY DEF Asks

LEMMA SettleKeeps ==
  ASSUME ApiInv, NEW r \in Requests, Api!Settle(r)
  PROVE  ApiInv'
<1>1. PICK n \in Nat : n = Len(request[r].batch) /\ Api!Messages(r) = 1..n
  BY BatchIs DEF ApiInv
<1>2. PICK size \in Nat : size = Api!Cardinality(Api!Refused(r))
  <2>1. Api!Refused(r) \subseteq 1..n
    BY <1>1 DEF Api!Refused
  <2>2. Cardinality(Api!Refused(r)) \in Nat
    <3>1. IsFiniteSet(1..n)
      BY <1>1, FS_Interval
    <3>2. QED
      BY <2>1, <3>1, FS_Subset, FS_CardinalityType
  <2>3. Api!Cardinality(Api!Refused(r)) = Cardinality(Api!Refused(r))
    BY DEF Cardinality, Api!Cardinality
  <2>4. QED
    BY <2>2, <2>3
<1>3. PICK place \in {"finish", "answered"} :
        place = IF Api!Keyed(r) THEN "finish" ELSE "answered"
  OBVIOUS
<1>4. request[r].debited = n /\ request[r].refunded = 0 /\ request[r].at = "dispatch"
  BY <1>1 DEF ApiInv, Money, Api!Settle, Api!At
<1>5. PICK total \in Int : total = n - size
  BY <1>1, <1>2
<1>6. /\ UNCHANGED <<record, lives>>
      /\ \A i \in Api!Messages(r) : Api!Over(r, i)
      /\ request' = [request EXCEPT ![r].refunded = 0 + n - total, ![r].total = total,
                                    ![r].at = place]
  BY <1>1, <1>2, <1>3, <1>4, <1>5 DEF Api!Settle, Api!Settled
<1>7. 0 + n - total = size
  BY <1>1, <1>2, <1>5
<1>8. request[r] \in Asks /\ request[r].outcome \in [1..n -> Api!Outcomes]
  BY <1>1 DEF ApiInv, ApiType
<1>9. PICK s0 : s0 = [request[r] EXCEPT !.refunded = size]
  OBVIOUS
<1>10. PICK s1 : s1 = [s0 EXCEPT !.total = total]
  OBVIOUS
<1>11. PICK s : s = [s1 EXCEPT !.at = place]
  OBVIOUS
<1>12. request' = [request EXCEPT ![r] = s]
  BY <1>6, <1>7, <1>8, <1>9, <1>10, <1>11 DEF ApiInv, ApiType, Asks
<1>13. /\ s \in Asks
       /\ s.at = place /\ s.key = request[r].key /\ s.life = request[r].life
       /\ s.batch = request[r].batch /\ s.outcome = request[r].outcome
       /\ s.debited = n /\ s.refunded = size /\ s.total = total
  <2>1. /\ s0 \in Asks /\ s0.key = request[r].key /\ s0.life = request[r].life
        /\ s0.batch = request[r].batch /\ s0.outcome = request[r].outcome
        /\ s0.debited = n /\ s0.refunded = size
    <3>1. size \in Int
      BY <1>2
    <3>2. QED
      BY <1>4, <1>8, <1>9, <3>1, Refunded
  <2>2. /\ s1 \in Asks /\ s1.key = request[r].key /\ s1.life = request[r].life
        /\ s1.batch = request[r].batch /\ s1.outcome = request[r].outcome
        /\ s1.debited = n /\ s1.refunded = size /\ s1.total = total
    BY <1>5, <1>10, <2>1, Totalled
  <2>3. QED
    <3>1. place \in Doing \cup {"answered"}
      BY <1>3 DEF Doing
    <3>2. QED
      BY <1>11, <2>2, <3>1, Moved
<1>14. s.outcome \in [1..Len(s.batch) -> Api!Outcomes]
  BY <1>1, <1>8, <1>13
<1>15. /\ request' \in [Requests -> Asks]
       /\ \A q \in Requests :
            request'[q].outcome \in [1..Len(request'[q].batch) -> Api!Outcomes]
       /\ request'[r] = s
       /\ \A q \in Requests \ {r} : request'[q] = request[q]
  BY <1>12, <1>13, <1>14, AskIs DEF ApiInv
<1>16. ApiType'
  BY <1>6, <1>15 DEF ApiInv, ApiType
<1>17. /\ Acted(r)' => Acted(r)
       /\ request'[r].key = request[r].key /\ request'[r].life = request[r].life
  BY <1>4, <1>13, <1>15 DEF Acted, Api!Keyed, Doing
<1>18. Lived(r)'
  BY <1>4, <1>6, <1>13, <1>15 DEF ApiInv, Lived, Now, Api!Keyed, Doing
<1>19. Money(r)'
  <2>1. Api!Messages(r)' = Api!Messages(r) /\ Api!Refused(r)' = Api!Refused(r)
    BY <1>13, <1>15 DEF Api!Messages, Api!Refused
  <2>2. \A i \in Api!Messages(r)' : Api!Over(r, i)'
    BY <1>6, <1>13, <1>15, <2>1 DEF Api!Over
  <2>3. place \notin Unpaid /\ place \notin {"dispatch", "raised"}
    BY DEF Unpaid
  <2>4. total = n - size /\ size = Api!Cardinality(Api!Refused(r)')
    BY <1>2, <1>5, <2>1
  <2>5. QED
    BY <1>13, <1>15, <2>2, <2>3, <2>4 DEF Money
<1>20. request[r].at # "answered" /\ request'[r].at # "replayed"
  BY <1>4, <1>13, <1>15
<1>21. QED
  BY <1>6, <1>15, <1>16, <1>17, <1>18, <1>19, <1>20, ApiStep

\* Requests that a step leaves alone keep what does not depend on the records.
LEMMA OtherAsks ==
  ASSUME NEW q \in Requests, request'[q] = request[q]
  PROVE  /\ Acted(q)' <=> Acted(q)
         /\ Api!Keyed(q)' <=> Api!Keyed(q)
         /\ Money(q) => Money(q)'
         /\ lives' = lives => (Now(q)' <=> Now(q)) /\ (Lived(q)' <=> Lived(q))
BY DEF Acted, Now, Lived, Money, Api!Keyed, Api!Messages, Api!Over, Api!Refused

\* A request that found a record: it is answered with it, or refused.
LEMMA PeekKeeps ==
  ASSUME Api!ApiSendAssumption, ApiInv, NEW r \in Requests, NEW k \in Keys, Api!Peek(r, k)
  PROVE  ApiInv'
<1>1. /\ request[r].at = "peek" /\ request[r].key = k /\ record' = record /\ lives' = lives
      /\ k # NoKey
  BY DEF Api!Peek, Api!At, Api!ApiSendAssumption
<1>2. PICK place \in {"replayed", "conflict"} :
        place = IF record[k].status = "done" THEN "replayed" ELSE "conflict"
  OBVIOUS
<1>3. PICK total \in Int : total = record[k].total
  BY DEF ApiInv, ApiType
<1>4. PICK s : s = [request[r] EXCEPT !.at = place, !.total = total]
  OBVIOUS
<1>5. request[r] \in Asks /\ request[r].outcome \in [1..Len(request[r].batch) -> Api!Outcomes]
  BY DEF ApiInv, ApiType
<1>6. request' = [request EXCEPT ![r] = s]
  BY <1>2, <1>3, <1>4 DEF Api!Peek, ApiInv, ApiType
<1>7. /\ s \in Asks
      /\ s.at = place /\ s.key = request[r].key /\ s.life = request[r].life
      /\ s.batch = request[r].batch /\ s.outcome = request[r].outcome
      /\ s.debited = request[r].debited /\ s.refunded = request[r].refunded /\ s.total = total
  BY <1>2, <1>3, <1>4, <1>5 DEF Asks
<1>8. s.outcome \in [1..Len(s.batch) -> Api!Outcomes]
  BY <1>5, <1>7
<1>9. /\ request' \in [Requests -> Asks]
      /\ \A q \in Requests :
           request'[q].outcome \in [1..Len(request'[q].batch) -> Api!Outcomes]
      /\ request'[r] = s
      /\ \A q \in Requests \ {r} : request'[q] = request[q]
  BY <1>6, <1>7, <1>8, AskIs DEF ApiInv
<1>10. ApiType'
  BY <1>1, <1>9 DEF ApiInv, ApiType
<1>11. request[r].debited = 0 /\ request[r].refunded = 0
  BY <1>1 DEF ApiInv, Money, Unpaid
<1>12. ~Acted(r)' /\ Money(r)'
  BY <1>2, <1>7, <1>9, <1>11 DEF Acted, Doing, Money, Unpaid
<1>13. Now(r) /\ request[r].life <= lives[k]
  BY <1>1 DEF ApiInv, Lived, Api!Keyed
<1>14. Lived(r)'
  BY <1>1, <1>2, <1>7, <1>9, <1>13 DEF Lived, Now, Api!Keyed, Doing
<1>15. Recorded(r)'
  <2>1. request'[r].at = "replayed" => record[k].status = "done" /\ request'[r].total = record[k].total
    BY <1>2, <1>3, <1>7, <1>9
  <2>2. request'[r].key = k
    BY <1>1, <1>7, <1>9
  <2>3. QED
    BY <1>1, <1>12, <2>1, <2>2 DEF Recorded
<1>16. ASSUME NEW q \in Requests \ {r}
       PROVE  Lived(q)' /\ Recorded(q)' /\ Money(q)' /\ (Acted(q)' <=> Acted(q))
  <2>1. request'[q] = request[q] /\ Lived(q) /\ Recorded(q) /\ Money(q)
    BY <1>9 DEF ApiInv
  <2>2. Lived(q)' /\ Money(q)' /\ (Acted(q)' <=> Acted(q)) /\ (Now(q)' <=> Now(q))
    BY <1>1, <2>1, OtherAsks
  <2>3. Recorded(q)'
    BY <1>1, <2>1, <2>2 DEF Recorded
  <2>4. QED
    BY <2>2, <2>3
<1>17. ActedOnce'
  BY <1>9, <1>12, <1>16 DEF ApiInv, ActedOnce, Same
<1>18. Replayed'
  <2> SUFFICES ASSUME NEW p \in Requests, NEW q \in Requests,
                      request'[p].at = "replayed", Acted(q)', Same(p, q)'
               PROVE  /\ request'[q].at = "answered"
                      /\ request'[p].total = request'[q].debited - request'[q].refunded
    BY DEF Replayed
  <2>1. q # r /\ request'[q] = request[q] /\ Acted(q)
    BY <1>9, <1>12, <1>16
  <2>2. CASE p # r
    <3>1. request'[p] = request[p] /\ Same(p, q)
      BY <1>9, <2>1, <2>2 DEF Same
    <3>2. QED
      BY <2>1, <3>1 DEF ApiInv, Replayed
  <2>3. CASE p = r
    <3>1. /\ record[k].status = "done" /\ request'[p].total = record[k].total
          /\ request[q].key = k /\ request[q].life = request[r].life
      BY <1>1, <1>2, <1>3, <1>7, <1>9, <2>1, <2>3 DEF Same
    <3>2. Now(q)
      BY <1>1, <1>13, <3>1 DEF Now, Api!Keyed
    <3>3. Recorded(q)
      BY DEF ApiInv
    <3>4. QED
      BY <2>1, <3>1, <3>2, <3>3 DEF Recorded
  <2>4. QED
    BY <2>2, <2>3
<1>19. QED
  BY <1>10, <1>12, <1>14, <1>15, <1>16, <1>17, <1>18 DEF ApiInv

\* The first request with a key puts its record; those that come later find it.
LEMMA BeginKeepsOne ==
  ASSUME Api!ApiSendAssumption, ApiInv, NEW r \in Requests, NEW k \in Keys,
         request[r].at = "begin", request[r].key = k, record[k].status = "absent",
         record' = [record EXCEPT ![k].status = "in flight"], lives' = lives,
         Api!Goto(r, "price")
  PROVE  ApiInv'
<1>1. k # NoKey /\ "price" \in Doing /\ "price" \in Unpaid
  BY DEF Api!ApiSendAssumption, Doing, Unpaid
<1>2. /\ request' \in [Requests -> Asks]
      /\ \A q \in Requests :
           request'[q].outcome \in [1..Len(request'[q].batch) -> Api!Outcomes]
      /\ request'[r].at = "price"
      /\ request'[r].key = k /\ request'[r].life = request[r].life
      /\ request'[r].debited = request[r].debited /\ request'[r].refunded = request[r].refunded
      /\ \A q \in Requests \ {r} : request'[q] = request[q]
  BY <1>1, AskGoes DEF ApiInv
<1>3. /\ record' \in [Keys -> [status: {"absent", "in flight", "done"}, total: Int]]
      /\ record'[k].status = "in flight"
      /\ \A l \in Keys \ {k} : record'[l] = record[l]
  BY DEF ApiInv, ApiType
<1>4. ApiType'
  BY <1>2, <1>3 DEF ApiInv, ApiType
<1>5. request[r].debited = 0 /\ request[r].refunded = 0
  BY DEF ApiInv, Money, Unpaid
<1>6. Money(r)'
  BY <1>2, <1>5 DEF Money, Unpaid
<1>7. Now(r) /\ request[r].life <= lives[k]
  BY <1>1 DEF ApiInv, Lived, Api!Keyed
<1>8. Now(r)' /\ Lived(r)'
  BY <1>1, <1>2, <1>7 DEF Lived, Now, Api!Keyed
<1>9. Recorded(r)'
  BY <1>2, <1>3 DEF Recorded
\* Nobody acted while this record was not there.
<1>10. ASSUME NEW q \in Requests, Acted(q), Same(q, r)
       PROVE  FALSE
  <2>1. Now(q) /\ request[q].key = k
    BY <1>1, <1>7, <1>10 DEF Now, Same, Api!Keyed
  <2>2. QED
    BY <1>10, <2>1 DEF ApiInv, Recorded
<1>11. ASSUME NEW q \in Requests, request[q].at = "replayed", Same(q, r)
       PROVE  FALSE
  <2>1. Now(q) /\ request[q].key = k
    BY <1>1, <1>7, <1>11 DEF Now, Same, Api!Keyed
  <2>2. QED
    BY <1>11, <2>1 DEF ApiInv, Recorded
<1>12. ASSUME NEW q \in Requests \ {r}
       PROVE  Lived(q)' /\ Recorded(q)' /\ Money(q)' /\ (Acted(q)' <=> Acted(q))
  <2>1. request'[q] = request[q] /\ Lived(q) /\ Recorded(q) /\ Money(q)
    BY <1>2 DEF ApiInv
  <2>2. Lived(q)' /\ Money(q)' /\ (Acted(q)' <=> Acted(q)) /\ (Now(q)' <=> Now(q))
    BY <2>1, OtherAsks
  <2>3. CASE request[q].key = k
    <3>1. ~(Acted(q) /\ Now(q)) /\ ~(Now(q) /\ request[q].at = "replayed")
      BY <2>1, <2>3 DEF Recorded
    <3>2. QED
      BY <2>1, <2>2, <3>1 DEF Recorded
  <2>4. CASE request[q].key # k
    <3>1. Api!Keyed(q) => record'[request[q].key] = record[request[q].key]
      BY <1>3, <2>4, KeyedIs DEF ApiInv
    <3>2. QED
      BY <2>1, <2>2, <3>1 DEF Recorded, Now
  <2>5. QED
    BY <2>2, <2>3, <2>4
<1>13. ActedOnce'
  <2> SUFFICES ASSUME NEW p \in Requests, NEW q \in Requests,
                      Acted(p)', Acted(q)', Same(p, q)', p # q
               PROVE  FALSE
    BY DEF ActedOnce
  <2>1. CASE p # r /\ q # r
    BY <1>2, <1>12, <2>1 DEF ApiInv, ActedOnce, Same
  <2>2. CASE p = r
    BY <1>2, <1>10, <1>12, <2>2 DEF Same
  <2>3. CASE q = r
    BY <1>2, <1>10, <1>12, <2>3 DEF Same
  <2>4. QED
    BY <2>1, <2>2, <2>3
<1>14. Replayed'
  <2> SUFFICES ASSUME NEW p \in Requests, NEW q \in Requests,
                      request'[p].at = "replayed", Acted(q)', Same(p, q)'
               PROVE  /\ request'[q].at = "answered"
                      /\ request'[p].total = request'[q].debited - request'[q].refunded
    BY DEF Replayed
  <2>1. p # r /\ request'[p] = request[p]
    BY <1>2
  <2>2. q # r
    BY <1>2, <1>11, <2>1 DEF Same
  <2>3. request'[q] = request[q] /\ Acted(q) /\ Same(p, q)
    BY <1>2, <1>12, <2>1, <2>2 DEF Same
  <2>4. QED
    BY <2>1, <2>3 DEF ApiInv, Replayed
<1>15. QED
  BY <1>4, <1>6, <1>8, <1>9, <1>12, <1>13, <1>14 DEF ApiInv

\* The one that acted stores what it was billed.
LEMMA FinishKeeps ==
  ASSUME Api!ApiSendAssumption, ApiInv, NEW r \in Requests, NEW k \in Keys, Api!Finish(r, k)
  PROVE  ApiInv'
<1>1. /\ request[r].at = "finish" /\ request[r].key = k /\ k # NoKey /\ lives' = lives
      /\ Api!Goto(r, "answered") /\ "finish" \in Doing
  BY DEF Api!Finish, Api!At, Api!ApiSendAssumption, Doing
<1>2. Acted(r) /\ Now(r) /\ request[r].life <= lives[k]
  BY <1>1 DEF ApiInv, Acted, Lived, Api!Keyed
<1>3. record[k].status # "absent" /\ record[k].status # "done"
  BY <1>1, <1>2 DEF ApiInv, Recorded
<1>4. PICK total \in Int : total = request[r].total
  BY DEF ApiInv, ApiType, Asks
<1>5. record' = [record EXCEPT ![k] = [status |-> "done", total |-> total]]
  BY <1>3, <1>4 DEF Api!Finish
<1>6. /\ record' \in [Keys -> [status: {"absent", "in flight", "done"}, total: Int]]
      /\ record'[k].status = "done" /\ record'[k].total = total
      /\ \A l \in Keys \ {k} : record'[l] = record[l]
  BY <1>4, <1>5 DEF ApiInv, ApiType
<1>7. /\ request' \in [Requests -> Asks]
      /\ \A q \in Requests :
           request'[q].outcome \in [1..Len(request'[q].batch) -> Api!Outcomes]
      /\ request'[r].at = "answered"
      /\ request'[r].key = k /\ request'[r].life = request[r].life
      /\ request'[r].batch = request[r].batch /\ request'[r].outcome = request[r].outcome
      /\ request'[r].debited = request[r].debited /\ request'[r].refunded = request[r].refunded
      /\ request'[r].total = request[r].total
      /\ \A q \in Requests \ {r} : request'[q] = request[q]
  BY <1>1, AskGoes DEF ApiInv
<1>8. ApiType'
  BY <1>1, <1>6, <1>7 DEF ApiInv, ApiType
<1>9. /\ request[r].total = request[r].debited - request[r].refunded
      /\ request[r].refunded = Api!Cardinality(Api!Refused(r))
      /\ \A i \in Api!Messages(r) : Api!Over(r, i)
  BY <1>1 DEF ApiInv, Money
<1>10. Money(r)'
  <2>1. /\ Api!Messages(r)' = Api!Messages(r) /\ Api!Refused(r)' = Api!Refused(r)
        /\ \A i \in Api!Messages(r) : Api!Over(r, i)'
    BY <1>7, <1>9 DEF Api!Messages, Api!Over, Api!Refused
  <2>2. QED
    BY <1>7, <1>9, <2>1 DEF Money, Unpaid
<1>11. Lived(r)' /\ (Acted(r)' => Acted(r))
  BY <1>1, <1>2, <1>7 DEF Lived, Doing, Api!Keyed
<1>12. Recorded(r)'
  <2>1. request'[r].key = k
    BY <1>7
  <2>2. record'[k].status = "done" /\ record'[k].total = request'[r].debited - request'[r].refunded
    BY <1>4, <1>6, <1>7, <1>9
  <2>3. QED
    BY <1>7, <2>1, <2>2 DEF Recorded
<1>13. ASSUME NEW q \in Requests \ {r}
       PROVE  Lived(q)' /\ Recorded(q)' /\ Money(q)' /\ (Acted(q)' <=> Acted(q))
  <2>1. request'[q] = request[q] /\ Lived(q) /\ Recorded(q) /\ Money(q)
    BY <1>7 DEF ApiInv
  <2>2. Lived(q)' /\ Money(q)' /\ (Acted(q)' <=> Acted(q)) /\ (Now(q)' <=> Now(q))
    BY <1>1, <2>1, OtherAsks
  <2>3. CASE request[q].key = k
    <3>1. Now(q) => Same(q, r)
      BY <1>1, <1>2, <2>3 DEF Now, Same
    <3>2. ~(Acted(q) /\ Now(q))
      BY <1>2, <3>1 DEF ApiInv, ActedOnce
    <3>3. ~(Now(q) /\ request[q].at = "replayed")
      BY <1>3, <2>1, <2>3 DEF Recorded
    <3>4. QED
      BY <2>1, <2>2, <3>2, <3>3 DEF Recorded
  <2>4. CASE request[q].key # k
    <3>1. Api!Keyed(q) => record'[request[q].key] = record[request[q].key]
      BY <1>6, <2>4, KeyedIs DEF ApiInv
    <3>2. QED
      BY <2>1, <2>2, <3>1 DEF Recorded, Now
  <2>5. QED
    BY <2>2, <2>3, <2>4
<1>14. ActedOnce'
  BY <1>1, <1>7, <1>11, <1>13 DEF ApiInv, ActedOnce, Same
<1>15. Replayed'
  <2> SUFFICES ASSUME NEW p \in Requests, NEW q \in Requests,
                      request'[p].at = "replayed", Acted(q)', Same(p, q)'
               PROVE  /\ request'[q].at = "answered"
                      /\ request'[p].total = request'[q].debited - request'[q].refunded
    BY DEF Replayed
  <2>1. p # r /\ request'[p] = request[p]
    BY <1>7
  <2>2. Acted(q) /\ Same(p, q)
    BY <1>1, <1>7, <1>11, <1>13, <2>1 DEF Same
  <2>3. request[q].at = "answered" /\ request[p].total = request[q].debited - request[q].refunded
    BY <2>1, <2>2 DEF ApiInv, Replayed
  <2>4. q # r
    BY <1>1, <2>3
  <2>5. QED
    BY <1>7, <2>1, <2>3, <2>4
<1>16. QED
  BY <1>8, <1>10, <1>11, <1>12, <1>13, <1>14, <1>15 DEF ApiInv

\* A record that is gone is that of a life before.
LEMMA ExpireKeeps ==
  ASSUME Api!ApiSendAssumption, ApiInv, NEW k \in Keys, Api!Expire(k)
  PROVE  ApiInv'
<1>1. /\ request' = request /\ k # NoKey
      /\ record' = [record EXCEPT ![k] = [status |-> "absent", total |-> 0]]
      /\ lives' = [lives EXCEPT ![k] = @ + 1]
      /\ \A r \in Requests : request[r].key = k => ~Api!Working(r)
  BY DEF Api!Expire, Api!Absent, Api!ApiSendAssumption
<1>2. lives \in [Keys -> Nat] /\ record \in [Keys -> [status: {"absent", "in flight", "done"}, total: Int]]
  BY DEF ApiInv, ApiType
<1>3. PICK n \in Nat : n = lives[k]
  BY <1>2
<1>4. lives' \in [Keys -> Nat] /\ lives'[k] = n + 1 /\ \A l \in Keys \ {k} : lives'[l] = lives[l]
  <2>1. PICK m \in Nat : m = n + 1
    BY <1>3
  <2>2. lives' = [lives EXCEPT ![k] = m]
    BY <1>1, <1>2, <1>3, <2>1
  <2>3. lives' \in [Keys -> Nat] /\ lives'[k] = m /\ \A l \in Keys \ {k} : lives'[l] = lives[l]
    BY <1>2, <2>1, <2>2
  <2>4. QED
    BY <2>1, <2>3
<1>5. /\ record' \in [Keys -> [status: {"absent", "in flight", "done"}, total: Int]]
      /\ \A l \in Keys \ {k} : record'[l] = record[l]
  <2>1. PICK gone : gone = [status |-> "absent", total |-> 0]
    OBVIOUS
  <2>2. gone \in [status: {"absent", "in flight", "done"}, total: Int]
    BY <2>1
  <2>3. record' = [record EXCEPT ![k] = gone]
    BY <1>1, <2>1
  <2>4. QED
    BY <1>2, <2>2, <2>3
<1>6. ApiType'
  BY <1>1, <1>4, <1>5 DEF ApiInv, ApiType
<1>7. ASSUME NEW q \in Requests
      PROVE  /\ Lived(q)' /\ Recorded(q)' /\ Money(q)'
             /\ Acted(q)' <=> Acted(q)
  <2>1. request'[q] = request[q] /\ Lived(q) /\ Recorded(q) /\ Money(q)
    BY <1>1 DEF ApiInv
  <2>2. Money(q)' /\ (Acted(q)' <=> Acted(q)) /\ (Api!Keyed(q)' <=> Api!Keyed(q))
    BY <2>1, OtherAsks
  <2>3. CASE request[q].key = k
    <3>1. request[q].life \in Nat
      BY DEF ApiInv, ApiType, Asks
    <3>2. request[q].life <= n
      BY <1>1, <1>3, <2>1, <2>3 DEF Lived, Api!Keyed
    <3>3. request[q].life # n + 1 /\ request[q].life <= n + 1
      BY <1>3, <3>1, <3>2
    <3>4. ~Now(q)'
      BY <1>4, <2>1, <2>3, <3>3 DEF Now
    <3>5. ~Api!Working(q)
      BY <1>1, <2>3
    <3>6. request[q].at \notin Doing \cup {"begin", "peek"}
      BY <3>5 DEF Api!Working, Api!At, Doing
    <3>7. Lived(q)'
      BY <1>4, <2>1, <2>3, <3>3, <3>6 DEF Lived
    <3>8. QED
      BY <2>2, <3>4, <3>7 DEF Recorded
  <2>4. CASE request[q].key # k
    <3>1. Api!Keyed(q) => /\ record'[request[q].key] = record[request[q].key]
                          /\ lives'[request[q].key] = lives[request[q].key]
      BY <1>4, <1>5, <2>4, KeyedIs DEF ApiInv
    <3>2. Lived(q)' /\ (Now(q)' <=> Now(q))
      BY <2>1, <2>2, <3>1 DEF Lived, Now
    <3>3. Recorded(q)'
      BY <2>1, <2>2, <3>1, <3>2 DEF Recorded, Now
    <3>4. QED
      BY <2>2, <3>2, <3>3
  <2>5. QED
    BY <2>3, <2>4
<1>8. ActedOnce' /\ Replayed'
  BY <1>1, <1>7 DEF ApiInv, ActedOnce, Replayed, Same
<1>9. QED
  BY <1>6, <1>7, <1>8 DEF ApiInv

LEMMA ApiGoesOn ==
  ASSUME Api!ApiSendAssumption, ApiInv, Api!Next \/ UNCHANGED Api!vars
  PROVE  ApiInv'
<1>1. ASSUME NEW r \in Requests, Api!Price(r) \/ Api!Landing(r) \/ Api!Remember(r)
      PROVE  ApiInv'
  <2>1. PICK place \in {"landing", "failed", "remember", "reserve"} :
          /\ Api!Goto(r, place) /\ UNCHANGED <<record, lives>>
          /\ request[r].at \in {"price", "landing", "remember"}
    BY <1>1 DEF Api!Price, Api!Landing, Api!Remember, Api!At
  <2>2. /\ request[r].at \in Doing /\ request[r].at \in Unpaid
        /\ place \in Doing \cup Unpaid \cup {"failed"}
        /\ place \notin {"dispatch", "finish", "raised"}
    BY <2>1 DEF Doing, Unpaid
  <2>3. QED
    BY <2>1, <2>2, ApiGoes
<1>2. ASSUME NEW r \in Requests, Api!Fail(r) \/ Api!Break(r)
      PROVE  ApiInv'
  <2>1. Api!Goto(r, "failed") /\ UNCHANGED <<record, lives>>
    BY <1>2 DEF Api!Fail, Api!Break
  <2>2. request[r].at \in Doing \cup {"begin", "peek"}
    <3>1. Api!Working(r)
      BY <1>2 DEF Api!Fail, Api!Break, Api!Working, Api!At
    <3>2. request[r].at \in Doing \cup Unpaid \cup {"answered", "conflict", "replayed", "failed"}
      BY DEF ApiInv, ApiType, Asks
    <3>3. QED
      BY <3>1, <3>2 DEF Api!Working, Api!At, Doing, Unpaid
  <2>3. /\ "failed" \in Doing \cup Unpaid \cup {"failed"} /\ "failed" \notin Doing
        /\ "failed" \notin Unpaid
    BY DEF Doing, Unpaid
  <2>4. QED
    BY <2>1, <2>2, <2>3, ApiGoes
<1>3. ASSUME NEW r \in Requests, NEW k \in Keys, Api!Begin(r, k)
      PROVE  ApiInv'
  <2>1. request[r].at = "begin" /\ request[r].key = k /\ lives' = lives
    BY <1>3 DEF Api!Begin, Api!At
  <2>2. CASE record[k].status = "absent"
    BY <1>3, <2>1, <2>2, BeginKeepsOne DEF Api!Begin, Api!IsFree
  <2>3. CASE record[k].status # "absent"
    <3>1. Api!Goto(r, "peek") /\ UNCHANGED <<record, lives>>
      BY <1>3, <2>3 DEF Api!Begin, Api!IsFree
    <3>2. "peek" \in Unpaid /\ "peek" \notin Doing /\ "begin" \in Unpaid
      BY DEF Doing, Unpaid
    <3>3. QED
      BY <2>1, <3>1, <3>2, ApiGoes
  <2>4. QED
    BY <2>2, <2>3
<1>4. ASSUME NEW r \in Requests, NEW i \in Api!Messages(r),
             Api!Claim(r, i) \/ Api!Refuse(r, i) \/ Api!Accept(r, i) \/ Api!Raise(r, i)
      PROVE  ApiInv'
  <2>1. request[r].at \in {"dispatch", "raised"} /\ UNCHANGED <<record, lives>>
    BY <1>4 DEF Api!Claim, Api!Refuse, Api!Accept, Api!Raise, Api!MayRun, Api!At
  <2>2. ASSUME NEW outcome \in Api!Outcomes, Api!Meets(r, i, outcome)
        PROVE  ApiInv'
    <3>1. PICK place \in {"dispatch", "raised"} : place = request[r].at
      BY <2>1
    <3>2. request' = [request EXCEPT ![r].at = place, ![r].outcome[i] = outcome]
      <4>1. PICK outs : outs = [request[r].outcome EXCEPT ![i] = outcome]
        OBVIOUS
      <4>2. request[r] \in Asks /\ request \in [Requests -> Asks]
        BY DEF ApiInv, ApiType
      <4>3. [request[r] EXCEPT !.at = place] = request[r]
        BY <3>1, <4>2 DEF Asks
      <4>4. QED
        BY <2>2, <4>1, <4>2, <4>3 DEF Api!Meets
    <3>3. QED
      BY <2>1, <3>2, DispatchKeeps
  <2>3. CASE Api!Claim(r, i)
    <3>1. Api!Meets(r, i, "claimed") \/ Api!Meets(r, i, "duplicate")
      BY <2>3 DEF Api!Claim
    <3>2. QED
      BY <2>2, <3>1 DEF Api!Outcomes
  <2>4. CASE Api!Refuse(r, i) \/ Api!Accept(r, i)
    BY <2>2, <2>4 DEF Api!Refuse, Api!Accept, Api!Outcomes
  <2>5. CASE Api!Raise(r, i)
    <3>1. /\ request' = [request EXCEPT ![r].at = "raised", ![r].outcome[i] = "unknown"]
          /\ "unknown" \in Api!Outcomes
      BY <2>5 DEF Api!Raise, Api!Outcomes
    <3>2. QED
      BY <2>1, <3>1, DispatchKeeps
  <2>6. QED
    BY <1>4, <2>3, <2>4, <2>5
<1>5. CASE UNCHANGED Api!vars
  <2>1. request' = request /\ record' = record /\ lives' = lives
    BY <1>5 DEF Api!vars
  <2>2. ApiType' /\ ActedOnce' /\ Replayed'
    BY <2>1 DEF ApiInv, ApiType, ActedOnce, Replayed, Acted, Same, Api!Keyed
  <2>3. ASSUME NEW r \in Requests
        PROVE  Lived(r)' /\ Recorded(r)' /\ Money(r)'
    BY <2>1, OtherAsks DEF ApiInv, Recorded
  <2>4. QED
    BY <2>2, <2>3 DEF ApiInv
<1>6. QED
  BY <1>1, <1>2, <1>3, <1>4, <1>5, ArriveKeeps, PeekKeeps, FinishKeeps, ReserveKeeps, SettleKeeps,
     ExpireKeeps DEF Api!Next

LEMMA AskedTwiceActsOnce ==
  ASSUME ApiInv
  PROVE  Api!RepeatsActOnce
<1>1. ASSUME NEW r \in Requests, NEW q \in Requests, Api!Keyed(r), Same(r, q)
      PROVE  /\ request[r].debited > 0 /\ request[q].debited > 0 => r = q
             /\ request[r].at = "replayed" /\ request[q].debited > 0 =>
                  request[r].total = request[q].debited - request[q].refunded
  <2>1. request[q].debited > 0 => Acted(q)
    BY <1>1 DEF Acted, Same, Api!Keyed
  <2>2. request[r].debited > 0 => Acted(r)
    BY <1>1 DEF Acted
  <2>3. QED
    BY <1>1, <2>1, <2>2 DEF ApiInv, ActedOnce, Replayed
<1>2. QED
  BY <1>1 DEF Api!RepeatsActOnce, Api!At, Same

LEMMA BilledRight ==
  ASSUME ApiInv
  PROVE  Api!BilledAsDispatched
<1> SUFFICES ASSUME NEW r \in Requests
             PROVE  /\ request[r].refunded > 0 => \A i \in Api!Messages(r) : Api!Over(r, i)
                    /\ request[r].at \in {"finish", "answered"} =>
                         /\ request[r].refunded = Api!Cardinality(Api!Refused(r))
                         /\ request[r].total = request[r].debited - request[r].refunded
  BY DEF Api!BilledAsDispatched, Api!At
<1>1. Money(r)
  BY DEF ApiInv
<1>2. QED
  BY <1>1 DEF Money

-----------------------------------------------------------------------------
(* The types of the services *)

\* What the replies keep beside their invariant is of its types.
RepliesTypes ==
  /\ {sent, optedOut, freed} \subseteq BOOLEAN
  /\ stops \subseteq Inbounds
  /\ copies \in [Inbounds -> 0..MaxCopies]
  /\ raises \in 0..MaxRaises

LEMMA RepliesTyped ==
  ASSUME RepliesInv, RepliesTypes
  PROVE  Inbound!TypeOK
BY DEF RepliesInv, RepliesTypes, HandlersAre, CountsAre, Stages, Inbound!TypeOK

LEMMA RepliesTypesInit ==
  ASSUME Inbound!RepliesAssumption, Inbound!Init
  PROVE  RepliesTypes
<1>1. copies = [i \in Inbounds |-> 0] /\ raises = 0 /\ 0 \in 0..MaxCopies /\ 0 \in 0..MaxRaises
  BY DEF Inbound!Init, Inbound!RepliesAssumption
<1>2. {sent, optedOut, freed} \subseteq BOOLEAN /\ stops \subseteq Inbounds
  BY DEF Inbound!Init
<1>3. QED
  BY <1>1, <1>2 DEF RepliesTypes

LEMMA RepliesTypesStep ==
  ASSUME RepliesTypes, Inbound!RepliesAssumption, [Inbound!Next]_replyVars
  PROVE  RepliesTypes'
<1>1. CASE UNCHANGED <<stops, copies, raises>> /\ {sent, optedOut, freed}' \subseteq BOOLEAN
  BY <1>1 DEF RepliesTypes
<1>2. ASSUME NEW h \in Handlers, NEW i \in Inbounds, Inbound!Deliver(h, i)
      PROVE  RepliesTypes'
  <2>1. /\ UNCHANGED <<sent, stops, optedOut, freed, raises>>
        /\ copies[i] < MaxCopies /\ copies' = [copies EXCEPT ![i] = copies[i] + 1]
    BY <1>2 DEF Inbound!Deliver
  <2>2. copies[i] + 1 \in 0..MaxCopies
    BY <2>1 DEF RepliesTypes, Inbound!RepliesAssumption
  <2>3. copies' \in [Inbounds -> 0..MaxCopies]
    BY <2>1, <2>2 DEF RepliesTypes
  <2>4. QED
    BY <2>1, <2>3 DEF RepliesTypes
<1>3. ASSUME NEW h \in Handlers, Inbound!Raise(h)
      PROVE  RepliesTypes'
  <2>1. /\ UNCHANGED <<sent, stops, copies, optedOut, freed>>
        /\ raises < MaxRaises /\ raises' = raises + 1
    BY <1>3 DEF Inbound!Raise
  <2>2. raises' \in 0..MaxRaises
    BY <2>1 DEF RepliesTypes, Inbound!RepliesAssumption
  <2>3. QED
    BY <2>1, <2>2 DEF RepliesTypes
<1>4. CASE Inbound!MarkSent \/ Inbound!Free \/ UNCHANGED replyVars
  BY <1>1, <1>4 DEF Inbound!MarkSent, Inbound!Free, replyVars, RepliesTypes
<1>5. ASSUME NEW h \in Handlers, Inbound!Match(h)
      PROVE  RepliesTypes'
  BY <1>1, <1>5 DEF Inbound!Match, RepliesTypes
<1>6. ASSUME NEW h \in Handlers, NEW i \in Inbounds,
             Inbound!Find(h, i) \/ Inbound!OptOut(h, i) \/ Inbound!Record(h, i)
               \/ Inbound!Note(h, i) \/ \E r \in 1..Rules : Inbound!Act(h, i, r)
      PROVE  RepliesTypes'
  BY <1>1, <1>6 DEF Inbound!Find, Inbound!OptOut, Inbound!Record, Inbound!Note, Inbound!Act,
                    RepliesTypes
<1>7. QED
  BY <1>2, <1>3, <1>4, <1>5, <1>6 DEF Inbound!Next

\* The same of the rentals.
RentalTypes ==
  /\ number.period \in Renting!Periods /\ number.attempt \in 0..RETRY_LIMIT
  /\ number.due => number.period < MaxPeriods
  /\ run.at # "idle" => number.due /\ run.attempt = number.attempt
  /\ run.at = "attempt" => run.attempt < RETRY_LIMIT
  /\ run.period \in Renting!Periods /\ run.attempt \in 0..RETRY_LIMIT
  /\ charged \subseteq Renting!Periods
  /\ balance \in 0..MaxBalance
  /\ buyer \in {"idle", "charged", "done"}
  /\ sweeping \in BOOLEAN
  /\ deaths \in 0..MaxDeaths

LEMMA RentalTyped ==
  ASSUME RentalInv, RentalTypes
  PROVE  Renting!TypeOK
<1>1. number \in [there: BOOLEAN, period: Renting!Periods, due: BOOLEAN,
                  attempt: 0..RETRY_LIMIT, cancelled: BOOLEAN,
                  released: {"no", "unpaid", "cancelled"}]
  BY DEF RentalInv, RentalType, RentalTypes, Why
<1>2. run \in [at: {"idle", "charge", "check", "record", "attempt", "release"},
               period: Renting!Periods, attempt: 0..RETRY_LIMIT]
  BY DEF RentalInv, RentalType, RentalTypes
<1>3. QED
  BY <1>1, <1>2 DEF RentalInv, RentalType, RentalTypes, Renting!TypeOK

LEMMA RentalTypesInit ==
  ASSUME Renting!RentalsAssumption, Renting!Init
  PROVE  RentalTypes
<1>1. /\ number.period = 0 /\ number.attempt = 0 /\ number.due = FALSE
      /\ run.at = "idle" /\ run.period = 0 /\ run.attempt = 0
  BY DEF Renting!Init, Renting!NoNumber, Renting!NoRun
<1>2. 0 \in 0..RETRY_LIMIT /\ 0 \in 0..MaxDeaths /\ 0 \in Renting!Periods
  BY DEF Renting!RentalsAssumption, Renting!Periods
<1>3. charged = {} /\ balance \in 0..MaxBalance /\ buyer = "idle" /\ sweeping = FALSE /\ deaths = 0
  BY DEF Renting!Init
<1>4. QED
  BY <1>1, <1>2, <1>3 DEF RentalTypes

\* A charge is of a period that comes, and covered.
LEMMA ChargeTyped ==
  ASSUME Renting!RentalsAssumption, RentalTypes, NEW p \in Renting!Periods,
         Renting!CanCharge(p), Renting!Charged(p)
  PROVE  charged' \subseteq Renting!Periods /\ balance' \in 0..MaxBalance
BY DEF RentalTypes, Renting!RentalsAssumption, Renting!CanCharge, Renting!Charged

LEMMA RentalTypesStep ==
  ASSUME RentalInv, RentalTypes, Renting!RentalsAssumption, [Renting!Next]_rentalVars
  PROVE  RentalTypes'
<1>a. /\ RETRY_LIMIT \in Nat /\ MaxBalance \in Nat \ {0} /\ MaxPeriods \in Nat \ {0}
      /\ MaxDeaths \in Nat /\ Renting!Periods = 0..MaxPeriods
  BY DEF Renting!RentalsAssumption, Renting!Periods
<1>b. /\ number \in [there: BOOLEAN, period: Nat, due: BOOLEAN, attempt: Nat,
                     cancelled: BOOLEAN, released: Why]
      /\ run \in [at: {"idle", "charge", "check", "record", "attempt", "release"},
                  period: Nat, attempt: Nat]
  BY DEF RentalInv, RentalType
<1>1. CASE Renting!Buy
  <2>1. /\ UNCHANGED <<number, run, sweeping, deaths>> /\ buyer' \in {"idle", "charged"}
        /\ 0 \in Renting!Periods
    BY <1>1, <1>a DEF Renting!Buy
  <2>2. charged' \subseteq Renting!Periods /\ balance' \in 0..MaxBalance
    <3>1. CASE Renting!CanCharge(0)
      BY <1>1, <2>1, <3>1, ChargeTyped DEF Renting!Buy
    <3>2. CASE ~Renting!CanCharge(0)
      BY <1>1, <3>2 DEF Renting!Buy, RentalTypes
    <3>3. QED
      BY <3>1, <3>2
  <2>3. QED
    BY <2>1, <2>2 DEF RentalTypes
<1>2. CASE Renting!PutNumber
  <2>1. /\ UNCHANGED <<charged, balance, run, sweeping, deaths>> /\ buyer' = "done"
        /\ number'.period = 1 /\ number'.attempt = 0 /\ number'.due = FALSE /\ ~number.there
    BY <1>2 DEF Renting!PutNumber, Renting!NoNumber, RentalInv, PutOnce
  <2>2. run.at = "idle"
    BY <2>1 DEF RentalInv, RunReadTrue
  <2>3. 1 \in Renting!Periods /\ 0 \in 0..RETRY_LIMIT
    BY <1>a
  <2>4. QED
    BY <2>1, <2>2, <2>3 DEF RentalTypes
<1>3. CASE Renting!Cancel \/ Renting!Sweep \/ Renting!StartSweep
  <2>1. /\ UNCHANGED <<charged, balance, buyer, run, deaths>> /\ sweeping' \in BOOLEAN
        /\ number'.period = number.period /\ number'.attempt = number.attempt
        /\ number'.due = number.due
    BY <1>3, <1>b DEF Renting!Cancel, Renting!Sweep, Renting!StartSweep, RentalTypes
  <2>2. QED
    BY <2>1 DEF RentalTypes
<1>4. CASE Renting!BalanceMoves
  BY <1>4 DEF Renting!BalanceMoves, RentalTypes
<1>5. CASE Renting!PeriodEnds
  <2>1. /\ UNCHANGED <<charged, balance, buyer, run, sweeping, deaths>>
        /\ number'.period = number.period /\ number'.attempt = number.attempt
        /\ number'.due = TRUE /\ number.period < MaxPeriods
    BY <1>5, <1>b DEF Renting!PeriodEnds
  <2>2. QED
    BY <2>1 DEF RentalTypes
<1>6. CASE Renting!StartRun
  <2>1. /\ UNCHANGED <<number, charged, balance, buyer, sweeping, deaths>>
        /\ run'.at = "charge" /\ run'.period = number.period /\ run'.attempt = number.attempt
        /\ number.due
    BY <1>6 DEF Renting!StartRun
  <2>2. QED
    BY <2>1 DEF RentalTypes
<1>7. CASE Renting!Charge
  <2>1. /\ UNCHANGED <<number, buyer, sweeping, deaths>>
        /\ run.at = "charge" /\ run'.at \in {"record", "check"}
        /\ run'.period = run.period /\ run'.attempt = run.attempt
    BY <1>7, <1>b DEF Renting!Charge, Renting!Goto
  <2>2. run.period \in Renting!Periods
    BY DEF RentalTypes
  <2>3. charged' \subseteq Renting!Periods /\ balance' \in 0..MaxBalance
    <3>1. CASE Renting!CanCharge(run.period)
      BY <1>7, <2>2, <3>1, ChargeTyped DEF Renting!Charge
    <3>2. CASE ~Renting!CanCharge(run.period)
      BY <1>7, <3>2 DEF Renting!Charge, RentalTypes
    <3>3. QED
      BY <3>1, <3>2
  <2>4. QED
    BY <2>1, <2>3 DEF RentalTypes
<1>8. CASE Renting!Check
  <2>1. /\ UNCHANGED <<number, charged, balance, buyer, sweeping, deaths>>
        /\ run.at = "check" /\ run'.at = Renting!Verdict
        /\ run'.period = run.period /\ run'.attempt = run.attempt
    BY <1>8, <1>b DEF Renting!Check, Renting!Goto
  <2>2. Renting!Verdict = "attempt" => run.attempt < RETRY_LIMIT
    BY <1>a, <1>b DEF Renting!Verdict
  <2>3. QED
    BY <2>1, <2>2 DEF RentalTypes
<1>9. CASE Renting!Record
  <2>1. /\ UNCHANGED <<charged, balance, buyer, sweeping, deaths>> /\ run.at = "record"
        /\ run'.at = "idle" /\ run'.period = 0 /\ run'.attempt = 0
        /\ number'.period = run.period + 1 /\ number'.attempt = 0 /\ number'.due = FALSE
    BY <1>9, <1>b DEF Renting!Record, Renting!NoRun
  <2>2. run.period = number.period /\ number.period < MaxPeriods
    BY <2>1 DEF RentalInv, RunReadTrue, RentalTypes
  <2>3. run.period + 1 \in Renting!Periods /\ 0 \in Renting!Periods /\ 0 \in 0..RETRY_LIMIT
    BY <1>a, <1>b, <2>2
  <2>4. QED
    BY <2>1, <2>3 DEF RentalTypes
<1>10. CASE Renting!RecordAttempt
  <2>1. /\ UNCHANGED <<charged, balance, buyer, sweeping, deaths>> /\ run.at = "attempt"
        /\ run'.at = "idle" /\ run'.period = 0 /\ run'.attempt = 0
        /\ number'.period = number.period /\ number'.attempt = number.attempt + 1
        /\ number'.due = number.due
    BY <1>10, <1>b DEF Renting!RecordAttempt, Renting!NoRun
  <2>2. number.attempt < RETRY_LIMIT
    BY <2>1 DEF RentalTypes
  <2>3. number.attempt + 1 \in 0..RETRY_LIMIT /\ 0 \in Renting!Periods /\ 0 \in 0..RETRY_LIMIT
    BY <1>a, <1>b, <2>2
  <2>4. QED
    BY <2>1, <2>3 DEF RentalTypes
<1>11. CASE Renting!Release
  <2>1. /\ UNCHANGED <<charged, balance, buyer, sweeping, deaths>>
        /\ run'.at = "idle" /\ run'.period = 0 /\ run'.attempt = 0
        /\ number'.period = number.period /\ number'.attempt = number.attempt
        /\ number'.due = number.due
    BY <1>11, <1>b DEF Renting!Release, Renting!NoRun
  <2>2. 0 \in Renting!Periods /\ 0 \in 0..RETRY_LIMIT
    BY <1>a
  <2>3. QED
    BY <2>1, <2>2 DEF RentalTypes
<1>12. CASE Renting!Die
  <2>1. UNCHANGED <<number, charged, balance>> /\ deaths < MaxDeaths /\ deaths' = deaths + 1
    BY <1>12 DEF Renting!Die
  <2>4. deaths' \in 0..MaxDeaths
    BY <2>1, <1>a DEF RentalTypes
  <2>5. (buyer' = buyer \/ buyer' = "done") /\ (sweeping' = sweeping \/ sweeping' = FALSE)
    BY <1>12 DEF Renting!Die
  <2>2. run' = run \/ (run'.at = "idle" /\ run'.period = 0 /\ run'.attempt = 0)
    BY <1>12 DEF Renting!Die, Renting!NoRun
  <2>3. 0 \in Renting!Periods /\ 0 \in 0..RETRY_LIMIT
    BY <1>a
  <2>6. QED
    BY <2>1, <2>2, <2>3, <2>4, <2>5 DEF RentalTypes
<1>13. CASE UNCHANGED rentalVars
  BY <1>13 DEF rentalVars, RentalTypes
<1>14. QED
  BY <1>1, <1>2, <1>3, <1>4, <1>5, <1>6, <1>7, <1>8, <1>9, <1>10, <1>11, <1>12, <1>13
     DEF Renting!Next, Renting!Running

\* How many people there are.
Mob == Kept!Cardinality(Mobiles)

\* The same of the lists.
ListsTypes ==
  /\ Kept!OptOuts \in there
  /\ \A w \in Writers : writer[w].fresh \in 0..Mob
  /\ out \subseteq Mobiles /\ released \subseteq Mobiles
  /\ blurred \subseteq Kept!Kinds
  /\ writes \in 0..MaxWrites /\ halts \in 0..MaxStops

LEMMA ListsTyped ==
  ASSUME KeptInv, ListsTypes
  PROVE  Kept!TypeOK
<1>1. \A w \in Writers : writer[w] \in Records
  BY DEF KeptInv, KeptType
<1>2. \A w \in Writers :
        /\ writer[w].list \in Kept!Kinds /\ writer[w].into \in Kept!Kinds
        /\ writer[w].mobiles \subseteq Mobiles /\ writer[w].old \subseteq Mobiles
        /\ writer[w].fresh \in 0..Kept!Cardinality(Mobiles)
  BY <1>1 DEF Records, ListsTypes, Mob
<1>3. QED
  BY <1>2 DEF KeptInv, KeptType, ListsTypes, Kept!TypeOK

LEMMA ListsTypesInit ==
  ASSUME Kept!ListsAssumption, Kept!Init
  PROVE  ListsTypes
<1>1. /\ there = Kept!Kinds /\ writer = [w \in Writers |-> Kept!Idle]
      /\ out = {} /\ released = {} /\ blurred = {} /\ writes = 0 /\ halts = 0
  BY DEF Kept!Init
<1>2. Mob \in Nat
  BY Sizes DEF Mob
<1>3. \A w \in Writers : writer[w].fresh = 0
  BY <1>1 DEF Kept!Idle
<1>4. 0 \in 0..Mob /\ 0 \in 0..MaxWrites /\ 0 \in 0..MaxStops
  BY <1>2 DEF Kept!ListsAssumption
<1>5. QED
  BY <1>1, <1>3, <1>4, KindsAre DEF ListsTypes

LEMMA IdleIsFresh == Kept!Idle.fresh = 0
<1>1. PICK none : none = {}
  OBVIOUS
<1>2. Kept!Idle = [at |-> "idle", list |-> Kept!Standard, into |-> Kept!Standard,
                   mobiles |-> none, room |-> 0, fresh |-> 0, old |-> none]
  BY <1>1 DEF Kept!Idle
<1>3. QED
  BY <1>2

\* A request that begins has counted nothing yet.
LEMMA BegunIsFresh ==
  ASSUME Kept!ListsAssumption, NEW w \in Writers, Kept!Begins(w)
  PROVE  \E l \in Kept!Kinds : \E r : Kept!Begin(w, l, r) /\ r.fresh = 0
<1>a. Kept!Standard \in Kept!Kinds /\ Kept!OptOuts \in Kept!Kinds
  BY KindsAre
<1>b. PICK idle \in Records : idle = Kept!Idle /\ idle.fresh = 0
  BY IdleIs, IdleIsFresh
<1>1. CASE Kept!StartCleanUp(w)
  <2>1. [idle EXCEPT !.at = "doomed", !.mobiles = contacts[Kept!Standard]].fresh = 0
    BY <1>b DEF Records
  <2>2. QED
    BY <1>1, <1>a, <1>b, <2>1 DEF Kept!StartCleanUp
<1>2. CASE Kept!StartDeleteList(w)
  <2>1. [idle EXCEPT !.at = "empty", !.mobiles = contacts[Kept!Standard]].fresh = 0
    BY <1>b DEF Records
  <2>2. QED
    BY <1>2, <1>a, <1>b, <2>1 DEF Kept!StartDeleteList
<1>3. ASSUME NEW m \in Mobiles, Kept!StartOptOut(w, m)
      PROVE  \E l \in Kept!Kinds : \E r : Kept!Begin(w, l, r) /\ r.fresh = 0
  <2>1. [idle EXCEPT !.at = "insert", !.list = Kept!OptOuts, !.mobiles = {m}].fresh = 0
    BY <1>b DEF Records
  <2>2. QED
    BY <1>3, <1>a, <1>b, <2>1 DEF Kept!StartOptOut
<1>4. ASSUME NEW l \in Kept!Kinds, NEW m \in Mobiles, Kept!StartAdd(w, l, m)
      PROVE  \E k \in Kept!Kinds : \E r : Kept!Begin(w, k, r) /\ r.fresh = 0
  <2>1. [idle EXCEPT !.at = "room", !.list = l, !.mobiles = {m}, !.room = Kept!RoomOf(l)].fresh = 0
    BY <1>b DEF Records
  <2>2. QED
    BY <1>4, <1>b, <2>1 DEF Kept!StartAdd
<1>5. ASSUME NEW l \in Kept!Kinds, NEW m \in Mobiles, Kept!StartRemove(w, l, m)
      PROVE  \E k \in Kept!Kinds : \E r : Kept!Begin(w, k, r) /\ r.fresh = 0
  <2>1. [idle EXCEPT !.at = "drop", !.list = l, !.old = {m}].fresh = 0
    BY <1>b DEF Records
  <2>2. QED
    BY <1>5, <1>b, <2>1 DEF Kept!StartRemove
<1>6. ASSUME NEW l \in Kept!Kinds, NEW m \in Mobiles, NEW old \in Mobiles,
             Kept!StartUpdate(w, l, old, m)
      PROVE  \E k \in Kept!Kinds : \E r : Kept!Begin(w, k, r) /\ r.fresh = 0
  <2>1. [idle EXCEPT !.at = "room", !.list = l, !.mobiles = {m}, !.room = Kept!RoomOf(l),
                     !.old = {old} \ {m}].fresh = 0
    BY <1>b DEF Records
  <2>2. QED
    BY <1>6, <1>b, <2>1 DEF Kept!StartUpdate
<1>7. ASSUME NEW l \in Kept!Kinds, NEW ms, Kept!StartImport(w, l, ms)
      PROVE  \E k \in Kept!Kinds : \E r : Kept!Begin(w, k, r) /\ r.fresh = 0
  <2>1. [idle EXCEPT !.at = "existing", !.list = l, !.into = l, !.mobiles = ms,
                     !.room = Kept!RoomOf(l)].fresh = 0
    BY <1>b DEF Records
  <2>2. QED
    BY <1>7, <1>b, <2>1 DEF Kept!StartImport
<1>8. ASSUME NEW l \in Kept!Kinds, NEW ms, NEW action, Kept!StartBulk(w, l, ms, action)
      PROVE  \E k \in Kept!Kinds : \E r : Kept!Begin(w, k, r) /\ r.fresh = 0
  <2>1. [idle EXCEPT !.at = action, !.list = l, !.mobiles = ms].fresh = 0
    BY <1>b DEF Records
  <2>2. QED
    BY <1>8, <1>b, <2>1 DEF Kept!StartBulk
<1>9. QED
  BY <1>1, <1>2, <1>3, <1>4, <1>5, <1>6, <1>7, <1>8 DEF Kept!Begins

\* The people are most when all are counted.
LEMMA MobilesMost ==
  ASSUME Kept!ListsAssumption, NEW ms \in SUBSET Mobiles
  PROVE  Kept!Cardinality(ms) \in 0..Kept!Cardinality(Mobiles)
<1>1. IsFiniteSet(Mobiles)
  BY DEF Kept!ListsAssumption, Kept!IsFiniteSet, IsFiniteSet
<1>2. Cardinality(ms) \in Nat /\ Cardinality(Mobiles) \in Nat
        /\ Cardinality(ms) <= Cardinality(Mobiles)
  BY <1>1, FS_Subset, FS_CardinalityType
<1>3. QED
  BY <1>2, SameSize

\* A request that goes on has what it had, and one that ends nothing.
LEMMA FreshMoves ==
  ASSUME Kept!ListsAssumption, KeptInv, NEW w \in Writers,
         Kept!Done(w) \/ \E place \in Places : Kept!Goto(w, place)
  PROVE  \A v \in Writers : writer'[v].fresh \in {0, writer[v].fresh}
<1>1. writer \in [Writers -> Records]
  BY DEF KeptInv, KeptType
<1>2. CASE Kept!Done(w)
  BY <1>1, <1>2, IdleIsFresh DEF Kept!Done
<1>3. CASE \E place \in Places : Kept!Goto(w, place)
  BY <1>3, GoingOn DEF GoesOn
<1>4. QED
  BY <1>2, <1>3

LEMMA FreshSteps ==
  ASSUME Kept!ListsAssumption, KeptInv, ListsTypes, NEW w \in Writers,
         Kept!Goes(w) \/ Kept!Halt(w)
  PROVE  \A v \in Writers : writer'[v].fresh \in 0..Mob
<1>a. writer \in [Writers -> Records] /\ Mob \in Nat
  BY Sizes DEF KeptInv, KeptType, Mob
<1>b. (Kept!Done(w) \/ \E place \in Places : Kept!Goto(w, place))
        => \A v \in Writers : writer'[v].fresh \in 0..Mob
  BY <1>a, FreshMoves DEF ListsTypes
<1>c. {"insert", "overwrite", "drop", "count", "remove", "uncount", "unlist"} \subseteq Places
  BY DEF Places
<1>1. CASE Kept!Halt(w) \/ Kept!Unlist(w)
  BY <1>1, <1>b DEF Kept!Halt, Kept!Unlist
<1>2. CASE Kept!Empty(w)
  BY <1>2, <1>b, <1>c DEF Kept!Empty
<1>3. CASE Kept!Doomed(w)
  <2>1. CASE Kept!Done(w)
    BY <2>1, <1>b
  <2>2. CASE ~Kept!Done(w)
    <3>1. PICK doomed : writer' = [writer EXCEPT ![w].mobiles = doomed, ![w].at = "remove"]
      BY <1>3, <2>2 DEF Kept!Doomed
    <3>2. \A v \in Writers : writer'[v].fresh = writer[v].fresh
      BY <3>1, <1>a DEF Records
    <3>3. QED
      BY <3>2 DEF ListsTypes
  <2>3. QED
    BY <2>1, <2>2
<1>4. ASSUME NEW l \in Kept!Kinds, Kept!Room(w, l)
      PROVE  \A v \in Writers : writer'[v].fresh \in 0..Mob
  BY <1>4, <1>b, <1>c DEF Kept!Room
<1>5. ASSUME NEW l \in Kept!Kinds, Kept!Insert(w, l) \/ Kept!Overwrite(w, l) \/ Kept!Drop(w, l)
      PROVE  \A v \in Writers : writer'[v].fresh \in 0..Mob
  BY <1>5, <1>b, <1>c DEF Kept!Insert, Kept!Overwrite, Kept!Stored, Kept!Drop
<1>6. ASSUME NEW l \in Kept!Kinds, Kept!PutMany(w, l) \/ Kept!Count(w, l)
      PROVE  \A v \in Writers : writer'[v].fresh \in 0..Mob
  BY <1>6, <1>b, <1>c DEF Kept!PutMany, Kept!Count
<1>7. ASSUME NEW l \in Kept!Kinds, Kept!RemoveMany(w, l) \/ Kept!Uncount(w, l)
      PROVE  \A v \in Writers : writer'[v].fresh \in 0..Mob
  BY <1>7, <1>b, <1>c DEF Kept!RemoveMany, Kept!Uncount
<1>8. ASSUME NEW l \in Kept!Kinds, Kept!BulkPresent(w, l)
      PROVE  \A v \in Writers : writer'[v].fresh \in 0..Mob
  <2>1. CASE Kept!Done(w)
    BY <2>1, <1>b
  <2>2. CASE ~Kept!Done(w)
    <3>1. writer' = [writer EXCEPT
            ![w].mobiles = Kept!Present(w, l),
            ![w].at = IF Kept!At(w, "delete") THEN "remove" ELSE "existing",
            ![w].into = IF Kept!At(w, "delete") THEN l ELSE Kept!OptOuts,
            ![w].room = Kept!Cardinality(Mobiles)]
      BY <1>8, <2>2 DEF Kept!BulkPresent
    <3>2. PICK some, place, into, room :
            writer' = [writer EXCEPT ![w].mobiles = some, ![w].at = place,
                                     ![w].into = into, ![w].room = room]
      BY <3>1, Zenon
    <3>3. \A v \in Writers : writer'[v].fresh = writer[v].fresh
      BY <3>2, <1>a DEF Records
    <3>4. QED
      BY <3>3 DEF ListsTypes
  <2>3. QED
    BY <2>1, <2>2
<1>9. ASSUME NEW l \in Kept!Kinds, Kept!Existing(w, l)
      PROVE  \A v \in Writers : writer'[v].fresh \in 0..Mob
  <2>1. CASE Kept!Done(w)
    BY <2>1, <1>b
  <2>2. CASE ~Kept!Done(w)
    <3>1. PICK ms : ms = writer[w].mobiles \ contacts[l]
      OBVIOUS
    <3>2. writer' = [writer EXCEPT ![w].fresh = Kept!Cardinality(ms), ![w].at = "put"]
      BY <1>9, <2>2, <3>1 DEF Kept!Existing
    <3>3. writer[w] \in Records
      BY <1>a
    <3>4. ms \in SUBSET Mobiles /\ Mobiles \in SUBSET Mobiles
      BY <3>1, <3>3 DEF Records
    <3>5. Kept!Cardinality(ms) \in 0..Mob
      BY <3>4, MobilesMost DEF Mob
    <3>6. \A v \in Writers : writer'[v].fresh \in {writer[v].fresh, Kept!Cardinality(ms)}
      BY <3>2, <1>a DEF Records
    <3>7. QED
      BY <3>5, <3>6 DEF ListsTypes
  <2>3. QED
    BY <2>1, <2>2
<1>10. QED
  BY <1>1, <1>2, <1>3, <1>4, <1>5, <1>6, <1>7, <1>8, <1>9 DEF Kept!Goes

\* Who is put out, or released, is one of the people.
LEMMA PeopleStay ==
  ASSUME Kept!ListsAssumption, KeptInv, ListsTypes, NEW w \in Writers,
         Kept!Begins(w) \/ Kept!Goes(w) \/ Kept!Halt(w)
  PROVE  out' \subseteq Mobiles /\ released' \subseteq Mobiles
<1>a. out \subseteq Mobiles /\ released \subseteq Mobiles
  BY DEF ListsTypes
<1>b. writer[w].mobiles \subseteq Mobiles /\ writer[w].old \subseteq Mobiles
  BY DEF KeptInv, KeptType, Records
<1>c. ASSUME NEW l, NEW ms \in SUBSET Mobiles, Kept!Releases(l, ms)
      PROVE  released' \subseteq Mobiles
  BY <1>a, <1>c DEF Kept!Releases
<1>1. CASE Kept!Begins(w)
  BY <1>1, <1>a, BegunIsFresh DEF Kept!Begin
<1>2. CASE Kept!Halt(w)
  <2>1. out' = out
    BY <1>2 DEF Kept!Halt
  <2>2. released' = released \/ \E l : \E ms \in SUBSET Mobiles : Kept!Releases(l, ms)
    BY <1>2, <1>b DEF Kept!Halt
  <2>3. QED
    BY <1>a, <1>c, <2>1, <2>2
<1>3. CASE Kept!Doomed(w) \/ Kept!Empty(w) \/ Kept!Unlist(w)
  BY <1>3, <1>a DEF Kept!Doomed, Kept!Empty, Kept!Unlist, Kept!Keeps, Kept!History
<1>4. ASSUME NEW l \in Kept!Kinds,
             \/ Kept!Room(w, l) \/ Kept!BulkPresent(w, l) \/ Kept!Existing(w, l)
             \/ Kept!PutMany(w, l) \/ Kept!Count(w, l) \/ Kept!Uncount(w, l)
      PROVE  out' \subseteq Mobiles /\ released' \subseteq Mobiles
  BY <1>4, <1>a DEF Kept!Room, Kept!BulkPresent, Kept!Existing, Kept!PutMany, Kept!Count,
                    Kept!Uncount, Kept!Keeps, Kept!History
<1>5. ASSUME NEW l \in Kept!Kinds, Kept!Insert(w, l) \/ Kept!Overwrite(w, l)
      PROVE  out' \subseteq Mobiles /\ released' \subseteq Mobiles
  BY <1>5, <1>a, <1>b DEF Kept!Insert, Kept!Overwrite, Kept!Stored
<1>6. ASSUME NEW l \in Kept!Kinds, Kept!Drop(w, l)
      PROVE  out' \subseteq Mobiles /\ released' \subseteq Mobiles
  BY <1>6, <1>a, <1>b, <1>c DEF Kept!Drop, Kept!DeleteOne
<1>7. ASSUME NEW l \in Kept!Kinds, Kept!RemoveMany(w, l)
      PROVE  out' \subseteq Mobiles /\ released' \subseteq Mobiles
  BY <1>7, <1>a, <1>b, <1>c DEF Kept!RemoveMany
<1>8. QED
  BY <1>1, <1>2, <1>3, <1>4, <1>5, <1>6, <1>7 DEF Kept!Goes

\* What began and what died is within its bounds, and only the standard list is unlisted.
LEMMA TalliesStay ==
  ASSUME Kept!ListsAssumption, ListsTypes, NEW w \in Writers,
         Kept!Begins(w) \/ Kept!Goes(w) \/ Kept!Halt(w)
  PROVE  /\ writes' \in 0..MaxWrites /\ halts' \in 0..MaxStops
         /\ Kept!OptOuts \in there'
<1>a. writes \in 0..MaxWrites /\ halts \in 0..MaxStops /\ Kept!OptOuts \in there
  BY DEF ListsTypes
<1>b. MaxWrites \in Nat /\ MaxStops \in Nat
  BY DEF Kept!ListsAssumption
<1>1. CASE Kept!Begins(w)
  <2>1. writes < MaxWrites /\ writes' = writes + 1 /\ UNCHANGED <<there, halts>>
    BY <1>1, BegunIsFresh DEF Kept!Begin
  <2>2. QED
    BY <1>a, <1>b, <2>1
<1>2. CASE Kept!Halt(w)
  <2>1. halts < MaxStops /\ halts' = halts + 1 /\ UNCHANGED <<there, writes>>
    BY <1>2 DEF Kept!Halt
  <2>2. QED
    BY <1>a, <1>b, <2>1
<1>3. CASE Kept!Goes(w)
  <2>1. CASE Kept!Unlist(w)
    BY <2>1, <1>a, KindsAre DEF Kept!Unlist, Kept!History
  <2>2. CASE Kept!Doomed(w) \/ Kept!Empty(w)
    BY <2>2, <1>a DEF Kept!Doomed, Kept!Empty, Kept!Keeps, Kept!History
  <2>3. ASSUME NEW l \in Kept!Kinds,
               \/ Kept!Room(w, l) \/ Kept!BulkPresent(w, l) \/ Kept!Existing(w, l)
               \/ Kept!PutMany(w, l) \/ Kept!Count(w, l) \/ Kept!Uncount(w, l)
        PROVE  UNCHANGED <<there, writes, halts>>
    BY <2>3 DEF Kept!Room, Kept!BulkPresent, Kept!Existing, Kept!PutMany, Kept!Count,
                Kept!Uncount, Kept!Keeps, Kept!History
  <2>4. ASSUME NEW l \in Kept!Kinds,
               \/ Kept!Insert(w, l) \/ Kept!Overwrite(w, l) \/ Kept!Drop(w, l)
               \/ Kept!RemoveMany(w, l)
        PROVE  UNCHANGED <<there, writes, halts>>
    BY <2>4 DEF Kept!Insert, Kept!Overwrite, Kept!Drop, Kept!RemoveMany
  <2>5. QED
    BY <1>3, <1>a, <2>1, <2>2, <2>3, <2>4 DEF Kept!Goes
<1>4. QED
  BY <1>1, <1>2, <1>3

LEMMA ListsTypesStep ==
  ASSUME KeptInv, ListsTypes, Kept!ListsAssumption, [Kept!Next]_keptVars
  PROVE  ListsTypes'
<1>1. CASE UNCHANGED keptVars
  BY <1>1 DEF keptVars, ListsTypes
<1>2. ASSUME NEW w \in Writers, Kept!Writes(w) \/ Kept!Dies(w)
      PROVE  ListsTypes'
  <2>1. Kept!Begins(w) \/ Kept!Goes(w) \/ Kept!Halt(w)
    BY <1>2 DEF Kept!Writes, Kept!Dies
  <2>2. blurred' \subseteq Kept!Kinds
    BY <1>2 DEF Kept!Writes, Kept!Dies, ListsTypes
  <2>3. Mob \in Nat /\ writer \in [Writers -> Records]
    BY Sizes DEF KeptInv, KeptType, Mob
  <2>4. \A v \in Writers : writer'[v].fresh \in 0..Mob
    <3>1. CASE Kept!Begins(w)
      <4>0. PICK l \in Kept!Kinds : \E r : Kept!Begin(w, l, r) /\ r.fresh = 0
        BY <3>1, BegunIsFresh
      <4>1. PICK r : Kept!Begin(w, l, r) /\ r.fresh = 0
        BY <4>0
      <4>2. writer' = [writer EXCEPT ![w] = r]
        BY <4>1 DEF Kept!Begin
      <4>3. \A v \in Writers : writer'[v].fresh \in {0, writer[v].fresh}
        BY <2>3, <4>1, <4>2
      <4>4. QED
        BY <2>3, <4>3 DEF ListsTypes
    <3>2. CASE Kept!Goes(w) \/ Kept!Halt(w)
      BY <3>2, FreshSteps
    <3>3. QED
      BY <2>1, <3>1, <3>2
  <2>5. out' \subseteq Mobiles /\ released' \subseteq Mobiles
    BY <2>1, PeopleStay
  <2>6. writes' \in 0..MaxWrites /\ halts' \in 0..MaxStops /\ Kept!OptOuts \in there'
    BY <2>1, TalliesStay
  <2>7. Mob' = Mob
    BY DEF Mob, Kept!Cardinality
  <2>8. QED
    BY <2>2, <2>4, <2>5, <2>6, <2>7 DEF ListsTypes
<1>3. QED
  BY <1>1, <1>2 DEF Kept!Next

\* The row of a request of the hook.
Rows == [at: {"idle", "save"}, invited: {"no", "yes", "disabled"},
         linked: Subs \cup {"none"}]

\* The same of signing in.
JoinTypes ==
  /\ invited \in {"no", "yes", "disabled"} /\ linked \in Subs \cup {"none"}
  /\ update \in Rows
  /\ \A r \in Sessions : session[r].hook \in 1..(Hooks + 1)
  /\ fails \in 0..MaxFails

LEMMA JoinTyped ==
  ASSUME JoinInv, JoinTypes
  PROVE  Joining!TypeOK
<1>1. session \in [Sessions -> [at: {"new", "find", "link", "create", "hooks", "reread",
                                    "signed in", "in", "refused"},
                               sub: Subs \cup {"none"}, owner: BOOLEAN,
                               hook: 1..(Hooks + 1), as: Joining!Users \cup {Joining!Nobody}]]
  <2>1. session \in [Sessions -> Entries]
    BY DEF JoinInv, JoinType
  <2>2. ASSUME NEW r \in Sessions
        PROVE  session[r] \in [at: {"new", "find", "link", "create", "hooks", "reread",
                                    "signed in", "in", "refused"},
                               sub: Subs \cup {"none"}, owner: BOOLEAN,
                               hook: 1..(Hooks + 1), as: Joining!Users \cup {Joining!Nobody}]
    BY <2>1 DEF JoinTypes, Entries, Before
  <2>3. QED
    BY <2>1, <2>2
<1>2. QED
  BY <1>1 DEF JoinInv, JoinType, JoinTypes, Rows, Joining!TypeOK

LEMMA JoinTypesInit ==
  ASSUME Joining!SignInAssumption, Joining!Init
  PROVE  JoinTypes
<1>1. invited = "no" /\ linked = "none" /\ fails = 0 /\ 0 \in 0..MaxFails /\ 1 \in 1..(Hooks + 1)
  BY DEF Joining!Init, Joining!SignInAssumption
<1>2. update = [at |-> "idle", invited |-> "no", linked |-> "none"]
  BY DEF Joining!Init, Joining!NoUpdate
<1>3. \A r \in Sessions : session[r].hook = 1
  BY DEF Joining!Init, Joining!NoSession
<1>4. QED
  BY <1>1, <1>2, <1>3 DEF JoinTypes, Rows

LEMMA JoinTypesStep ==
  ASSUME JoinInv, JoinTypes, Joining!SignInAssumption, [Joining!Next]_signInVars
  PROVE  JoinTypes'
<1>a. Hooks \in Nat /\ MaxFails \in Nat
  BY DEF Joining!SignInAssumption
<1>b. session \in [Sessions -> Entries]
  BY DEF JoinInv, JoinType
<1>c. ASSUME NEW r \in Sessions,
             (\E place : Joining!Goto(r, place)) \/ (\E user : Joining!Answer(r, user))
      PROVE  \A q \in Sessions : session'[q].hook = session[q].hook
  BY <1>b, <1>c DEF Joining!Goto, Joining!Answer, Entries
<1>1. CASE Joining!Invite \/ UNCHANGED signInVars
  BY <1>1 DEF Joining!Invite, signInVars, JoinTypes
<1>2. CASE Joining!StartUpdate
  BY <1>2 DEF Joining!StartUpdate, JoinTypes, Rows
<1>3. CASE Joining!Update
  <2>1. /\ invited' \in {update.invited, "yes", "disabled"} /\ linked' = update.linked
        /\ update' = [at |-> "idle", invited |-> "no", linked |-> "none"]
        /\ UNCHANGED <<session, fails>>
    BY <1>3 DEF Joining!Update, Joining!NoUpdate
  <2>2. update.invited \in {"no", "yes", "disabled"} /\ update.linked \in Subs \cup {"none"}
    BY DEF JoinTypes, Rows
  <2>3. update' \in Rows
    BY <2>1 DEF Rows
  <2>4. QED
    BY <2>1, <2>2, <2>3 DEF JoinTypes
<1>4. ASSUME NEW r \in Sessions, NEW u \in Subs, Joining!Open(r, u)
      PROVE  JoinTypes'
  <2>1. \E place : session' = [session EXCEPT ![r].sub = u, ![r].at = place]
    BY <1>4, Zenon DEF Joining!Open
  <2>2. \A q \in Sessions : session'[q].hook = session[q].hook
    BY <1>b, <2>1 DEF Entries
  <2>3. UNCHANGED <<invited, linked, update, fails>>
    BY <1>4 DEF Joining!Open
  <2>4. QED
    BY <2>2, <2>3 DEF JoinTypes
<1>5. ASSUME NEW r \in Sessions, Joining!Find(r)
      PROVE  JoinTypes'
  <2>1. UNCHANGED <<invited, linked, update, fails>>
    BY <1>5 DEF Joining!Find
  <2>2. CASE Joining!Goto(r, "create")
    BY <1>c, <2>1, <2>2 DEF JoinTypes
  <2>3. CASE ~Joining!Goto(r, "create")
    <3>1. PICK owner \in BOOLEAN :
            session' = [session EXCEPT
               ![r].at = IF ~owner /\ invited = "disabled" THEN "refused" ELSE "link",
               ![r].owner = owner]
      BY <1>5, <2>3 DEF Joining!Find
    <3>2. PICK place : session' = [session EXCEPT ![r].at = place, ![r].owner = owner]
      BY <3>1, Zenon
    <3>3. \A q \in Sessions : session'[q].hook = session[q].hook
      BY <1>b, <3>2 DEF Entries
    <3>4. QED
      BY <2>1, <3>3 DEF JoinTypes
  <2>4. QED
    BY <2>2, <2>3
<1>6. ASSUME NEW r \in Sessions, NEW u \in Subs, Joining!Link(r, u)
      PROVE  JoinTypes'
  <2>1. \A q \in Sessions : session'[q].hook = session[q].hook
    BY <1>c, <1>6 DEF Joining!Link
  <2>2. invited' \in {invited, "yes"} /\ linked' \in {linked, u} /\ UNCHANGED <<update, fails>>
    BY <1>6 DEF Joining!Link
  <2>3. QED
    BY <2>1, <2>2 DEF JoinTypes
<1>7. ASSUME NEW r \in Sessions, NEW u \in Subs,
             Joining!Create(r, u) \/ Joining!Reread(r, u) \/ Joining!Enter(r, u)
      PROVE  JoinTypes'
  <2>1. (\E place : Joining!Goto(r, place)) \/ (\E user : Joining!Answer(r, user))
    BY <1>7 DEF Joining!Create, Joining!Reread, Joining!Enter, Joining!SignedIn, Joining!Refuse
  <2>2. \A q \in Sessions : session'[q].hook = session[q].hook
    BY <1>c, <2>1
  <2>3. UNCHANGED <<invited, linked, update, fails>>
    BY <1>7 DEF Joining!Create, Joining!Reread, Joining!Enter
  <2>4. QED
    BY <2>2, <2>3 DEF JoinTypes
<1>8. ASSUME NEW r \in Sessions, Joining!RunHook(r)
      PROVE  JoinTypes'
  <2>1. /\ UNCHANGED <<invited, linked, update, fails>> /\ session[r].hook <= Hooks
        /\ session' = [session EXCEPT ![r].hook = @ + 1]
    BY <1>8 DEF Joining!RunHook
  <2>2. session[r].hook + 1 \in 1..(Hooks + 1)
    BY <1>a, <2>1 DEF JoinTypes
  <2>3. \A q \in Sessions : session'[q].hook \in {session[q].hook, session[r].hook + 1}
    BY <1>b, <2>1 DEF Entries
  <2>4. \A q \in Sessions : q # r => session'[q].hook = session[q].hook
    BY <1>b, <2>1 DEF Entries
  <2>5. session'[r].hook = session[r].hook + 1
    BY <1>b, <2>1 DEF Entries
  <2>6. QED
    BY <2>1, <2>2, <2>4, <2>5 DEF JoinTypes
<1>9. ASSUME NEW r \in Sessions, Joining!Welcome(r)
      PROVE  JoinTypes'
  BY <1>c, <1>9 DEF Joining!Welcome, JoinTypes
<1>10. ASSUME NEW r \in Sessions, Joining!Fail(r)
       PROVE  JoinTypes'
  <2>1. \A q \in Sessions : session'[q].hook = session[q].hook
    BY <1>c, <1>10 DEF Joining!Fail, Joining!Refuse
  <2>2. fails < MaxFails /\ fails' = fails + 1 /\ UNCHANGED <<invited, linked, update>>
    BY <1>10 DEF Joining!Fail
  <2>3. fails' \in 0..MaxFails
    BY <1>a, <2>2 DEF JoinTypes
  <2>4. QED
    BY <2>1, <2>2, <2>3 DEF JoinTypes
<1>11. QED
  BY <1>1, <1>2, <1>3, <1>4, <1>5, <1>6, <1>7, <1>8, <1>9, <1>10 DEF Joining!Next

\* What was given back of a send was taken for it.
Covered(q) == request[q].refunded \in 0..request[q].debited

\* The same of the sends of the API.
ApiTypes ==
  /\ \A k \in Keys : record[k].total \in Nat /\ lives[k] \in 0..MaxLives
  /\ \A q \in Requests : Covered(q)
  /\ landing \in {"none", "made"}
  /\ claim \in [Destinations -> {"none", "claimed", "over"}]
  /\ breaks \in 0..MaxBreaks

LEMMA ApiTyped ==
  ASSUME ApiInv, ApiTypes
  PROVE  Api!TypeOK
<1>1. record \in [Keys -> [status: {"absent", "in flight", "done"}, total: Nat]]
  BY DEF ApiInv, ApiType, ApiTypes
<1>2. lives \in [Keys -> 0..MaxLives]
  BY DEF ApiInv, ApiType, ApiTypes
<1>3. ASSUME NEW r \in Requests
      PROVE  /\ request[r].key \in Keys \cup {NoKey}
             /\ request[r].outcome \in [Api!Messages(r) -> Api!Outcomes]
             /\ request[r].debited \in Nat /\ request[r].refunded \in 0..request[r].debited
  <2>1. request[r] \in Asks /\ request[r].outcome \in [1..Len(request[r].batch) -> Api!Outcomes]
    BY DEF ApiInv, ApiType
  <2>2. Api!Messages(r) = 1..Len(request[r].batch)
    BY BatchIs DEF ApiInv
  <2>3. QED
    BY <2>1, <2>2 DEF Asks, ApiTypes, Covered
<1>4. QED
  BY <1>1, <1>2, <1>3 DEF ApiTypes, Api!TypeOK

LEMMA ApiTypesInit ==
  ASSUME Api!ApiSendAssumption, Api!Init
  PROVE  ApiTypes
<1>1. 0 \in 0..MaxBreaks /\ 0 \in 0..MaxLives
  BY DEF Api!ApiSendAssumption
<1>2. \A k \in Keys : record[k].total \in Nat /\ lives[k] \in 0..MaxLives
  BY <1>1 DEF Api!Init, Api!Absent
<1>3. \A q \in Requests : Covered(q)
  BY NoRequestIs DEF Api!Init, Covered
<1>4. landing = "none" /\ claim \in [Destinations -> {"none", "claimed", "over"}] /\ breaks = 0
  BY DEF Api!Init
<1>5. QED
  BY <1>1, <1>2, <1>3, <1>4 DEF ApiTypes

\* Where what requests reserved and gave back stays.
LEMMA SameMoney ==
  ASSUME ApiTypes,
         \A q \in Requests : request'[q].debited = request[q].debited
                               /\ request'[q].refunded = request[q].refunded
  PROVE  \A q \in Requests : Covered(q)'
BY DEF ApiTypes, Covered

LEMMA GotoCovers ==
  ASSUME ApiInv, ApiTypes, NEW r \in Requests, NEW place, Api!Goto(r, place)
  PROVE  \A q \in Requests : Covered(q)'
<1>1. request \in [Requests -> Asks]
  BY DEF ApiInv, ApiType
<1>2. \A q \in Requests : request'[q].debited = request[q].debited
                            /\ request'[q].refunded = request[q].refunded
  BY <1>1 DEF Api!Goto, Asks
<1>3. QED
  BY <1>2, SameMoney

\* What is reserved is a number, and what is given back is some of it.
LEMMA ReserveCovers ==
  ASSUME ApiInv, ApiTypes, NEW r \in Requests, Api!Reserve(r)
  PROVE  \A q \in Requests : Covered(q)'
<1>1. CASE Api!Goto(r, "failed")
  BY <1>1, GotoCovers
<1>2. CASE request' = [request EXCEPT ![r].at = "dispatch", ![r].debited = Len(request[r].batch)]
  <2>1. request \in [Requests -> Asks]
    BY DEF ApiInv, ApiType
  <2>2. PICK n \in Nat : n = Len(request[r].batch)
    BY BatchIs DEF ApiInv
  <2>3. request[r].refunded = 0
    BY DEF Api!Reserve, Api!At, ApiInv, Money
  <2>4. request'[r].refunded = 0 /\ request'[r].debited = n
    BY <1>2, <2>1, <2>2, <2>3 DEF Asks
  <2>5. \A q \in Requests \ {r} : request'[q] = request[q]
    BY <1>2, <2>1
  <2>6. QED
    BY <2>2, <2>4, <2>5 DEF ApiTypes, Covered
<1>3. QED
  BY <1>1, <1>2 DEF Api!Reserve

LEMMA RefusedAreSome ==
  ASSUME ApiType, NEW r \in Requests
  PROVE  Api!Cardinality(Api!Refused(r)) \in 0..Len(request[r].batch)
<1>1. PICK n \in Nat : n = Len(request[r].batch) /\ Api!Messages(r) = 1..n
  BY BatchIs
<1>2. Api!Refused(r) \subseteq 1..n
  BY <1>1 DEF Api!Refused
<1>3. IsFiniteSet(1..n) /\ Cardinality(1..n) = n
  BY <1>1, FS_Interval
<1>4. Cardinality(Api!Refused(r)) \in Nat /\ Cardinality(Api!Refused(r)) <= n
  BY <1>2, <1>3, FS_Subset, FS_CardinalityType
<1>5. Api!Cardinality(Api!Refused(r)) = Cardinality(Api!Refused(r))
  BY DEF Cardinality, Api!Cardinality
<1>6. QED
  BY <1>1, <1>4, <1>5

LEMMA SettleCovers ==
  ASSUME ApiInv, ApiTypes, NEW r \in Requests, Api!Settle(r)
  PROVE  \A q \in Requests : Covered(q)'
<1>1. request \in [Requests -> Asks]
  BY DEF ApiInv, ApiType
<1>2. PICK n \in Nat : n = Len(request[r].batch)
  BY BatchIs DEF ApiInv
<1>3. PICK size \in 0..n : size = Api!Cardinality(Api!Refused(r))
  BY <1>2, RefusedAreSome DEF ApiInv
<1>4. request[r].debited = n /\ request[r].refunded = 0
  BY <1>2 DEF ApiInv, Money, Api!Settle, Api!At
<1>5. Api!Settled(r) = n - size
  BY <1>2, <1>3 DEF Api!Settled
<1>6. PICK total, place : request' = [request EXCEPT
        ![r].refunded = @ + n - (n - size), ![r].total = total, ![r].at = place]
  BY <1>4, <1>5 DEF Api!Settle
<1>7. request'[r].refunded = 0 + n - (n - size) /\ request'[r].debited = n
  BY <1>1, <1>4, <1>6 DEF Asks
<1>8. request'[r].refunded = size
  BY <1>2, <1>3, <1>7
<1>9. \A q \in Requests \ {r} : request'[q] = request[q]
  BY <1>1, <1>6
<1>10. QED
  BY <1>3, <1>7, <1>8, <1>9 DEF ApiTypes, Covered

LEMMA ArriveCovers ==
  ASSUME ApiInv, ApiTypes, NEW r \in Requests, NEW k, NEW batch, Api!Arrive(r, k, batch)
  PROVE  \A q \in Requests : Covered(q)'
<1>1. request \in [Requests -> Asks]
  BY DEF ApiInv, ApiType
<1>2. PICK life, outs, place : request' = [request EXCEPT ![r] =
        [Api!NoRequest EXCEPT !.key = k, !.batch = batch, !.life = life,
                              !.outcome = outs, !.at = place]]
  BY DEF Api!Arrive
<1>3. request'[r].debited = 0 /\ request'[r].refunded = 0
  BY <1>1, <1>2, NoRequestIs DEF Asks
<1>4. \A q \in Requests \ {r} : request'[q] = request[q]
  BY <1>1, <1>2
<1>5. QED
  BY <1>3, <1>4 DEF ApiTypes, Covered

LEMMA PeekCovers ==
  ASSUME ApiInv, ApiTypes, NEW r \in Requests, NEW k, Api!Peek(r, k)
  PROVE  \A q \in Requests : Covered(q)'
<1>1. request \in [Requests -> Asks]
  BY DEF ApiInv, ApiType
<1>2. PICK place, total : request' = [request EXCEPT ![r].at = place, ![r].total = total]
  BY DEF Api!Peek
<1>3. \A q \in Requests : request'[q].debited = request[q].debited
                            /\ request'[q].refunded = request[q].refunded
  BY <1>1, <1>2 DEF Asks
<1>4. QED
  BY <1>3, SameMoney

LEMMA DispatchCovers ==
  ASSUME ApiInv, ApiTypes, NEW r \in Requests, NEW i,
         Api!Claim(r, i) \/ Api!Refuse(r, i) \/ Api!Accept(r, i) \/ Api!Raise(r, i)
  PROVE  \A q \in Requests : Covered(q)'
<1>1. request \in [Requests -> Asks]
  BY DEF ApiInv, ApiType
<1>2. CASE \E outcome : Api!Meets(r, i, outcome)
  <2>1. \A q \in Requests : request'[q].debited = request[q].debited
                              /\ request'[q].refunded = request[q].refunded
    BY <1>1, <1>2 DEF Api!Meets, Asks
  <2>2. QED
    BY <2>1, SameMoney
<1>3. CASE Api!Raise(r, i)
  <2>1. request' = [request EXCEPT ![r].at = "raised", ![r].outcome[i] = "unknown"]
    BY <1>3 DEF Api!Raise
  <2>2. \A q \in Requests : request'[q].debited = request[q].debited
                              /\ request'[q].refunded = request[q].refunded
    BY <1>1, <2>1 DEF Asks
  <2>3. QED
    BY <2>2, SameMoney
<1>4. QED
  BY <1>2, <1>3 DEF Api!Claim, Api!Refuse, Api!Accept

\* What is written beside a request.
Beside ==
  /\ landing \in {"none", "made"}
  /\ claim \in [Destinations -> {"none", "claimed", "over"}]
  /\ breaks \in 0..MaxBreaks

LEMMA BesideStays ==
  ASSUME Api!ApiSendAssumption, Beside, Api!Next
  PROVE  Beside'
<1>a. landing \in {"none", "made"} /\ claim \in [Destinations -> {"none", "claimed", "over"}]
        /\ breaks \in 0..MaxBreaks /\ MaxBreaks \in Nat
  BY DEF Beside, Api!ApiSendAssumption
<1>1. ASSUME NEW r \in Requests, NEW i,
             Api!Claim(r, i) \/ Api!Refuse(r, i) \/ Api!Accept(r, i) \/ Api!Raise(r, i)
      PROVE  Beside'
  <2>1. /\ landing' = landing
        /\ claim' = claim \/ \E d, c : c \in {"none", "claimed", "over"} /\ claim' = [claim EXCEPT ![d] = c]
    BY <1>1 DEF Api!Claim, Api!Refuse, Api!Accept, Api!Raise
  <2>2. claim' \in [Destinations -> {"none", "claimed", "over"}]
    BY <1>a, <2>1
  <2>3. breaks' = breaks \/ (breaks < MaxBreaks /\ breaks' = breaks + 1)
    BY <1>1 DEF Api!Claim, Api!Refuse, Api!Accept, Api!Raise
  <2>4. breaks' \in 0..MaxBreaks
    BY <1>a, <2>3
  <2>5. QED
    BY <1>a, <2>1, <2>2, <2>4 DEF Beside
<1>2. ASSUME NEW r \in Requests, Api!Break(r)
      PROVE  Beside'
  <2>1. UNCHANGED <<landing, claim>> /\ breaks < MaxBreaks /\ breaks' = breaks + 1
    BY <1>2 DEF Api!Break
  <2>2. breaks' \in 0..MaxBreaks
    BY <1>a, <2>1
  <2>3. QED
    BY <1>a, <2>1, <2>2 DEF Beside
<1>3. ASSUME NEW r \in Requests,
             \/ Api!Price(r) \/ Api!Landing(r) \/ Api!Remember(r) \/ Api!Reserve(r)
             \/ Api!Settle(r) \/ Api!Fail(r)
      PROVE  Beside'
  BY <1>3, <1>a DEF Api!Price, Api!Landing, Api!Remember, Api!Reserve, Api!Settle, Api!Fail, Beside
<1>4. ASSUME NEW r \in Requests, NEW k, Api!Begin(r, k) \/ Api!Peek(r, k) \/ Api!Finish(r, k)
      PROVE  Beside'
  BY <1>4, <1>a DEF Api!Begin, Api!Peek, Api!Finish, Beside
<1>5. ASSUME NEW r \in Requests, NEW k, NEW batch, Api!Arrive(r, k, batch)
      PROVE  Beside'
  BY <1>5, <1>a DEF Api!Arrive, Beside
<1>6. ASSUME NEW k \in Keys, Api!Expire(k)
      PROVE  Beside'
  BY <1>6, <1>a DEF Api!Expire, Beside
<1>7. QED
  BY <1>1, <1>2, <1>3, <1>4, <1>5, <1>6 DEF Api!Next

\* What the record of a key says.
Recording == \A k \in Keys : record[k].total \in Nat /\ lives[k] \in 0..MaxLives

LEMMA RecordsStay ==
  ASSUME Api!ApiSendAssumption, ApiInv, ApiTypes, Api!Next
  PROVE  Recording'
<1>a. record \in [Keys -> [status: {"absent", "in flight", "done"}, total: Int]]
        /\ lives \in [Keys -> Nat] /\ MaxLives \in Nat /\ request \in [Requests -> Asks]
  BY DEF ApiInv, ApiType, Api!ApiSendAssumption
<1>b. \A k \in Keys : record[k].total \in Nat /\ lives[k] \in 0..MaxLives
  BY DEF ApiTypes
<1>1. CASE UNCHANGED <<record, lives>>
  BY <1>1, <1>b DEF Recording
<1>2. ASSUME NEW r \in Requests, NEW k \in Keys, Api!Begin(r, k)
      PROVE  Recording'
  <2>1. lives' = lives
    BY <1>2 DEF Api!Begin
  <2>2. record' = record \/ record' = [record EXCEPT ![k].status = "in flight"]
    BY <1>2 DEF Api!Begin
  <2>3. ASSUME NEW key \in Keys
        PROVE  record'[key].total = record[key].total
    <3>1. CASE record' = record
      BY <3>1
    <3>2. CASE record' = [record EXCEPT ![k].status = "in flight"]
      <4>1. record[key] \in [status: {"absent", "in flight", "done"}, total: Int]
        BY <1>a
      <4>2. record'[key] = IF key = k THEN [record[key] EXCEPT !.status = "in flight"] ELSE record[key]
        BY <1>a, <3>2
      <4>3. QED
        BY <4>1, <4>2
    <3>3. QED
      BY <2>2, <3>1, <3>2
  <2>4. QED
    BY <1>b, <2>1, <2>3 DEF Recording
<1>3. ASSUME NEW r \in Requests, NEW k \in Keys, Api!Finish(r, k)
      PROVE  Recording'
  <2>1. request[r].at = "finish" /\ lives' = lives
    BY <1>3 DEF Api!Finish, Api!At
  <2>2. request[r].total = request[r].debited - request[r].refunded
    BY <2>1 DEF ApiInv, Money
  <2>3. request[r].debited \in Nat /\ request[r].refunded \in 0..request[r].debited
    BY <1>a DEF Asks, ApiTypes, Covered
  <2>4. request[r].total \in Nat
    BY <2>2, <2>3
  <2>5. record' = record
          \/ record' = [record EXCEPT ![k] = [status |-> "done", total |-> request[r].total]]
    BY <1>3 DEF Api!Finish
  <2>6. ASSUME NEW key \in Keys
        PROVE  record'[key].total \in {record[key].total, request[r].total}
    <3>1. CASE record' = record
      BY <3>1
    <3>2. CASE record' = [record EXCEPT ![k] = [status |-> "done", total |-> request[r].total]]
      <4>1. record'[key] = IF key = k THEN [status |-> "done", total |-> request[r].total]
                                      ELSE record[key]
        BY <1>a, <3>2
      <4>2. QED
        BY <4>1
    <3>3. QED
      BY <2>5, <3>1, <3>2
  <2>7. QED
    BY <1>b, <2>1, <2>4, <2>6 DEF Recording
<1>4. ASSUME NEW k \in Keys, Api!Expire(k)
      PROVE  Recording'
  <2>1. /\ lives[k] < MaxLives
        /\ record' = [record EXCEPT ![k] = [status |-> "absent", total |-> 0]]
        /\ lives' = [lives EXCEPT ![k] = lives[k] + 1]
    BY <1>4 DEF Api!Expire, Api!Absent
  <2>2. lives[k] + 1 \in 0..MaxLives
    <3>1. lives[k] \in Nat /\ MaxLives \in Nat /\ lives[k] < MaxLives
      BY <1>a, <2>1
    <3>2. QED
      BY <3>1
  <2>3. \A key \in Keys : record'[key].total \in {record[key].total, 0}
                            /\ lives'[key] \in {lives[key], lives[k] + 1}
    BY <1>a, <2>1
  <2>4. QED
    BY <1>b, <2>2, <2>3 DEF Recording
<1>5. ASSUME NEW r \in Requests,
             \/ Api!Price(r) \/ Api!Landing(r) \/ Api!Remember(r) \/ Api!Reserve(r)
             \/ Api!Settle(r) \/ Api!Fail(r) \/ Api!Break(r)
      PROVE  UNCHANGED <<record, lives>>
  BY <1>5 DEF Api!Price, Api!Landing, Api!Remember, Api!Reserve, Api!Settle, Api!Fail, Api!Break
<1>6. ASSUME NEW r \in Requests, NEW i,
             Api!Claim(r, i) \/ Api!Refuse(r, i) \/ Api!Accept(r, i) \/ Api!Raise(r, i)
      PROVE  UNCHANGED <<record, lives>>
  BY <1>6 DEF Api!Claim, Api!Refuse, Api!Accept, Api!Raise
<1>7. ASSUME NEW r \in Requests, NEW k, NEW batch, Api!Arrive(r, k, batch) \/ Api!Peek(r, k)
      PROVE  UNCHANGED <<record, lives>>
  BY <1>7 DEF Api!Arrive, Api!Peek
<1>8. QED
  BY <1>1, <1>2, <1>3, <1>4, <1>5, <1>6, <1>7 DEF Api!Next

LEMMA ApiTypesStep ==
  ASSUME ApiInv, ApiTypes, Api!ApiSendAssumption, [Api!Next]_apiVars
  PROVE  ApiTypes'
<1>1. CASE UNCHANGED apiVars
  BY <1>1 DEF apiVars, ApiTypes, Covered
<1>2. CASE Api!Next
  <2>1. Beside'
    BY <1>2, BesideStays DEF ApiTypes, Beside
  <2>2. Recording'
    BY <1>2, RecordsStay
  <2>3. \A q \in Requests : Covered(q)'
    <3>1. ASSUME NEW r \in Requests, NEW k, NEW batch, Api!Arrive(r, k, batch)
          PROVE  \A q \in Requests : Covered(q)'
      BY <3>1, ArriveCovers
    <3>2. ASSUME NEW r \in Requests, NEW k,
                 Api!Begin(r, k) \/ Api!Peek(r, k) \/ Api!Finish(r, k)
          PROVE  \A q \in Requests : Covered(q)'
      BY <3>2, PeekCovers, GotoCovers DEF Api!Begin, Api!Finish
    <3>3. ASSUME NEW r \in Requests,
                 \/ Api!Price(r) \/ Api!Landing(r) \/ Api!Remember(r) \/ Api!Fail(r)
                 \/ Api!Break(r)
          PROVE  \A q \in Requests : Covered(q)'
      <4>1. \E place : Api!Goto(r, place)
        BY <3>3 DEF Api!Price, Api!Landing, Api!Remember, Api!Fail, Api!Break
      <4>2. QED
        BY <4>1, GotoCovers
    <3>4. ASSUME NEW r \in Requests, Api!Reserve(r) \/ Api!Settle(r)
          PROVE  \A q \in Requests : Covered(q)'
      BY <3>4, ReserveCovers, SettleCovers
    <3>5. ASSUME NEW r \in Requests, NEW i,
                 Api!Claim(r, i) \/ Api!Refuse(r, i) \/ Api!Accept(r, i) \/ Api!Raise(r, i)
          PROVE  \A q \in Requests : Covered(q)'
      BY <3>5, DispatchCovers
    <3>6. ASSUME NEW k \in Keys, Api!Expire(k)
          PROVE  \A q \in Requests : Covered(q)'
      BY <3>6, SameMoney DEF Api!Expire
    <3>7. QED
      BY <1>2, <3>1, <3>2, <3>3, <3>4, <3>5, <3>6 DEF Api!Next
  <2>4. QED
    BY <2>1, <2>2, <2>3 DEF ApiTypes, Beside, Recording
<1>3. QED
  BY <1>1, <1>2
=============================================================================
