------------------------ MODULE Conversation_proofs ------------------------
(*****************************************************************************)
(* A proof about one chat and one screen on it: at rest a screen that missed *)
(* nothing shows what the file has.  The invariant says where the loop, the  *)
(* file and the stream of events are, what the pump has observed of the      *)
(* stream, and that a view, or a snapshot on its way to it, shows what has   *)
(* been seen up to the next event on its way; the events fold it on to what  *)
(* the file will have.  The file grows below a view and turns are cut short, *)
(* so that views are compared by the answers of the turns that are not cut.  *)
(*****************************************************************************)
EXTENDS Conversation, Integers, FiniteSetTheorems, SequenceTheorems, TLAPS
-----------------------------------------------------------------------------
(*****************************************************************************)
(* Induction and recursion over the numbers.  A theorem of the library about *)
(* a predicate cannot be instantiated by the provers; one about a set can.   *)
(*****************************************************************************)

\* A set with the successor of each of its members lacks no number: up to one that it
\* lacked, its members would have their successors for room, and one place to spare.
LEMMA NatInductionInSets ==
  ASSUME NEW T, 0 \in T, \A n \in Nat : n \in T => n + 1 \in T
  PROVE  \A n \in Nat : n \in T
<1> SUFFICES ASSUME NEW n \in Nat, n \notin T PROVE FALSE
  OBVIOUS
<1> DEFINE S == {m \in 0..n : m \in T}
           U == S \ {0}
           f == [m \in S |-> m + 1]
<1>1. IsFiniteSet(S) /\ IsFiniteSet(U) /\ 0 \in S
  <2>1. IsFiniteSet(0..n)
    BY FS_Interval
  <2>2. S \subseteq 0..n /\ U \subseteq 0..n
    OBVIOUS
  <2> QED
    BY <2>1, <2>2, FS_Subset
<1>2. Cardinality(U) < Cardinality(S)
  <2>1. Cardinality(U) = Cardinality(S) - 1 /\ Cardinality(S) \in Nat
    BY <1>1, FS_RemoveElement, FS_CardinalityType
  <2> QED
    BY <2>1
<1>3. f \in [S -> U]
  <2>1. ASSUME NEW m \in S PROVE m + 1 \in U
    BY <2>1
  <2> QED
    BY <2>1
<1>4. PICK x, y \in S : x # y /\ f[x] = f[y]
  <2> HIDE DEF S, U, f
  <2> QED
    BY <1>1, <1>2, <1>3, FS_PigeonHole
<1> QED
  BY <1>4

Recurs(g, S, b, n, step) == g \in [0..n -> S] /\ g[0] = b /\ \A i \in 1..n : g[i] = step[<<g[i - 1], i>>]

\* A function defined step by step up to a number exists.
LEMMA RecursionExists ==
  ASSUME NEW S, NEW b \in S, NEW n \in Nat, NEW step \in [S \X (1..n) -> S]
  PROVE  \E g : Recurs(g, S, b, n, step)
<1> DEFINE Is(g, m) == g \in [0..m -> S] /\ g[0] = b /\ \A i \in 1..m : g[i] = step[<<g[i - 1], i>>]
           T == {m \in Nat : m <= n => \E g : Is(g, m)}
<1>1. 0 \in T
  <2>1. Is([i \in 0..0 |-> b], 0)
    OBVIOUS
  <2> QED
    BY <2>1
<1>2. ASSUME NEW m \in Nat, m \in T PROVE m + 1 \in T
  <2> SUFFICES ASSUME m + 1 <= n PROVE \E g : Is(g, m + 1)
    OBVIOUS
  <2>1. PICK g : Is(g, m)
    BY <1>2
  <2> DEFINE h == [i \in 0..(m + 1) |-> IF i = m + 1 THEN step[<<g[m], m + 1>>] ELSE g[i]]
  <2>2. g[m] \in S /\ m + 1 \in 1..n
    BY <2>1
  <2>3. step[<<g[m], m + 1>>] \in S
    BY <2>2
  <2>4. h \in [0..(m + 1) -> S]
    <3>1. ASSUME NEW i \in 0..(m + 1) PROVE h[i] \in S
      <4>1. CASE i = m + 1
        BY <4>1, <2>3
      <4>2. CASE i # m + 1
        BY <4>2, <2>1
      <4> QED
        BY <4>1, <4>2
    <3> QED
      BY <3>1
  <2>5. h[0] = b
    BY <2>1
  <2>6. ASSUME NEW i \in 1..(m + 1) PROVE h[i] = step[<<h[i - 1], i>>]
    <3>1. CASE i = m + 1
      <4>1. i - 1 = m /\ m \in 0..(m + 1) /\ m # m + 1
        BY <3>1
      <4>2. h[i] = step[<<g[m], m + 1>>] /\ h[i - 1] = g[m]
        BY <3>1, <4>1
      <4> QED
        BY <3>1, <4>1, <4>2
    <3>2. CASE i # m + 1
      <4>1. i \in 1..m /\ i - 1 \in 0..m /\ i - 1 # m + 1
        BY <3>2
      <4>2. h[i] = g[i] /\ h[i - 1] = g[i - 1] /\ g[i] = step[<<g[i - 1], i>>]
        BY <3>2, <4>1, <2>1
      <4> QED
        BY <4>2
    <3> QED
      BY <3>1, <3>2
  <2>7. Is(h, m + 1)
    BY <2>4, <2>5, <2>6
  <2> QED
    BY <2>7
<1>3. n \in T
  <2> HIDE DEF T
  <2> QED
    BY <1>1, <1>2, NatInductionInSets
<1> QED
  BY <1>3 DEF Recurs

\* Two of them with the same start and the same steps end the same.
LEMMA RecursionAgrees ==
  ASSUME NEW n \in Nat, NEW g, NEW h, g[0] = h[0], \A i \in 1..n : g[i - 1] = h[i - 1] => g[i] = h[i]
  PROVE  g[n] = h[n]
<1> DEFINE T == {m \in Nat : m <= n => g[m] = h[m]}
<1>1. 0 \in T
  OBVIOUS
<1>2. ASSUME NEW m \in Nat, m \in T PROVE m + 1 \in T
  <2> SUFFICES ASSUME m + 1 <= n PROVE g[m + 1] = h[m + 1]
    OBVIOUS
  <2>1. g[m] = h[m] /\ m + 1 \in 1..n /\ m = (m + 1) - 1
    BY <1>2
  <2> QED
    BY <2>1
<1>3. n \in T
  <2> HIDE DEF T
  <2> QED
    BY <1>1, <1>2, NatInductionInSets
<1> QED
  BY <1>3

-----------------------------------------------------------------------------
(*****************************************************************************)
(* What there is.                                                            *)
(*****************************************************************************)
Asked == {Nobody} \cup {{q} : q \in Questions}
Pairs == Questions \X (0..Rounds)
Blocks == [who : {"user", "assistant", "notice"}, q : Asked, text : Seq(Pairs), calls : SUBSET Pairs,
           done : SUBSET Pairs, pending : BOOLEAN]
Views == [blocks : Seq(Blocks), running : BOOLEAN]
Emissions == [kind : {"start", "text", "call", "return", "end"}, q : Questions, n : 0..Rounds]
Relays == [event : Emissions, group : SUBSET Pairs, flushed : BOOLEAN]
SavedTurns == [q : Asked, text : Seq(Pairs), answered : BOOLEAN]
Flights == [running : BOOLEAN, input : Asked, events : Seq(Emissions), forest : SUBSET Pairs]
Events == [kind : {"event"}, event : Emissions]
Snapshots == [kind : {"snapshot"}, clean : BOOLEAN, view : Views]
Notices == [kind : {"notice"}]
Items == Events \cup Snapshots \cup Notices
Readers == [at : {"idle", "asked", "tools", "flight", "send"}, turns : Seq(SavedTurns), tools : Seq(SUBSET Pairs),
            flight : Flights, clean : BOOLEAN]
Loops == [at : {"idle", "asking", "spoke", "calling", "finished", "saved"}, q : Asked, text : Seq(Pairs),
          produced : Seq(Pairs), calls : SUBSET Pairs, round : 0..Rounds]

ChatShapes ==
    /\ inputs \in Seq(Questions) /\ loop \in Loops /\ emitted \in Seq(Emissions) /\ Len(emitted) <= OutRoom
    /\ relay \in Seq(Relays) /\ Len(relay) <= 1 /\ flight \in Flights
    /\ saved \in Seq(SavedTurns) /\ groups \in Seq(SUBSET Pairs) /\ cut \in SUBSET Questions
ScreenShapes ==
    /\ screen \in [kind : Kinds, on : BOOLEAN, linked : BOOLEAN]
    /\ screen.kind = "terminal" => screen.linked
    /\ feed \in Seq(Items) /\ Len(feed) <= FeedRoom
    /\ reader \in Readers /\ view \in Views
    /\ opens \in 0..MaxOpens /\ notices \in 0..MaxNotices
    /\ astray \in BOOLEAN /\ interrupted \in BOOLEAN

-----------------------------------------------------------------------------
(*****************************************************************************)
(* The loop and the file: a turn is where its round says, and a question is  *)
(* in one place.                                                             *)
(*****************************************************************************)
Texts(q, k) == [i \in 1..k |-> <<q, i>>]
Called(q, c) == {<<q, i>> : i \in 1..c}

TurnIs(q) ==
    /\ loop.round \in 1..Rounds
    /\ loop.at # "calling" => loop.calls = Called(q, loop.round - 1)
    /\ CASE loop.at = "asking" -> /\ loop.text = Texts(q, loop.round - 1)
                                  /\ loop.produced = Texts(q, loop.round - 1)
         [] loop.at = "spoke" -> /\ loop.text = Texts(q, loop.round)
                                 /\ loop.produced = Texts(q, loop.round - 1)
         [] loop.at = "calling" -> /\ loop.text = Texts(q, loop.round)
                                   /\ loop.produced = Texts(q, loop.round)
                                   /\ loop.calls = Called(q, loop.round)
                                   /\ loop.round < Rounds
         [] OTHER -> IF q \in cut
                     THEN /\ loop.text \in {Texts(q, loop.round - 1), Texts(q, loop.round)}
                          /\ loop.produced = Texts(q, loop.round - 1)
                     ELSE loop.text = Texts(q, loop.round) /\ loop.produced = Texts(q, loop.round)
LoopHolds ==
    /\ loop.at = "idle" <=> loop.q = Nobody
    /\ loop.at = "idle" => loop = NoTurn
    /\ \A q \in loop.q : TurnIs(q) /\ (q \in cut => loop.at \in {"finished", "saved"})

IsSaved(q) == \E i \in 1..Len(saved) : saved[i].q = {q}
EachOnce ==
    /\ \A i, j \in 1..Len(inputs) : inputs[i] = inputs[j] => i = j
    /\ \A i \in 1..Len(inputs) : loop.q # {inputs[i]} /\ ~IsSaved(inputs[i]) /\ inputs[i] \notin cut
    /\ \A i, j \in 1..Len(saved) : saved[i].q = saved[j].q => i = j
    /\ \A i \in 1..Len(saved) : saved[i].q # Nobody
    /\ \A q \in loop.q : IsSaved(q) <=> loop.at = "saved"
    /\ loop.at = "saved" => saved # <<>> /\ saved[Len(saved)].q = loop.q /\ saved[Len(saved)].text = loop.produced
    /\ \A q \in cut : IsSaved(q) \/ loop.q = {q}
FileHolds ==
    \A i \in 1..Len(saved) : \A q \in saved[i].q : \E k \in 0..Rounds :
        /\ saved[i].text = Texts(q, k) /\ (saved[i].answered <=> k > 0)
        /\ q \notin cut => k > 0

-----------------------------------------------------------------------------
(*****************************************************************************)
(* Progress: how much of a chat has been seen.  So many turns whole, and of  *)
(* the one after them so many texts, calls and returns.                      *)
(*****************************************************************************)
Place(q) == IF IsSaved(q) THEN CHOOSE i \in 1..Len(saved) : saved[i].q = {q} ELSE Len(saved) + 1
Known(q) == IsSaved(q) \/ loop.q = {q}
Between(m) == [m |-> m, q |-> Nobody, k |-> 0, c |-> 0, d |-> 0]
Within(q, k, c, d) == [m |-> Place(q) - 1, q |-> {q}, k |-> k, c |-> c, d |-> d]
Progress == {p \in [m : Nat, q : Asked, k : 0..Rounds, c : 0..Rounds, d : 0..Rounds] : p.q = Nobody => p = Between(p.m)}

After(e) ==
    CASE e.kind = "start" -> Within(e.q, 0, 0, 0)
      [] e.kind = "text" -> Within(e.q, e.n, e.n - 1, e.n - 1)
      [] e.kind = "call" -> Within(e.q, e.n, e.n, e.n - 1)
      [] e.kind = "return" -> Within(e.q, e.n, e.n, e.n)
      [] e.kind = "end" -> Between(Place(e.q))

\* An event comes at this progress.
Leads(p, e) ==
    CASE e.kind = "start" -> p = Between(Place(e.q) - 1)
      [] e.kind = "text" -> p = Within(e.q, e.n - 1, e.n - 1, e.n - 1)
      [] e.kind = "call" -> p = Within(e.q, e.n, e.n - 1, e.n - 1)
      [] e.kind = "return" -> p = Within(e.q, e.n, e.n, e.n - 1)
      [] e.kind = "end" -> /\ p = Within(e.q, p.k, p.c, p.c)
                           /\ IsSaved(e.q)
                           /\ e.q \notin cut => saved[Place(e.q)].text = Texts(e.q, p.k) /\ p.k = p.c + 1
\* What the session has emitted.
Reached ==
    IF loop.at = "idle" THEN {Between(Len(saved))}
    ELSE {Within(q, Len(loop.text),
                 IF loop.at = "calling" THEN loop.round ELSE loop.round - 1,
                 loop.round - 1) : q \in loop.q}

EventIs(e) ==
    /\ Known(e.q) /\ (e.kind \in {"text", "call", "return"} => e.n \in 1..Rounds)
    /\ e.kind = "end" => IsSaved(e.q)

\* What comes at p is the i-th event of the stream, or nothing before the loop goes on.
ComesAt(p, i) == IF i <= Len(emitted) THEN Leads(p, emitted[i]) ELSE p \in Reached
\* The end of a turn is in the stream after its i-th event, or the loop is in it.
EndComes(q, i) ==
    \/ \E j \in 1..Len(emitted) : j > i /\ emitted[j].kind = "end" /\ emitted[j].q = q
    \/ loop.q = {q}
StreamHolds ==
    \A i \in 1..Len(emitted) :
        /\ EventIs(emitted[i]) /\ ComesAt(After(emitted[i]), i + 1)
        /\ emitted[i].kind # "end" => EndComes(emitted[i].q, i)

-----------------------------------------------------------------------------
(*****************************************************************************)
(* The pump: the turn in flight is what it has observed, and the groups are  *)
(* those of the turns it has seen end.                                       *)
(*****************************************************************************)
Partial(p) ==
    [AnswerBubble EXCEPT !.text = [i \in 1..p.k |-> <<CHOOSE q \in p.q : TRUE, i>>], !.calls = UNION {Called(q, p.c) : q \in p.q},
                         !.done = UNION {Called(q, p.d) : q \in p.q}]
Closed(v) == ~(LastAnswers(v) /\ Last(v.blocks).pending)
FlightFits(p) ==
    /\ flight.running <=> p.q # Nobody
    /\ flight.forest = UNION {Called(q, p.c) : q \in p.q}
    /\ IF p.q = Nobody THEN flight.events = <<>>
       ELSE \A v \in Views : Closed(v) => Folded(v, flight.events) = [v EXCEPT !.blocks = Append(@, Partial(p))]
MoreComes ==
    \/ inputs # <<>> \/ loop.at # "idle"
    \/ \E j \in 1..Len(emitted) : emitted[j].kind = "end"
Flushed == relay = <<>> \/ relay[1].flushed
PumpHolds ==
    /\ \E p \in Progress :
        /\ FlightFits(p) /\ ComesAt(p, 1)
        /\ \A i \in 1..Len(relay) : p = After(relay[i].event)
        /\ p.m = IF Flushed THEN Len(groups) ELSE Len(groups) + 1
        /\ \A q \in p.q : EndComes(q, 0)
    /\ flight.running \/ flight.input # Nobody => MoreComes
    /\ \A i \in 1..Len(relay) :
        /\ EventIs(relay[i].event)
        /\ ~relay[i].flushed =>
            /\ relay[i].event.kind = "end"
            /\ relay[i].event.q \notin cut =>
                relay[i].group = Called(relay[i].event.q, Len(saved[Place(relay[i].event.q)].text) - 1)
GroupsHold ==
    /\ Len(groups) <= Len(saved)
    /\ \A i \in 1..Len(groups) : \A q \in saved[i].q :
        q \notin cut => groups[i] = Called(q, Len(saved[i].text) - 1)

ChatInv == ChatShapes /\ LoopHolds /\ EachOnce /\ FileHolds /\ StreamHolds /\ PumpHolds /\ GroupsHold

-----------------------------------------------------------------------------
(*****************************************************************************)
(* The screen: what a view, or a snapshot on its way to it, shows is what    *)
(* has been seen up to the next event on its way.                            *)
(*****************************************************************************)
\* The answers of turns that are not among those of C.
IsOf(b, C) == \E q \in C : \E n \in 1..Rounds : <<q, n>> \in b.calls \/ \E i \in DOMAIN b.text : b.text[i] = <<q, n>>
Kept(C, blocks) ==
    LET kept[i \in 0..Len(blocks)] ==
            IF i = 0 THEN <<>>
            ELSE IF blocks[i].who = "assistant" /\ blocks[i].text # <<>> /\ ~IsOf(blocks[i], C)
                 THEN Append(kept[i - 1], blocks[i])
                 ELSE kept[i - 1]
    IN kept[Len(blocks)]
FileUpTo(m) == SnapshotBlocks(SubSeq(saved, 1, m), SubSeq(groups, 1, m))
ShowsTurns(blocks, m) ==
    /\ m <= Len(groups) /\ \A i \in 1..Len(blocks) : ~blocks[i].pending
    /\ \A C \in SUBSET Questions : cut \subseteq C => Kept(C, blocks) = Kept(C, FileUpTo(m))
Fits(v, p) ==
    \E s \in Seq(Blocks) :
        /\ ShowsTurns(s, p.m)
        /\ v.blocks = Append(s, Partial(p)) \/ (p.q = Nobody /\ v.blocks = s)

IsEvent(i) == feed[i].kind = "event"
\* The next event after position i of the feed is at j, or behind the feed.
Link(i, j) ==
    /\ i < j /\ j <= Len(feed) + 1 /\ (j <= Len(feed) => IsEvent(j))
    /\ \A l \in 1..Len(feed) : i < l /\ l < j => ~IsEvent(l)
Behind(p) == IF relay = <<>> THEN ComesAt(p, 1) ELSE Leads(p, relay[1].event)
Meets(p, j) == IF j <= Len(feed) THEN Leads(p, feed[j].event) ELSE Behind(p)
EndAhead(i) ==
    \/ MoreComes \/ \E j \in 1..Len(feed) : j > i /\ IsEvent(j) /\ feed[j].event.kind = "end"
    \/ relay # <<>> /\ relay[1].event.kind = "end"
Expects(v) == v.running \/ ~Closed(v)
ViewHolds(v, i) ==
    /\ \A j \in 1..(Len(feed) + 1) : Link(i, j) => \E p \in Progress : Fits(v, p) /\ Meets(p, j)
    /\ Expects(v) => EndAhead(i)
InStep == ~astray /\ ~interrupted
IsSnapshot(i) == feed[i].kind = "snapshot" /\ feed[i].clean
Followed(i) == InStep \/ \E j \in 1..Len(feed) : j < i /\ IsSnapshot(j)
EventHolds(i) ==
    /\ EventIs(feed[i].event)
    /\ feed[i].event.kind = "end" => Place(feed[i].event.q) <= Len(groups)
    /\ Followed(i) =>
        /\ \A j \in 1..(Len(feed) + 1) : Link(i, j) => Meets(After(feed[i].event), j)
        /\ feed[i].event.kind # "end" => EndAhead(i)
FeedHolds ==
    /\ \A i \in 1..Len(feed) : (IsEvent(i) => EventHolds(i)) /\ (IsSnapshot(i) => ViewHolds(feed[i].view, i))
    /\ InStep => ViewHolds(view, 0)

NoEventComes == \A i \in 1..Len(feed) : ~IsEvent(i)
ReaderHolds ==
    reader.at \in {"tools", "flight", "send"} /\ reader.clean =>
        /\ relay = <<>> /\ loop.at # "saved" /\ \A i \in 1..Len(emitted) : emitted[i].kind # "end"
        /\ reader.turns = saved
        /\ reader.at # "tools" => reader.tools = groups
        /\ reader.at = "send" => reader.flight = flight
        /\ OnTerminal => NoEventComes
KindsHold ==
    /\ \A i \in 1..Len(feed) : feed[i].kind = (IF OnTerminal THEN "notice" ELSE "snapshot") \/ IsEvent(i)
    /\ ~OnTerminal => ~interrupted
    /\ ~screen.on => astray
    /\ OnTerminal => reader.at # "send"
    /\ reader.at # "idle" => screen.on /\ (OnTerminal => astray)
ScreenInv == ScreenShapes /\ FeedHolds /\ ReaderHolds /\ KindsHold

ConversationInv == ChatInv /\ ScreenInv

-----------------------------------------------------------------------------
(*****************************************************************************)
(* The folds, an element at a time.                                          *)
(*****************************************************************************)
LEMMA EndFacts ==
  ASSUME NEW S, NEW s \in Seq(S)
  PROVE  /\ \A x \in S : Front(Append(s, x)) = s /\ Last(Append(s, x)) = x /\ Append(s, x) # <<>>
         /\ s # <<>> => /\ Front(s) \in Seq(S) /\ Last(s) \in S /\ s = Append(Front(s), Last(s))
                        /\ Len(Front(s)) = Len(s) - 1 /\ Len(s) \in Nat \ {0}
                        /\ \A i \in 1..(Len(s) - 1) : Front(s)[i] = s[i]
<1>1. ASSUME NEW x \in S PROVE Front(Append(s, x)) = s /\ Last(Append(s, x)) = x /\ Append(s, x) # <<>>
  BY DEF Front, Last
<1>2. ASSUME s # <<>>
      PROVE  /\ Front(s) \in Seq(S) /\ Last(s) \in S /\ Len(Front(s)) = Len(s) - 1 /\ Len(s) \in Nat \ {0}
             /\ \A i \in 1..(Len(s) - 1) : Front(s)[i] = s[i]
  <2>1. Len(s) \in Nat \ {0} /\ Last(s) \in S
    BY <1>2 DEF Last
  <2>2. 1 \in Int /\ Len(s) - 1 \in Int /\ \A i \in 1..(Len(s) - 1) : s[i] \in S
    BY <2>1
  <2> DEFINE n == Len(s) - 1
  <2>3. /\ SubSeq(s, 1, n) \in Seq(S) /\ Len(SubSeq(s, 1, n)) = IF 1 <= n THEN n - 1 + 1 ELSE 0
        /\ \A i \in 1..(n - 1 + 1) : SubSeq(s, 1, n)[i] = s[1 + i - 1]
    BY <2>2, SubSeqProperties
  <2>6. Front(s) = SubSeq(s, 1, n) /\ n \in Nat
    BY <2>1 DEF Front
  <2>7. n = Len(s) - 1
    OBVIOUS
  <2> HIDE DEF n
  <2>4. Front(s) \in Seq(S) /\ Len(Front(s)) = Len(s) - 1
    <3>1. CASE n = 0
      BY <2>3, <2>6, <2>7, <3>1
    <3>2. CASE n # 0
      BY <2>3, <2>6, <2>7, <3>2
    <3> QED
      BY <3>1, <3>2
  <2>5. ASSUME NEW i \in 1..(Len(s) - 1) PROVE Front(s)[i] = s[i]
    BY <2>1, <2>3, <2>6, <2>7
  <2> QED
    BY <2>1, <2>4, <2>5
<1>3. ASSUME s # <<>> PROVE s = Append(Front(s), Last(s))
  <2>1. Len(Append(Front(s), Last(s))) = Len(s) /\ Append(Front(s), Last(s)) \in Seq(S)
    BY <1>2, <1>3
  <2>2. ASSUME NEW i \in 1..Len(s) PROVE Append(Front(s), Last(s))[i] = s[i]
    BY <1>2, <1>3 DEF Last
  <2> QED
    BY <2>1, <2>2
<1> QED
  BY <1>1, <1>2, <1>3

\* The blocks a screen can open are blocks.
LEMMA BubbleTypes ==
  /\ AnswerBubble \in Blocks
  /\ Notice \in Blocks
  /\ \A q \in Asked : Bubble(q) \in Blocks
<1>1. <<>> \in Seq(Pairs) /\ {} \in SUBSET Pairs /\ Nobody \in Asked
  BY DEF Asked
<1>2. AnswerBubble \in Blocks
  BY <1>1 DEF AnswerBubble, Blocks
<1>3. ASSUME NEW q \in Asked PROVE Bubble(q) \in Blocks
  BY <1>1 DEF Bubble, Blocks
<1>4. Notice = [who |-> "notice", q |-> Nobody, text |-> <<>>, calls |-> {}, done |-> {}, pending |-> FALSE]
  <2>1. PICK b : b = Bubble(Nobody)
    OBVIOUS
  <2>2. b = [who |-> "user", q |-> Nobody, text |-> <<>>, calls |-> {}, done |-> {}, pending |-> FALSE]
    BY <2>1 DEF Bubble
  <2>3. Notice = [b EXCEPT !.who = "notice"]
    BY <2>1 DEF Notice
  <2> QED
    BY <2>2, <2>3
<1>5. Notice \in Blocks
  BY <1>1, <1>4 DEF Blocks
<1> QED
  BY <1>2, <1>3, <1>5

\* A block, and a view, with a part of it exchanged.
LEMMA BlockFacts ==
  ASSUME NEW b \in Blocks, NEW x \in Pairs
  PROVE  /\ [b EXCEPT !.text = Append(@, x)] \in Blocks
         /\ [b EXCEPT !.calls = @ \cup {x}] \in Blocks
         /\ [b EXCEPT !.calls = @ \cup {x}, !.done = @ \cup {x}] \in Blocks
         /\ [b EXCEPT !.pending = FALSE] \in Blocks
<1>1. Append(b.text, x) \in Seq(Pairs) /\ b.calls \cup {x} \in SUBSET Pairs /\ b.done \cup {x} \in SUBSET Pairs
  BY DEF Blocks
<1> QED
  BY <1>1 DEF Blocks

\* A view is its blocks and whether it waits.
LEMMA ViewParts == \A v \in Views : v.blocks \in Seq(Blocks) /\ v.running \in BOOLEAN /\ v = [blocks |-> v.blocks, running |-> v.running]
BY DEF Views
\* Blocks, and whether to wait, make a view.
LEMMA ViewMade == \A s \in Seq(Blocks) : \A r \in BOOLEAN : [blocks |-> s, running |-> r] \in Views
BY DEF Views
\* A view with other blocks.
LEMMA WithBlocks ==
  ASSUME NEW v \in Views, NEW s
  PROVE  [v EXCEPT !.blocks = s] = [blocks |-> s, running |-> v.running]
BY DEF Views
\* A view that waits, or does not.
LEMMA WithRunning ==
  ASSUME NEW v \in Views, NEW r
  PROVE  [v EXCEPT !.running = r] = [blocks |-> v.blocks, running |-> r]
BY DEF Views

\* What the reducer's helpers make of a view is a view.
LEMMA PushTypes ==
  ASSUME NEW v \in Views
  PROVE  /\ OpenAssistant(v) \in Views /\ PushNotice(v) \in Views
         /\ \A q \in Asked : PushUser(v, q) \in Views
         /\ \A b \in Blocks : EditAssistant(v, b) \in Views
<1>1. v.blocks \in Seq(Blocks) /\ v.running \in BOOLEAN
  BY DEF Views
<1>2. ASSUME NEW b \in Blocks PROVE [v EXCEPT !.blocks = Append(@, b)] \in Views
  <2>1. Append(v.blocks, b) \in Seq(Blocks)
    BY <1>1
  <2>2. [v EXCEPT !.blocks = Append(@, b)] = [blocks |-> Append(v.blocks, b), running |-> v.running]
    BY WithBlocks
  <2> QED
    BY <1>1, <2>1, <2>2, ViewMade
<1>3. OpenAssistant(v) \in Views /\ PushNotice(v) \in Views
  BY <1>2, BubbleTypes DEF OpenAssistant, PushNotice
<1>4. ASSUME NEW q \in Asked PROVE PushUser(v, q) \in Views
  BY <1>2, BubbleTypes DEF PushUser
<1>5. ASSUME NEW b \in Blocks PROVE EditAssistant(v, b) \in Views
  <2>1. CASE LastAnswers(v)
    <3>1. Append(Front(v.blocks), b) \in Seq(Blocks)
      BY <1>1, <2>1, EndFacts DEF LastAnswers
    <3>2. EditAssistant(v, b) = [blocks |-> Append(Front(v.blocks), b), running |-> v.running]
      BY <2>1, WithBlocks DEF EditAssistant
    <3> QED
      BY <1>1, <3>1, <3>2, ViewMade
  <2>2. CASE ~LastAnswers(v)
    BY <2>2 DEF EditAssistant
  <2> QED
    BY <2>1, <2>2
<1> QED
  BY <1>3, <1>4, <1>5

\* Folding one event into a view leaves a view.
LEMMA ApplyTypes ==
  ASSUME NEW v \in Views, NEW e \in Emissions
  PROVE  ApplyEvent(v, e) \in Views
<1>1. v.blocks \in Seq(Blocks) /\ <<e.q, e.n>> \in Pairs
  BY DEF Views, Emissions, Pairs
<1>2. CASE e.kind = "start"
  BY <1>2, PushTypes DEF ApplyEvent
<1>3. CASE e.kind # "start" /\ v.blocks = <<>>
  <2>1. [v EXCEPT !.running = FALSE] = [blocks |-> v.blocks, running |-> FALSE]
    BY WithRunning
  <2> QED
    BY <1>1, <1>3, <2>1, ViewMade DEF ApplyEvent
<1>4. CASE e.kind # "start" /\ v.blocks # <<>>
  <2>1. PICK b \in Blocks : b = Last(v.blocks)
    BY <1>1, <1>4, EndFacts
  <2>2. ASSUME NEW c \in Blocks PROVE [EditAssistant(v, c) EXCEPT !.running = FALSE] \in Views
    <3>1. PICK w \in Views : w = EditAssistant(v, c)
      BY PushTypes
    <3>2. [w EXCEPT !.running = FALSE] = [blocks |-> w.blocks, running |-> FALSE] /\ w.blocks \in Seq(Blocks)
      BY WithRunning, ViewParts
    <3> QED
      BY <3>1, <3>2, ViewMade
  <2> DEFINE x == <<e.q, e.n>>
  <2>3. x \in Pairs
    BY <1>1
  <2> HIDE DEF x
  <2>4. /\ EditAssistant(v, [b EXCEPT !.text = Append(@, x)]) \in Views
        /\ EditAssistant(v, [b EXCEPT !.calls = @ \cup {x}]) \in Views
        /\ EditAssistant(v, [b EXCEPT !.calls = @ \cup {x}, !.done = @ \cup {x}]) \in Views
        /\ [EditAssistant(v, [b EXCEPT !.pending = FALSE]) EXCEPT !.running = FALSE] \in Views
    BY <2>2, <2>3, BlockFacts, PushTypes
  <2>5. e.kind \in {"text", "call", "return", "end"}
    BY <1>4 DEF Emissions
  <2> QED
    BY <1>4, <2>1, <2>4, <2>5 DEF ApplyEvent, x
<1> QED
  BY <1>2, <1>3, <1>4

-----------------------------------------------------------------------------
\* What has been folded: there is a first view, and the next for each event.
LEMMA FoldedIs ==
  ASSUME NEW v \in Views, NEW events \in Seq(Emissions)
  PROVE  \E g \in [0..Len(events) -> Views] :
            /\ g[0] = v /\ \A i \in 1..Len(events) : g[i] = ApplyEvent(g[i - 1], events[i])
            /\ Folded(v, events) = g[Len(events)]
<1> DEFINE n == Len(events)
           step == [x \in Views \X (1..n) |-> ApplyEvent(x[1], events[x[2]])]
<1>1. n \in Nat /\ \A i \in 1..n : events[i] \in Emissions
  OBVIOUS
<1>2. step \in [Views \X (1..n) -> Views]
  <2>1. ASSUME NEW x \in Views \X (1..n) PROVE ApplyEvent(x[1], events[x[2]]) \in Views
    BY <1>1, <2>1, ApplyTypes
  <2> QED
    BY <2>1
<1>3. PICK g \in [0..n -> Views] : g[0] = v /\ \A i \in 1..n : g[i] = step[<<g[i - 1], i>>]
  <2> HIDE DEF step, n
  <2>1. \E g : Recurs(g, Views, v, n, step)
    BY <1>1, <1>2, RecursionExists
  <2> QED
    BY <2>1 DEF Recurs
<1>4. \A i \in 1..n : g[i] = ApplyEvent(g[i - 1], events[i])
  <2> SUFFICES ASSUME NEW i \in 1..n PROVE g[i] = ApplyEvent(g[i - 1], events[i])
    OBVIOUS
  <2>1. <<g[i - 1], i>> \in Views \X (1..n)
    BY <1>1
  <2>2. step[<<g[i - 1], i>>] = ApplyEvent(g[i - 1], events[i])
    BY <2>1
  <2> QED
    BY <1>3, <2>2
<1> DEFINE after[i \in 0..Len(events)] == IF i = 0 THEN v ELSE ApplyEvent(after[i - 1], events[i])
<1>5. g = [i \in 0..Len(events) |-> IF i = 0 THEN v ELSE ApplyEvent(g[i - 1], events[i])]
  <2>1. ASSUME NEW i \in 0..Len(events) PROVE g[i] = IF i = 0 THEN v ELSE ApplyEvent(g[i - 1], events[i])
    BY <1>1, <1>3, <1>4
  <2> QED
    BY <2>1
<1>6. after = [i \in 0..Len(events) |-> IF i = 0 THEN v ELSE ApplyEvent(after[i - 1], events[i])]
  BY <1>5
<1>7. Folded(v, events) = after[Len(events)]
  BY DEF Folded
<1> HIDE DEF after
<1>8. after[0] = g[0] /\ \A i \in 1..n : after[i - 1] = g[i - 1] => after[i] = g[i]
  <2>1. after[0] = v
    BY <1>1, <1>6
  <2>2. ASSUME NEW i \in 1..n PROVE after[i] = ApplyEvent(after[i - 1], events[i])
    BY <1>1, <1>6
  <2> QED
    BY <1>3, <1>4, <2>1, <2>2
<1>9. after[n] = g[n]
  <2> HIDE DEF n
  <2> QED
    BY <1>1, <1>8, RecursionAgrees
<1> QED
  BY <1>3, <1>4, <1>7, <1>9

\* A fold of events is one event after the other.
LEMMA FoldedSteps ==
  ASSUME NEW v \in Views, NEW events \in Seq(Emissions)
  PROVE  /\ Folded(v, <<>>) = v
         /\ Folded(v, events) \in Views
         /\ \A e \in Emissions : Folded(v, Append(events, e)) = ApplyEvent(Folded(v, events), e)
<1>1. Folded(v, <<>>) = v
  <2>1. PICK g \in [0..Len(<<>>) -> Views] : g[0] = v /\ Folded(v, <<>>) = g[Len(<<>>)]
    <3>1. <<>> \in Seq(Emissions)
      OBVIOUS
    <3> QED
      BY <3>1, FoldedIs
  <2> QED
    BY <2>1
<1>2. PICK g \in [0..Len(events) -> Views] :
            /\ g[0] = v /\ \A i \in 1..Len(events) : g[i] = ApplyEvent(g[i - 1], events[i])
            /\ Folded(v, events) = g[Len(events)]
  BY FoldedIs
<1>3. Folded(v, events) \in Views
  BY <1>2
<1>4. ASSUME NEW e \in Emissions PROVE Folded(v, Append(events, e)) = ApplyEvent(Folded(v, events), e)
  <2> DEFINE longer == Append(events, e)
             n == Len(events)
  <2>1. longer \in Seq(Emissions) /\ Len(longer) = n + 1 /\ n \in Nat /\ longer[n + 1] = e
        /\ \A i \in 1..n : longer[i] = events[i]
    OBVIOUS
  <2>2. PICK h \in [0..Len(longer) -> Views] :
            /\ h[0] = v /\ \A i \in 1..Len(longer) : h[i] = ApplyEvent(h[i - 1], longer[i])
            /\ Folded(v, longer) = h[Len(longer)]
    BY <2>1, FoldedIs
  <2>3. h[0] = g[0] /\ \A i \in 1..n : h[i - 1] = g[i - 1] => h[i] = g[i]
    <3> HIDE DEF longer
    <3> QED
      BY <1>2, <2>1, <2>2
  <2>4. h[n] = g[n]
    <3> HIDE DEF n, longer
    <3> QED
      BY <2>1, <2>3, RecursionAgrees
  <2>5. h[n + 1] = ApplyEvent(h[n], e)
    <3>1. n + 1 \in 1..Len(longer) /\ (n + 1) - 1 = n
      BY <2>1
    <3> HIDE DEF n, longer
    <3> QED
      BY <2>1, <2>2, <3>1
  <2> QED
    BY <1>2, <2>1, <2>2, <2>4, <2>5
<1> QED
  BY <1>1, <1>3, <1>4

-----------------------------------------------------------------------------
\* The answers that are kept.
Keepers(C) == {b \in Blocks : b.who = "assistant" /\ b.text # <<>> /\ ~IsOf(b, C)}

Columns == Seq(Blocks)

\* The answers kept of some blocks, as a function stepping along them.
LEMMA KeptIs ==
  ASSUME NEW C, NEW s \in Seq(Blocks)
  PROVE  \E g \in [0..Len(s) -> Columns] :
            /\ g[0] = <<>>
            /\ \A i \in 1..Len(s) : g[i] = IF s[i] \in Keepers(C) THEN Append(g[i - 1], s[i]) ELSE g[i - 1]
            /\ Kept(C, s) = g[Len(s)]
<1> DEFINE n == Len(s)
           step == [x \in Columns \X (1..n) |-> IF s[x[2]] \in Keepers(C) THEN Append(x[1], s[x[2]]) ELSE x[1]]
<1>1. n \in Nat /\ (\A i \in 1..n : s[i] \in Blocks) /\ <<>> \in Columns
  BY DEF Columns
<1>2. step \in [Columns \X (1..n) -> Columns]
  <2>1. ASSUME NEW x \in Columns \X (1..n)
        PROVE  (IF s[x[2]] \in Keepers(C) THEN Append(x[1], s[x[2]]) ELSE x[1]) \in Columns
    <3>1. x[1] \in Columns /\ s[x[2]] \in Blocks
      BY <1>1, <2>1
    <3> QED
      BY <3>1 DEF Columns
  <2> QED
    BY <2>1
<1>3. PICK g \in [0..n -> Columns] : g[0] = <<>> /\ \A i \in 1..n : g[i] = step[<<g[i - 1], i>>]
  <2> HIDE DEF step, n
  <2>1. \E g : Recurs(g, Columns, <<>>, n, step)
    BY <1>1, <1>2, RecursionExists
  <2> QED
    BY <2>1 DEF Recurs
<1>4. \A i \in 1..n : g[i] = IF s[i] \in Keepers(C) THEN Append(g[i - 1], s[i]) ELSE g[i - 1]
  <2> SUFFICES ASSUME NEW i \in 1..n PROVE g[i] = IF s[i] \in Keepers(C) THEN Append(g[i - 1], s[i]) ELSE g[i - 1]
    OBVIOUS
  <2>1. <<g[i - 1], i>> \in Columns \X (1..n)
    <3>1. i - 1 \in 0..n
      BY <1>1
    <3>2. g[i - 1] \in Columns
      BY <3>1
    <3> QED
      BY <3>2
  <2>2. step[<<g[i - 1], i>>] = IF s[i] \in Keepers(C) THEN Append(g[i - 1], s[i]) ELSE g[i - 1]
    BY <2>1
  <2> QED
    BY <1>3, <2>2
<1> DEFINE Stays(b) == b.who = "assistant" /\ b.text # <<>> /\ ~IsOf(b, C)
           kept[i \in 0..Len(s)] ==
             IF i = 0 THEN <<>> ELSE IF Stays(s[i]) THEN Append(kept[i - 1], s[i]) ELSE kept[i - 1]
<1>10. \A i \in 1..n : Stays(s[i]) <=> s[i] \in Keepers(C)
  BY <1>1 DEF Keepers
<1>5. g = [i \in 0..Len(s) |-> IF i = 0 THEN <<>> ELSE IF Stays(s[i]) THEN Append(g[i - 1], s[i]) ELSE g[i - 1]]
  <2>1. ASSUME NEW i \in 0..Len(s)
        PROVE  g[i] = IF i = 0 THEN <<>> ELSE IF Stays(s[i]) THEN Append(g[i - 1], s[i]) ELSE g[i - 1]
    <3>1. CASE i = 0
      BY <1>3, <3>1
    <3>2. CASE i # 0
      <4>1. i \in 1..n
        BY <1>1, <3>2
      <4> HIDE DEF Stays
      <4> QED
        BY <1>4, <1>10, <3>2, <4>1
    <3> QED
      BY <3>1, <3>2
  <2> HIDE DEF Stays
  <2> QED
    BY <2>1
<1>6. kept = [i \in 0..Len(s) |-> IF i = 0 THEN <<>>
                                  ELSE IF Stays(s[i]) THEN Append(kept[i - 1], s[i]) ELSE kept[i - 1]]
  BY <1>5
<1>7. Kept(C, s) = kept[Len(s)]
  BY DEF Kept
<1> HIDE DEF kept, Stays
<1>8. kept[0] = g[0] /\ \A i \in 1..n : kept[i - 1] = g[i - 1] => kept[i] = g[i]
  <2>1. kept[0] = <<>>
    BY <1>1, <1>6
  <2>2. ASSUME NEW i \in 1..n PROVE kept[i] = IF s[i] \in Keepers(C) THEN Append(kept[i - 1], s[i]) ELSE kept[i - 1]
    <3>1. i \in 0..Len(s) /\ i # 0
      BY <1>1
    <3>2. kept[i] = IF Stays(s[i]) THEN Append(kept[i - 1], s[i]) ELSE kept[i - 1]
      BY <1>6, <3>1
    <3> QED
      BY <1>10, <3>2
  <2> QED
    BY <1>3, <1>4, <2>1, <2>2
<1>9. kept[n] = g[n]
  <2> HIDE DEF n
  <2> QED
    BY <1>1, <1>8, RecursionAgrees
<1> QED
  BY <1>3, <1>4, <1>7, <1>9

\* The answers kept of one block more.
LEMMA KeptSteps ==
  ASSUME NEW C, NEW s \in Seq(Blocks)
  PROVE  /\ Kept(C, <<>>) = <<>>
         /\ Kept(C, s) \in Seq(Blocks)
         /\ \A b \in Blocks : Kept(C, Append(s, b)) = IF b \in Keepers(C) THEN Append(Kept(C, s), b) ELSE Kept(C, s)
<1>1. Kept(C, <<>>) = <<>>
  <2>1. PICK g \in [0..Len(<<>>) -> Columns] : g[0] = <<>> /\ Kept(C, <<>>) = g[Len(<<>>)]
    <3>0. <<>> \in Seq(Blocks)
      OBVIOUS
    <3>1. PICK e \in Seq(Blocks) : e = <<>>
      BY <3>0, Zenon
    <3>2. \E g \in [0..Len(e) -> Columns] : g[0] = <<>> /\ Kept(C, e) = g[Len(e)]
      BY KeptIs
    <3> QED
      BY <3>1, <3>2
  <2> QED
    BY <2>1
<1>2. PICK g \in [0..Len(s) -> Columns] :
            /\ g[0] = <<>>
            /\ \A i \in 1..Len(s) : g[i] = IF s[i] \in Keepers(C) THEN Append(g[i - 1], s[i]) ELSE g[i - 1]
            /\ Kept(C, s) = g[Len(s)]
  BY KeptIs
<1>3. Kept(C, s) \in Seq(Blocks)
  BY <1>2 DEF Columns
<1>4. ASSUME NEW b \in Blocks
      PROVE  Kept(C, Append(s, b)) = IF b \in Keepers(C) THEN Append(Kept(C, s), b) ELSE Kept(C, s)
  <2> DEFINE longer == Append(s, b)
             n == Len(s)
  <2>1. longer \in Seq(Blocks) /\ Len(longer) = n + 1 /\ n \in Nat /\ longer[n + 1] = b
        /\ \A i \in 1..n : longer[i] = s[i]
    OBVIOUS
  <2>2. PICK h \in [0..Len(longer) -> Columns] :
            /\ h[0] = <<>>
            /\ \A i \in 1..Len(longer) : h[i] = IF longer[i] \in Keepers(C) THEN Append(h[i - 1], longer[i]) ELSE h[i - 1]
            /\ Kept(C, longer) = h[Len(longer)]
    BY <2>1, KeptIs
  <2>3. h[0] = g[0] /\ \A i \in 1..n : h[i - 1] = g[i - 1] => h[i] = g[i]
    <3>1. h[0] = g[0]
      BY <1>2, <2>2
    <3>2. ASSUME NEW i \in 1..n, h[i - 1] = g[i - 1] PROVE h[i] = g[i]
      <4>1. i \in 1..Len(longer) /\ longer[i] = s[i]
        BY <2>1
      <4> HIDE DEF longer
      <4>2. h[i] = IF s[i] \in Keepers(C) THEN Append(h[i - 1], s[i]) ELSE h[i - 1]
        BY <2>2, <4>1
      <4>3. g[i] = IF s[i] \in Keepers(C) THEN Append(g[i - 1], s[i]) ELSE g[i - 1]
        BY <1>2
      <4> QED
        BY <3>2, <4>2, <4>3
    <3> QED
      BY <3>1, <3>2
  <2>4. h[n] = g[n]
    <3> HIDE DEF n, longer
    <3> QED
      BY <2>1, <2>3, RecursionAgrees
  <2>5. h[n + 1] = IF b \in Keepers(C) THEN Append(h[n], b) ELSE h[n]
    <3>1. n + 1 \in 1..Len(longer) /\ (n + 1) - 1 = n
      BY <2>1
    <3> HIDE DEF n, longer
    <3> QED
      BY <2>1, <2>2, <3>1
  <2> QED
    BY <1>2, <2>1, <2>2, <2>4, <2>5
<1> QED
  BY <1>1, <1>3, <1>4

\* The answers ScreenConverges compares are those kept.
LEMMA AnswersAreKept == ASSUME NEW s PROVE AnswersOf(s) = Kept(cut, s)
BY DEF AnswersOf, OfCutTurn, Kept, IsOf

-----------------------------------------------------------------------------
\* The blocks of a file, a turn at a time.
AnswerOf(t, group) == [AnswerBubble EXCEPT !.text = t.text, !.calls = group, !.done = group, !.pending = FALSE]

\* The blocks of a saved turn: its question, and its answer if it has one.
LEMMA TurnParts ==
  ASSUME NEW t \in SavedTurns, NEW group \in SUBSET Pairs
  PROVE  /\ Bubble(t.q) \in Blocks
         /\ AnswerOf(t, group) = [who |-> "assistant", q |-> Nobody, text |-> t.text, calls |-> group,
                                  done |-> group, pending |-> FALSE]
         /\ AnswerOf(t, group) \in Blocks
         /\ TurnBlocks(t, group) \in Columns
         /\ t.answered => TurnBlocks(t, group) = Append(<<Bubble(t.q)>>, AnswerOf(t, group))
         /\ ~t.answered => TurnBlocks(t, group) = <<Bubble(t.q)>>
<1>1. t.q \in Asked /\ t.text \in Seq(Pairs) /\ t.answered \in BOOLEAN /\ Nobody \in Asked
  BY DEF SavedTurns, Asked
<1>2. Bubble(t.q) \in Blocks
  BY <1>1, BubbleTypes
<1>3. AnswerOf(t, group) = [who |-> "assistant", q |-> Nobody, text |-> t.text, calls |-> group,
                            done |-> group, pending |-> FALSE]
  <2>1. PICK b : b = AnswerBubble
    OBVIOUS
  <2>2. b = [who |-> "assistant", q |-> Nobody, text |-> <<>>, calls |-> {}, done |-> {}, pending |-> TRUE]
    BY <2>1 DEF AnswerBubble
  <2>3. AnswerOf(t, group) = [b EXCEPT !.text = t.text, !.calls = group, !.done = group, !.pending = FALSE]
    BY <2>1 DEF AnswerOf
  <2> QED
    BY <2>2, <2>3
<1>4. AnswerOf(t, group) \in Blocks
  BY <1>1, <1>3 DEF Blocks
<1>5. ASSUME t.answered PROVE TurnBlocks(t, group) = Append(<<Bubble(t.q)>>, AnswerOf(t, group))
  <2>1. TurnBlocks(t, group) = <<Bubble(t.q)>> \o <<AnswerOf(t, group)>>
    BY <1>5 DEF TurnBlocks, AnswerOf
  <2>2. PICK a \in Blocks, b \in Blocks : a = Bubble(t.q) /\ b = AnswerOf(t, group)
    BY <1>2, <1>4
  <2>3. <<a>> \o <<b>> = Append(<<a>>, b)
    OBVIOUS
  <2> QED
    BY <2>1, <2>2, <2>3
<1>6. ASSUME ~t.answered PROVE TurnBlocks(t, group) = <<Bubble(t.q)>>
  <2>1. TurnBlocks(t, group) = <<Bubble(t.q)>> \o <<>>
    BY <1>6 DEF TurnBlocks
  <2>2. PICK a \in Blocks : a = Bubble(t.q)
    BY <1>2
  <2>3. <<a>> \o <<>> = <<a>>
    OBVIOUS
  <2> QED
    BY <2>1, <2>2, <2>3
<1>7. TurnBlocks(t, group) \in Columns
  <2>1. PICK a \in Blocks, b \in Blocks : a = Bubble(t.q) /\ b = AnswerOf(t, group)
    BY <1>2, <1>4
  <2>2. <<a>> \in Columns /\ Append(<<a>>, b) \in Columns
    BY DEF Columns
  <2> QED
    BY <1>1, <1>5, <1>6, <2>1, <2>2
<1> QED
  BY <1>2, <1>3, <1>4, <1>5, <1>6, <1>7

ToolsAt(tools, i) == IF i <= Len(tools) THEN tools[i] ELSE {}

\* The blocks of a snapshot, as a function stepping along its turns.
LEMMA SnapshotIs ==
  ASSUME NEW turns \in Seq(SavedTurns), NEW tools \in Seq(SUBSET Pairs)
  PROVE  \E g \in [0..Len(turns) -> Columns] :
            /\ g[0] = <<>>
            /\ \A i \in 1..Len(turns) : g[i] = g[i - 1] \o TurnBlocks(turns[i], ToolsAt(tools, i))
            /\ SnapshotBlocks(turns, tools) = g[Len(turns)]
<1> DEFINE n == Len(turns)
           Part(i) == TurnBlocks(turns[i], ToolsAt(tools, i))
           step == [x \in Columns \X (1..n) |-> x[1] \o Part(x[2])]
<1>1. n \in Nat /\ (\A i \in 1..n : turns[i] \in SavedTurns) /\ <<>> \in Columns
  BY DEF Columns
<1>2. \A i \in 1..n : Part(i) \in Columns
  <2> SUFFICES ASSUME NEW i \in 1..n PROVE Part(i) \in Columns
    OBVIOUS
  <2>1. ToolsAt(tools, i) \in SUBSET Pairs
    BY DEF ToolsAt
  <2> QED
    BY <1>1, <2>1, TurnParts
<1> HIDE DEF Part
<1>3. step \in [Columns \X (1..n) -> Columns]
  <2>1. ASSUME NEW x \in Columns \X (1..n) PROVE x[1] \o Part(x[2]) \in Columns
    <3>1. x[1] \in Columns /\ Part(x[2]) \in Columns
      BY <1>2, <2>1
    <3> QED
      BY <3>1 DEF Columns
  <2> QED
    BY <2>1
<1>4. PICK g \in [0..n -> Columns] : g[0] = <<>> /\ \A i \in 1..n : g[i] = step[<<g[i - 1], i>>]
  <2> HIDE DEF step, n
  <2>1. \E g : Recurs(g, Columns, <<>>, n, step)
    BY <1>1, <1>3, RecursionExists
  <2> QED
    BY <2>1 DEF Recurs
<1>5. \A i \in 1..n : g[i] = g[i - 1] \o Part(i)
  <2> SUFFICES ASSUME NEW i \in 1..n PROVE g[i] = g[i - 1] \o Part(i)
    OBVIOUS
  <2>1. <<g[i - 1], i>> \in Columns \X (1..n)
    <3>1. i - 1 \in 0..n
      BY <1>1
    <3>2. g[i - 1] \in Columns
      BY <3>1
    <3> QED
      BY <3>2
  <2>2. step[<<g[i - 1], i>>] = g[i - 1] \o Part(i)
    BY <2>1
  <2> QED
    BY <1>4, <2>2
<1> DEFINE Piece(i) == TurnBlocks(turns[i], IF i <= Len(tools) THEN tools[i] ELSE {})
           upTo[i \in 0..Len(turns)] == IF i = 0 THEN <<>> ELSE upTo[i - 1] \o Piece(i)
<1>6. \A i \in 1..n : Piece(i) = Part(i)
  BY DEF Part, ToolsAt
<1>7. SnapshotBlocks(turns, tools) = upTo[Len(turns)]
  BY DEF SnapshotBlocks
<1> HIDE DEF Piece
<1>8. g = [i \in 0..Len(turns) |-> IF i = 0 THEN <<>> ELSE g[i - 1] \o Piece(i)]
  <2>1. ASSUME NEW i \in 0..Len(turns) PROVE g[i] = IF i = 0 THEN <<>> ELSE g[i - 1] \o Piece(i)
    <3>1. CASE i = 0
      BY <1>4, <3>1
    <3>2. CASE i # 0
      <4>1. i \in 1..n
        BY <1>1, <3>2
      <4> QED
        BY <1>5, <1>6, <3>2, <4>1
    <3> QED
      BY <3>1, <3>2
  <2> QED
    BY <2>1
<1>9. upTo = [i \in 0..Len(turns) |-> IF i = 0 THEN <<>> ELSE upTo[i - 1] \o Piece(i)]
  BY <1>8
<1> HIDE DEF upTo
<1>10. upTo[0] = g[0] /\ \A i \in 1..n : upTo[i - 1] = g[i - 1] => upTo[i] = g[i]
  <2>1. upTo[0] = <<>>
    <3>1. 0 \in 0..Len(turns)
      BY <1>1
    <3> QED
      BY <1>9, <3>1
  <2>2. ASSUME NEW i \in 1..n, upTo[i - 1] = g[i - 1] PROVE upTo[i] = g[i]
    <3>1. i \in 0..Len(turns) /\ i # 0
      BY <1>1
    <3>2. upTo[i] = upTo[i - 1] \o Piece(i)
      BY <1>9, <3>1
    <3> QED
      BY <1>5, <1>6, <2>2, <3>2
  <2> QED
    BY <1>4, <2>1, <2>2
<1>11. upTo[n] = g[n]
  <2> HIDE DEF n
  <2> QED
    BY <1>1, <1>10, RecursionAgrees
<1> QED
  BY <1>4, <1>5, <1>7, <1>11 DEF Part

\* The blocks of a snapshot with one turn more.
LEMMA SnapshotSteps ==
  ASSUME NEW turns \in Seq(SavedTurns), NEW tools \in Seq(SUBSET Pairs)
  PROVE  /\ SnapshotBlocks(turns, tools) \in Columns
         /\ turns = <<>> => SnapshotBlocks(turns, tools) = <<>>
         /\ \A t \in SavedTurns : \A group \in SUBSET Pairs : Len(tools) = Len(turns) =>
               SnapshotBlocks(Append(turns, t), Append(tools, group)) = SnapshotBlocks(turns, tools) \o TurnBlocks(t, group)
<1>1. PICK g \in [0..Len(turns) -> Columns] :
            /\ g[0] = <<>>
            /\ \A i \in 1..Len(turns) : g[i] = g[i - 1] \o TurnBlocks(turns[i], ToolsAt(tools, i))
            /\ SnapshotBlocks(turns, tools) = g[Len(turns)]
  BY SnapshotIs
<1>2. SnapshotBlocks(turns, tools) \in Columns /\ (turns = <<>> => SnapshotBlocks(turns, tools) = <<>>)
  BY <1>1
<1>3. ASSUME NEW t \in SavedTurns, NEW group \in SUBSET Pairs, Len(tools) = Len(turns)
      PROVE  SnapshotBlocks(Append(turns, t), Append(tools, group)) = SnapshotBlocks(turns, tools) \o TurnBlocks(t, group)
  <2> DEFINE longer == Append(turns, t)
             more == Append(tools, group)
             n == Len(turns)
  <2>1. longer \in Seq(SavedTurns) /\ Len(longer) = n + 1 /\ n \in Nat /\ longer[n + 1] = t
        /\ \A i \in 1..n : longer[i] = turns[i]
    OBVIOUS
  <2>2. more \in Seq(SUBSET Pairs) /\ Len(more) = n + 1 /\ more[n + 1] = group /\ \A i \in 1..n : more[i] = tools[i]
    BY <1>3
  <2>3. ToolsAt(more, n + 1) = group /\ \A i \in 1..n : ToolsAt(more, i) = ToolsAt(tools, i)
    <3> HIDE DEF more, n
    <3>1. n + 1 <= Len(more) /\ \A i \in 1..n : i <= Len(more) /\ i <= Len(tools)
      BY <1>3, <2>1, <2>2 DEF n
    <3> QED
      BY <2>2, <3>1 DEF ToolsAt
  <2> HIDE DEF more
  <2>4. PICK h \in [0..Len(longer) -> Columns] :
            /\ h[0] = <<>>
            /\ \A i \in 1..Len(longer) : h[i] = h[i - 1] \o TurnBlocks(longer[i], ToolsAt(more, i))
            /\ SnapshotBlocks(longer, more) = h[Len(longer)]
    BY <2>1, <2>2, SnapshotIs
  <2> HIDE DEF longer
  <2>5. h[0] = g[0] /\ \A i \in 1..n : h[i - 1] = g[i - 1] => h[i] = g[i]
    <3>1. h[0] = g[0]
      BY <1>1, <2>4
    <3>2. ASSUME NEW i \in 1..n, h[i - 1] = g[i - 1] PROVE h[i] = g[i]
      <4>1. i \in 1..Len(longer) /\ longer[i] = turns[i] /\ ToolsAt(more, i) = ToolsAt(tools, i)
        BY <2>1, <2>3
      <4>2. h[i] = h[i - 1] \o TurnBlocks(turns[i], ToolsAt(tools, i))
        BY <2>4, <4>1
      <4>3. g[i] = g[i - 1] \o TurnBlocks(turns[i], ToolsAt(tools, i))
        BY <1>1
      <4> QED
        BY <3>2, <4>2, <4>3
    <3> QED
      BY <3>1, <3>2
  <2>6. h[n] = g[n]
    <3> HIDE DEF n
    <3> QED
      BY <2>1, <2>5, RecursionAgrees
  <2>7. h[n + 1] = h[n] \o TurnBlocks(t, group)
    <3>1. n + 1 \in 1..Len(longer) /\ (n + 1) - 1 = n
      BY <2>1
    <3> HIDE DEF n
    <3> QED
      BY <2>1, <2>3, <2>4, <3>1
  <2>8. SnapshotBlocks(longer, more) = g[n] \o TurnBlocks(t, group)
    BY <2>1, <2>4, <2>6, <2>7
  <2> QED
    BY <1>1, <2>8 DEF longer, more
<1> QED
  BY <1>2, <1>3

-----------------------------------------------------------------------------
(*****************************************************************************)
(* An answer under way, event by event.                                      *)
(*****************************************************************************)
Answering(q, k, c, d) ==
    [who |-> "assistant", q |-> Nobody, text |-> Texts(q, k), calls |-> Called(q, c), done |-> Called(q, d),
     pending |-> TRUE]

\* The texts and the calls of so many rounds, and of one round more.
LEMMA TextFacts ==
  ASSUME NEW q \in Questions, NEW k \in 0..Rounds
  PROVE  /\ Texts(q, k) \in Seq(Pairs) /\ Len(Texts(q, k)) = k
         /\ Called(q, k) \in SUBSET Pairs
         /\ Texts(q, 0) = <<>> /\ Called(q, 0) = {}
         /\ k > 0 => /\ Texts(q, k) = Append(Texts(q, k - 1), <<q, k>>)
                     /\ Called(q, k) = Called(q, k - 1) \cup {<<q, k>>}
                     /\ Texts(q, k) # <<>> /\ Texts(q, k)[1] = <<q, 1>>
<1>1. Rounds \in Nat /\ k \in Nat
  BY ConversationAssumption
<1>2. Texts(q, k) \in Seq(Pairs) /\ Len(Texts(q, k)) = k
  <2>1. \A i \in 1..k : <<q, i>> \in Pairs
    BY <1>1 DEF Pairs
  <2> QED
    BY <1>1, <2>1 DEF Texts
<1>3. Called(q, k) \in SUBSET Pairs
  BY <1>1 DEF Called, Pairs
<1>4. Texts(q, 0) = <<>> /\ Called(q, 0) = {}
  BY DEF Texts, Called
<1>5. ASSUME k > 0
      PROVE  /\ Texts(q, k) = Append(Texts(q, k - 1), <<q, k>>)
             /\ Called(q, k) = Called(q, k - 1) \cup {<<q, k>>}
             /\ Texts(q, k) # <<>> /\ Texts(q, k)[1] = <<q, 1>>
  <2>1. Texts(q, k) = Append(Texts(q, k - 1), <<q, k>>)
    <3> DEFINE a == Texts(q, k - 1)
               x == <<q, k>>
    <3>1. a \in Seq(Pairs) /\ Len(a) = k - 1 /\ x \in Pairs
      <4>1. \A i \in 1..(k - 1) : <<q, i>> \in Pairs
        BY <1>1, <1>5 DEF Pairs
      <4> QED
        BY <1>1, <1>5, <4>1 DEF Texts, Pairs
    <3>2. \A i \in 1..(k - 1) : a[i] = <<q, i>>
      BY DEF Texts
    <3>3. \A i \in 1..k : Texts(q, k)[i] = <<q, i>>
      BY DEF Texts
    <3>4. ASSUME NEW i \in 1..k PROVE Append(a, x)[i] = Texts(q, k)[i]
      <4>1. CASE i = k
        <5>1. Append(a, x)[Len(a) + 1] = x
          BY <3>1
        <5> QED
          BY <1>1, <3>1, <3>3, <4>1, <5>1
      <4>2. CASE i # k
        <5>1. i \in 1..(k - 1) /\ i \in 1..Len(a)
          BY <1>1, <3>1, <4>2
        <5>2. Append(a, x)[i] = a[i]
          BY <3>1, <5>1
        <5> QED
          BY <3>2, <3>3, <5>1, <5>2
      <4> QED
        BY <4>1, <4>2
    <3>5. Append(a, x) \in Seq(Pairs) /\ Len(Append(a, x)) = k
      BY <1>1, <3>1
    <3> HIDE DEF a, x
    <3>6. PICK t \in Seq(Pairs) : t = Texts(q, k) /\ Len(t) = k
      BY <1>2
    <3>7. t = Append(a, x)
      BY <3>4, <3>5, <3>6
    <3> QED
      BY <3>6, <3>7 DEF a, x
  <2>2. Called(q, k) = Called(q, k - 1) \cup {<<q, k>>}
    <3>1. \A i : i \in 1..k <=> i \in 1..(k - 1) \/ i = k
      BY <1>1, <1>5
    <3> QED
      BY <3>1 DEF Called
  <2>3. Texts(q, k)[1] = <<q, 1>>
    BY <1>1, <1>5 DEF Texts
  <2> QED
    BY <1>1, <1>2, <1>5, <2>1, <2>2, <2>3
<1> QED
  BY <1>2, <1>3, <1>4, <1>5

\* An answer under way is a block.
LEMMA AnsweringFacts ==
  ASSUME NEW q \in Questions, NEW k \in 0..Rounds, NEW c \in 0..Rounds, NEW d \in 0..Rounds
  PROVE  /\ Answering(q, k, c, d) \in Blocks
         /\ Answering(q, 0, 0, 0) = AnswerBubble
<1>1. Texts(q, k) \in Seq(Pairs) /\ Called(q, c) \in SUBSET Pairs /\ Called(q, d) \in SUBSET Pairs
      /\ Texts(q, 0) = <<>> /\ Called(q, 0) = {}
  BY TextFacts
<1>2. Nobody \in Asked
  BY DEF Asked
<1> QED
  BY <1>1, <1>2 DEF Answering, Blocks, AnswerBubble

\* What a progress shows of its turn is an answer under way.
LEMMA PartialFacts ==
  ASSUME NEW p \in Progress
  PROVE  /\ Partial(p) \in Blocks /\ Partial(p).who = "assistant" /\ Partial(p).pending
         /\ p.q = Nobody => Partial(p) = AnswerBubble
         /\ \A q \in Questions : p.q = {q} => Partial(p) = Answering(q, p.k, p.c, p.d)
<1>1. Partial(p) = [who |-> "assistant", q |-> Nobody, text |-> [i \in 1..p.k |-> <<CHOOSE q \in p.q : TRUE, i>>],
                    calls |-> UNION {Called(q, p.c) : q \in p.q}, done |-> UNION {Called(q, p.d) : q \in p.q},
                    pending |-> TRUE]
  <2>1. PICK b : b = AnswerBubble
    OBVIOUS
  <2>2. b = [who |-> "assistant", q |-> Nobody, text |-> <<>>, calls |-> {}, done |-> {}, pending |-> TRUE]
    BY <2>1 DEF AnswerBubble
  <2>3. Partial(p) = [b EXCEPT !.text = [i \in 1..p.k |-> <<CHOOSE q \in p.q : TRUE, i>>],
                               !.calls = UNION {Called(q, p.c) : q \in p.q},
                               !.done = UNION {Called(q, p.d) : q \in p.q}]
    BY <2>1 DEF Partial
  <2> QED
    BY <2>2, <2>3
<1>2. p.k \in 0..Rounds /\ p.c \in 0..Rounds /\ p.d \in 0..Rounds /\ p.q \in Asked
      /\ (p.q = Nobody => p.k = 0)
  BY DEF Progress, Between
<1>3. ASSUME p.q = Nobody PROVE Partial(p) = AnswerBubble
  <2>1. UNION {Called(q, p.c) : q \in p.q} = {} /\ UNION {Called(q, p.d) : q \in p.q} = {}
    BY <1>3 DEF Nobody
  <2>2. [i \in 1..p.k |-> <<CHOOSE q \in p.q : TRUE, i>>] = <<>>
    BY <1>2, <1>3
  <2> QED
    BY <1>1, <2>1, <2>2 DEF AnswerBubble
<1>4. ASSUME NEW q \in Questions, p.q = {q} PROVE Partial(p) = Answering(q, p.k, p.c, p.d)
  <2>1. UNION {Called(r, p.c) : r \in p.q} = Called(q, p.c) /\ UNION {Called(r, p.d) : r \in p.q} = Called(q, p.d)
    BY <1>4
  <2>2. (CHOOSE r \in p.q : TRUE) = q
    BY <1>4
  <2>3. [i \in 1..p.k |-> <<CHOOSE r \in p.q : TRUE, i>>] = Texts(q, p.k)
    BY <2>2 DEF Texts
  <2> QED
    BY <1>1, <2>1, <2>3 DEF Answering
<1>5. Partial(p) \in Blocks
  <2>1. CASE p.q = Nobody
    BY <1>3, <2>1, BubbleTypes
  <2>2. CASE p.q # Nobody
    <3>1. PICK q \in Questions : p.q = {q}
      BY <1>2, <2>2 DEF Asked
    <3> QED
      BY <1>2, <1>4, <3>1, AnsweringFacts
  <2> QED
    BY <2>1, <2>2
<1> QED
  BY <1>1, <1>3, <1>4, <1>5

\* A block with a part of it exchanged, part by part.
LEMMA WithText ==
  ASSUME NEW b \in Blocks, NEW x
  PROVE  [b EXCEPT !.text = x] = [who |-> b.who, q |-> b.q, text |-> x, calls |-> b.calls, done |-> b.done,
                                  pending |-> b.pending]
BY DEF Blocks
\* A block with other calls.
LEMMA WithCalls ==
  ASSUME NEW b \in Blocks, NEW x
  PROVE  [b EXCEPT !.calls = x] = [who |-> b.who, q |-> b.q, text |-> b.text, calls |-> x, done |-> b.done,
                                   pending |-> b.pending]
BY DEF Blocks
\* A block that is finished.
LEMMA WithPending ==
  ASSUME NEW b \in Blocks, NEW x
  PROVE  [b EXCEPT !.pending = x] = [who |-> b.who, q |-> b.q, text |-> b.text, calls |-> b.calls, done |-> b.done,
                                     pending |-> x]
BY DEF Blocks
\* A block with another call returned.
LEMMA WithReturn ==
  ASSUME NEW b \in Blocks, NEW x \in SUBSET Pairs, NEW y
  PROVE  [b EXCEPT !.calls = x, !.done = y] = [who |-> b.who, q |-> b.q, text |-> b.text, calls |-> x, done |-> y,
                                               pending |-> b.pending]
<1>1. PICK c : c = [b EXCEPT !.calls = x]
  OBVIOUS
<1>2. c \in Blocks
  BY <1>1 DEF Blocks
<1>3. [c EXCEPT !.done = y] = [who |-> c.who, q |-> c.q, text |-> c.text, calls |-> c.calls, done |-> y,
                               pending |-> c.pending]
  BY <1>2 DEF Blocks
<1>4. [b EXCEPT !.calls = x, !.done = y] = [c EXCEPT !.done = y]
  BY <1>1
<1>5. c.who = b.who /\ c.q = b.q /\ c.text = b.text /\ c.calls = x /\ c.pending = b.pending
  BY <1>1, WithCalls
<1> QED
  BY <1>3, <1>4, <1>5

Answered(q, k, c, d) ==
    [who |-> "assistant", q |-> Nobody, text |-> Texts(q, k), calls |-> Called(q, c), done |-> Called(q, d),
     pending |-> FALSE]

\* The last of the blocks, and those before it.
LEMMA AppendEnds ==
  ASSUME NEW s \in Columns, NEW b \in Blocks
  PROVE  Front(Append(s, b)) = s /\ Last(Append(s, b)) = b /\ Append(s, b) # <<>>
BY DEF Front, Last, Columns

\* The last block of a view that is an answer under way, and what replaces it.
LEMMA EditLast ==
  ASSUME NEW v \in Views, NEW s \in Columns, NEW b \in Blocks, v.blocks = Append(s, b), b.who = "assistant"
  PROVE  /\ v.blocks # <<>> /\ Last(v.blocks) = b /\ LastAnswers(v)
         /\ \A a : EditAssistant(v, a) = [blocks |-> Append(s, a), running |-> v.running]
<1>1. Front(Append(s, b)) = s /\ Last(Append(s, b)) = b /\ Append(s, b) # <<>>
  BY AppendEnds
<1>2. LastAnswers(v)
  BY <1>1 DEF LastAnswers
<1>3. ASSUME NEW a PROVE EditAssistant(v, a) = [blocks |-> Append(s, a), running |-> v.running]
  <2>1. EditAssistant(v, a) = [v EXCEPT !.blocks = Append(s, a)]
    BY <1>1, <1>2 DEF EditAssistant
  <2> QED
    BY <2>1, WithBlocks
<1> QED
  BY <1>1, <1>2, <1>3

\* The fields of an answer under way.
LEMMA AnswerParts ==
  ASSUME NEW q, NEW k, NEW c, NEW d, NEW b, b = Answering(q, k, c, d)
  PROVE  b.who = "assistant" /\ b.q = Nobody /\ b.text = Texts(q, k) /\ b.calls = Called(q, c)
         /\ b.done = Called(q, d) /\ b.pending
BY DEF Answering

\* What an event does to a view whose last block is the answer under way.
LEMMA ApplyStart ==
  ASSUME NEW v \in Views, NEW s \in Columns, NEW b \in Blocks, v.blocks = Append(s, b),
         b.who = "assistant", b.pending, NEW e \in Emissions, e.kind = "start"
  PROVE  ApplyEvent(v, e) = v
BY EditLast DEF ApplyEvent, OpenAssistant

\* A text adds to the answer under way.
LEMMA ApplyText ==
  ASSUME NEW v \in Views, NEW s \in Columns, NEW e \in Emissions, e.kind = "text", e.n \in 1..Rounds,
         NEW c \in 0..Rounds, NEW d \in 0..Rounds, v.blocks = Append(s, Answering(e.q, e.n - 1, c, d))
  PROVE  ApplyEvent(v, e) = [blocks |-> Append(s, Answering(e.q, e.n, c, d)), running |-> v.running]
<1>0. e.q \in Questions /\ e.n - 1 \in 0..Rounds /\ e.n \in 0..Rounds /\ e.n > 0
  BY ConversationAssumption DEF Emissions
<1>1. PICK b \in Blocks : b = Answering(e.q, e.n - 1, c, d)
  BY <1>0, AnsweringFacts
<1>2. PICK x : x = Append(b.text, <<e.q, e.n>>)
  OBVIOUS
<1>3. x = Texts(e.q, e.n)
  <2>1. b.text = Texts(e.q, e.n - 1)
    BY <1>1 DEF Answering
  <2>2. Texts(e.q, e.n) = Append(Texts(e.q, e.n - 1), <<e.q, e.n>>)
    BY <1>0, TextFacts
  <2> QED
    BY <1>2, <2>1, <2>2
<1>4. [b EXCEPT !.text = x] = Answering(e.q, e.n, c, d)
  <2>1. [b EXCEPT !.text = x] = [who |-> b.who, q |-> b.q, text |-> x, calls |-> b.calls, done |-> b.done,
                                 pending |-> b.pending]
    BY WithText
  <2>2. b.who = "assistant" /\ b.q = Nobody /\ b.calls = Called(e.q, c) /\ b.done = Called(e.q, d) /\ b.pending = TRUE
    BY <1>1 DEF Answering
  <2> QED
    BY <1>3, <2>1, <2>2 DEF Answering
<1>5. v.blocks # <<>> /\ Last(v.blocks) = b
      /\ \A a : EditAssistant(v, a) = [blocks |-> Append(s, a), running |-> v.running]
  <2>1. v.blocks = Append(s, b) /\ b.who = "assistant"
    BY <1>1 DEF Answering
  <2> QED
    BY <2>1, EditLast
<1>6. ApplyEvent(v, e) = EditAssistant(v, [b EXCEPT !.text = x])
  BY <1>2, <1>5 DEF ApplyEvent
<1> QED
  BY <1>4, <1>5, <1>6

\* A call adds to the answer under way.
LEMMA ApplyCall ==
  ASSUME NEW v \in Views, NEW s \in Columns, NEW e \in Emissions, e.kind = "call", e.n \in 1..Rounds,
         NEW k \in 0..Rounds, NEW d \in 0..Rounds, v.blocks = Append(s, Answering(e.q, k, e.n - 1, d))
  PROVE  ApplyEvent(v, e) = [blocks |-> Append(s, Answering(e.q, k, e.n, d)), running |-> v.running]
<1>0. e.q \in Questions /\ e.n - 1 \in 0..Rounds /\ e.n \in 0..Rounds /\ e.n > 0
  BY ConversationAssumption DEF Emissions
<1>1. PICK b \in Blocks : b = Answering(e.q, k, e.n - 1, d)
  BY <1>0, AnsweringFacts
<1>2. PICK x : x = b.calls \cup {<<e.q, e.n>>}
  OBVIOUS
<1>3. x = Called(e.q, e.n)
  BY <1>0, <1>1, <1>2, AnswerParts, TextFacts
<1>4. [b EXCEPT !.calls = x] = Answering(e.q, k, e.n, d)
  <2>1. [b EXCEPT !.calls = x] = [who |-> b.who, q |-> b.q, text |-> b.text, calls |-> x, done |-> b.done,
                                  pending |-> b.pending]
    BY WithCalls
  <2>2. b.who = "assistant" /\ b.q = Nobody /\ b.text = Texts(e.q, k) /\ b.done = Called(e.q, d) /\ b.pending = TRUE
    BY <1>1 DEF Answering
  <2> QED
    BY <1>3, <2>1, <2>2 DEF Answering
<1>5. v.blocks # <<>> /\ Last(v.blocks) = b
      /\ \A a : EditAssistant(v, a) = [blocks |-> Append(s, a), running |-> v.running]
  <2>1. v.blocks = Append(s, b) /\ b.who = "assistant"
    BY <1>1 DEF Answering
  <2> QED
    BY <2>1, EditLast
<1>6. ApplyEvent(v, e) = EditAssistant(v, [b EXCEPT !.calls = x])
  BY <1>2, <1>5 DEF ApplyEvent
<1> QED
  BY <1>4, <1>5, <1>6

\* A return adds to the answer under way.
LEMMA ApplyReturn ==
  ASSUME NEW v \in Views, NEW s \in Columns, NEW e \in Emissions, e.kind = "return", e.n \in 1..Rounds,
         NEW k \in 0..Rounds, v.blocks = Append(s, Answering(e.q, k, e.n, e.n - 1))
  PROVE  ApplyEvent(v, e) = [blocks |-> Append(s, Answering(e.q, k, e.n, e.n)), running |-> v.running]
<1>0. e.q \in Questions /\ e.n - 1 \in 0..Rounds /\ e.n \in 0..Rounds /\ e.n > 0
  BY ConversationAssumption DEF Emissions
<1>1. PICK b \in Blocks : b = Answering(e.q, k, e.n, e.n - 1)
  BY <1>0, AnsweringFacts
<1>2. PICK x, y : x = b.calls \cup {<<e.q, e.n>>} /\ y = b.done \cup {<<e.q, e.n>>}
  OBVIOUS
<1>3. x = Called(e.q, e.n) /\ y = Called(e.q, e.n) /\ x \in SUBSET Pairs
  BY <1>0, <1>1, <1>2, AnswerParts, TextFacts
<1>4. [b EXCEPT !.calls = x, !.done = y] = Answering(e.q, k, e.n, e.n)
  <2>1. [b EXCEPT !.calls = x, !.done = y] = [who |-> b.who, q |-> b.q, text |-> b.text, calls |-> x, done |-> y,
                                              pending |-> b.pending]
    BY <1>3, WithReturn
  <2>2. b.who = "assistant" /\ b.q = Nobody /\ b.text = Texts(e.q, k) /\ b.pending = TRUE
    BY <1>1 DEF Answering
  <2> QED
    BY <1>3, <2>1, <2>2 DEF Answering
<1>5. v.blocks # <<>> /\ Last(v.blocks) = b
      /\ \A a : EditAssistant(v, a) = [blocks |-> Append(s, a), running |-> v.running]
  <2>1. v.blocks = Append(s, b) /\ b.who = "assistant"
    BY <1>1 DEF Answering
  <2> QED
    BY <2>1, EditLast
<1>6. ApplyEvent(v, e) = EditAssistant(v, [b EXCEPT !.calls = x, !.done = y])
  BY <1>2, <1>5 DEF ApplyEvent
<1> QED
  BY <1>4, <1>5, <1>6

\* The end of a turn finishes the answer under way, and the waiting.
LEMMA ApplyEnd ==
  ASSUME NEW v \in Views, NEW s \in Columns, NEW e \in Emissions, e.kind = "end", NEW q \in Questions,
         NEW k \in 0..Rounds, NEW c \in 0..Rounds, NEW d \in 0..Rounds, v.blocks = Append(s, Answering(q, k, c, d))
  PROVE  ApplyEvent(v, e) = [blocks |-> Append(s, Answered(q, k, c, d)), running |-> FALSE]
<1>1. PICK b \in Blocks : b = Answering(q, k, c, d)
  BY AnsweringFacts
<1>2. PICK y : y = FALSE
  OBVIOUS
<1>3. PICK a : a = [b EXCEPT !.pending = y]
  OBVIOUS
<1>4. a = Answered(q, k, c, d)
  <2>1. a = [who |-> b.who, q |-> b.q, text |-> b.text, calls |-> b.calls, done |-> b.done, pending |-> y]
    BY <1>3, WithPending
  <2>2. b.who = "assistant" /\ b.q = Nobody /\ b.text = Texts(q, k) /\ b.calls = Called(q, c) /\ b.done = Called(q, d)
    BY <1>1 DEF Answering
  <2> QED
    BY <1>2, <2>1, <2>2 DEF Answered
<1>5. a \in Blocks
  BY <1>2, <1>3 DEF Blocks
<1>6. v.blocks # <<>> /\ Last(v.blocks) = b
      /\ \A x : EditAssistant(v, x) = [blocks |-> Append(s, x), running |-> v.running]
  <2>1. v.blocks = Append(s, b) /\ b.who = "assistant"
    BY <1>1 DEF Answering
  <2> QED
    BY <2>1, EditLast
<1>7. PICK w \in Views : w = EditAssistant(v, a)
  BY <1>5, PushTypes
<1>8. ApplyEvent(v, e) = [w EXCEPT !.running = FALSE]
  BY <1>2, <1>3, <1>6, <1>7 DEF ApplyEvent
<1>9. [w EXCEPT !.running = FALSE] = [blocks |-> w.blocks, running |-> FALSE]
  BY WithRunning
<1>10. w.blocks = Append(s, a)
  BY <1>6, <1>7
<1> QED
  BY <1>4, <1>8, <1>9, <1>10

-----------------------------------------------------------------------------
(*****************************************************************************)
(* Places and progress.                                                      *)
(*****************************************************************************)
LEMMA PlaceFacts ==
  ASSUME ChatShapes, NEW q
  PROVE  /\ Place(q) \in 1..(Len(saved) + 1) /\ Len(saved) \in Nat
         /\ IsSaved(q) => Place(q) \in 1..Len(saved) /\ saved[Place(q)].q = {q}
         /\ ~IsSaved(q) => Place(q) = Len(saved) + 1
<1>1. Len(saved) \in Nat
  BY DEF ChatShapes
<1>2. ASSUME IsSaved(q) PROVE Place(q) \in 1..Len(saved) /\ saved[Place(q)].q = {q}
  <2>1. \E i \in 1..Len(saved) : saved[i].q = {q}
    BY <1>2 DEF IsSaved
  <2>2. Place(q) = CHOOSE i \in 1..Len(saved) : saved[i].q = {q}
    BY <1>2 DEF Place
  <2> QED
    BY <2>1, <2>2, Zenon
<1>3. ~IsSaved(q) => Place(q) = Len(saved) + 1
  BY DEF Place
<1> QED
  BY <1>1, <1>2, <1>3

\* A question has one place in the file.
LEMMA PlaceUnique ==
  ASSUME ChatShapes, EachOnce, NEW q, NEW i \in 1..Len(saved), saved[i].q = {q}
  PROVE  IsSaved(q) /\ Place(q) = i
<1>1. IsSaved(q)
  BY DEF IsSaved
<1>2. Place(q) \in 1..Len(saved) /\ saved[Place(q)].q = {q}
  BY <1>1, PlaceFacts
<1> QED
  BY <1>1, <1>2 DEF EachOnce

\* Between two turns nothing of an answer is shown.
LEMMA BetweenFacts ==
  ASSUME NEW m \in Nat
  PROVE  Between(m) \in Progress /\ Between(m).m = m /\ Between(m).q = Nobody
         /\ Partial(Between(m)) = AnswerBubble
<1>1. 0 \in 0..Rounds /\ Nobody \in Asked
  BY ConversationAssumption DEF Asked
<1>2. Between(m) \in Progress /\ Between(m).m = m /\ Between(m).q = Nobody
  BY <1>1 DEF Between, Progress
<1> QED
  BY <1>2, PartialFacts

\* Within a turn its answer is under way.
LEMMA WithinFacts ==
  ASSUME ChatShapes, NEW q \in Questions, NEW k \in 0..Rounds, NEW c \in 0..Rounds, NEW d \in 0..Rounds
  PROVE  LET p == Within(q, k, c, d)
         IN /\ p \in Progress /\ p.m = Place(q) - 1 /\ p.q = {q} /\ p.k = k /\ p.c = c /\ p.d = d
            /\ Partial(p) = Answering(q, k, c, d)
<1>1. Place(q) - 1 \in Nat
  BY PlaceFacts
<1>2. {q} \in Asked /\ {q} # Nobody
  BY DEF Asked, Nobody
<1> DEFINE p == Within(q, k, c, d)
<1>3. p \in Progress /\ p.m = Place(q) - 1 /\ p.q = {q} /\ p.k = k /\ p.c = c /\ p.d = d
  BY <1>1, <1>2 DEF Within, Progress
<1> HIDE DEF p
<1>4. Partial(p) = Answering(q, k, c, d)
  BY <1>3, PartialFacts
<1> QED
  BY <1>3, <1>4 DEF p

\* What is seen after an event is a progress.
LEMMA EventParts ==
  ASSUME ChatShapes, NEW e \in Emissions, EventIs(e)
  PROVE  /\ e.q \in Questions /\ e.n \in 0..Rounds /\ e.kind \in {"start", "text", "call", "return", "end"}
         /\ e.kind \in {"text", "call", "return"} => e.n \in 1..Rounds /\ e.n - 1 \in 0..Rounds
         /\ After(e) \in Progress
         /\ e.kind # "end" => After(e).q = {e.q} /\ After(e).m = Place(e.q) - 1
         /\ e.kind = "end" => After(e) = Between(Place(e.q)) /\ After(e).q = Nobody /\ After(e).m = Place(e.q)
<1>1. e.q \in Questions /\ e.n \in 0..Rounds /\ e.kind \in {"start", "text", "call", "return", "end"}
  BY DEF Emissions
<1>2. e.kind \in {"text", "call", "return"} => e.n \in 1..Rounds /\ e.n - 1 \in 0..Rounds
  BY ConversationAssumption DEF EventIs
<1>3. 0 \in 0..Rounds /\ Place(e.q) \in Nat
  BY ConversationAssumption, PlaceFacts
<1>4. ASSUME e.kind = "end"
      PROVE  After(e) = Between(Place(e.q)) /\ After(e) \in Progress /\ After(e).q = Nobody /\ After(e).m = Place(e.q)
  <2>1. After(e) = Between(Place(e.q))
    BY <1>4 DEF After
  <2> QED
    BY <1>3, <2>1, BetweenFacts
<1>5. ASSUME e.kind # "end"
      PROVE  After(e) \in Progress /\ After(e).q = {e.q} /\ After(e).m = Place(e.q) - 1
  <2>1. \E k, c, d \in 0..Rounds : After(e) = Within(e.q, k, c, d)
    <3>1. CASE e.kind = "start"
      BY <1>3, <3>1 DEF After
    <3>2. CASE e.kind = "text"
      BY <1>1, <1>2, <3>2 DEF After
    <3>3. CASE e.kind = "call"
      BY <1>1, <1>2, <3>3 DEF After
    <3>4. CASE e.kind = "return"
      BY <1>1, <1>2, <3>4 DEF After
    <3> QED
      BY <1>1, <1>5, <3>1, <3>2, <3>3, <3>4
  <2>2. PICK k, c, d \in 0..Rounds : After(e) = Within(e.q, k, c, d)
    BY <2>1
  <2> QED
    BY <1>1, <2>2, WithinFacts
<1> QED
  BY <1>1, <1>2, <1>4, <1>5

-----------------------------------------------------------------------------
(*****************************************************************************)
(* The fold keeps a view up with the events.                                 *)
(*****************************************************************************)
LEMMA StartFold ==
  ASSUME NEW v \in Views, NEW e \in Emissions, e.kind = "start", Closed(v)
  PROVE  ApplyEvent(v, e) = [blocks |-> Append(v.blocks, AnswerBubble), running |-> v.running]
<1>1. ApplyEvent(v, e) = [v EXCEPT !.blocks = Append(v.blocks, AnswerBubble)]
  BY DEF ApplyEvent, OpenAssistant, Closed
<1> QED
  BY <1>1, WithBlocks

\* An event that comes within a turn, before its end, to a view that ends in its answer.
LEMMA AnswerFold ==
  ASSUME ChatShapes, NEW v \in Views, NEW s \in Columns, NEW e \in Emissions, EventIs(e),
         e.kind \in {"text", "call", "return"}, NEW p \in Progress, Leads(p, e), v.blocks = Append(s, Partial(p))
  PROVE  /\ ApplyEvent(v, e) = [blocks |-> Append(s, Partial(After(e))), running |-> v.running]
         /\ p.m = After(e).m /\ p.q = {e.q} /\ After(e).q = {e.q}
<1>1. e.q \in Questions /\ e.n \in 0..Rounds /\ e.n \in 1..Rounds /\ e.n - 1 \in 0..Rounds
  BY EventParts
<1>2. CASE e.kind = "text"
  <2>1. p = Within(e.q, e.n - 1, e.n - 1, e.n - 1) /\ After(e) = Within(e.q, e.n, e.n - 1, e.n - 1)
    BY <1>2 DEF Leads, After
  <2>2. Partial(p) = Answering(e.q, e.n - 1, e.n - 1, e.n - 1) /\ Partial(After(e)) = Answering(e.q, e.n, e.n - 1, e.n - 1)
        /\ p.m = After(e).m /\ p.q = {e.q} /\ After(e).q = {e.q}
    BY <1>1, <2>1, WithinFacts
  <2> QED
    BY <1>1, <1>2, <2>2, ApplyText
<1>3. CASE e.kind = "call"
  <2>1. p = Within(e.q, e.n, e.n - 1, e.n - 1) /\ After(e) = Within(e.q, e.n, e.n, e.n - 1)
    BY <1>3 DEF Leads, After
  <2>2. Partial(p) = Answering(e.q, e.n, e.n - 1, e.n - 1) /\ Partial(After(e)) = Answering(e.q, e.n, e.n, e.n - 1)
        /\ p.m = After(e).m /\ p.q = {e.q} /\ After(e).q = {e.q}
    BY <1>1, <2>1, WithinFacts
  <2> QED
    BY <1>1, <1>3, <2>2, ApplyCall
<1>4. CASE e.kind = "return"
  <2>1. p = Within(e.q, e.n, e.n, e.n - 1) /\ After(e) = Within(e.q, e.n, e.n, e.n)
    BY <1>4 DEF Leads, After
  <2>2. Partial(p) = Answering(e.q, e.n, e.n, e.n - 1) /\ Partial(After(e)) = Answering(e.q, e.n, e.n, e.n)
        /\ p.m = After(e).m /\ p.q = {e.q} /\ After(e).q = {e.q}
    BY <1>1, <2>1, WithinFacts
  <2> QED
    BY <1>1, <1>4, <2>2, ApplyReturn
<1> QED
  BY <1>2, <1>3, <1>4

-----------------------------------------------------------------------------
(*****************************************************************************)
(* The blocks of a file, and of a turn that has ended.                       *)
(*****************************************************************************)
Still(s) == \A i \in 1..Len(s) : ~s[i].pending

\* A finished block below finished ones.
LEMMA StillAppends ==
  ASSUME NEW s \in Columns, NEW b \in Blocks, Still(s), ~b.pending
  PROVE  Append(s, b) \in Columns /\ Still(Append(s, b))
BY DEF Columns, Still

\* Blocks put below others one at a time.
LEMMA Joined ==
  ASSUME NEW s \in Columns, NEW a \in Blocks, NEW b \in Blocks
  PROVE  s \o <<a>> = Append(s, a) /\ s \o Append(<<a>>, b) = Append(Append(s, a), b)
BY DEF Columns

\* A saved turn put below other blocks.
LEMMA TurnAppended ==
  ASSUME NEW s \in Columns, NEW t \in SavedTurns, NEW group \in SUBSET Pairs
  PROVE  s \o TurnBlocks(t, group) =
            IF t.answered THEN Append(Append(s, Bubble(t.q)), AnswerOf(t, group)) ELSE Append(s, Bubble(t.q))
<1>1. PICK a \in Blocks, b \in Blocks : a = Bubble(t.q) /\ b = AnswerOf(t, group)
  BY TurnParts
<1>2. t.answered \in BOOLEAN
  BY DEF SavedTurns
<1>3. CASE t.answered
  <2>1. TurnBlocks(t, group) = Append(<<a>>, b)
    BY <1>1, <1>3, TurnParts
  <2> QED
    BY <1>1, <1>3, <2>1, Joined
<1>4. CASE ~t.answered
  <2>1. TurnBlocks(t, group) = <<a>>
    BY <1>1, <1>4, TurnParts
  <2> QED
    BY <1>1, <1>4, <2>1, Joined
<1> QED
  BY <1>3, <1>4

\* A question is not an answer.
LEMMA BubbleFacts ==
  ASSUME NEW q \in Asked
  PROVE  Bubble(q) \in Blocks /\ ~Bubble(q).pending /\ \A C : Bubble(q) \notin Keepers(C)
<1>1. Bubble(q) \in Blocks
  BY BubbleTypes
<1>2. ~Bubble(q).pending /\ Bubble(q).who = "user"
  BY DEF Bubble
<1> QED
  BY <1>1, <1>2 DEF Keepers

\* A file shows nothing under way.
LEMMA SnapshotStill ==
  ASSUME NEW turns \in Seq(SavedTurns), NEW tools \in Seq(SUBSET Pairs)
  PROVE  SnapshotBlocks(turns, tools) \in Columns /\ Still(SnapshotBlocks(turns, tools))
<1> DEFINE n == Len(turns)
<1>1. PICK g \in [0..n -> Columns] :
            /\ g[0] = <<>>
            /\ \A i \in 1..n : g[i] = g[i - 1] \o TurnBlocks(turns[i], ToolsAt(tools, i))
            /\ SnapshotBlocks(turns, tools) = g[n]
  BY SnapshotIs
<1>0. n \in Nat
  OBVIOUS
<1> DEFINE T == {i \in Nat : i <= n => Still(g[i])}
<1>2. 0 \in T
  BY <1>1 DEF Still
<1>3. ASSUME NEW i \in Nat, i \in T PROVE i + 1 \in T
  <2> SUFFICES ASSUME i + 1 <= n PROVE Still(g[i + 1])
    OBVIOUS
  <2>1. i + 1 \in 1..n /\ (i + 1) - 1 = i /\ i \in 0..n /\ Still(g[i])
    BY <1>0, <1>3
  <2>2. PICK t \in SavedTurns : t = turns[i + 1]
    BY <2>1
  <2>3. PICK group \in SUBSET Pairs : group = ToolsAt(tools, i + 1)
    <3>1. ToolsAt(tools, i + 1) \in SUBSET Pairs
      <4>1. CASE i + 1 <= Len(tools)
        <5>1. i + 1 \in 1..Len(tools)
          BY <4>1
        <5> QED
          BY <4>1, <5>1 DEF ToolsAt
      <4>2. CASE ~(i + 1 <= Len(tools))
        BY <4>2 DEF ToolsAt
      <4> QED
        BY <4>1, <4>2
    <3> QED
      BY <3>1
  <2>4. PICK s \in Columns : s = g[i]
    BY <1>1, <2>1
  <2>5. g[i + 1] = s \o TurnBlocks(t, group)
    BY <1>1, <2>1, <2>2, <2>3, <2>4
  <2>6. t.q \in Asked
    BY DEF SavedTurns
  <2>7. Append(s, Bubble(t.q)) \in Columns /\ Still(Append(s, Bubble(t.q)))
    BY <2>1, <2>4, <2>6, BubbleFacts, StillAppends
  <2>8. AnswerOf(t, group) \in Blocks /\ ~AnswerOf(t, group).pending
    <3>1. AnswerOf(t, group) = [who |-> "assistant", q |-> Nobody, text |-> t.text, calls |-> group,
                                done |-> group, pending |-> FALSE] /\ AnswerOf(t, group) \in Blocks
      BY TurnParts
    <3> QED
      BY <3>1
  <2>9. Still(Append(Append(s, Bubble(t.q)), AnswerOf(t, group)))
    BY <2>7, <2>8, StillAppends
  <2> QED
    BY <2>5, <2>7, <2>9, TurnAppended
<1>4. n \in T
  <2> HIDE DEF T, n
  <2> QED
    BY <1>0, <1>2, <1>3, NatInductionInSets
<1> QED
  BY <1>0, <1>1, <1>4

\* One element more of a sequence's beginning.
LEMMA Longer ==
  ASSUME NEW S, NEW s \in Seq(S), NEW m \in Nat, m + 1 <= Len(s)
  PROVE  /\ SubSeq(s, 1, m) \in Seq(S) /\ Len(SubSeq(s, 1, m)) = m
         /\ SubSeq(s, 1, m + 1) = Append(SubSeq(s, 1, m), s[m + 1])
<1>1. \A i \in 1..(m + 1) : s[i] \in S
  OBVIOUS
<1>2. SubSeq(s, 1, m) \in Seq(S) /\ Len(SubSeq(s, 1, m)) = m /\ \A i \in 1..m : SubSeq(s, 1, m)[i] = s[i]
  BY <1>1, SubSeqProperties
<1>3. SubSeq(s, 1, m + 1) \in Seq(S) /\ Len(SubSeq(s, 1, m + 1)) = m + 1
      /\ \A i \in 1..(m + 1) : SubSeq(s, 1, m + 1)[i] = s[i]
  BY <1>1, SubSeqProperties
<1>4. PICK a \in Seq(S) : a = SubSeq(s, 1, m)
  BY <1>2
<1>5. PICK x \in S : x = s[m + 1]
  BY <1>1
<1>6. PICK b \in Seq(S) : b = SubSeq(s, 1, m + 1)
  BY <1>3
<1>7. Len(a) = m /\ Len(b) = m + 1 /\ b[m + 1] = x /\ \A i \in 1..m : a[i] = b[i]
  BY <1>2, <1>3, <1>4, <1>5, <1>6
<1>8. b = Append(a, x)
  BY <1>7
<1> QED
  BY <1>2, <1>4, <1>5, <1>6, <1>8

\* One turn more of a file's beginning.
LEMMA FileGrows ==
  ASSUME ChatShapes, GroupsHold, NEW m \in Nat, m + 1 <= Len(groups)
  PROVE  /\ saved[m + 1] \in SavedTurns /\ groups[m + 1] \in SUBSET Pairs /\ FileUpTo(m) \in Columns
         /\ FileUpTo(m + 1) = FileUpTo(m) \o TurnBlocks(saved[m + 1], groups[m + 1])
<1>1. saved \in Seq(SavedTurns) /\ groups \in Seq(SUBSET Pairs) /\ m + 1 <= Len(saved) /\ m + 1 <= Len(groups)
  BY DEF ChatShapes, GroupsHold
<1>2. PICK t \in SavedTurns, group \in SUBSET Pairs : t = saved[m + 1] /\ group = groups[m + 1]
  BY <1>1
<1>3. PICK a \in Seq(SavedTurns) : a = SubSeq(saved, 1, m) /\ Len(a) = m /\ SubSeq(saved, 1, m + 1) = Append(a, t)
  BY <1>1, <1>2, Longer
<1>4. PICK b \in Seq(SUBSET Pairs) : b = SubSeq(groups, 1, m) /\ Len(b) = m /\ SubSeq(groups, 1, m + 1) = Append(b, group)
  BY <1>1, <1>2, Longer
<1>5. SnapshotBlocks(Append(a, t), Append(b, group)) = SnapshotBlocks(a, b) \o TurnBlocks(t, group)
      /\ SnapshotBlocks(a, b) \in Columns
  BY <1>3, <1>4, SnapshotSteps
<1> QED
  BY <1>2, <1>3, <1>4, <1>5 DEF FileUpTo

\* A file that is whole.
LEMMA FileWhole ==
  ASSUME ChatShapes, Len(groups) = Len(saved)
  PROVE  FileUpTo(Len(saved)) = SnapshotBlocks(saved, groups)
<1>1. ASSUME NEW S, NEW s \in Seq(S) PROVE SubSeq(s, 1, Len(s)) = s
  OBVIOUS
<1>2. SubSeq(saved, 1, Len(saved)) = saved /\ SubSeq(groups, 1, Len(groups)) = groups
  BY <1>1 DEF ChatShapes
<1> QED
  BY <1>2 DEF FileUpTo

\* An answer with the first text of q is of a turn of C, if q is in C.
LEMMA LeftOut ==
  ASSUME NEW C, NEW q \in Questions, q \in C, NEW k \in 0..Rounds, NEW b \in Blocks, b.text = Texts(q, k)
  PROVE  b \notin Keepers(C)
<1>1. CASE k = 0
  BY <1>1, TextFacts DEF Keepers
<1>2. CASE k # 0
  <2>1. Texts(q, k)[1] = <<q, 1>> /\ Len(Texts(q, k)) = k /\ k \in Nat \ {0} /\ Rounds \in Nat /\ k <= Rounds
        /\ Texts(q, k) \in Seq(Pairs)
    <3>1. k > 0 /\ k \in Nat \ {0} /\ Rounds \in Nat /\ k <= Rounds
      BY <1>2, ConversationAssumption
    <3> QED
      BY <3>1, TextFacts
  <2>2. 1 \in DOMAIN b.text /\ 1 \in 1..Rounds /\ b.text[1] = <<q, 1>>
    BY <2>1
  <2>3. IsOf(b, C)
    BY <2>2 DEF IsOf
  <2> QED
    BY <2>3 DEF Keepers
<1> QED
  BY <1>1, <1>2

-----------------------------------------------------------------------------
\* A finished answer is a block.
LEMMA AnsweredFacts ==
  ASSUME NEW q \in Questions, NEW k \in 0..Rounds, NEW c \in 0..Rounds, NEW d \in 0..Rounds
  PROVE  Answered(q, k, c, d) \in Blocks /\ Answered(q, k, c, d).text = Texts(q, k) /\ ~Answered(q, k, c, d).pending
<1>1. Texts(q, k) \in Seq(Pairs) /\ Called(q, c) \in SUBSET Pairs /\ Called(q, d) \in SUBSET Pairs
  BY TextFacts
<1>2. Nobody \in Asked
  BY DEF Asked
<1> QED
  BY <1>1, <1>2 DEF Answered, Blocks

\* What is kept of the blocks of a turn, when the turn is in the file.
LEMMA KeptTurn ==
  ASSUME NEW C, NEW s \in Columns, NEW t \in SavedTurns, NEW group \in SUBSET Pairs
  PROVE  Kept(C, s \o TurnBlocks(t, group)) =
            IF t.answered /\ AnswerOf(t, group) \in Keepers(C) THEN Append(Kept(C, s), AnswerOf(t, group)) ELSE Kept(C, s)
<1>1. PICK a \in Blocks, b \in Blocks : a = Bubble(t.q) /\ b = AnswerOf(t, group)
  BY TurnParts
<1>2. t.q \in Asked /\ s \in Seq(Blocks)
  BY DEF SavedTurns, Columns
<1>3. a \notin Keepers(C)
  BY <1>1, <1>2, BubbleFacts
<1>4. PICK r \in Seq(Blocks) : r = Append(s, a)
  <2>1. Append(s, a) \in Seq(Blocks)
    BY <1>2
  <2> QED
    BY <2>1
<1>5. Kept(C, r) = Kept(C, s)
  BY <1>2, <1>3, <1>4, KeptSteps
<1>6. Kept(C, Append(r, b)) = IF b \in Keepers(C) THEN Append(Kept(C, r), b) ELSE Kept(C, r)
  BY KeptSteps
<1>7. s \o TurnBlocks(t, group) = IF t.answered THEN Append(r, b) ELSE r
  BY <1>1, <1>4, TurnAppended
<1> QED
  BY <1>1, <1>5, <1>6, <1>7

\* A view that fits a turn under way fits the file with that turn when the end comes.
LEMMA EndFold ==
  ASSUME ChatShapes, EachOnce, FileHolds, GroupsHold, NEW v \in Views, NEW p \in Progress, Fits(v, p),
         NEW e \in Emissions, EventIs(e), e.kind = "end", Leads(p, e), Place(e.q) <= Len(groups)
  PROVE  Fits(ApplyEvent(v, e), After(e))
<1> DEFINE q == e.q
           m == p.m
           k == p.k
           c == p.c
<1>1. /\ q \in Questions /\ IsSaved(q) /\ p = Within(q, k, c, c)
      /\ q \notin cut => saved[Place(q)].text = Texts(q, k) /\ k = c + 1
  BY DEF Leads, Emissions
<1>2. m \in Nat /\ k \in 0..Rounds /\ c \in 0..Rounds
  BY DEF Progress
<1>3. m + 1 = Place(q) /\ p.q = {q} /\ Partial(p) = Answering(q, k, c, c) /\ p.q # Nobody
  <2>1. p.m = Place(q) - 1 /\ p.q = {q} /\ Partial(p) = Answering(q, k, c, c)
    <3> HIDE DEF q, k, c
    <3> QED
      BY <1>1, <1>2, WithinFacts
  <2>2. Place(q) \in Nat
    BY PlaceFacts
  <2> QED
    BY <1>2, <2>1, <2>2 DEF Nobody
<1>4. PICK s \in Columns : ShowsTurns(s, m) /\ v.blocks = Append(s, Partial(p))
  BY <1>3 DEF Fits, Columns
<1>5. PICK b \in Blocks : b = Answered(q, k, c, c) /\ b.text = Texts(q, k) /\ ~b.pending
  BY <1>1, <1>2, AnsweredFacts
<1>6. ApplyEvent(v, e) = [blocks |-> Append(s, b), running |-> FALSE]
  BY <1>1, <1>2, <1>3, <1>4, <1>5, ApplyEnd
<1>7. PICK t \in SavedTurns, group \in SUBSET Pairs : t = saved[Place(q)] /\ group = groups[Place(q)]
  BY <1>2, <1>3, FileGrows
<1>8. FileUpTo(Place(q)) = FileUpTo(m) \o TurnBlocks(t, group) /\ FileUpTo(m) \in Columns
  BY <1>2, <1>3, <1>7, FileGrows
<1>9. Place(q) \in 1..Len(saved) /\ t.q = {q} /\ Place(q) \in 1..Len(groups)
  BY <1>1, <1>2, <1>3, <1>7, PlaceFacts DEF ChatShapes
<1>10. PICK kk \in 0..Rounds : t.text = Texts(q, kk) /\ (t.answered <=> kk > 0) /\ (q \notin cut => kk > 0)
  BY <1>7, <1>9 DEF FileHolds
<1>11. q \notin cut => group = Called(q, Len(t.text) - 1)
  BY <1>7, <1>9 DEF GroupsHold
<1> HIDE DEF q, m, k, c
<1>12. AnswerOf(t, group) \in Blocks /\ AnswerOf(t, group).text = t.text
       /\ AnswerOf(t, group) = [who |-> "assistant", q |-> Nobody, text |-> t.text, calls |-> group,
                                done |-> group, pending |-> FALSE]
  <2>1. AnswerOf(t, group) = [who |-> "assistant", q |-> Nobody, text |-> t.text, calls |-> group,
                              done |-> group, pending |-> FALSE] /\ AnswerOf(t, group) \in Blocks
    BY TurnParts
  <2> QED
    BY <2>1
<1>13. ASSUME q \notin cut PROVE t.answered /\ AnswerOf(t, group) = b
  <2>1. t.text = Texts(q, k) /\ k = c + 1 /\ t.answered
    BY <1>1, <1>7, <1>10, <1>13
  <2>2. Len(t.text) = k
    BY <1>1, <1>2, <2>1, TextFacts
  <2>3. group = Called(q, c)
    BY <1>2, <1>11, <1>13, <2>1, <2>2
  <2> QED
    BY <1>5, <1>12, <2>1, <2>3 DEF Answered
<1>14. ASSUME NEW C \in SUBSET Questions, cut \subseteq C
       PROVE  Kept(C, Append(s, b)) = Kept(C, FileUpTo(Place(q)))
  <2>1. Kept(C, s) = Kept(C, FileUpTo(m))
    BY <1>4, <1>14 DEF ShowsTurns
  <2>2. Kept(C, Append(s, b)) = IF b \in Keepers(C) THEN Append(Kept(C, s), b) ELSE Kept(C, s)
    <3>1. s \in Seq(Blocks)
      BY DEF Columns
    <3> QED
      BY <3>1, KeptSteps
  <2>3. PICK f \in Columns : f = FileUpTo(m)
    BY <1>8
  <2>4. Kept(C, f \o TurnBlocks(t, group)) =
            IF t.answered /\ AnswerOf(t, group) \in Keepers(C) THEN Append(Kept(C, f), AnswerOf(t, group)) ELSE Kept(C, f)
    BY KeptTurn
  <2>5. CASE q \in C
    <3>1. b \notin Keepers(C)
      BY <1>1, <1>2, <1>5, <2>5, LeftOut
    <3>2. AnswerOf(t, group) \notin Keepers(C)
      BY <1>1, <1>10, <1>12, <2>5, LeftOut
    <3> QED
      BY <1>8, <2>1, <2>2, <2>3, <2>4, <3>1, <3>2
  <2>6. CASE q \notin C
    <3>1. t.answered /\ AnswerOf(t, group) = b
      BY <1>13, <1>14, <2>6
    <3> QED
      BY <1>8, <2>1, <2>2, <2>3, <2>4, <3>1
  <2> QED
    BY <2>5, <2>6
<1>15. ShowsTurns(Append(s, b), Place(q)) /\ Append(s, b) \in Seq(Blocks)
  <2>1. Still(s)
    BY <1>4 DEF ShowsTurns, Still
  <2>2. Append(s, b) \in Columns /\ Still(Append(s, b))
    BY <1>5, <2>1, StillAppends
  <2>3. Place(q) <= Len(groups)
    BY DEF q
  <2> QED
    BY <1>14, <2>2, <2>3 DEF ShowsTurns, Still, Columns
<1>16. After(e).q = Nobody /\ After(e).m = Place(q)
  BY EventParts DEF q
<1>17. ApplyEvent(v, e).blocks = Append(s, b)
  BY <1>6
<1> QED
  BY <1>15, <1>16, <1>17 DEF Fits

\* A view that fits what an event comes at fits what is seen after it.
LEMMA FitsStep ==
  ASSUME ChatShapes, EachOnce, FileHolds, GroupsHold, NEW v \in Views, NEW p \in Progress, Fits(v, p),
         NEW e \in Emissions, EventIs(e), Leads(p, e), e.kind = "end" => Place(e.q) <= Len(groups)
  PROVE  Fits(ApplyEvent(v, e), After(e)) /\ After(e) \in Progress
<1>1. After(e) \in Progress /\ e.q \in Questions /\ e.kind \in {"start", "text", "call", "return", "end"}
  BY EventParts
<1>2. PICK s \in Columns : ShowsTurns(s, p.m) /\ (v.blocks = Append(s, Partial(p)) \/ (p.q = Nobody /\ v.blocks = s))
  BY DEF Fits, Columns
<1>3. CASE e.kind = "end"
  BY <1>1, <1>3, EndFold
<1>4. CASE e.kind = "start"
  <2>1. p = Between(Place(e.q) - 1) /\ After(e) = Within(e.q, 0, 0, 0)
    BY <1>4 DEF Leads, After
  <2>2. Place(e.q) - 1 \in Nat /\ 0 \in 0..Rounds
    BY PlaceFacts, ConversationAssumption
  <2>3. p.m = Place(e.q) - 1 /\ p.q = Nobody /\ Partial(p) = AnswerBubble
    BY <2>1, <2>2, BetweenFacts
  <2>4. After(e).m = Place(e.q) - 1 /\ Partial(After(e)) = Answering(e.q, 0, 0, 0)
    BY <1>1, <2>1, <2>2, WithinFacts
  <2>5. Partial(After(e)) = AnswerBubble
    BY <1>1, <2>2, <2>4, AnsweringFacts
  <2>6. ApplyEvent(v, e).blocks = Append(s, AnswerBubble)
    <3>1. CASE v.blocks = Append(s, Partial(p))
      <4>1. AnswerBubble \in Blocks /\ AnswerBubble.who = "assistant" /\ AnswerBubble.pending
        BY BubbleTypes DEF AnswerBubble
      <4>2. ApplyEvent(v, e) = v
        BY <1>4, <2>3, <3>1, <4>1, ApplyStart
      <4> QED
        BY <2>3, <3>1, <4>2
    <3>2. CASE v.blocks = s
      <4>1. Closed(v)
        <5>1. CASE s = <<>>
          BY <3>2, <5>1 DEF Closed, LastAnswers
        <5>2. CASE s # <<>>
          <6>1. Len(s) \in 1..Len(s) /\ Last(s) = s[Len(s)]
            BY <5>2 DEF Columns, Last
          <6>2. ~Last(s).pending
            BY <1>2, <6>1 DEF ShowsTurns
          <6> QED
            BY <3>2, <6>2 DEF Closed
        <5> QED
          BY <5>1, <5>2
      <4>2. ApplyEvent(v, e) = [blocks |-> Append(v.blocks, AnswerBubble), running |-> v.running]
        BY <1>4, <4>1, StartFold
      <4> QED
        BY <3>2, <4>2
    <3> QED
      BY <1>2, <3>1, <3>2
  <2> QED
    BY <1>1, <1>2, <2>3, <2>4, <2>5, <2>6 DEF Fits, Columns
<1>5. CASE e.kind \in {"text", "call", "return"}
  <2>1. p.q # Nobody
    <3>1. p.q = {e.q}
      <4>1. e.n \in 0..Rounds /\ e.n - 1 \in 0..Rounds
        BY <1>5, EventParts
      <4>2. \E k, c, d \in 0..Rounds : p = Within(e.q, k, c, d)
        BY <1>5, <4>1 DEF Leads
      <4> QED
        BY <1>1, <4>2, WithinFacts
    <3> QED
      BY <3>1 DEF Nobody
  <2>2. v.blocks = Append(s, Partial(p))
    BY <1>2, <2>1
  <2>3. /\ ApplyEvent(v, e) = [blocks |-> Append(s, Partial(After(e))), running |-> v.running]
        /\ p.m = After(e).m
    BY <1>5, <2>2, AnswerFold
  <2>4. ApplyEvent(v, e).blocks = Append(s, Partial(After(e)))
    BY <2>3
  <2> QED
    BY <1>1, <1>2, <2>3, <2>4 DEF Fits, Columns
<1> QED
  BY <1>1, <1>3, <1>4, <1>5

-----------------------------------------------------------------------------
(*****************************************************************************)
(* A snapshot that was read while nothing moved fits what the pump has       *)
(* observed.                                                                 *)
(*****************************************************************************)
LEMMA BlocksOf ==
  ASSUME NEW w, NEW s, NEW r, w = [blocks |-> s, running |-> r]
  PROVE  w.blocks = s
OBVIOUS

\* A view that ends in an answer under way opens no other.
LEMMA EndsInAnswer ==
  ASSUME NEW v \in Views, NEW s \in Columns, NEW b \in Blocks, v.blocks = Append(s, b),
         b.who = "assistant", b.pending
  PROVE  ~Closed(v) /\ OpenAssistant(v) = v
BY EditLast DEF Closed, OpenAssistant

\* Nothing under way, nothing open.
LEMMA StillCloses ==
  ASSUME NEW v \in Views, Still(v.blocks)
  PROVE  Closed(v)
<1>1. CASE v.blocks = <<>>
  BY <1>1 DEF Closed, LastAnswers
<1>2. CASE v.blocks # <<>>
  <2>1. Len(v.blocks) \in 1..Len(v.blocks) /\ Last(v.blocks) = v.blocks[Len(v.blocks)]
    BY <1>2, ViewParts DEF Last
  <2> QED
    BY <2>1 DEF Closed, Still
<1> QED
  BY <1>1, <1>2

\* A view with nothing open opens an answer at its end.
LEMMA OpensAnswer ==
  ASSUME NEW v \in Views, Closed(v)
  PROVE  OpenAssistant(v) = [blocks |-> Append(v.blocks, AnswerBubble), running |-> v.running]
<1>1. OpenAssistant(v) = [v EXCEPT !.blocks = Append(v.blocks, AnswerBubble)]
  BY DEF OpenAssistant, Closed
<1> QED
  BY <1>1, WithBlocks

\* The file with the input below it: nothing in it is under way, and what is kept is the file's.
LEMMA AskedBelow ==
  ASSUME ChatShapes, Len(groups) = Len(saved),
         NEW finished, finished = [blocks |-> SnapshotBlocks(saved, groups), running |-> FALSE],
         NEW asked, asked = IF flight.input = Nobody THEN finished ELSE PushUser(finished, flight.input)
  PROVE  finished \in Views /\ asked \in Views /\ ShowsTurns(finished.blocks, Len(saved))
         /\ ShowsTurns(asked.blocks, Len(saved)) /\ Still(asked.blocks)
         /\ Still(finished.blocks)
<1>1. saved \in Seq(SavedTurns) /\ groups \in Seq(SUBSET Pairs) /\ flight.input \in Asked /\ Len(saved) \in Nat
  BY DEF ChatShapes, Flights
<1>2. PICK s \in Columns : s = SnapshotBlocks(saved, groups) /\ Still(s)
  BY <1>1, SnapshotStill
<1>3. finished \in Views /\ finished.blocks = s /\ finished.running = FALSE
  BY <1>2, ViewMade DEF Columns
<1>4. FileUpTo(Len(saved)) = s
  BY <1>2, FileWhole
<1>5. ShowsTurns(s, Len(saved))
  BY <1>1, <1>2, <1>4 DEF ShowsTurns, Still
<1>6. CASE flight.input = Nobody
  BY <1>2, <1>3, <1>5, <1>6
<1>7. CASE flight.input # Nobody
  <2>1. PICK b \in Blocks : b = Bubble(flight.input)
    BY <1>1, BubbleFacts
  <2>2. ~b.pending /\ \A C : b \notin Keepers(C)
    BY <1>1, <2>1, BubbleFacts
  <2>3. asked = [finished EXCEPT !.blocks = Append(s, b)]
    BY <1>3, <1>7, <2>1 DEF PushUser
  <2>4. asked = [blocks |-> Append(s, b), running |-> FALSE]
    BY <1>3, <2>3, WithBlocks
  <2>5. Append(s, b) \in Columns /\ Still(Append(s, b))
    BY <1>2, <2>2, StillAppends
  <2>6. ASSUME NEW C \in SUBSET Questions, cut \subseteq C
        PROVE  Kept(C, Append(s, b)) = Kept(C, FileUpTo(Len(saved)))
    <3>1. s \in Seq(Blocks)
      BY DEF Columns
    <3> QED
      BY <1>4, <2>2, <3>1, KeptSteps
  <2>7. ShowsTurns(Append(s, b), Len(saved))
    BY <1>5, <2>5, <2>6 DEF ShowsTurns, Still
  <2>8. asked \in Views
    BY <2>4, <2>5, ViewMade DEF Columns
  <2>9. asked.blocks = Append(s, b)
    BY <2>4, BlocksOf
  <2>10. ShowsTurns(asked.blocks, Len(saved)) /\ Still(asked.blocks)
    BY <2>5, <2>7, <2>9
  <2>11. ShowsTurns(finished.blocks, Len(saved)) /\ Still(finished.blocks)
    BY <1>2, <1>3, <1>5
  <2> QED
    BY <1>3, <2>8, <2>9, <2>10, <2>11
<1> QED
  BY <1>6, <1>7

\* A seed of a file, its groups and the turn in flight fits what the pump has seen, and waits for
\* nothing but that turn.
LEMMA SeedFits ==
  ASSUME ChatShapes, Len(groups) = Len(saved), NEW p \in Progress, FlightFits(p), p.m = Len(groups)
  PROVE  /\ Seed(saved, groups, flight) \in Views /\ Fits(Seed(saved, groups, flight), p)
         /\ Expects(Seed(saved, groups, flight)) => flight.running \/ flight.input # Nobody
<1>1. PICK finished : finished = [blocks |-> SnapshotBlocks(saved, groups), running |-> FALSE]
  OBVIOUS
<1>2. PICK asked : asked = IF flight.input = Nobody THEN finished ELSE PushUser(finished, flight.input)
  OBVIOUS
<1>3. finished \in Views /\ asked \in Views /\ ShowsTurns(finished.blocks, Len(saved))
      /\ ShowsTurns(asked.blocks, Len(saved)) /\ Still(asked.blocks)
      /\ Still(finished.blocks)
  BY <1>1, <1>2, AskedBelow
<1>4. asked.blocks \in Columns /\ finished.blocks \in Columns /\ flight.events \in Seq(Emissions)
      /\ finished.running = FALSE
  BY <1>1, <1>3, ViewParts DEF Columns, ChatShapes, Flights
<1>5. PICK folded \in Views : folded = Folded(asked, flight.events)
  BY <1>3, <1>4, FoldedSteps
<1>6. Seed(saved, groups, flight) =
        IF flight.running \/ flight.input # Nobody THEN [OpenAssistant(folded) EXCEPT !.running = TRUE] ELSE finished
  BY <1>1, <1>2, <1>5 DEF Seed
<1>7. Closed(asked) /\ Closed(finished)
  BY <1>3, StillCloses
<1>8. Partial(p) \in Blocks /\ Partial(p).who = "assistant" /\ Partial(p).pending
  BY PartialFacts
<1>9. OpenAssistant(folded).blocks = Append(asked.blocks, Partial(p)) /\ OpenAssistant(folded) \in Views
  <2>1. CASE p.q = Nobody
    <3>1. folded = asked
      <4>1. flight.events = <<>>
        BY <2>1 DEF FlightFits
      <4>2. Folded(asked, <<>>) = asked
        BY <1>3, <1>4, FoldedSteps
      <4> QED
        BY <1>5, <4>1, <4>2
    <3>2. OpenAssistant(folded) = [blocks |-> Append(asked.blocks, AnswerBubble), running |-> asked.running]
      BY <1>3, <1>7, <3>1, OpensAnswer
    <3>3. Partial(p) = AnswerBubble
      BY <2>1, PartialFacts
    <3>4. OpenAssistant(folded).blocks = Append(asked.blocks, AnswerBubble)
      BY <3>2
    <3> QED
      BY <3>3, <3>4, PushTypes
  <2>2. CASE p.q # Nobody
    <3>1. folded = [asked EXCEPT !.blocks = Append(asked.blocks, Partial(p))]
      BY <1>3, <1>5, <1>7, <2>2 DEF FlightFits
    <3>2. folded = [blocks |-> Append(asked.blocks, Partial(p)), running |-> asked.running]
      BY <1>3, <3>1, WithBlocks
    <3>3. folded.blocks = Append(asked.blocks, Partial(p))
      BY <3>2
    <3>4. OpenAssistant(folded) = folded
      BY <1>4, <1>8, <3>3, EndsInAnswer
    <3> QED
      BY <3>3, <3>4
  <2> QED
    BY <2>1, <2>2
<1>10. CASE flight.running \/ flight.input # Nobody
  <2>1. PICK w \in Views : w = OpenAssistant(folded)
    BY <1>9
  <2>2. [w EXCEPT !.running = TRUE] = [blocks |-> w.blocks, running |-> TRUE]
    BY WithRunning
  <2>3. Seed(saved, groups, flight) = [blocks |-> w.blocks, running |-> TRUE]
    BY <1>6, <1>10, <2>1, <2>2
  <2>4. Seed(saved, groups, flight) \in Views
    BY <2>3, ViewMade, ViewParts
  <2>5. Seed(saved, groups, flight).blocks = Append(asked.blocks, Partial(p))
    BY <1>9, <2>1, <2>3
  <2>6. Fits(Seed(saved, groups, flight), p)
    BY <1>3, <1>4, <2>5 DEF Fits, Columns
  <2> QED
    BY <1>10, <2>4, <2>6
<1>11. CASE ~(flight.running \/ flight.input # Nobody)
  <2>1. Seed(saved, groups, flight) = finished /\ p.q = Nobody
    BY <1>6, <1>11 DEF FlightFits
  <2>2. Fits(finished, p)
    BY <1>3, <1>4, <2>1 DEF Fits, Columns
  <2>3. ~Expects(finished)
    BY <1>4, <1>7 DEF Expects
  <2> QED
    BY <1>3, <2>1, <2>2, <2>3
<1> QED
  BY <1>10, <1>11

\* Where the stream holds no end and the loop is not between the file and the end, the pump
\* is in the turn after the file.
LEMMA PumpAtFile ==
  ASSUME ChatShapes, LoopHolds, EachOnce, StreamHolds, loop.at # "saved",
         \A i \in 1..Len(emitted) : emitted[i].kind # "end", NEW p \in Progress, ComesAt(p, 1)
  PROVE  p.m = Len(saved)
<1>1. Len(saved) \in Nat /\ Len(emitted) \in Nat /\ emitted \in Seq(Emissions)
  BY DEF ChatShapes
<1>2. ASSUME NEW q, q \in loop.q PROVE Place(q) = Len(saved) + 1
  BY <1>2, PlaceFacts DEF EachOnce
<1>3. CASE Len(emitted) = 0
  <2>1. p \in Reached
    BY <1>1, <1>3 DEF ComesAt
  <2>2. CASE loop.at = "idle"
    <3>1. p = Between(Len(saved))
      BY <2>1, <2>2 DEF Reached
    <3> QED
      BY <3>1 DEF Between
  <2>3. CASE loop.at # "idle"
    <3>1. PICK q \in loop.q : \E k, c, d : p = Within(q, k, c, d)
      BY <2>1, <2>3 DEF Reached
    <3>2. p.m = Place(q) - 1
      BY <3>1 DEF Within
    <3> QED
      BY <1>1, <1>2, <3>2
  <2> QED
    BY <2>2, <2>3
<1>4. CASE Len(emitted) # 0
  <2>1. 1 \in 1..Len(emitted)
    BY <1>1, <1>4
  <2>2. PICK e \in Emissions : e = emitted[1]
    BY <1>1, <2>1
  <2>3. Leads(p, e) /\ EventIs(e) /\ EndComes(e.q, 1) /\ e.kind # "end"
    BY <2>1, <2>2 DEF ComesAt, StreamHolds
  <2>4. loop.q = {e.q}
    BY <2>3 DEF EndComes
  <2>5. Place(e.q) = Len(saved) + 1
    BY <1>2, <2>4
  <2>6. e.kind \in {"start", "text", "call", "return"}
    BY <2>3 DEF Emissions
  <2>7. p.m = Place(e.q) - 1
    <3>1. CASE e.kind = "start"
      BY <2>3, <3>1 DEF Leads, Between
    <3>2. CASE e.kind \in {"text", "call", "return"}
      <4>1. \E k, c, d : p = Within(e.q, k, c, d)
        BY <2>3, <3>2 DEF Leads
      <4> QED
        BY <4>1 DEF Within
    <3> QED
      BY <2>6, <3>1, <3>2
  <2> QED
    BY <1>1, <2>5, <2>7
<1> QED
  BY <1>3, <1>4

-----------------------------------------------------------------------------
(*****************************************************************************)
(* The loop's steps: each keeps what is known, and emits what comes where    *)
(* the loop is, or nothing.                                                  *)
(*****************************************************************************)
LoopInv == ChatShapes /\ LoopHolds /\ EachOnce /\ FileHolds

Stays ==
    /\ \A q \in Questions : Known(q) => Known(q)' /\ Place(q)' = Place(q)
    /\ \A q \in Questions : IsSaved(q) => IsSaved(q)' /\ saved'[Place(q)] = saved[Place(q)]
    /\ Len(saved) <= Len(saved') /\ \A i \in 1..Len(saved) : saved'[i] = saved[i]
    /\ cut \subseteq cut'
Emits(e) ==
    /\ emitted' = Append(emitted, e) /\ EventIs(e)'
    /\ \A p \in Progress : p \in Reached => Leads(p, e)'
    /\ After(e)' \in Reached'
    /\ e.kind # "end" => loop'.q = {e.q}
Goes ==
    /\ Stays
    /\ \/ emitted' = emitted /\ \A p \in Progress : p \in Reached => p \in Reached'
       \/ \E e \in Emissions : Emits(e)
    /\ \A q \in Questions : loop.q = {q} =>
         \/ loop'.q = {q}
         \/ \E e \in Emissions : emitted' = Append(emitted, e) /\ e.kind = "end" /\ e.q = q
    /\ MoreComes => MoreComes'

\* A loop in a turn is in the turn of a question.
LEMMA InTurn ==
  ASSUME ChatShapes, LoopHolds, loop.at # "idle"
  PROVE  \E q \in Questions : loop.q = {q} /\ TurnIs(q)
<1>1. loop.q \in Asked /\ loop.q # Nobody
  BY DEF ChatShapes, Loops, LoopHolds
<1>2. PICK q \in Questions : loop.q = {q}
  BY <1>1 DEF Asked
<1>3. TurnIs(q)
  BY <1>2 DEF LoopHolds
<1> QED
  BY <1>2, <1>3

\* Between turns the loop holds nothing.
LEMMA NoTurnParts ==
  NoTurn.at = "idle" /\ NoTurn.q = Nobody /\ NoTurn.text = <<>> /\ NoTurn.produced = <<>> /\ NoTurn.calls = {}
  /\ NoTurn.round = 0 /\ NoTurn \in Loops
<1>1. <<>> \in Seq(Pairs) /\ {} \in SUBSET Pairs /\ Nobody \in Asked /\ 0 \in 0..Rounds
  BY ConversationAssumption DEF Asked
<1> QED
  BY <1>1 DEF NoTurn, Loops

\* An emission has the fields it was made of.
LEMMA EmissionMade ==
  ASSUME NEW kind \in {"start", "text", "call", "return", "end"}, NEW q \in Questions, NEW n \in 0..Rounds
  PROVE  Emission(kind, q, n) \in Emissions /\ Emission(kind, q, n).kind = kind /\ Emission(kind, q, n).q = q
         /\ Emission(kind, q, n).n = n
BY DEF Emission, Emissions

\* A step that leaves the file, the cut turns and the turn under way.
LEMMA SameFileStays ==
  ASSUME ChatShapes, saved' = saved, cut \subseteq cut', \A q \in Questions : Known(q) => Known(q)'
  PROVE  Stays
<1>1. ASSUME NEW q PROVE (IsSaved(q)' <=> IsSaved(q)) /\ Place(q)' = Place(q)
  BY DEF IsSaved, Place
<1>2. Len(saved) \in Nat
  BY DEF ChatShapes
<1> QED
  BY <1>1, <1>2 DEF Stays

\* A turn begins: the loop emits its start.
LEMMA BeginTurnGoes ==
  ASSUME LoopInv, BeginTurn
  PROVE  LoopInv' /\ Goes
<1> USE DEF LoopInv
<1>1. loop.at = "idle" /\ inputs \in Seq(Questions) /\ inputs # <<>> /\ loop.q = Nobody
  BY DEF BeginTurn, ChatShapes, LoopHolds
<1>2. PICK q \in Questions : q = Head(inputs)
  BY <1>1
<1>3. PICK e \in Emissions : e = Emission("start", q, 0) /\ e.kind = "start" /\ e.q = q /\ e.n = 0
  BY ConversationAssumption, EmissionMade
<1>4. e.kind = "start" /\ e.q = q /\ e.n = 0
  BY <1>3
<1>5. /\ emitted' = Append(emitted, e) /\ Len(emitted) < OutRoom
      /\ inputs' = Tail(inputs) /\ saved' = saved /\ cut' = cut
      /\ relay' = relay /\ flight' = flight /\ groups' = groups
  BY <1>2, <1>3 DEF BeginTurn, EmitOut, LoopStep
<1>6. loop' = [NoTurn EXCEPT !.at = "asking", !.q = {q}, !.round = 1]
  BY <1>2 DEF BeginTurn
<1>7. loop' = [at |-> "asking", q |-> {q}, text |-> <<>>, produced |-> <<>>, calls |-> {}, round |-> 1]
  BY <1>6 DEF NoTurn
<1>8. loop'.at = "asking" /\ loop'.q = {q} /\ loop'.text = <<>> /\ loop'.produced = <<>> /\ loop'.calls = {}
      /\ loop'.round = 1
  BY <1>7
<1>9. loop' \in Loops
  <2>1. {q} \in Asked /\ <<>> \in Seq(Pairs) /\ {} \in SUBSET Pairs /\ 1 \in 0..Rounds
    BY ConversationAssumption DEF Asked
  <2> QED
    BY <1>7, <2>1 DEF Loops
<1>10. /\ \A i \in 1..Len(inputs') : i + 1 \in 1..Len(inputs) /\ inputs'[i] = inputs[i + 1]
       /\ inputs[1] = q /\ 1 \in 1..Len(inputs)
  BY <1>1, <1>2, <1>5
<1>11. ~IsSaved(q) /\ q \notin cut
  BY <1>10 DEF EachOnce
<1>12. ChatShapes'
  <2>1. inputs' \in Seq(Questions)
    BY <1>1, <1>5
  <2>2. emitted' \in Seq(Emissions) /\ Len(emitted') <= OutRoom
    BY <1>5, ConversationAssumption DEF ChatShapes
  <2> QED
    BY <1>5, <1>9, <2>1, <2>2 DEF ChatShapes
<1>13. LoopHolds'
  <2>1. TurnIs(q)'
    <3>1. Texts(q, 0) = <<>> /\ Called(q, 0) = {} /\ 1 \in 1..Rounds
      BY ConversationAssumption, TextFacts
    <3> QED
      BY <1>8, <3>1 DEF TurnIs
  <2>2. \A r \in loop'.q : r = q
    BY <1>8
  <2> QED
    BY <1>5, <1>8, <1>11, <2>1, <2>2 DEF LoopHolds, Nobody
<1>14. EachOnce'
  <2>1. ASSUME NEW i \in 1..Len(inputs')
        PROVE  loop'.q # {inputs'[i]} /\ ~IsSaved(inputs[i])' /\ inputs'[i] \notin cut'
    <3>1. inputs'[i] # q
      BY <1>10 DEF EachOnce
    <3>2. ~IsSaved(inputs[i + 1]) /\ inputs[i + 1] \notin cut
      BY <1>10 DEF EachOnce
    <3> QED
      BY <1>5, <1>8, <1>10, <3>1, <3>2 DEF IsSaved
  <2>2. \A i, j \in 1..Len(inputs') : inputs'[i] = inputs'[j] => i = j
    <3> SUFFICES ASSUME NEW i \in 1..Len(inputs'), NEW j \in 1..Len(inputs'), inputs'[i] = inputs'[j]
                 PROVE  i = j
      OBVIOUS
    <3>1. i + 1 \in 1..Len(inputs) /\ j + 1 \in 1..Len(inputs) /\ inputs[i + 1] = inputs[j + 1]
      BY <1>10
    <3>2. i + 1 = j + 1
      BY <3>1 DEF EachOnce
    <3> QED
      BY <3>2
  <2>3. \A r : IsSaved(r)' <=> IsSaved(r)
    BY <1>5 DEF IsSaved
  <2>4. \A r \in cut' : IsSaved(r)' \/ loop'.q = {r}
    BY <1>1, <1>5, <2>3 DEF EachOnce, Nobody
  <2>5. \A r \in loop'.q : IsSaved(r)' <=> loop'.at = "saved"
    BY <1>8, <1>11, <2>3
  <2> QED
    BY <1>5, <1>8, <2>1, <2>2, <2>4, <2>5 DEF EachOnce
<1>15. FileHolds'
  BY <1>5 DEF FileHolds
<1>16. Stays
  <2>1. \A r \in Questions : Known(r) => Known(r)'
    BY <1>1, <1>5 DEF Known, IsSaved, Nobody
  <2> QED
    BY <1>5, <2>1, SameFileStays
<1>17. Place(q)' = Len(saved) + 1 /\ Len(saved) \in Nat
  BY <1>5, <1>11 DEF Place, IsSaved, ChatShapes
<1>18. Emits(e)
  <2>1. EventIs(e)'
    BY <1>4, <1>8 DEF EventIs, Known
  <2>2. ASSUME NEW p \in Progress, p \in Reached PROVE Leads(p, e)'
    <3>1. p = Between(Len(saved))
      BY <1>1, <2>2 DEF Reached
    <3> QED
      BY <1>4, <1>17, <3>1 DEF Leads
  <2>3. After(e)' \in Reached'
    <3>1. After(e)' = Within(q, 0, 0, 0)'
      BY <1>4 DEF After
    <3>2. Reached' = {Within(q, 0, 0, 0)'}
      BY <1>8 DEF Reached
    <3> QED
      BY <3>1, <3>2
  <2> QED
    BY <1>4, <1>5, <1>8, <2>1, <2>2, <2>3 DEF Emits
<1>19. MoreComes'
  BY <1>8 DEF MoreComes
<1> QED
  BY <1>1, <1>12, <1>13, <1>14, <1>15, <1>16, <1>18, <1>19 DEF Goes, Nobody

\* A step within a turn.
LEMMA WithinTurn ==
  ASSUME LoopInv, NEW q \in Questions, loop.q = {q}, loop.at \notin {"idle", "saved"}, inputs' = inputs, saved' = saved,
         cut' = cut \/ cut' = cut \cup {q}, relay' = relay, flight' = flight, groups' = groups,
         emitted' \in Seq(Emissions), Len(emitted') <= OutRoom,
         loop' \in Loops, loop'.q = {q}, loop'.at \notin {"idle", "saved"}, TurnIs(q)',
         q \in cut' => loop'.at = "finished"
  PROVE  LoopInv' /\ Stays /\ MoreComes'
<1> USE DEF LoopInv
<1>1. ChatShapes'
  BY DEF ChatShapes
<1>2. LoopHolds'
  BY DEF LoopHolds, Nobody
<1>3. \A r : IsSaved(r)' <=> IsSaved(r)
  BY DEF IsSaved
<1>4. EachOnce'
  <2>1. ASSUME NEW i \in 1..Len(inputs)
        PROVE  loop'.q # {inputs[i]} /\ ~IsSaved(inputs[i])' /\ inputs[i] \notin cut'
    <3>1. loop.q # {inputs[i]} /\ ~IsSaved(inputs[i]) /\ inputs[i] \notin cut
      BY DEF EachOnce
    <3> QED
      BY <1>3, <3>1
  <2>2. \A r \in cut' : IsSaved(r)' \/ loop'.q = {r}
    BY <1>3 DEF EachOnce
  <2>3. \A r \in loop'.q : IsSaved(r)' <=> loop'.at = "saved"
    BY <1>3 DEF EachOnce
  <2>4. /\ \A i, j \in 1..Len(inputs') : inputs'[i] = inputs'[j] => i = j
        /\ \A i, j \in 1..Len(saved') : saved'[i].q = saved'[j].q => i = j
        /\ \A i \in 1..Len(saved') : saved'[i].q # Nobody
    BY DEF EachOnce
  <2>5. \A i \in 1..Len(inputs') : loop'.q # {inputs'[i]} /\ ~IsSaved(inputs[i])' /\ inputs'[i] \notin cut'
    BY <2>1
  <2> QED
    BY <2>2, <2>3, <2>4, <2>5 DEF EachOnce
<1>5. FileHolds'
  BY DEF FileHolds
<1>6. Stays
  <2>1. \A r \in Questions : Known(r) => Known(r)'
    BY <1>3 DEF Known
  <2>2. cut \subseteq cut'
    OBVIOUS
  <2> QED
    BY <2>1, <2>2, SameFileStays
<1>7. MoreComes'
  BY DEF MoreComes
<1> QED
  BY <1>1, <1>2, <1>4, <1>5, <1>6, <1>7

\* The round of a turn.
LEMMA RoundFacts ==
  ASSUME ChatShapes, NEW q \in Questions, TurnIs(q)
  PROVE  loop.round \in 1..Rounds /\ loop.round - 1 \in 0..Rounds /\ loop.round \in 0..Rounds /\ loop.round > 0
         /\ loop.round \in Nat
BY ConversationAssumption DEF TurnIs

\* An emission more, within the room of the channel.
LEMMA AppendedEmission ==
  ASSUME ChatShapes, NEW e \in Emissions, Len(emitted) < OutRoom, emitted' = Append(emitted, e)
  PROVE  emitted' \in Seq(Emissions) /\ Len(emitted') <= OutRoom
BY ConversationAssumption DEF ChatShapes

\* The loop is a record of its fields.
LEMMA LoopParts ==
  ASSUME ChatShapes
  PROVE  \E a1, a2, a3, a4, a5, a6 :
            loop = [at |-> a1, q |-> a2, text |-> a3, produced |-> a4, calls |-> a5, round |-> a6]
<1>1. loop \in Loops
  BY DEF ChatShapes
<1>2. PICK t \in Loops : t = loop
  BY <1>1
<1>3. t = [at |-> t.at, q |-> t.q, text |-> t.text, produced |-> t.produced, calls |-> t.calls, round |-> t.round]
  BY DEF Loops
<1> QED
  BY <1>2, <1>3

\* The loop with a text more.
LEMMA LoopWithText ==
  ASSUME ChatShapes, NEW at, NEW text
  PROVE  [loop EXCEPT !.at = at, !.text = text] =
            [at |-> at, q |-> loop.q, text |-> text, produced |-> loop.produced, calls |-> loop.calls, round |-> loop.round]
<1>1. PICK a1, a2, a3, a4, a5, a6 : loop = [at |-> a1, q |-> a2, text |-> a3, produced |-> a4, calls |-> a5, round |-> a6]
  BY LoopParts
<1>2. a1 = loop.at /\ a2 = loop.q /\ a3 = loop.text /\ a4 = loop.produced /\ a5 = loop.calls /\ a6 = loop.round
  BY <1>1
<1>3. PICK t1 : t1 = [loop EXCEPT !.at = at]
  OBVIOUS
<1>4. t1 = [at |-> at, q |-> a2, text |-> a3, produced |-> a4, calls |-> a5, round |-> a6]
  BY <1>1, <1>3
<1>5. PICK t2 : t2 = [t1 EXCEPT !.text = text]
  OBVIOUS
<1>6. t2 = [at |-> at, q |-> a2, text |-> text, produced |-> a4, calls |-> a5, round |-> a6]
  BY <1>4, <1>5
<1>7. [loop EXCEPT !.at = at, !.text = text] = t2
  BY <1>3, <1>5
<1> QED
  BY <1>2, <1>6, <1>7
\* The loop with a call more.
LEMMA LoopWithCall ==
  ASSUME ChatShapes, NEW at, NEW produced, NEW calls
  PROVE  [loop EXCEPT !.at = at, !.produced = produced, !.calls = calls] =
            [at |-> at, q |-> loop.q, text |-> loop.text, produced |-> produced, calls |-> calls, round |-> loop.round]
<1>1. PICK a1, a2, a3, a4, a5, a6 : loop = [at |-> a1, q |-> a2, text |-> a3, produced |-> a4, calls |-> a5, round |-> a6]
  BY LoopParts
<1>2. a1 = loop.at /\ a2 = loop.q /\ a3 = loop.text /\ a4 = loop.produced /\ a5 = loop.calls /\ a6 = loop.round
  BY <1>1
<1>3. PICK t1 : t1 = [loop EXCEPT !.at = at]
  OBVIOUS
<1>4. t1 = [at |-> at, q |-> a2, text |-> a3, produced |-> a4, calls |-> a5, round |-> a6]
  BY <1>1, <1>3
<1>5. PICK t2 : t2 = [t1 EXCEPT !.produced = produced]
  OBVIOUS
<1>6. t2 = [at |-> at, q |-> a2, text |-> a3, produced |-> produced, calls |-> a5, round |-> a6]
  BY <1>4, <1>5
<1>7. PICK t3 : t3 = [t2 EXCEPT !.calls = calls]
  OBVIOUS
<1>8. t3 = [at |-> at, q |-> a2, text |-> a3, produced |-> produced, calls |-> calls, round |-> a6]
  BY <1>6, <1>7
<1>9. [loop EXCEPT !.at = at, !.produced = produced, !.calls = calls] = t3
  BY <1>3, <1>5, <1>7
<1> QED
  BY <1>2, <1>8, <1>9
\* The loop in another round.
LEMMA LoopWithRound ==
  ASSUME ChatShapes, NEW at, NEW round
  PROVE  [loop EXCEPT !.at = at, !.round = round] =
            [at |-> at, q |-> loop.q, text |-> loop.text, produced |-> loop.produced, calls |-> loop.calls, round |-> round]
<1>1. PICK a1, a2, a3, a4, a5, a6 : loop = [at |-> a1, q |-> a2, text |-> a3, produced |-> a4, calls |-> a5, round |-> a6]
  BY LoopParts
<1>2. a1 = loop.at /\ a2 = loop.q /\ a3 = loop.text /\ a4 = loop.produced /\ a5 = loop.calls /\ a6 = loop.round
  BY <1>1
<1>3. PICK t1 : t1 = [loop EXCEPT !.at = at]
  OBVIOUS
<1>4. t1 = [at |-> at, q |-> a2, text |-> a3, produced |-> a4, calls |-> a5, round |-> a6]
  BY <1>1, <1>3
<1>5. PICK t2 : t2 = [t1 EXCEPT !.round = round]
  OBVIOUS
<1>6. t2 = [at |-> at, q |-> a2, text |-> a3, produced |-> a4, calls |-> a5, round |-> round]
  BY <1>4, <1>5
<1>7. [loop EXCEPT !.at = at, !.round = round] = t2
  BY <1>3, <1>5
<1> QED
  BY <1>2, <1>6, <1>7
\* The loop with what the turn has produced.
LEMMA LoopWithProduced ==
  ASSUME ChatShapes, NEW at, NEW produced
  PROVE  [loop EXCEPT !.at = at, !.produced = produced] =
            [at |-> at, q |-> loop.q, text |-> loop.text, produced |-> produced, calls |-> loop.calls, round |-> loop.round]
<1>1. PICK a1, a2, a3, a4, a5, a6 : loop = [at |-> a1, q |-> a2, text |-> a3, produced |-> a4, calls |-> a5, round |-> a6]
  BY LoopParts
<1>2. a1 = loop.at /\ a2 = loop.q /\ a3 = loop.text /\ a4 = loop.produced /\ a5 = loop.calls /\ a6 = loop.round
  BY <1>1
<1>3. PICK t1 : t1 = [loop EXCEPT !.at = at]
  OBVIOUS
<1>4. t1 = [at |-> at, q |-> a2, text |-> a3, produced |-> a4, calls |-> a5, round |-> a6]
  BY <1>1, <1>3
<1>5. PICK t2 : t2 = [t1 EXCEPT !.produced = produced]
  OBVIOUS
<1>6. t2 = [at |-> at, q |-> a2, text |-> a3, produced |-> produced, calls |-> a5, round |-> a6]
  BY <1>4, <1>5
<1>7. [loop EXCEPT !.at = at, !.produced = produced] = t2
  BY <1>3, <1>5
<1> QED
  BY <1>2, <1>6, <1>7
\* The loop elsewhere in its turn.
LEMMA LoopWithAt ==
  ASSUME ChatShapes, NEW at
  PROVE  [loop EXCEPT !.at = at] =
            [at |-> at, q |-> loop.q, text |-> loop.text, produced |-> loop.produced, calls |-> loop.calls, round |-> loop.round]
<1>1. PICK a1, a2, a3, a4, a5, a6 : loop = [at |-> a1, q |-> a2, text |-> a3, produced |-> a4, calls |-> a5, round |-> a6]
  BY LoopParts
<1>2. a1 = loop.at /\ a2 = loop.q /\ a3 = loop.text /\ a4 = loop.produced /\ a5 = loop.calls /\ a6 = loop.round
  BY <1>1
<1>3. PICK t1 : t1 = [loop EXCEPT !.at = at]
  OBVIOUS
<1>4. t1 = [at |-> at, q |-> a2, text |-> a3, produced |-> a4, calls |-> a5, round |-> a6]
  BY <1>1, <1>3
<1>5. [loop EXCEPT !.at = at] = t1
  BY <1>3
<1> QED
  BY <1>2, <1>4, <1>5

\* The model answers with a text: the loop emits it.
LEMMA StreamTextGoes ==
  ASSUME LoopInv, StreamText
  PROVE  LoopInv' /\ Goes
<1>0. ChatShapes /\ LoopHolds /\ EachOnce
  BY DEF LoopInv
<1>1. loop.at = "asking"
  BY DEF StreamText
<1>2. PICK q \in Questions : loop.q = {q} /\ TurnIs(q)
  BY <1>0, <1>1, InTurn
<1>3. loop.round \in 1..Rounds /\ loop.round - 1 \in 0..Rounds /\ loop.round \in 0..Rounds /\ loop.round > 0
  BY <1>0, <1>2, RoundFacts
<1>16. PICK n : n = loop.round
  OBVIOUS
<1>4. loop.text = Texts(q, n - 1) /\ loop.produced = Texts(q, n - 1) /\ loop.calls = Called(q, n - 1)
  BY <1>1, <1>2, <1>16 DEF TurnIs
<1>5. PICK e \in Emissions : e = Emission("text", q, n) /\ e.kind = "text" /\ e.q = q /\ e.n = n
  BY <1>3, <1>16, EmissionMade
<1>6. /\ emitted' = Append(emitted, e) /\ Len(emitted) < OutRoom
      /\ inputs' = inputs /\ saved' = saved /\ cut' = cut
      /\ relay' = relay /\ flight' = flight /\ groups' = groups
      /\ loop' = [loop EXCEPT !.at = "spoke", !.text = Append(loop.text, <<q, n>>)]
  BY <1>2, <1>5, <1>16 DEF StreamText, EmitOut, LoopStep
<1>7. Append(loop.text, <<q, n>>) = Texts(q, n)
  BY <1>16, <1>3, <1>4, TextFacts
<1>8. loop' = [at |-> "spoke", q |-> loop.q, text |-> Texts(q, n), produced |-> loop.produced,
               calls |-> loop.calls, round |-> loop.round]
  BY <1>0, <1>6, <1>7, LoopWithText
<1>9. loop'.at = "spoke" /\ loop'.q = {q} /\ loop'.text = Texts(q, n) /\ loop'.produced = Texts(q, n - 1)
      /\ loop'.calls = Called(q, n - 1) /\ loop'.round = n
  BY <1>16, <1>2, <1>4, <1>8
<1>10. loop' \in Loops
  <2>1. Texts(q, n) \in Seq(Pairs)
    BY <1>16, <1>3, TextFacts
  <2> QED
    BY <1>0, <1>8, <2>1 DEF ChatShapes, Loops
<1>11. TurnIs(q)' /\ q \notin cut'
  BY <1>1, <1>0, <1>2, <1>3, <1>6, <1>9, <1>16 DEF TurnIs, LoopHolds
<1>12. emitted' \in Seq(Emissions) /\ Len(emitted') <= OutRoom
  BY <1>0, <1>6, AppendedEmission
<1>13. LoopInv' /\ Stays /\ MoreComes'
  BY <1>1, <1>2, <1>6, <1>9, <1>10, <1>11, <1>12, WithinTurn
<1>14. Len(loop.text) = n - 1 /\ Len(loop'.text) = n
  BY <1>16, <1>3, <1>4, <1>9, TextFacts
<1>15. Emits(e)
  <2>1. EventIs(e)'
    BY <1>16, <1>3, <1>5, <1>9 DEF EventIs, Known
  <2>2. ASSUME NEW p \in Progress, p \in Reached PROVE Leads(p, e)'
    <3>1. p = Within(q, n - 1, n - 1, n - 1)
      BY <1>16, <1>1, <1>2, <1>14, <2>2 DEF Reached
    <3>2. Within(q, n - 1, n - 1, n - 1)' = Within(q, n - 1, n - 1, n - 1)
      BY <1>2, <1>13, <1>9 DEF Stays, Known, Within
    <3> QED
      BY <1>5, <3>1, <3>2 DEF Leads
  <2>3. After(e)' \in Reached'
    BY <1>5, <1>9, <1>14 DEF After, Reached
  <2> QED
    BY <1>5, <1>6, <1>9, <2>1, <2>2, <2>3 DEF Emits
<1> QED
  BY <1>2, <1>9, <1>13, <1>15 DEF Goes

\* The progress within a turn does not change as the file grows.
LEMMA WithinStays ==
  ASSUME Stays, NEW q \in Questions, Known(q), NEW k, NEW c, NEW d
  PROVE  Within(q, k, c, d)' = Within(q, k, c, d)
BY DEF Stays, Within

\* The model calls a tool: the loop emits the call.
LEMMA CallToolGoes ==
  ASSUME LoopInv, CallTool
  PROVE  LoopInv' /\ Goes
<1>0. ChatShapes /\ LoopHolds /\ EachOnce
  BY DEF LoopInv
<1>1. loop.at = "spoke" /\ loop.round < Rounds
  BY DEF CallTool
<1>2. PICK q \in Questions : loop.q = {q} /\ TurnIs(q)
  BY <1>0, <1>1, InTurn
<1>16. PICK n : n = loop.round
  OBVIOUS
<1>3. n \in 1..Rounds /\ n - 1 \in 0..Rounds /\ n \in 0..Rounds /\ n > 0
  BY <1>0, <1>2, <1>16, RoundFacts
<1>4. loop.text = Texts(q, n) /\ loop.produced = Texts(q, n - 1) /\ loop.calls = Called(q, n - 1)
  BY <1>1, <1>2, <1>16 DEF TurnIs
<1>5. PICK e \in Emissions : e = Emission("call", q, n) /\ e.kind = "call" /\ e.q = q /\ e.n = n
  BY <1>3, EmissionMade
<1>6. /\ emitted' = Append(emitted, e) /\ Len(emitted) < OutRoom
      /\ inputs' = inputs /\ saved' = saved /\ cut' = cut
      /\ relay' = relay /\ flight' = flight /\ groups' = groups
      /\ loop' = [loop EXCEPT !.at = "calling", !.produced = loop.text, !.calls = loop.calls \cup {<<q, n>>}]
  BY <1>2, <1>5, <1>16 DEF CallTool, EmitOut, LoopStep
<1>7. loop.calls \cup {<<q, n>>} = Called(q, n)
  BY <1>3, <1>4, TextFacts
<1>8. loop' = [at |-> "calling", q |-> loop.q, text |-> loop.text, produced |-> loop.text,
               calls |-> Called(q, n), round |-> loop.round]
  BY <1>0, <1>6, <1>7, LoopWithCall
<1>9. loop'.at = "calling" /\ loop'.q = {q} /\ loop'.text = Texts(q, n) /\ loop'.produced = Texts(q, n)
      /\ loop'.calls = Called(q, n) /\ loop'.round = n
  BY <1>2, <1>4, <1>8, <1>16
<1>10. loop' \in Loops
  <2>1. Called(q, n) \in SUBSET Pairs
    BY <1>3, TextFacts
  <2> QED
    BY <1>0, <1>8, <2>1 DEF ChatShapes, Loops
<1>11. TurnIs(q)' /\ q \notin cut'
  BY <1>0, <1>1, <1>2, <1>3, <1>6, <1>9, <1>16 DEF TurnIs, LoopHolds
<1>12. emitted' \in Seq(Emissions) /\ Len(emitted') <= OutRoom
  BY <1>0, <1>6, AppendedEmission
<1>13. LoopInv' /\ Stays /\ MoreComes'
  BY <1>1, <1>2, <1>6, <1>9, <1>10, <1>11, <1>12, WithinTurn
<1>14. Len(loop.text) = n /\ Len(loop'.text) = n
  BY <1>3, <1>4, <1>9, TextFacts
<1>15. Emits(e)
  <2>1. EventIs(e)'
    BY <1>3, <1>5, <1>9 DEF EventIs, Known
  <2>2. ASSUME NEW p \in Progress, p \in Reached PROVE Leads(p, e)'
    <3>1. p = Within(q, n, n - 1, n - 1)
      BY <1>1, <1>2, <1>14, <1>16, <2>2 DEF Reached
    <3>2. Within(q, n, n - 1, n - 1)' = Within(q, n, n - 1, n - 1)
      BY <1>2, <1>13, WithinStays DEF Known
    <3> QED
      BY <1>5, <3>1, <3>2 DEF Leads
  <2>3. After(e)' \in Reached'
    BY <1>5, <1>9, <1>14 DEF After, Reached
  <2> QED
    BY <1>5, <1>6, <1>9, <2>1, <2>2, <2>3 DEF Emits
<1> QED
  BY <1>2, <1>9, <1>13, <1>15 DEF Goes

\* The tool returns: the loop emits the return, and is in the next round.
LEMMA ToolReturnsGoes ==
  ASSUME LoopInv, ToolReturns
  PROVE  LoopInv' /\ Goes
<1>0. ChatShapes /\ LoopHolds /\ EachOnce
  BY DEF LoopInv
<1>1. loop.at = "calling"
  BY DEF ToolReturns
<1>2. PICK q \in Questions : loop.q = {q} /\ TurnIs(q)
  BY <1>0, <1>1, InTurn
<1>16. PICK n : n = loop.round
  OBVIOUS
<1>3. n \in 1..Rounds /\ n - 1 \in 0..Rounds /\ n \in 0..Rounds /\ n > 0
  BY <1>0, <1>2, <1>16, RoundFacts
<1>4. loop.text = Texts(q, n) /\ loop.produced = Texts(q, n) /\ loop.calls = Called(q, n) /\ n < Rounds
  BY <1>1, <1>2, <1>16 DEF TurnIs
<1>17. n + 1 \in 1..Rounds /\ n + 1 \in 0..Rounds /\ (n + 1) - 1 = n
  BY <1>3, <1>4, ConversationAssumption
<1>5. PICK e \in Emissions : e = Emission("return", q, n) /\ e.kind = "return" /\ e.q = q /\ e.n = n
  BY <1>3, EmissionMade
<1>6. /\ emitted' = Append(emitted, e) /\ Len(emitted) < OutRoom
      /\ inputs' = inputs /\ saved' = saved /\ cut' = cut
      /\ relay' = relay /\ flight' = flight /\ groups' = groups
      /\ loop' = [loop EXCEPT !.at = "asking", !.round = n + 1]
  BY <1>2, <1>5, <1>16 DEF ToolReturns, EmitOut, LoopStep
<1>8. loop' = [at |-> "asking", q |-> loop.q, text |-> loop.text, produced |-> loop.produced,
               calls |-> loop.calls, round |-> n + 1]
  BY <1>0, <1>6, LoopWithRound
<1>9. loop'.at = "asking" /\ loop'.q = {q} /\ loop'.text = Texts(q, n) /\ loop'.produced = Texts(q, n)
      /\ loop'.calls = Called(q, n) /\ loop'.round = n + 1
  BY <1>2, <1>4, <1>8, <1>16
<1>10. loop' \in Loops
  BY <1>0, <1>8, <1>17 DEF ChatShapes, Loops
<1>11. TurnIs(q)' /\ q \notin cut'
  BY <1>0, <1>1, <1>2, <1>6, <1>9, <1>17 DEF TurnIs, LoopHolds
<1>12. emitted' \in Seq(Emissions) /\ Len(emitted') <= OutRoom
  BY <1>0, <1>6, AppendedEmission
<1>13. LoopInv' /\ Stays /\ MoreComes'
  BY <1>1, <1>2, <1>6, <1>9, <1>10, <1>11, <1>12, WithinTurn
<1>14. Len(loop.text) = n /\ Len(loop'.text) = n
  BY <1>3, <1>4, <1>9, TextFacts
<1>15. Emits(e)
  <2>1. EventIs(e)'
    BY <1>3, <1>5, <1>9 DEF EventIs, Known
  <2>2. ASSUME NEW p \in Progress, p \in Reached PROVE Leads(p, e)'
    <3>1. p = Within(q, n, n, n - 1)
      BY <1>1, <1>2, <1>14, <1>16, <2>2 DEF Reached
    <3>2. Within(q, n, n, n - 1)' = Within(q, n, n, n - 1)
      BY <1>2, <1>13, WithinStays DEF Known
    <3> QED
      BY <1>5, <3>1, <3>2 DEF Leads
  <2>3. After(e)' \in Reached'
    <3>1. After(e)' = Within(q, n, n, n)'
      BY <1>5 DEF After
    <3>2. Reached' = {Within(q, n, n, n)'}
      BY <1>9, <1>14, <1>17 DEF Reached
    <3> QED
      BY <3>1, <3>2
  <2> QED
    BY <1>5, <1>6, <1>9, <2>1, <2>2, <2>3 DEF Emits
<1> QED
  BY <1>2, <1>9, <1>13, <1>15 DEF Goes

\* The end of what a turn says: the answer is complete, or the turn is cut.
LEMMA ReachedStays ==
  ASSUME ChatShapes, NEW q \in Questions, loop.q = {q}, loop.at \notin {"idle", "calling"}, Stays,
         loop'.q = {q}, loop'.at \notin {"idle", "calling"}, loop'.text = loop.text, loop'.round = loop.round,
         emitted' = emitted, MoreComes'
  PROVE  Goes
<1>1. PICK k, n : k = Len(loop.text) /\ n = loop.round - 1
  OBVIOUS
<1>2. Within(q, k, n, n)' = Within(q, k, n, n)
  BY WithinStays DEF Known
<1>3. Reached = {Within(q, k, n, n)} /\ Reached' = {Within(q, k, n, n)'}
  BY <1>1 DEF Reached
<1> QED
  BY <1>2, <1>3 DEF Goes

\* The answer is whole: nothing is emitted.
LEMMA FinishRoundGoes ==
  ASSUME LoopInv, FinishRound
  PROVE  LoopInv' /\ Goes
<1>0. ChatShapes /\ LoopHolds /\ EachOnce
  BY DEF LoopInv
<1>1. loop.at = "spoke"
  BY DEF FinishRound
<1>2. PICK q \in Questions : loop.q = {q} /\ TurnIs(q)
  BY <1>0, <1>1, InTurn
<1>16. PICK n : n = loop.round
  OBVIOUS
<1>3. n \in 1..Rounds /\ n - 1 \in 0..Rounds /\ n \in 0..Rounds /\ n > 0
  BY <1>0, <1>2, <1>16, RoundFacts
<1>4. loop.text = Texts(q, n) /\ loop.calls = Called(q, n - 1)
  BY <1>1, <1>2, <1>16 DEF TurnIs
<1>6. /\ emitted' = emitted /\ inputs' = inputs /\ saved' = saved /\ cut' = cut
      /\ relay' = relay /\ flight' = flight /\ groups' = groups
      /\ loop' = [loop EXCEPT !.at = "finished", !.produced = loop.text]
  BY DEF FinishRound, LoopStep
<1>8. loop' = [at |-> "finished", q |-> loop.q, text |-> loop.text, produced |-> loop.text,
               calls |-> loop.calls, round |-> loop.round]
  BY <1>0, <1>6, LoopWithProduced
<1>9. loop'.at = "finished" /\ loop'.q = {q} /\ loop'.text = Texts(q, n) /\ loop'.produced = Texts(q, n)
      /\ loop'.calls = Called(q, n - 1) /\ loop'.round = n
  BY <1>2, <1>4, <1>8, <1>16
<1>10. loop' \in Loops
  BY <1>0, <1>8 DEF ChatShapes, Loops
<1>11. TurnIs(q)' /\ q \notin cut'
  BY <1>0, <1>1, <1>2, <1>3, <1>6, <1>9, <1>16 DEF TurnIs, LoopHolds
<1>12. emitted' \in Seq(Emissions) /\ Len(emitted') <= OutRoom
  BY <1>0, <1>6 DEF ChatShapes
<1>13. LoopInv' /\ Stays /\ MoreComes'
  BY <1>1, <1>2, <1>6, <1>9, <1>10, <1>11, <1>12, WithinTurn
<1> QED
  BY <1>0, <1>1, <1>2, <1>4, <1>6, <1>9, <1>13, <1>16, ReachedStays

\* The turn is cut short: nothing is emitted.
LEMMA AbortTurnGoes ==
  ASSUME LoopInv, AbortTurn
  PROVE  LoopInv' /\ Goes
<1>0. ChatShapes /\ LoopHolds /\ EachOnce
  BY DEF LoopInv
<1>1. loop.at \in {"asking", "spoke"}
  BY DEF AbortTurn
<1>2. PICK q \in Questions : loop.q = {q} /\ TurnIs(q)
  BY <1>0, <1>1, InTurn
<1>16. PICK n : n = loop.round
  OBVIOUS
<1>3. n \in 1..Rounds /\ n - 1 \in 0..Rounds /\ n \in 0..Rounds /\ n > 0
  BY <1>0, <1>2, <1>16, RoundFacts
<1>4. loop.text \in {Texts(q, n - 1), Texts(q, n)} /\ loop.produced = Texts(q, n - 1) /\ loop.calls = Called(q, n - 1)
  BY <1>1, <1>2, <1>16 DEF TurnIs
<1>6. /\ emitted' = emitted /\ inputs' = inputs /\ saved' = saved /\ cut' = cut \cup {q}
      /\ relay' = relay /\ flight' = flight /\ groups' = groups
      /\ loop' = [loop EXCEPT !.at = "finished"]
  BY <1>2 DEF AbortTurn, LoopStep
<1>8. loop' = [at |-> "finished", q |-> loop.q, text |-> loop.text, produced |-> loop.produced,
               calls |-> loop.calls, round |-> loop.round]
  BY <1>0, <1>6, LoopWithAt
<1>9. loop'.at = "finished" /\ loop'.q = {q} /\ loop'.text = loop.text /\ loop'.produced = Texts(q, n - 1)
      /\ loop'.calls = Called(q, n - 1) /\ loop'.round = n
  BY <1>2, <1>4, <1>8, <1>16
<1>10. loop' \in Loops
  BY <1>0, <1>8 DEF ChatShapes, Loops
<1>11. TurnIs(q)'
  BY <1>2, <1>3, <1>4, <1>6, <1>9, <1>16 DEF TurnIs
<1>12. emitted' \in Seq(Emissions) /\ Len(emitted') <= OutRoom
  BY <1>0, <1>6 DEF ChatShapes
<1>13. LoopInv' /\ Stays /\ MoreComes'
  BY <1>1, <1>2, <1>6, <1>9, <1>10, <1>11, <1>12, WithinTurn
<1> QED
  BY <1>0, <1>1, <1>2, <1>6, <1>9, <1>13, <1>16, ReachedStays

\* The places of the questions in the file.
LEMMA Places ==
  ChatShapes /\ EachOnce => \A r : \A i \in 1..Len(saved) : saved[i].q = {r} => IsSaved(r) /\ Place(r) = i
BY PlaceUnique

\* The turn is put in the file, before its end is emitted.
LEMMA PersistTurnGoes ==
  ASSUME LoopInv, PersistTurn
  PROVE  LoopInv' /\ Goes
<1>0. ChatShapes /\ LoopHolds /\ EachOnce /\ FileHolds
  BY DEF LoopInv
<1>1. loop.at = "finished"
  BY DEF PersistTurn
<1>2. PICK q \in Questions : loop.q = {q} /\ TurnIs(q)
  BY <1>0, <1>1, InTurn
<1>3. PICK t : t = [q |-> loop.q, text |-> loop.produced, answered |-> loop.produced # <<>>]
  OBVIOUS
<1>4. /\ emitted' = emitted /\ inputs' = inputs /\ saved' = Append(saved, t) /\ cut' = cut
      /\ relay' = relay /\ flight' = flight /\ groups' = groups
      /\ loop' = [loop EXCEPT !.at = "saved"]
  BY <1>3 DEF PersistTurn, LoopStep
<1>5. loop' = [at |-> "saved", q |-> loop.q, text |-> loop.text, produced |-> loop.produced,
               calls |-> loop.calls, round |-> loop.round]
  BY <1>0, <1>4, LoopWithAt
<1>6. loop'.at = "saved" /\ loop'.q = {q} /\ loop'.text = loop.text /\ loop'.produced = loop.produced
      /\ loop'.calls = loop.calls /\ loop'.round = loop.round
  BY <1>2, <1>5
<1>7. PICK m \in Nat : m = Len(saved)
  BY <1>0 DEF ChatShapes
<1>8. t \in SavedTurns /\ t.q = {q} /\ t.text = loop.produced
  <2>1. loop.q \in Asked /\ loop.produced \in Seq(Pairs)
    BY <1>0 DEF ChatShapes, Loops
  <2> QED
    BY <1>2, <1>3, <2>1 DEF SavedTurns
<1>9. Len(saved') = m + 1 /\ saved'[m + 1] = t /\ saved' \in Seq(SavedTurns) /\ \A i \in 1..m : saved'[i] = saved[i]
  BY <1>0, <1>4, <1>7, <1>8 DEF ChatShapes
<1>10. ChatShapes'
  <2>1. loop' \in Loops
    BY <1>0, <1>5 DEF ChatShapes, Loops
  <2> QED
    BY <1>0, <1>4, <1>9, <2>1 DEF ChatShapes
<1>11. \A r \in Questions : IsSaved(r)' <=> (IsSaved(r) \/ r = q)
  <2> TAKE r \in Questions
  <2>1. IsSaved(r)' <=> \E i \in 1..(m + 1) : saved'[i].q = {r}
    BY <1>9 DEF IsSaved
  <2>2. IsSaved(r) <=> \E i \in 1..m : saved'[i].q = {r}
    BY <1>7, <1>9 DEF IsSaved
  <2>3. saved'[m + 1].q = {r} <=> r = q
    BY <1>8, <1>9
  <2>4. \A i : i \in 1..(m + 1) <=> i \in 1..m \/ i = m + 1
    BY <1>7
  <2> QED
    BY <2>1, <2>2, <2>3, <2>4
<1>12. ~IsSaved(q)
  BY <1>0, <1>1, <1>2 DEF EachOnce
<1>13. LoopHolds'
  <2>1. TurnIs(q)'
    BY <1>1, <1>2, <1>4, <1>6 DEF TurnIs
  <2> QED
    BY <1>6, <2>1 DEF LoopHolds, Nobody
<1>14. EachOnce'
  <2>1. ASSUME NEW i \in 1..(m + 1), NEW j \in 1..(m + 1), saved'[i].q = saved'[j].q PROVE i = j
    <3>1. \A l \in 1..m : saved'[l].q # {q}
      BY <1>7, <1>9, <1>12 DEF IsSaved
    <3>2. CASE i \in 1..m /\ j \in 1..m
      BY <1>0, <1>7, <1>9, <2>1, <3>2 DEF EachOnce
    <3>3. CASE i = m + 1 \/ j = m + 1
      <4>1. CASE i = m + 1 /\ j \in 1..m
        BY <1>8, <1>9, <2>1, <3>1, <4>1
      <4>2. CASE j = m + 1 /\ i \in 1..m
        BY <1>8, <1>9, <2>1, <3>1, <4>2
      <4> QED
        BY <1>7, <3>3, <4>1, <4>2
    <3> QED
      BY <1>7, <3>2, <3>3
  <2>2. ASSUME NEW i \in 1..Len(inputs)
        PROVE  loop'.q # {inputs[i]} /\ ~IsSaved(inputs[i])' /\ inputs[i] \notin cut
    <3>1. PICK r \in Questions : r = inputs[i]
      BY <1>0 DEF ChatShapes
    <3>2. loop.q # {r} /\ ~IsSaved(r) /\ r \notin cut
      BY <1>0, <3>1 DEF EachOnce
    <3>3. ~IsSaved(r)'
      BY <1>2, <1>11, <3>2
    <3> QED
      BY <1>2, <1>4, <1>6, <3>1, <3>2, <3>3
  <2>3. ASSUME NEW i \in 1..(m + 1) PROVE saved'[i].q # Nobody
    <3>1. CASE i = m + 1
      BY <1>8, <1>9, <3>1 DEF Nobody
    <3>2. CASE i \in 1..m
      BY <1>0, <1>7, <1>9, <3>2 DEF EachOnce
    <3> QED
      BY <1>7, <3>1, <3>2
  <2>4. \A r \in cut' : IsSaved(r)' \/ loop'.q = {r}
    BY <1>0, <1>2, <1>4, <1>6, <1>11 DEF EachOnce, ChatShapes
  <2>5. \A r \in loop'.q : IsSaved(r)' <=> loop'.at = "saved"
    BY <1>6, <1>11
  <2>6. saved' # <<>> /\ saved'[Len(saved')].q = loop'.q /\ saved'[Len(saved')].text = loop'.produced
    BY <1>6, <1>7, <1>8, <1>9
  <2>7. \A i, j \in 1..Len(inputs') : inputs'[i] = inputs'[j] => i = j
    BY <1>0, <1>4 DEF EachOnce
  <2>8. \A i, j \in 1..Len(saved') : saved'[i].q = saved'[j].q => i = j
    BY <1>9, <2>1
  <2>9. \A i \in 1..Len(saved') : saved'[i].q # Nobody
    BY <1>9, <2>3
  <2>10. \A i \in 1..Len(inputs') : loop'.q # {inputs'[i]} /\ ~IsSaved(inputs[i])' /\ inputs'[i] \notin cut'
    BY <1>4, <2>2
  <2> QED
    BY <2>4, <2>5, <2>6, <2>7, <2>8, <2>9, <2>10 DEF EachOnce
<1>19. (\A r : \A i \in 1..Len(saved) : saved[i].q = {r} => IsSaved(r) /\ Place(r) = i)'
  BY <1>10, <1>14, Places, PTL
<1>15. FileHolds'
  <2>1. \E k \in 0..Rounds : t.text = Texts(q, k) /\ (t.answered <=> k > 0) /\ (q \notin cut => k > 0)
    <3>1. PICK n : n = loop.round
      OBVIOUS
    <3>2. n \in 1..Rounds /\ n - 1 \in 0..Rounds /\ n \in 0..Rounds /\ n > 0
      BY <1>0, <1>2, <3>1, RoundFacts
    <3>3. ASSUME NEW k \in 0..Rounds, loop.produced = Texts(q, k)
          PROVE  t.text = Texts(q, k) /\ (t.answered <=> k > 0)
      <4>1. k > 0 <=> Texts(q, k) # <<>>
        BY TextFacts
      <4> QED
        BY <1>3, <3>3, <4>1
    <3>4. CASE q \in cut
      <4>1. loop.produced = Texts(q, n - 1)
        BY <1>1, <1>2, <3>1, <3>4 DEF TurnIs
      <4> QED
        BY <3>2, <3>3, <3>4, <4>1
    <3>5. CASE q \notin cut
      <4>1. loop.produced = Texts(q, n)
        BY <1>1, <1>2, <3>1, <3>5 DEF TurnIs
      <4> QED
        BY <3>2, <3>3, <3>5, <4>1
    <3> QED
      BY <3>4, <3>5
  <2>2. ASSUME NEW i \in 1..(m + 1), NEW r \in saved'[i].q
        PROVE  \E k \in 0..Rounds : /\ saved'[i].text = Texts(r, k) /\ (saved'[i].answered <=> k > 0)
                                    /\ r \notin cut => k > 0
    <3>1. CASE i = m + 1
      <4>1. saved'[i] = t /\ r = q
        BY <1>8, <1>9, <3>1
      <4> QED
        BY <2>1, <4>1
    <3>2. CASE i \in 1..m
      <4>1. saved'[i] = saved[i]
        BY <1>9, <3>2
      <4> QED
        BY <1>0, <1>7, <3>2, <4>1 DEF FileHolds
    <3> QED
      BY <1>7, <3>1, <3>2
  <2> QED
    BY <1>4, <1>9, <2>2 DEF FileHolds
<1>16. Stays
  <2>1. ASSUME NEW r \in Questions, IsSaved(r) PROVE IsSaved(r)' /\ Place(r)' = Place(r) /\ saved'[Place(r)] = saved[Place(r)]
    <3>1. PICK i \in 1..Len(saved) : i = Place(r) /\ saved[i].q = {r}
      BY <1>0, <2>1, PlaceFacts
    <3>2. i \in 1..Len(saved') /\ saved'[i].q = {r} /\ saved'[i] = saved[i]
      BY <1>7, <1>9, <3>1
    <3>3. IsSaved(r)' /\ Place(r)' = i
      BY <1>19, <3>2
    <3> QED
      BY <3>1, <3>2, <3>3
  <2>2. Place(q)' = Place(q) /\ IsSaved(q)'
    <3>1. Place(q) = m + 1
      BY <1>0, <1>7, <1>12, PlaceFacts
    <3>2. m + 1 \in 1..Len(saved') /\ saved'[m + 1].q = {q}
      BY <1>7, <1>8, <1>9
    <3>3. IsSaved(q)' /\ Place(q)' = m + 1
      BY <1>19, <3>2
    <3> QED
      BY <3>1, <3>3
  <2>3. \A r \in Questions : Known(r) => Known(r)' /\ Place(r)' = Place(r)
    BY <1>2, <2>1, <2>2 DEF Known
  <2>4. Len(saved) <= Len(saved') /\ \A i \in 1..Len(saved) : saved'[i] = saved[i]
    BY <1>7, <1>9
  <2> QED
    BY <1>4, <2>1, <2>3, <2>4 DEF Stays
<1>17. MoreComes'
  BY <1>6 DEF MoreComes
<1>18. Goes
  BY <1>0, <1>1, <1>2, <1>4, <1>6, <1>16, <1>17, ReachedStays
<1> QED
  BY <1>10, <1>13, <1>14, <1>15, <1>18 DEF LoopInv

\* The end of the turn is emitted, and the loop is between turns.
LEMMA EndTurnGoes ==
  ASSUME LoopInv, EndTurn
  PROVE  LoopInv' /\ Goes
<1>0. ChatShapes /\ LoopHolds /\ EachOnce /\ FileHolds
  BY DEF LoopInv
<1>1. loop.at = "saved"
  BY DEF EndTurn
<1>2. PICK q \in Questions : loop.q = {q} /\ TurnIs(q)
  BY <1>0, <1>1, InTurn
<1>3. PICK e \in Emissions : e = Emission("end", q, 0) /\ e.kind = "end" /\ e.q = q /\ e.n = 0
  BY ConversationAssumption, EmissionMade
<1>4. /\ emitted' = Append(emitted, e) /\ Len(emitted) < OutRoom
      /\ inputs' = inputs /\ saved' = saved /\ cut' = cut
      /\ relay' = relay /\ flight' = flight /\ groups' = groups /\ loop' = NoTurn
  BY <1>2, <1>3 DEF EndTurn, EmitOut, LoopStep
<1>5. loop'.at = "idle" /\ loop'.q = Nobody /\ loop' \in Loops
  BY <1>4, NoTurnParts
<1>6. \A r : IsSaved(r)' <=> IsSaved(r)
  BY <1>4 DEF IsSaved
<1>7. IsSaved(q)
  BY <1>0, <1>1, <1>2 DEF EachOnce
<1>8. ChatShapes'
  <2>1. emitted' \in Seq(Emissions) /\ Len(emitted') <= OutRoom
    BY <1>0, <1>4, AppendedEmission
  <2> QED
    BY <1>0, <1>4, <1>5, <2>1 DEF ChatShapes
<1>9. LoopHolds'
  BY <1>4, <1>5 DEF LoopHolds, Nobody
<1>10. EachOnce'
  <2>1. ASSUME NEW i \in 1..Len(inputs)
        PROVE  loop'.q # {inputs[i]} /\ ~IsSaved(inputs[i])' /\ inputs[i] \notin cut
    BY <1>0, <1>4, <1>5, <1>6 DEF EachOnce, Nobody
  <2>2. \A r \in cut' : IsSaved(r)' \/ loop'.q = {r}
    BY <1>0, <1>2, <1>4, <1>6, <1>7 DEF EachOnce
  <2>3. \A i \in 1..Len(inputs') : loop'.q # {inputs'[i]} /\ ~IsSaved(inputs[i])' /\ inputs'[i] \notin cut'
    BY <1>4, <2>1
  <2>4. \A r \in loop'.q : IsSaved(r)' <=> loop'.at = "saved"
    BY <1>5 DEF Nobody
  <2> QED
    BY <1>0, <1>4, <1>5, <2>2, <2>3, <2>4 DEF EachOnce
<1>11. FileHolds'
  BY <1>0, <1>4 DEF FileHolds
<1>12. Stays
  <2>1. \A r \in Questions : Known(r) => Known(r)'
    BY <1>2, <1>6, <1>7 DEF Known
  <2> QED
    BY <1>0, <1>4, <2>1, SameFileStays
<1>13. PICK n : n = loop.round
  OBVIOUS
<1>14. n \in 1..Rounds /\ n - 1 \in 0..Rounds /\ n \in 0..Rounds /\ n > 0
  BY <1>0, <1>2, <1>13, RoundFacts
<1>15. saved # <<>> /\ saved[Len(saved)].q = {q} /\ saved[Len(saved)].text = loop.produced
  BY <1>0, <1>1, <1>2 DEF EachOnce
<1>16. Place(q) = Len(saved) /\ Len(saved) \in 1..Len(saved)
  <2>1. Len(saved) \in 1..Len(saved)
    BY <1>0, <1>15 DEF ChatShapes
  <2> QED
    BY <1>0, <1>15, <2>1, PlaceUnique
<1>17. Place(q)' = Len(saved)
  BY <1>2, <1>12, <1>16 DEF Stays, Known
<1>18. PICK k \in 0..Rounds : k = Len(loop.text) /\ (q \notin cut => loop.produced = Texts(q, k) /\ k = (n - 1) + 1)
  <2>1. CASE q \in cut
    <3>1. loop.text \in {Texts(q, n - 1), Texts(q, n)}
      BY <1>1, <1>2, <1>13, <2>1 DEF TurnIs
    <3> QED
      BY <1>14, <2>1, <3>1, TextFacts
  <2>2. CASE q \notin cut
    <3>1. loop.text = Texts(q, n) /\ loop.produced = Texts(q, n)
      BY <1>1, <1>2, <1>13, <2>2 DEF TurnIs
    <3> QED
      BY <1>14, <2>2, <3>1, TextFacts
  <2> QED
    BY <2>1, <2>2
<1>19. Emits(e)
  <2>1. EventIs(e)'
    BY <1>3, <1>6, <1>7 DEF EventIs, Known
  <2>2. ASSUME NEW p \in Progress, p \in Reached PROVE Leads(p, e)'
    <3>1. p = Within(q, k, n - 1, n - 1)
      BY <1>1, <1>2, <1>13, <1>18, <2>2 DEF Reached
    <3>2. Within(q, k, n - 1, n - 1)' = Within(q, k, n - 1, n - 1)
      BY <1>2, <1>12, WithinStays DEF Known
    <3>3. p.k = k /\ p.c = n - 1
      BY <1>0, <1>14, <3>1, WithinFacts
    <3>4. p = Within(q, p.k, p.c, p.c)'
      BY <3>1, <3>2, <3>3
    <3>5. q \notin cut' => saved'[Place(q)'].text = Texts(q, p.k) /\ p.k = p.c + 1
      BY <1>4, <1>15, <1>17, <1>18, <3>3
    <3> QED
      BY <1>3, <1>6, <1>7, <3>4, <3>5 DEF Leads
  <2>3. After(e)' \in Reached'
    <3>1. After(e)' = Between(Place(q)')
      BY <1>3 DEF After
    <3>2. Reached' = {Between(Len(saved))}
      BY <1>4, <1>5 DEF Reached
    <3> QED
      BY <1>17, <3>1, <3>2
  <2> QED
    BY <1>3, <1>4, <2>1, <2>2, <2>3 DEF Emits
<1>20. MoreComes'
  <2>1. Len(emitted) + 1 \in 1..Len(emitted') /\ emitted'[Len(emitted) + 1] = e
    BY <1>0, <1>4 DEF ChatShapes
  <2> QED
    BY <1>3, <2>1 DEF MoreComes
<1>21. \A r \in Questions : loop.q = {r} => \E f \in Emissions : emitted' = Append(emitted, f) /\ f.kind = "end" /\ f.q = r
  BY <1>2, <1>3, <1>4
<1> QED
  BY <1>8, <1>9, <1>10, <1>11, <1>12, <1>19, <1>20, <1>21 DEF Goes, LoopInv

\* The turn in flight with another input.
LEMMA FlightWithInput ==
  ASSUME ChatShapes, NEW x
  PROVE  [flight EXCEPT !.input = x] =
            [running |-> flight.running, input |-> x, events |-> flight.events, forest |-> flight.forest]
<1>1. PICK t \in Flights : t = flight
  BY DEF ChatShapes
<1>2. [t EXCEPT !.input = x] = [running |-> t.running, input |-> x, events |-> t.events, forest |-> t.forest]
  BY DEF Flights
<1> QED
  BY <1>1, <1>2

\* A question is put in line.
LEMMA SubmittedGoes ==
  ASSUME LoopInv, NEW q \in Questions, Submitted(q), loop' = loop, emitted' = emitted, relay' = relay, saved' = saved,
         groups' = groups, cut' = cut
  PROVE  LoopInv' /\ Goes
<1>0. ChatShapes /\ LoopHolds /\ EachOnce /\ FileHolds
  BY DEF LoopInv
<1>1. /\ \A i \in 1..Len(inputs) : inputs[i] # q
      /\ loop.q # {q} /\ ~IsSaved(q)
      /\ inputs' = Append(inputs, q)
      /\ flight' = [flight EXCEPT !.input = {q}]
  <2>1. inputs \in Seq(Questions) /\ saved \in Seq(SavedTurns)
    BY <1>0 DEF ChatShapes
  <2>2. DOMAIN inputs = 1..Len(inputs) /\ DOMAIN saved = 1..Len(saved)
    BY <2>1
  <2>3. inputs' = Append(inputs, q) /\ flight' = [flight EXCEPT !.input = {q}]
    BY DEF Submitted
  <2> QED
    BY <2>2, <2>3 DEF Submitted, IsSaved
<1>2. flight' \in Flights
  <2>1. {q} \in Asked
    BY DEF Asked
  <2>2. flight' = [running |-> flight.running, input |-> {q}, events |-> flight.events, forest |-> flight.forest]
    BY <1>0, <1>1, FlightWithInput
  <2> QED
    BY <1>0, <2>1, <2>2 DEF ChatShapes, Flights
<1>3. PICK m \in Nat : m = Len(inputs)
  BY <1>0 DEF ChatShapes
<1>4. inputs' \in Seq(Questions) /\ Len(inputs') = m + 1 /\ inputs'[m + 1] = q
      /\ \A i \in 1..m : inputs'[i] = inputs[i]
  BY <1>0, <1>1, <1>3 DEF ChatShapes
<1>5. ChatShapes'
  BY <1>0, <1>2, <1>4 DEF ChatShapes
<1>6. (\A r : IsSaved(r)' <=> IsSaved(r)) /\ LoopHolds'
  BY <1>0 DEF IsSaved, LoopHolds, TurnIs
<1>7. q \notin cut
  BY <1>0, <1>1 DEF EachOnce
<1>8. EachOnce'
  <2>1. ASSUME NEW i \in 1..(m + 1)
        PROVE  loop.q # {inputs'[i]} /\ ~IsSaved(inputs[i])' /\ inputs'[i] \notin cut
    <3>1. CASE i = m + 1
      BY <1>1, <1>4, <1>6, <1>7, <3>1
    <3>2. CASE i \in 1..m
      BY <1>0, <1>3, <1>4, <1>6, <3>2 DEF EachOnce
    <3> QED
      BY <1>3, <3>1, <3>2
  <2>2. ASSUME NEW i \in 1..(m + 1), NEW j \in 1..(m + 1), inputs'[i] = inputs'[j] PROVE i = j
    <3>1. CASE i \in 1..m /\ j \in 1..m
      BY <1>0, <1>3, <1>4, <2>2, <3>1 DEF EachOnce
    <3>2. CASE i = m + 1 /\ j \in 1..m
      BY <1>1, <1>3, <1>4, <2>2, <3>2
    <3>3. CASE j = m + 1 /\ i \in 1..m
      BY <1>1, <1>3, <1>4, <2>2, <3>3
    <3> QED
      BY <1>3, <3>1, <3>2, <3>3
  <2>3. \A r \in cut' : IsSaved(r)' \/ loop'.q = {r}
    BY <1>0, <1>6 DEF EachOnce
  <2>4. \A r \in loop'.q : IsSaved(r)' <=> loop'.at = "saved"
    BY <1>0, <1>6 DEF EachOnce
  <2>5. \A i \in 1..Len(inputs') : loop'.q # {inputs'[i]} /\ ~IsSaved(inputs[i])' /\ inputs'[i] \notin cut'
    BY <1>4, <2>1
  <2>6. \A i, j \in 1..Len(inputs') : inputs'[i] = inputs'[j] => i = j
    BY <1>4, <2>2
  <2>7. /\ \A i, j \in 1..Len(saved') : saved'[i].q = saved'[j].q => i = j
        /\ \A i \in 1..Len(saved') : saved'[i].q # Nobody
        /\ loop'.at = "saved" => saved' # <<>> /\ saved'[Len(saved')].q = loop'.q /\ saved'[Len(saved')].text = loop'.produced
    BY <1>0 DEF EachOnce
  <2> QED
    BY <2>3, <2>4, <2>5, <2>6, <2>7 DEF EachOnce
<1>9. FileHolds'
  BY <1>0 DEF FileHolds
<1>10. Stays
  <2>1. \A r \in Questions : Known(r) => Known(r)'
    BY <1>6 DEF Known
  <2> QED
    BY <1>0, <2>1, SameFileStays
<1>11. MoreComes'
  BY <1>3, <1>4 DEF MoreComes
<1>12. \A p : p \in Reached => p \in Reached'
  BY <1>10 DEF Reached, Within, Place, IsSaved
<1> QED
  BY <1>5, <1>6, <1>8, <1>9, <1>10, <1>11, <1>12 DEF Goes, LoopInv

-----------------------------------------------------------------------------
(*****************************************************************************)
(* What a step of the loop leaves of the stream, the groups and the pump.    *)
(*****************************************************************************)
LEMMA LeadsStays ==
  ASSUME ChatShapes, Stays, NEW e \in Emissions, EventIs(e)
  PROVE  EventIs(e)' /\ After(e)' = After(e) /\ Place(e.q)' = Place(e.q) /\ \A p : Leads(p, e) => Leads(p, e)'
<1>1. e.q \in Questions /\ Known(e.q) /\ e.kind \in {"start", "text", "call", "return", "end"}
  BY DEF Emissions, EventIs
<1>2. Known(e.q)' /\ Place(e.q)' = Place(e.q)
  BY <1>1 DEF Stays
<1>3. \A k, c, d : Within(e.q, k, c, d)' = Within(e.q, k, c, d)
  BY <1>2 DEF Within
<1>4. EventIs(e)'
  BY <1>1, <1>2 DEF EventIs, Stays
<1>5. After(e)' = After(e)
  BY <1>2, <1>3 DEF After
<1>6. ASSUME NEW p, Leads(p, e) PROVE Leads(p, e)'
  <2>1. CASE e.kind = "end"
    <3>1. /\ p = Within(e.q, p.k, p.c, p.c) /\ IsSaved(e.q)
          /\ e.q \notin cut => saved[Place(e.q)].text = Texts(e.q, p.k) /\ p.k = p.c + 1
      BY <1>6, <2>1 DEF Leads
    <3>2. IsSaved(e.q)' /\ saved'[Place(e.q)] = saved[Place(e.q)] /\ (e.q \notin cut' => e.q \notin cut)
      BY <1>1, <3>1 DEF Stays
    <3> QED
      BY <1>2, <1>3, <2>1, <3>1, <3>2 DEF Leads
  <2>2. CASE e.kind = "start"
    BY <1>2, <1>6, <2>2 DEF Leads
  <2>3. CASE e.kind \in {"text", "call", "return"}
    BY <1>3, <1>6, <2>3 DEF Leads
  <2> QED
    BY <1>1, <2>1, <2>2, <2>3
<1> QED
  BY <1>2, <1>4, <1>5, <1>6

\* The stream with one emission more.
LEMMA StreamGrows ==
  ASSUME ChatShapes, NEW e \in Emissions, emitted' = Append(emitted, e)
  PROVE  /\ Len(emitted) \in Nat /\ Len(emitted') = Len(emitted) + 1 /\ emitted'[Len(emitted) + 1] = e
         /\ \A i \in 1..Len(emitted) : emitted'[i] = emitted[i]
BY DEF ChatShapes

\* What comes next at a progress still does after a step of the loop.
LEMMA NextGoes ==
  ASSUME ChatShapes, StreamHolds, Goes, NEW i \in 1..(Len(emitted) + 1), NEW p \in Progress, ComesAt(p, i)
  PROVE  ComesAt(p, i)'
<1>1. Stays /\ Len(emitted) \in Nat /\ emitted \in Seq(Emissions)
  BY DEF Goes, ChatShapes
<1>2. ASSUME i <= Len(emitted) PROVE Leads(p, emitted[i])' /\ i \in 1..Len(emitted) /\ \A e : emitted[i] = e => Leads(p, e)'
  <2>1. i \in 1..Len(emitted)
    BY <1>2
  <2>2. PICK e \in Emissions : e = emitted[i]
    BY <1>1, <2>1
  <2>3. EventIs(e) /\ Leads(p, e)
    BY <1>2, <2>1, <2>2 DEF StreamHolds, ComesAt
  <2>4. Leads(p, e)'
    BY <1>1, <2>3, LeadsStays
  <2>5. emitted'[i] = e
    BY <1>1, <2>1, <2>2, StreamGrows DEF Goes, Emits
  <2> QED
    BY <2>1, <2>2, <2>4, <2>5
<1>3. CASE emitted' = emitted /\ \A r \in Progress : r \in Reached => r \in Reached'
  BY <1>2, <1>3 DEF ComesAt
<1>4. CASE \E e \in Emissions : Emits(e)
  <2>1. PICK e \in Emissions : Emits(e)
    BY <1>4
  <2>2. Len(emitted') = Len(emitted) + 1 /\ emitted'[Len(emitted) + 1] = e
    BY <2>1, StreamGrows DEF Emits
  <2>3. CASE i <= Len(emitted)
    BY <1>1, <1>2, <2>2, <2>3 DEF ComesAt
  <2>4. CASE ~(i <= Len(emitted))
    <3>1. i = Len(emitted) + 1 /\ p \in Reached
      BY <1>1, <2>4 DEF ComesAt
    <3>2. Leads(p, e)'
      BY <2>1, <3>1 DEF Emits
    <3> QED
      BY <1>1, <2>2, <3>1, <3>2 DEF ComesAt
  <2> QED
    BY <2>3, <2>4
<1> QED
  BY <1>3, <1>4 DEF Goes

\* An end that was to come still is, or is in the stream, after a step of the loop.
LEMMA EndComesGoes ==
  ASSUME ChatShapes, Goes, NEW q \in Questions, NEW i \in 0..Len(emitted), EndComes(q, i)
  PROVE  EndComes(q, i)'
<1>1. Len(emitted) \in Nat
  BY DEF ChatShapes
<1>2. CASE loop.q = {q}
  <2>1. CASE loop'.q = {q}
    BY <2>1 DEF EndComes
  <2>2. CASE \E e \in Emissions : emitted' = Append(emitted, e) /\ e.kind = "end" /\ e.q = q
    <3>1. PICK e \in Emissions : emitted' = Append(emitted, e) /\ e.kind = "end" /\ e.q = q
      BY <2>2
    <3>2. Len(emitted') = Len(emitted) + 1 /\ emitted'[Len(emitted) + 1] = e
      BY <3>1, StreamGrows
    <3>3. Len(emitted) + 1 \in 1..Len(emitted') /\ Len(emitted) + 1 > i
      BY <1>1, <3>2
    <3> QED
      BY <3>1, <3>2, <3>3 DEF EndComes
  <2> QED
    BY <1>2, <2>1, <2>2 DEF Goes
<1>3. CASE \E j \in 1..Len(emitted) : j > i /\ emitted[j].kind = "end" /\ emitted[j].q = q
  <2>1. PICK j \in 1..Len(emitted) : j > i /\ emitted[j].kind = "end" /\ emitted[j].q = q
    BY <1>3
  <2>2. j \in 1..Len(emitted') /\ emitted'[j] = emitted[j]
    <3>1. CASE emitted' = emitted
      BY <3>1
    <3>2. CASE \E e \in Emissions : Emits(e)
      BY <1>1, <3>2, StreamGrows DEF Emits
    <3> QED
      BY <3>1, <3>2 DEF Goes
  <2> QED
    BY <2>1, <2>2 DEF EndComes
<1> QED
  BY <1>2, <1>3 DEF EndComes

\* A step of the loop keeps the stream in order.
LEMMA StreamGoes ==
  ASSUME ChatShapes, ChatShapes', StreamHolds, Goes
  PROVE  StreamHolds'
<1>0. Len(emitted) \in Nat /\ emitted \in Seq(Emissions) /\ Stays
  BY DEF ChatShapes, Goes
<1>1. ASSUME NEW i \in 1..Len(emitted), NEW e, e = emitted[i]
      PROVE  EventIs(e)' /\ ComesAt(After(e), i + 1)' /\ (e.kind # "end" => EndComes(e.q, i)')
  <2>1. e \in Emissions /\ i + 1 \in 1..(Len(emitted) + 1) /\ i \in 0..Len(emitted)
    BY <1>0, <1>1
  <2>2. EventIs(e) /\ ComesAt(After(e), i + 1) /\ (e.kind # "end" => EndComes(e.q, i))
    BY <1>1 DEF StreamHolds
  <2>3. PICK p \in Progress : p = After(e)
    BY <2>1, <2>2, EventParts
  <2>4. ComesAt(p, i + 1)
    BY <2>2, <2>3
  <2>5. ComesAt(p, i + 1)'
    <3>1. PICK l \in 1..(Len(emitted) + 1) : l = i + 1
      BY <2>1
    <3>2. ComesAt(p, l)'
      BY <2>4, <3>1, NextGoes
    <3> QED
      BY <3>1, <3>2
  <2>6. EventIs(e)' /\ After(e)' = p
    BY <1>0, <2>1, <2>2, <2>3, LeadsStays
  <2>7. e.q \in Questions
    BY <2>1 DEF Emissions
  <2> QED
    BY <2>1, <2>2, <2>5, <2>6, <2>7, EndComesGoes
<1>2. CASE emitted' = emitted
  <2>1. ASSUME NEW i \in 1..Len(emitted')
        PROVE  EventIs(emitted[i])' /\ ComesAt(After(emitted[i]), i + 1)' /\ (emitted'[i].kind # "end" => EndComes(emitted[i].q, i)')
    BY <1>1, <1>2
  <2> QED
    BY <2>1 DEF StreamHolds
<1>3. CASE \E e \in Emissions : Emits(e)
  <2>1. PICK e \in Emissions : Emits(e)
    BY <1>3
  <2>5. PICK n \in Nat : n = Len(emitted)
    BY <1>0
  <2>2. Len(emitted') = n + 1 /\ emitted'[n + 1] = e /\ \A i \in 1..n : emitted'[i] = emitted[i]
    BY <2>1, <2>5, StreamGrows DEF Emits
  <2>3. EventIs(e)' /\ ComesAt(After(e), n + 2)' /\ (e.kind # "end" => EndComes(e.q, n + 1)')
    <3>1. ~(n + 2 <= Len(emitted')) /\ After(e)' \in Reached'
      BY <2>1, <2>2 DEF Emits
    <3>2. ComesAt(After(e), n + 2)'
      BY <3>1 DEF ComesAt
    <3>3. e.kind # "end" => EndComes(e.q, n + 1)'
      BY <2>1 DEF Emits, EndComes
    <3> QED
      BY <2>1, <3>2, <3>3 DEF Emits
  <2>4. ASSUME NEW i \in 1..Len(emitted')
        PROVE  EventIs(emitted[i])' /\ ComesAt(After(emitted[i]), i + 1)' /\ (emitted'[i].kind # "end" => EndComes(emitted[i].q, i)')
    <3>1. CASE i \in 1..Len(emitted)
      BY <1>1, <2>2, <2>5, <3>1
    <3>2. CASE i = n + 1
      <4>1. i + 1 = n + 2 /\ emitted'[i] = e
        BY <2>2, <3>2
      <4> QED
        BY <2>3, <3>2, <4>1
    <3> QED
      BY <2>2, <2>5, <3>1, <3>2
  <2> QED
    BY <2>4 DEF StreamHolds
<1> QED
  BY <1>2, <1>3 DEF Goes

\* A step of the loop leaves the groups those of the turns in the file.
LEMMA GroupsGo ==
  ASSUME ChatShapes, GroupsHold, Stays, groups' = groups
  PROVE  GroupsHold'
<1>1. Len(groups) <= Len(saved) /\ Len(saved) \in Nat /\ Len(groups) \in Nat
  BY DEF GroupsHold, ChatShapes
<1>2. Len(saved') >= Len(saved) /\ cut \subseteq cut' /\ \A i \in 1..Len(saved) : saved'[i] = saved[i]
  BY DEF Stays
<1>5. Len(groups') <= Len(saved')
  <2>1. CASE saved' = saved
    BY <1>1, <2>1
  <2>2. CASE saved' # saved
    <3>1. Len(groups') <= Len(saved)
      BY <1>1
    <3> QED
      BY <1>1, <1>2, <3>1
  <2> QED
    BY <2>1, <2>2
<1>3. ASSUME NEW i \in 1..Len(groups'), NEW q \in saved'[i].q, q \notin cut'
      PROVE  groups'[i] = Called(q, Len(saved'[i].text) - 1)
  <2>1. i \in 1..Len(groups) /\ i \in 1..Len(saved)
    BY <1>1
  <2>2. saved'[i] = saved[i] /\ q \notin cut
    BY <1>2, <1>3, <2>1
  <2> QED
    BY <2>1, <2>2 DEF GroupsHold
<1> QED
  BY <1>3, <1>5 DEF GroupsHold

\* A step of the loop leaves the turn in flight what the pump has observed.
LEMMA PumpGoes ==
  ASSUME ChatShapes, ChatShapes', StreamHolds, PumpHolds, Goes, relay' = relay, groups' = groups,
         flight'.running = flight.running, flight'.events = flight.events, flight'.forest = flight.forest,
         flight'.input = flight.input \/ MoreComes'
  PROVE  PumpHolds'
<1>0. Len(emitted) \in Nat /\ Stays /\ relay \in Seq(Relays)
  BY DEF ChatShapes, Goes
<1>1. PICK p \in Progress :
        /\ FlightFits(p) /\ ComesAt(p, 1)
        /\ \A i \in 1..Len(relay) : p = After(relay[i].event)
        /\ p.m = IF Flushed THEN Len(groups) ELSE Len(groups) + 1
        /\ \A q \in p.q : EndComes(q, 0)
  BY DEF PumpHolds
<1>2. FlightFits(p)'
  BY <1>1 DEF FlightFits
<1>3. ComesAt(p, 1)'
  <2>1. PICK i \in 1..(Len(emitted) + 1) : i = 1
    BY <1>0
  <2> QED
    BY <1>1, <2>1, NextGoes
<1>4. ASSUME NEW i \in 1..Len(relay)
      PROVE  /\ p = After(relay[i].event)'
             /\ EventIs(relay[i].event)'
             /\ ~relay'[i].flushed =>
                  /\ relay'[i].event.kind = "end"
                  /\ relay'[i].event.q \notin cut' =>
                       relay'[i].group = Called(relay'[i].event.q, Len(saved'[Place(relay[i].event.q)'].text) - 1)
  <2>1. PICK e \in Emissions : e = relay[i].event
    <3>1. relay[i] \in Relays
      BY <1>0
    <3> QED
      BY <3>1 DEF Relays
  <2>2. /\ EventIs(e)
        /\ ~relay[i].flushed =>
             /\ e.kind = "end"
             /\ e.q \notin cut => relay[i].group = Called(e.q, Len(saved[Place(e.q)].text) - 1)
    BY <2>1 DEF PumpHolds
  <2>3. EventIs(e)' /\ After(e)' = After(e) /\ Place(e.q)' = Place(e.q)
    BY <1>0, <2>2, LeadsStays
  <2>4. e.kind = "end" => saved'[Place(e.q)] = saved[Place(e.q)]
    BY <1>0, <2>2 DEF EventIs, Stays, Emissions
  <2>5. cut \subseteq cut'
    BY <1>0 DEF Stays
  <2>6. p = After(e)'
    BY <1>1, <2>1, <2>3
  <2>7. ~relay[i].flushed /\ e.q \notin cut' => relay[i].group = Called(e.q, Len(saved'[Place(e.q)'].text) - 1)
    BY <2>2, <2>3, <2>4, <2>5
  <2> QED
    BY <2>1, <2>2, <2>3, <2>6, <2>7
<1>5. \A q \in p.q : EndComes(q, 0)'
  <2> SUFFICES ASSUME NEW q \in p.q PROVE EndComes(q, 0)'
    OBVIOUS
  <2>1. q \in Questions
    BY DEF Progress, Asked, Nobody
  <2>2. PICK i \in 0..Len(emitted) : i = 0
    BY <1>0
  <2> QED
    BY <1>1, <2>1, <2>2, EndComesGoes
<1>6. flight'.running \/ flight'.input # Nobody => MoreComes'
  BY DEF Goes, PumpHolds
<1>7. p.m = IF Flushed' THEN Len(groups') ELSE Len(groups') + 1
  BY <1>1 DEF Flushed
<1>8. \A i \in 1..Len(relay') : p = After(relay[i].event)'
  BY <1>4
<1>9. \A i \in 1..Len(relay') :
        /\ EventIs(relay[i].event)'
        /\ ~relay'[i].flushed =>
             /\ relay'[i].event.kind = "end"
             /\ relay'[i].event.q \notin cut' =>
                  relay'[i].group = Called(relay'[i].event.q, Len(saved'[Place(relay[i].event.q)'].text) - 1)
  BY <1>4
<1> QED
  BY <1>2, <1>3, <1>5, <1>6, <1>7, <1>8, <1>9 DEF PumpHolds

\* Each step of a turn keeps the loop's part.
LEMMA TurnStepGoes ==
  ASSUME LoopInv, TurnSteps
  PROVE  LoopInv' /\ Goes /\ relay' = relay /\ groups' = groups /\ flight' = flight
<1>1. relay' = relay /\ groups' = groups /\ flight' = flight
  BY DEF TurnSteps, BeginTurn, StreamText, CallTool, ToolReturns, FinishRound, AbortTurn, PersistTurn, EndTurn, LoopStep
<1> QED
  BY <1>1, BeginTurnGoes, StreamTextGoes, CallToolGoes, ToolReturnsGoes, FinishRoundGoes, AbortTurnGoes,
     PersistTurnGoes, EndTurnGoes DEF TurnSteps

\* A step of a turn, and a question put in line, keep the chat's part of the invariant.
LEMMA ChatGoes ==
  ASSUME ChatInv, TurnSteps \/ \E q \in Questions : Submitted(q) /\ UNCHANGED <<loop, emitted, relay, saved, groups, cut>>
  PROVE  ChatInv' /\ LoopInv /\ LoopInv' /\ Goes
<1>0. ChatShapes /\ LoopInv /\ StreamHolds /\ PumpHolds /\ GroupsHold
  BY DEF ChatInv, LoopInv
<1>1. /\ LoopInv' /\ Goes /\ relay' = relay /\ groups' = groups
      /\ flight'.running = flight.running /\ flight'.events = flight.events /\ flight'.forest = flight.forest
      /\ flight'.input = flight.input \/ MoreComes'
  <2>1. CASE TurnSteps
    BY <1>0, <2>1, TurnStepGoes
  <2>2. CASE \E q \in Questions : Submitted(q) /\ UNCHANGED <<loop, emitted, relay, saved, groups, cut>>
    <3>1. PICK q \in Questions : Submitted(q) /\ UNCHANGED <<loop, emitted, relay, saved, groups, cut>>
      BY <2>2
    <3>2. LoopInv' /\ Goes
      BY <1>0, <3>1, SubmittedGoes
    <3>3. flight' = [running |-> flight.running, input |-> {q}, events |-> flight.events, forest |-> flight.forest]
      BY <1>0, <3>1, FlightWithInput DEF Submitted
    <3>4. flight'.running = flight.running /\ flight'.events = flight.events /\ flight'.forest = flight.forest
      BY <3>3
    <3>5. MoreComes'
      <4>1. inputs' = Append(inputs, q) /\ inputs \in Seq(Questions)
        BY <1>0, <3>1 DEF Submitted, ChatShapes
      <4>2. inputs' # <<>>
        BY <4>1
      <4> QED
        BY <4>2 DEF MoreComes
    <3> QED
      BY <3>1, <3>2, <3>4, <3>5
  <2> QED
    BY <2>1, <2>2
<1>2. ChatShapes'
  BY <1>1 DEF LoopInv
<1>3. StreamHolds'
  BY <1>0, <1>1, <1>2, StreamGoes
<1>4. PumpHolds'
  BY <1>0, <1>1, <1>2, PumpGoes
<1>5. GroupsHold'
  BY <1>0, <1>1, GroupsGo DEF Goes
<1> QED
  BY <1>0, <1>1, <1>3, <1>4, <1>5 DEF ChatInv, LoopInv

-----------------------------------------------------------------------------
(*****************************************************************************)
(* The pump's steps.                                                         *)
(*****************************************************************************)
LEMMA FlightParts ==
  ASSUME ChatShapes
  PROVE  \E a1, a2, a3, a4 : /\ flight = [running |-> a1, input |-> a2, events |-> a3, forest |-> a4]
                             /\ a1 = flight.running /\ a2 = flight.input /\ a3 = flight.events /\ a4 = flight.forest
<1>1. PICK t \in Flights : t = flight
  BY DEF ChatShapes
<1>2. t = [running |-> t.running, input |-> t.input, events |-> t.events, forest |-> t.forest]
  BY DEF Flights
<1> QED
  BY <1>1, <1>2

\* Within a turn the pump keeps every event of it.
LEMMA BufferedWhole ==
  ASSUME NEW f, f.running, NEW e
  PROVE  Buffered(f, e) = [f EXCEPT !.events = Append(f.events, e)]
BY DEF Buffered

\* What the pump makes of the turn in flight, event by event.
LEMMA ObservedIs ==
  ASSUME ChatShapes, NEW e \in Emissions
  PROVE  /\ e.kind = "start" => \E y : y /\ Observed(e) = [running |-> y, input |-> flight.input, events |-> Append(<<>>, e), forest |-> {}]
         /\ e.kind \in {"text", "return"} /\ flight.running =>
              Observed(e) = [running |-> flight.running, input |-> flight.input, events |-> Append(flight.events, e),
                             forest |-> flight.forest]
         /\ e.kind = "call" /\ flight.running =>
              Observed(e) = [running |-> flight.running, input |-> flight.input, events |-> Append(flight.events, e),
                             forest |-> flight.forest \cup {<<e.q, e.n>>}]
         /\ e.kind = "end" => Observed(e) = NoFlight
<1>1. PICK a1, a2, a3, a4 :
        /\ flight = [running |-> a1, input |-> a2, events |-> a3, forest |-> a4]
        /\ a1 = flight.running /\ a2 = flight.input /\ a3 = flight.events /\ a4 = flight.forest
  BY FlightParts
<1>2. a3 \in Seq(Emissions) /\ <<>> \in Seq(Emissions)
  BY <1>1 DEF ChatShapes, Flights
<1>3. ASSUME e.kind = "start"
      PROVE  \E y : y /\ Observed(e) = [running |-> y, input |-> flight.input, events |-> Append(<<>>, e), forest |-> {}]
  <2>1. PICK y, x, z : y = TRUE /\ x = <<>> /\ z = {}
    OBVIOUS
  <2>2. PICK t1 : t1 = [flight EXCEPT !.running = y]
    OBVIOUS
  <2>3. t1 = [running |-> y, input |-> a2, events |-> a3, forest |-> a4]
    BY <1>1, <2>2
  <2>4. PICK t2 : t2 = [t1 EXCEPT !.events = x]
    OBVIOUS
  <2>5. t2 = [running |-> y, input |-> a2, events |-> x, forest |-> a4]
    BY <2>3, <2>4
  <2>6. PICK t3 : t3 = [t2 EXCEPT !.forest = z]
    OBVIOUS
  <2>7. t3 = [running |-> y, input |-> a2, events |-> x, forest |-> z]
    BY <2>5, <2>6
  <2>8. [flight EXCEPT !.running = y, !.events = x, !.forest = z] = t3
    BY <2>2, <2>4, <2>6
  <2>9. Observed(e) = Buffered(t3, e)
    BY <1>3, <2>1, <2>8 DEF Observed
  <2>10. Buffered(t3, e) = [running |-> y, input |-> a2, events |-> Append(x, e), forest |-> z]
    <3>1. t3.running = y
      BY <2>7
    <3>2. t3.running /\ t3.events = x
      BY <2>1, <2>7, <3>1
    <3>3. PICK u : u = Append(x, e)
      OBVIOUS
    <3>4. Buffered(t3, e) = [t3 EXCEPT !.events = u]
      BY <3>2, <3>3, BufferedWhole
    <3>5. [t3 EXCEPT !.events = u] = [running |-> y, input |-> a2, events |-> u, forest |-> z]
      BY <2>7
    <3> QED
      BY <3>3, <3>4, <3>5
  <2> QED
    BY <1>1, <2>1, <2>9, <2>10
<1>4. ASSUME e.kind \in {"text", "return"}, flight.running
      PROVE  Observed(e) = [running |-> flight.running, input |-> flight.input, events |-> Append(flight.events, e),
                            forest |-> flight.forest]
  <2>1. Observed(e) = Buffered(flight, e)
    BY <1>4 DEF Observed
  <2>2. Buffered(flight, e) = [running |-> a1, input |-> a2, events |-> Append(a3, e), forest |-> a4]
    <3>3. PICK u : u = Append(a3, e)
      OBVIOUS
    <3>1. Buffered(flight, e) = [flight EXCEPT !.events = Append(flight.events, e)]
      BY <1>4, BufferedWhole
    <3>4. Buffered(flight, e) = [flight EXCEPT !.events = u]
      BY <1>1, <3>1, <3>3
    <3>5. [flight EXCEPT !.events = u] = [running |-> a1, input |-> a2, events |-> u, forest |-> a4]
      BY <1>1
    <3> QED
      BY <3>3, <3>4, <3>5
  <2> QED
    BY <1>1, <2>1, <2>2
<1>5. ASSUME e.kind = "call", flight.running
      PROVE  Observed(e) = [running |-> flight.running, input |-> flight.input, events |-> Append(flight.events, e),
                            forest |-> flight.forest \cup {<<e.q, e.n>>}]
  <2>1. PICK z : z = flight.forest \cup {<<e.q, e.n>>}
    OBVIOUS
  <2>2. PICK t : t = [flight EXCEPT !.forest = z]
    OBVIOUS
  <2>3. t = [running |-> a1, input |-> a2, events |-> a3, forest |-> z]
    BY <1>1, <2>2
  <2>4. Observed(e) = Buffered(t, e)
    BY <1>5, <2>1, <2>2 DEF Observed
  <2>5. Buffered(t, e) = [running |-> a1, input |-> a2, events |-> Append(a3, e), forest |-> z]
    <3>1. t.running = a1
      BY <2>3
    <3>2. t.running /\ t.events = a3
      BY <1>1, <1>5, <2>3, <3>1
    <3>3. PICK u : u = Append(a3, e)
      OBVIOUS
    <3>4. Buffered(t, e) = [t EXCEPT !.events = u]
      BY <3>2, <3>3, BufferedWhole
    <3>5. [t EXCEPT !.events = u] = [running |-> a1, input |-> a2, events |-> u, forest |-> z]
      BY <2>3
    <3> QED
      BY <3>3, <3>4, <3>5
  <2> QED
    BY <1>1, <2>1, <2>4, <2>5
<1>6. e.kind = "end" => Observed(e) = NoFlight
  BY DEF Observed
<1> QED
  BY <1>3, <1>4, <1>5, <1>6

\* Between turns nothing is in flight.
LEMMA NoFlightParts ==
  NoFlight \in Flights /\ ~NoFlight.running /\ NoFlight.input = Nobody /\ NoFlight.events = <<>> /\ NoFlight.forest = {}
<1>1. <<>> \in Seq(Emissions) /\ {} \in SUBSET Pairs /\ Nobody \in Asked
  BY DEF Asked
<1> QED
  BY <1>1 DEF NoFlight, Flights

\* The forest of a turn of one question.
LEMMA ForestOf ==
  ASSUME NEW q, NEW c
  PROVE  UNION {Called(r, c) : r \in {q}} = Called(q, c)
OBVIOUS

\* What has been observed up to p fits, and the event that comes at p is observed.
LEMMA FlightStep ==
  ASSUME ChatShapes, NEW p \in Progress, FlightFits(p), NEW e \in Emissions, EventIs(e), Leads(p, e),
         flight' = Observed(e), NEW r, r = After(e)
  PROVE  /\ FlightFits(r)' /\ flight' \in Flights
         /\ e.kind = "end" => ~flight'.running /\ flight'.input = Nobody
<1>1. r \in Progress /\ e.q \in Questions /\ e.kind \in {"start", "text", "call", "return", "end"}
      /\ e.n \in 0..Rounds /\ (e.kind \in {"text", "call", "return"} => e.n \in 1..Rounds /\ e.n - 1 \in 0..Rounds)
      /\ (e.kind # "end" => r.q = {e.q}) /\ (e.kind = "end" => r.q = Nobody)
  BY EventParts
<1>2. flight.events \in Seq(Emissions) /\ flight.input \in Asked /\ flight.forest \in SUBSET Pairs /\ <<>> \in Seq(Emissions)
  BY DEF ChatShapes, Flights
<1>3. CASE e.kind = "end"
  <2>1. flight' = NoFlight /\ r.q = Nobody
    BY <1>1, <1>3, ObservedIs
  <2>2. flight'.forest = {} /\ flight'.events = <<>> /\ ~flight'.running /\ flight'.input = Nobody /\ flight' \in Flights
    BY <2>1, NoFlightParts
  <2>3. UNION {Called(q, r.c) : q \in r.q} = {}
    BY <2>1 DEF Nobody
  <2> QED
    BY <2>1, <2>2, <2>3 DEF FlightFits
<1>4. CASE e.kind = "start"
  <2>1. PICK y : y /\ flight' = [running |-> y, input |-> flight.input, events |-> Append(<<>>, e), forest |-> {}]
    BY <1>4, ObservedIs
  <2>2. flight'.running = y /\ flight'.events = Append(<<>>, e) /\ flight'.forest = {} /\ flight'.input = flight.input
    BY <2>1
  <2>3. flight' \in Flights
    <3>1. Append(<<>>, e) \in Seq(Emissions) /\ {} \in SUBSET Pairs
      BY <1>2
    <3>2. flight' = [running |-> TRUE, input |-> flight.input, events |-> Append(<<>>, e), forest |-> {}]
      BY <2>1
    <3> QED
      BY <1>2, <3>1, <3>2 DEF Flights
  <2>4. r = Within(e.q, 0, 0, 0) /\ 0 \in 0..Rounds
    BY <1>4, ConversationAssumption DEF After
  <2>5. r.q = {e.q} /\ r.c = 0 /\ Partial(r) = Answering(e.q, 0, 0, 0) /\ r.q # Nobody
    BY <1>1, <2>4, WithinFacts DEF Nobody
  <2>6. Partial(r) = AnswerBubble
    BY <1>1, <2>4, <2>5, AnsweringFacts
  <2>7. UNION {Called(q, r.c) : q \in r.q} = {}
    BY <1>1, <2>4, <2>5, ForestOf, TextFacts
  <2>8. ASSUME NEW v \in Views, Closed(v) PROVE Folded(v, Append(<<>>, e)) = [v EXCEPT !.blocks = Append(v.blocks, Partial(r))]
    <3>1. PICK none \in Seq(Emissions) : none = <<>>
      BY <1>2
    <3>2. Folded(v, Append(none, e)) = ApplyEvent(Folded(v, none), e) /\ Folded(v, none) = v
      BY <3>1, FoldedSteps
    <3>3. ApplyEvent(v, e) = [blocks |-> Append(v.blocks, AnswerBubble), running |-> v.running]
      BY <1>4, <2>8, StartFold
    <3>4. [v EXCEPT !.blocks = Append(v.blocks, Partial(r))] = [blocks |-> Append(v.blocks, Partial(r)), running |-> v.running]
      BY WithBlocks
    <3> QED
      BY <2>6, <3>1, <3>2, <3>3, <3>4
  <2> QED
    BY <1>4, <2>1, <2>2, <2>3, <2>5, <2>7, <2>8 DEF FlightFits
<1>5. CASE e.kind \in {"text", "call", "return"}
  <2>1. /\ p.q = {e.q} /\ r.q = {e.q} /\ p.q # Nobody /\ r.q # Nobody
        /\ p.c \in 0..Rounds /\ r.c = IF e.kind = "call" THEN e.n ELSE p.c
        /\ e.kind = "call" => p.c = e.n - 1
    <3>1. CASE e.kind = "text"
      <4>1. p = Within(e.q, e.n - 1, e.n - 1, e.n - 1) /\ r = Within(e.q, e.n, e.n - 1, e.n - 1)
        BY <3>1 DEF Leads, After
      <4>2. p.q = {e.q} /\ r.q = {e.q}
        BY <1>1, <3>1, <4>1, WithinFacts
      <4>3. p.c = e.n - 1 /\ r.c = e.n - 1
        BY <1>1, <3>1, <4>1, WithinFacts
      <4> QED
        BY <1>1, <3>1, <4>2, <4>3 DEF Nobody
    <3>2. CASE e.kind = "call"
      <4>1. p = Within(e.q, e.n, e.n - 1, e.n - 1) /\ r = Within(e.q, e.n, e.n, e.n - 1)
        BY <3>2 DEF Leads, After
      <4>2. p.q = {e.q} /\ r.q = {e.q}
        BY <1>1, <3>2, <4>1, WithinFacts
      <4>3. p.c = e.n - 1 /\ r.c = e.n
        BY <1>1, <3>2, <4>1, WithinFacts
      <4> QED
        BY <1>1, <3>2, <4>2, <4>3 DEF Nobody
    <3>3. CASE e.kind = "return"
      <4>1. p = Within(e.q, e.n, e.n, e.n - 1) /\ r = Within(e.q, e.n, e.n, e.n)
        BY <3>3 DEF Leads, After
      <4>2. p.q = {e.q} /\ r.q = {e.q}
        BY <1>1, <3>3, <4>1, WithinFacts
      <4>3. p.c = e.n /\ r.c = e.n
        BY <1>1, <3>3, <4>1, WithinFacts
      <4> QED
        BY <1>1, <3>3, <4>2, <4>3 DEF Nobody
    <3> QED
      BY <1>5, <3>1, <3>2, <3>3
  <2>2. flight.running /\ flight.forest = Called(e.q, p.c)
    <3>1. flight.forest = UNION {Called(q, p.c) : q \in p.q}
      BY DEF FlightFits
    <3> QED
      BY <2>1, <3>1, ForestOf DEF FlightFits
  <2>3. PICK forest \in SUBSET Pairs : forest = Called(e.q, r.c) /\
          flight' = [running |-> flight.running, input |-> flight.input, events |-> Append(flight.events, e), forest |-> forest]
    <3>1. CASE e.kind = "call"
      <4>1. flight.forest \cup {<<e.q, e.n>>} = Called(e.q, r.c) /\ Called(e.q, r.c) \in SUBSET Pairs
        <5>1. e.n > 0 /\ r.c = e.n /\ e.n \in 0..Rounds
          BY <1>1, <2>1, <3>1
        <5> QED
          BY <1>1, <2>1, <2>2, <3>1, <5>1, TextFacts
      <4> QED
        BY <2>2, <3>1, <4>1, ObservedIs
    <3>2. CASE e.kind # "call"
      <4>1. flight' = [running |-> flight.running, input |-> flight.input, events |-> Append(flight.events, e), forest |-> flight.forest]
        BY <1>5, <2>2, <3>2, ObservedIs
      <4> QED
        BY <1>2, <2>1, <2>2, <3>2, <4>1
    <3> QED
      BY <3>1, <3>2
  <2>4. flight'.running = flight.running /\ flight'.forest = forest /\ flight'.events = Append(flight.events, e)
    BY <2>3
  <2>5. flight' \in Flights
    <3>1. Append(flight.events, e) \in Seq(Emissions) /\ flight.running \in BOOLEAN
      BY <1>2 DEF ChatShapes, Flights
    <3> QED
      BY <1>2, <2>3, <3>1 DEF Flights
  <2>6. UNION {Called(q, r.c) : q \in r.q} = forest
    BY <2>1, <2>3, ForestOf
  <2>7. ASSUME NEW v \in Views, Closed(v)
        PROVE  Folded(v, Append(flight.events, e)) = [v EXCEPT !.blocks = Append(v.blocks, Partial(r))]
    <3>1. Folded(v, Append(flight.events, e)) = ApplyEvent(Folded(v, flight.events), e)
      BY <1>2, FoldedSteps
    <3>2. PICK w \in Views : w = Folded(v, flight.events)
      BY <1>2, FoldedSteps
    <3>3. w = [v EXCEPT !.blocks = Append(v.blocks, Partial(p))]
      BY <2>1, <2>7, <3>2 DEF FlightFits
    <3>4. w = [blocks |-> Append(v.blocks, Partial(p)), running |-> v.running]
      BY <3>3, WithBlocks
    <3>5. w.blocks = Append(v.blocks, Partial(p)) /\ w.running = v.running
      BY <3>4
    <3>6. v.blocks \in Columns
      BY ViewParts DEF Columns
    <3>7. ApplyEvent(w, e) = [blocks |-> Append(v.blocks, Partial(r)), running |-> w.running]
      BY <1>5, <3>5, <3>6, AnswerFold
    <3>8. [v EXCEPT !.blocks = Append(v.blocks, Partial(r))] = [blocks |-> Append(v.blocks, Partial(r)), running |-> v.running]
      BY WithBlocks
    <3> QED
      BY <3>1, <3>2, <3>5, <3>7, <3>8
  <2> QED
    BY <1>5, <2>1, <2>2, <2>4, <2>5, <2>6, <2>7 DEF FlightFits
<1> QED
  BY <1>1, <1>3, <1>4, <1>5

-----------------------------------------------------------------------------
(*****************************************************************************)
(* The pump leaves the loop and the file, and so what there is to know.      *)
(*****************************************************************************)
LEMMA SameKnown ==
  ASSUME loop' = loop, saved' = saved, cut' = cut
  PROVE  /\ \A e : (EventIs(e)' <=> EventIs(e)) /\ After(e)' = After(e) /\ Place(e.q)' = Place(e.q)
         /\ \A p, e : Leads(p, e)' <=> Leads(p, e)
         /\ \A p : p \in Reached' <=> p \in Reached
<1>1. ASSUME NEW q PROVE (IsSaved(q)' <=> IsSaved(q)) /\ Place(q)' = Place(q) /\ (Known(q)' <=> Known(q))
  BY DEF IsSaved, Place, Known
<1>2. \A q, k, c, d : Within(q, k, c, d)' = Within(q, k, c, d)
  BY <1>1 DEF Within
<1>3. ASSUME NEW e PROVE (EventIs(e)' <=> EventIs(e)) /\ After(e)' = After(e)
  BY <1>1, <1>2 DEF EventIs, After
<1>4. ASSUME NEW p, NEW e PROVE Leads(p, e)' <=> Leads(p, e)
  <2>1. Place(e.q)' = Place(e.q) /\ (IsSaved(e.q)' <=> IsSaved(e.q)) /\ \A k, c, d : Within(e.q, k, c, d)' = Within(e.q, k, c, d)
    BY <1>1, <1>2
  <2> QED
    BY <2>1 DEF Leads
<1>5. Reached' = Reached
  BY <1>2 DEF Reached
<1> QED
  BY <1>1, <1>3, <1>4, <1>5

\* A step that leaves the chat alone keeps its part of the invariant.
LEMMA SameChat ==
  ASSUME ChatInv, UNCHANGED chatSide
  PROVE  ChatInv'
<1>0. /\ inputs' = inputs /\ loop' = loop /\ emitted' = emitted /\ relay' = relay /\ flight' = flight
      /\ saved' = saved /\ groups' = groups /\ cut' = cut
  BY DEF chatSide
<1>1. ChatShapes'
  BY <1>0 DEF ChatInv, ChatShapes
<1>2. LoopHolds'
  BY <1>0 DEF ChatInv, LoopHolds, TurnIs
<1>3. EachOnce'
  BY <1>0 DEF ChatInv, EachOnce, IsSaved
<1>4. FileHolds'
  BY <1>0 DEF ChatInv, FileHolds
<1>5. (\A p, i : ComesAt(p, i)' <=> ComesAt(p, i)) /\ (\A q, i : EndComes(q, i)' <=> EndComes(q, i))
  BY <1>0, SameKnown DEF ComesAt, EndComes
<1>6. StreamHolds'
  <2> SUFFICES ASSUME NEW i \in 1..Len(emitted)
               PROVE  EventIs(emitted[i])' /\ ComesAt(After(emitted[i]), i + 1)' /\ (emitted'[i].kind # "end" => EndComes(emitted[i].q, i)')
    BY <1>0 DEF StreamHolds
  <2>1. PICK e : e = emitted[i]
    OBVIOUS
  <2>2. EventIs(e) /\ ComesAt(After(e), i + 1) /\ (e.kind # "end" => EndComes(e.q, i))
    BY <2>1 DEF ChatInv, StreamHolds
  <2>3. PICK p : p = After(e)
    OBVIOUS
  <2>4. EventIs(e)' /\ p = After(e)' /\ ComesAt(p, i + 1)' /\ (e.kind # "end" => EndComes(e.q, i)')
    BY <1>0, <1>5, <2>2, <2>3, SameKnown
  <2> QED
    BY <1>0, <2>1, <2>4
<1>7. PumpHolds'
  <2>1. PICK p \in Progress :
        /\ FlightFits(p) /\ ComesAt(p, 1)
        /\ \A i \in 1..Len(relay) : p = After(relay[i].event)
        /\ p.m = IF Flushed THEN Len(groups) ELSE Len(groups) + 1
        /\ \A q \in p.q : EndComes(q, 0)
    BY DEF ChatInv, PumpHolds
  <2>2. FlightFits(p)' /\ ComesAt(p, 1)' /\ (\A q \in p.q : EndComes(q, 0)')
    BY <1>0, <1>5, <2>1 DEF FlightFits
  <2>3. p.m = IF Flushed' THEN Len(groups') ELSE Len(groups') + 1
    BY <1>0, <2>1 DEF Flushed
  <2>4. flight'.running \/ flight'.input # Nobody => MoreComes'
    BY <1>0 DEF ChatInv, PumpHolds, MoreComes
  <2>5. ASSUME NEW i \in 1..Len(relay)
        PROVE  /\ p = After(relay[i].event)' /\ EventIs(relay[i].event)'
               /\ ~relay'[i].flushed =>
                   /\ relay'[i].event.kind = "end"
                   /\ relay'[i].event.q \notin cut' =>
                        relay'[i].group = Called(relay'[i].event.q, Len(saved'[Place(relay[i].event.q)'].text) - 1)
    <3>1. PICK e : e = relay[i].event
      OBVIOUS
    <3>2. /\ EventIs(e) /\ p = After(e)
          /\ ~relay[i].flushed =>
              /\ e.kind = "end"
              /\ e.q \notin cut => relay[i].group = Called(e.q, Len(saved[Place(e.q)].text) - 1)
      BY <2>1, <3>1 DEF ChatInv, PumpHolds
    <3>3. EventIs(e)' /\ p = After(e)' /\ Place(e.q)' = Place(e.q)
      BY <1>0, <3>2, SameKnown
    <3> QED
      BY <1>0, <3>1, <3>2, <3>3
  <2>6. \A i \in 1..Len(relay') : p = After(relay[i].event)'
    BY <1>0, <2>5
  <2>7. \A i \in 1..Len(relay') :
          /\ EventIs(relay[i].event)'
          /\ ~relay'[i].flushed =>
              /\ relay'[i].event.kind = "end"
              /\ relay'[i].event.q \notin cut' =>
                   relay'[i].group = Called(relay'[i].event.q, Len(saved'[Place(relay[i].event.q)'].text) - 1)
    BY <1>0, <2>5
  <2> QED
    BY <2>2, <2>3, <2>4, <2>6, <2>7 DEF PumpHolds
<1>8. GroupsHold'
  BY <1>0 DEF ChatInv, GroupsHold
<1> QED
  BY <1>1, <1>2, <1>3, <1>4, <1>6, <1>7, <1>8 DEF ChatInv

\* What the pump leaves of the loop and the file.
LEMMA SameLoop ==
  ASSUME ChatInv, inputs' = inputs, loop' = loop, saved' = saved, cut' = cut
  PROVE  LoopHolds' /\ EachOnce' /\ FileHolds'
<1>1. LoopHolds'
  BY DEF ChatInv, LoopHolds, TurnIs
<1>2. EachOnce'
  BY DEF ChatInv, EachOnce, IsSaved
<1>3. FileHolds'
  BY DEF ChatInv, FileHolds
<1> QED
  BY <1>1, <1>2, <1>3

\* The first of a sequence, and the rest.
LEMMA FirstOf ==
  ASSUME NEW S, NEW s \in Seq(S), s # <<>>
  PROVE  /\ Len(s) \in Nat /\ Len(s) >= 1 /\ 1 \in 1..Len(s) /\ s[1] \in S /\ Head(s) = s[1]
         /\ Tail(s) \in Seq(S) /\ Len(Tail(s)) = Len(s) - 1
         /\ \A i \in 1..(Len(s) - 1) : Tail(s)[i] = s[i + 1] /\ i + 1 \in 1..Len(s)
OBVIOUS

\* What the pump has taken is one event with the group it closes.
LEMMA RelayMade ==
  ASSUME NEW e \in Emissions, NEW g \in SUBSET Pairs, NEW b \in BOOLEAN, NEW r, r = <<[event |-> e, group |-> g, flushed |-> b]>>
  PROVE  r \in Seq(Relays) /\ Len(r) = 1 /\ r[1].event = e /\ r[1].group = g /\ r[1].flushed = b /\ r # <<>>
<1>1. PICK x \in Relays : x = [event |-> e, group |-> g, flushed |-> b]
  BY DEF Relays
<1>2. r = <<x>>
  BY <1>1
<1>3. r \in Seq(Relays) /\ Len(r) = 1 /\ r[1] = x /\ r # <<>>
  BY <1>2
<1> QED
  BY <1>1, <1>3

\* The event the pump takes: what comes before it and after it.
LEMMA Taken ==
  ASSUME ChatInv, TakeEvent
  PROVE  \E e \in Emissions : \E p \in Progress :
            /\ EventIs(e) /\ Leads(p, e) /\ FlightFits(p) /\ p.m = Len(groups) /\ relay = <<>>
            /\ emitted # <<>> /\ e = emitted[1] /\ emitted' = Tail(emitted) /\ flight' = Observed(e)
            /\ flight.forest \in SUBSET Pairs
            /\ relay' \in Seq(Relays) /\ Len(relay') = 1 /\ relay'[1].event = e /\ relay'[1].group = flight.forest
            /\ relay'[1].flushed = (e.kind # "end") /\ relay' # <<>>
            /\ inputs' = inputs /\ loop' = loop /\ saved' = saved /\ groups' = groups /\ cut' = cut
            /\ \A q \in p.q : EndComes(q, 0)
<1>1. relay = <<>> /\ emitted # <<>> /\ emitted \in Seq(Emissions) /\ flight.forest \in SUBSET Pairs
  BY DEF ChatInv, ChatShapes, TakeEvent, Flights
<1>2. PICK e \in Emissions : e = emitted[1] /\ e = Head(emitted)
  BY <1>1, FirstOf
<1>3. PICK p \in Progress :
        /\ FlightFits(p) /\ ComesAt(p, 1)
        /\ p.m = IF Flushed THEN Len(groups) ELSE Len(groups) + 1
        /\ \A q \in p.q : EndComes(q, 0)
  BY DEF ChatInv, PumpHolds
<1>4. Leads(p, e) /\ EventIs(e)
  <2>1. 1 \in 1..Len(emitted)
    BY <1>1, FirstOf
  <2>2. 1 <= Len(emitted)
    BY <2>1
  <2> QED
    BY <1>2, <1>3, <2>1, <2>2 DEF ComesAt, ChatInv, StreamHolds
<1>5. p.m = Len(groups)
  BY <1>1, <1>3 DEF Flushed
<1>6. /\ relay' = <<[event |-> e, group |-> flight.forest, flushed |-> e.kind # "end"]>>
      /\ emitted' = Tail(emitted) /\ flight' = Observed(e)
      /\ inputs' = inputs /\ loop' = loop /\ saved' = saved /\ groups' = groups /\ cut' = cut
  BY <1>2 DEF TakeEvent
<1>7. PICK b \in BOOLEAN : b = (e.kind # "end")
  OBVIOUS
<1>8. relay' = <<[event |-> e, group |-> flight.forest, flushed |-> b]>>
  BY <1>6, <1>7
<1>9. /\ relay' \in Seq(Relays) /\ Len(relay') = 1 /\ relay'[1].event = e /\ relay'[1].group = flight.forest
      /\ relay'[1].flushed = b /\ relay' # <<>>
  BY <1>1, <1>8, RelayMade
<1> QED
  BY <1>1, <1>2, <1>3, <1>4, <1>5, <1>6, <1>7, <1>9

\* The stream without its first event.
LEMMA StreamTaken ==
  ASSUME ChatInv, emitted # <<>>, emitted' = Tail(emitted), loop' = loop, saved' = saved, cut' = cut
  PROVE  /\ \A p, i : i \in 1..Len(emitted) /\ ComesAt(p, i + 1) => ComesAt(p, i)'
         /\ \A q, i : i \in 0..Len(emitted) /\ EndComes(q, i + 1) => EndComes(q, i)'
         /\ StreamHolds'
<1>1. /\ emitted \in Seq(Emissions) /\ Len(emitted) \in Nat /\ Len(emitted) >= 1 /\ Len(emitted') = Len(emitted) - 1
      /\ \A i \in 1..(Len(emitted) - 1) : emitted'[i] = emitted[i + 1] /\ i + 1 \in 1..Len(emitted)
  BY FirstOf DEF ChatInv, ChatShapes
<1>2. ASSUME NEW p, NEW i \in 1..Len(emitted), ComesAt(p, i + 1) PROVE ComesAt(p, i)'
  <2>1. CASE i <= Len(emitted')
    <3>1. i + 1 <= Len(emitted) /\ emitted'[i] = emitted[i + 1]
      BY <1>1, <2>1
    <3>2. PICK e : e = emitted[i + 1]
      OBVIOUS
    <3>3. Leads(p, e)
      BY <1>2, <3>1, <3>2 DEF ComesAt
    <3>4. Leads(p, e)'
      BY <3>3, SameKnown
    <3> QED
      BY <2>1, <3>1, <3>2, <3>4 DEF ComesAt
  <2>2. CASE ~(i <= Len(emitted'))
    <3>1. ~(i + 1 <= Len(emitted))
      BY <1>1, <2>2
    <3>2. p \in Reached'
      BY <1>2, <3>1, SameKnown DEF ComesAt
    <3> QED
      BY <2>2, <3>2 DEF ComesAt
  <2> QED
    BY <2>1, <2>2
<1>3. ASSUME NEW q, NEW i \in 0..Len(emitted), EndComes(q, i + 1) PROVE EndComes(q, i)'
  <2>1. CASE loop.q = {q}
    BY <2>1 DEF EndComes
  <2>2. CASE \E j \in 1..Len(emitted) : j > i + 1 /\ emitted[j].kind = "end" /\ emitted[j].q = q
    <3>1. PICK j \in 1..Len(emitted) : j > i + 1 /\ emitted[j].kind = "end" /\ emitted[j].q = q
      BY <2>2
    <3>2. PICK l \in 1..(Len(emitted) - 1) : l + 1 = j /\ l > i
      BY <1>1, <3>1
    <3>3. l \in 1..Len(emitted') /\ emitted'[l] = emitted[j]
      BY <1>1, <3>2
    <3> QED
      BY <3>1, <3>2, <3>3 DEF EndComes
  <2> QED
    BY <1>3, <2>1, <2>2 DEF EndComes
<1>4. StreamHolds'
  <2>1. ASSUME NEW i \in 1..Len(emitted')
        PROVE  EventIs(emitted[i])' /\ ComesAt(After(emitted[i]), i + 1)' /\ (emitted'[i].kind # "end" => EndComes(emitted[i].q, i)')
    <3>1. PICK l \in 1..Len(emitted) : l = i + 1
      BY <1>1
    <3>2. PICK e : e = emitted[l]
      OBVIOUS
    <3>3. EventIs(e) /\ ComesAt(After(e), l + 1) /\ (e.kind # "end" => EndComes(e.q, l)) /\ emitted'[i] = e
      BY <1>1, <3>1, <3>2 DEF ChatInv, StreamHolds
    <3>4. PICK p : p = After(e)
      OBVIOUS
    <3>5. EventIs(e)' /\ p = After(e)'
      BY <3>3, <3>4, SameKnown
    <3>6. ComesAt(p, l)'
      BY <1>2, <3>3, <3>4
    <3>7. e.kind # "end" => EndComes(e.q, i)'
      BY <1>1, <1>3, <3>1, <3>3
    <3>8. ComesAt(p, i + 1)'
      BY <3>1, <3>6
    <3> QED
      BY <3>3, <3>5, <3>7, <3>8
  <2> QED
    BY <2>1 DEF StreamHolds
<1> QED
  BY <1>2, <1>3, <1>4

\* The pump takes an event.
LEMMA TakeEventChat ==
  ASSUME ChatInv, TakeEvent
  PROVE  ChatInv'
<1>1. PICK e \in Emissions, p \in Progress :
        /\ EventIs(e) /\ Leads(p, e) /\ FlightFits(p) /\ p.m = Len(groups) /\ relay = <<>>
        /\ emitted # <<>> /\ e = emitted[1] /\ emitted' = Tail(emitted) /\ flight' = Observed(e)
        /\ flight.forest \in SUBSET Pairs
        /\ relay' \in Seq(Relays) /\ Len(relay') = 1 /\ relay'[1].event = e /\ relay'[1].group = flight.forest
        /\ relay'[1].flushed = (e.kind # "end") /\ relay' # <<>>
        /\ inputs' = inputs /\ loop' = loop /\ saved' = saved /\ groups' = groups /\ cut' = cut
  BY Taken
<1>2. ChatShapes /\ LoopHolds /\ EachOnce /\ StreamHolds
  BY DEF ChatInv
<1>3. PICK r : r = After(e)
  OBVIOUS
<1>4. FlightFits(r)' /\ flight' \in Flights /\ (e.kind = "end" => ~flight'.running /\ flight'.input = Nobody)
  BY <1>1, <1>2, <1>3, FlightStep
<1>5. /\ emitted \in Seq(Emissions) /\ Len(emitted) \in Nat /\ Len(emitted) >= 1 /\ 1 \in 1..Len(emitted)
      /\ emitted' \in Seq(Emissions) /\ Len(emitted') = Len(emitted) - 1
  BY <1>1, <1>2, FirstOf DEF ChatShapes
<1>6. ChatShapes'
  <2>1. Len(emitted') <= OutRoom
    BY <1>2, <1>5, ConversationAssumption DEF ChatShapes
  <2>2. Len(relay') <= 1
    BY <1>1
  <2> QED
    BY <1>1, <1>2, <1>4, <1>5, <2>1, <2>2 DEF ChatShapes
<1>7. LoopHolds' /\ EachOnce' /\ FileHolds'
  BY <1>1, SameLoop
<1>8. StreamHolds'
  BY <1>1, StreamTaken
<1>9. GroupsHold'
  BY <1>1 DEF ChatInv, GroupsHold
<1>10. PumpHolds'
  <2>1. EventIs(e)' /\ r = After(e)' /\ Place(e.q)' = Place(e.q)
    BY <1>1, <1>3, SameKnown
  <2>2. ComesAt(After(e), 2) /\ (e.kind # "end" => EndComes(e.q, 1))
    <3>1. ComesAt(After(e), 1 + 1) /\ (e.kind # "end" => EndComes(e.q, 1))
      BY <1>1, <1>2, <1>5 DEF StreamHolds
    <3> QED
      BY <3>1
  <2>3. ComesAt(r, 1)'
    <3>1. PICK i \in 1..Len(emitted) : i = 1
      BY <1>5
    <3>2. ComesAt(r, i + 1)
      BY <1>3, <2>2, <3>1
    <3>3. ComesAt(r, i)'
      BY <1>1, <3>2, StreamTaken
    <3> QED
      BY <3>1, <3>3
  <2>4. e.kind # "end" => EndComes(e.q, 0)'
    <3>1. PICK i \in 0..Len(emitted) : i = 0
      BY <1>5
    <3>2. e.kind # "end" => EndComes(e.q, i)'
      BY <1>1, <2>2, <3>1, StreamTaken
    <3> QED
      BY <3>1, <3>2
  <2>5. /\ e.kind # "end" => r.q = {e.q} /\ r.m = Place(e.q) - 1
        /\ e.kind = "end" => r.q = Nobody /\ r.m = Place(e.q)
        /\ r \in Progress /\ e.q \in Questions /\ e.kind \in {"start", "text", "call", "return", "end"}
        /\ e.kind \in {"text", "call", "return"} => e.n \in 1..Rounds /\ e.n - 1 \in 0..Rounds
    BY <1>1, <1>2, <1>3, EventParts
  <2>6. p.m = Place(e.q) - 1 /\ (e.kind = "end" => p.q = {e.q}) /\ Place(e.q) \in Nat \ {0}
    <3>0. Place(e.q) \in 1..(Len(saved) + 1) /\ Len(saved) \in Nat
      BY <1>2, PlaceFacts
    <3>1. CASE e.kind = "start"
      BY <1>1, <3>0, <3>1 DEF Leads, Between
    <3>2. CASE e.kind # "start"
      <4>1. \E k, c, d : p = Within(e.q, k, c, d)
        <5>1. CASE e.kind = "end"
          BY <1>1, <5>1 DEF Leads
        <5>2. CASE e.kind = "text"
          BY <1>1, <5>2 DEF Leads
        <5>3. CASE e.kind = "call"
          BY <1>1, <5>3 DEF Leads
        <5>4. CASE e.kind = "return"
          BY <1>1, <5>4 DEF Leads
        <5> QED
          BY <2>5, <3>2, <5>1, <5>2, <5>3, <5>4
      <4> QED
        BY <3>0, <3>2, <4>1 DEF Within
    <3> QED
      BY <3>1, <3>2
  <2>7. r.m = IF Flushed' THEN Len(groups') ELSE Len(groups') + 1
    <3>1. Flushed' <=> e.kind # "end"
      BY <1>1 DEF Flushed
    <3>2. e.kind = "end" => r.m = Len(groups) + 1
      BY <1>1, <2>5, <2>6
    <3>3. e.kind # "end" => r.m = Len(groups)
      BY <1>1, <2>5, <2>6
    <3> QED
      BY <1>1, <3>1, <3>2, <3>3
  <2>8. \A q \in r.q : EndComes(q, 0)'
    BY <2>4, <2>5 DEF Nobody
  <2>9. flight'.running \/ flight'.input # Nobody => MoreComes'
    <3>1. CASE e.kind = "end"
      BY <1>4, <3>1
    <3>2. CASE e.kind # "end"
      <4>1. CASE loop'.q = {e.q}
        BY <1>7, <4>1 DEF LoopHolds, MoreComes, Nobody
      <4>2. CASE \E j \in 1..Len(emitted') : emitted'[j].kind = "end"
        BY <4>2 DEF MoreComes
      <4> QED
        BY <2>4, <3>2, <4>1, <4>2 DEF EndComes
    <3> QED
      BY <3>1, <3>2
  <2>10. e.kind = "end" /\ e.q \notin cut => flight.forest = Called(e.q, Len(saved[Place(e.q)].text) - 1)
    <3> SUFFICES ASSUME e.kind = "end", e.q \notin cut PROVE flight.forest = Called(e.q, Len(saved[Place(e.q)].text) - 1)
      OBVIOUS
    <3>1. saved[Place(e.q)].text = Texts(e.q, p.k) /\ p.k = p.c + 1
      BY <1>1 DEF Leads
    <3>2. p.k \in 0..Rounds /\ p.c \in 0..Rounds
      BY DEF Progress
    <3>3. Len(saved[Place(e.q)].text) = p.k
      BY <2>5, <3>1, <3>2, TextFacts
    <3>4. flight.forest = Called(e.q, p.c)
      BY <1>1, <2>6, ForestOf DEF FlightFits
    <3>5. p.c = Len(saved[Place(e.q)].text) - 1
      BY <3>1, <3>2, <3>3
    <3> QED
      BY <3>4, <3>5
  <2>11. ASSUME NEW i \in 1..Len(relay')
         PROVE  /\ r = After(relay[i].event)' /\ EventIs(relay[i].event)'
                /\ ~relay'[i].flushed =>
                    /\ relay'[i].event.kind = "end"
                    /\ relay'[i].event.q \notin cut' =>
                         relay'[i].group = Called(relay'[i].event.q, Len(saved'[Place(relay[i].event.q)'].text) - 1)
    <3>1. i = 1
      BY <1>1
    <3> QED
      BY <1>1, <2>1, <2>10, <3>1
  <2>12. \A i \in 1..Len(relay') : r = After(relay[i].event)'
    BY <2>11
  <2>13. \A i \in 1..Len(relay') :
           /\ EventIs(relay[i].event)'
           /\ ~relay'[i].flushed =>
               /\ relay'[i].event.kind = "end"
               /\ relay'[i].event.q \notin cut' =>
                    relay'[i].group = Called(relay'[i].event.q, Len(saved'[Place(relay[i].event.q)'].text) - 1)
    BY <2>11
  <2> QED
    BY <1>4, <2>3, <2>5, <2>7, <2>8, <2>9, <2>12, <2>13 DEF PumpHolds
<1> QED
  BY <1>6, <1>7, <1>8, <1>9, <1>10 DEF ChatInv

\* With the same loop and file what comes next is the same.
LEMMA SameStream ==
  ASSUME ChatInv, emitted' = emitted, loop' = loop, saved' = saved, cut' = cut
  PROVE  /\ \A p, i : ComesAt(p, i)' <=> ComesAt(p, i)
         /\ \A q, i : EndComes(q, i)' <=> EndComes(q, i)
         /\ StreamHolds'
<1>1. (\A p, i : ComesAt(p, i)' <=> ComesAt(p, i)) /\ (\A q, i : EndComes(q, i)' <=> EndComes(q, i))
  BY SameKnown DEF ComesAt, EndComes
<1>2. StreamHolds'
  <2> SUFFICES ASSUME NEW i \in 1..Len(emitted)
               PROVE  EventIs(emitted[i])' /\ ComesAt(After(emitted[i]), i + 1)' /\ (emitted'[i].kind # "end" => EndComes(emitted[i].q, i)')
    BY DEF StreamHolds
  <2>1. PICK e : e = emitted[i]
    OBVIOUS
  <2>2. EventIs(e) /\ ComesAt(After(e), i + 1) /\ (e.kind # "end" => EndComes(e.q, i))
    BY <2>1 DEF ChatInv, StreamHolds
  <2>3. PICK p : p = After(e)
    OBVIOUS
  <2>4. EventIs(e)' /\ p = After(e)' /\ ComesAt(p, i + 1)' /\ (e.kind # "end" => EndComes(e.q, i)')
    BY <1>1, <2>2, <2>3, SameKnown
  <2> QED
    BY <2>1, <2>4
<1> QED
  BY <1>1, <1>2

\* The event the pump is at.
LEMMA Held ==
  ASSUME ChatInv, relay # <<>>
  PROVE  \E e \in Emissions : \E p \in Progress :
            /\ Len(relay) = 1 /\ relay[1].event = e /\ p = After(e) /\ EventIs(e) /\ e.q \in Questions
            /\ relay[1].group \in SUBSET Pairs /\ relay[1].flushed \in BOOLEAN
            /\ relay[1] = [event |-> e, group |-> relay[1].group, flushed |-> relay[1].flushed]
            /\ FlightFits(p) /\ ComesAt(p, 1) /\ (\A q \in p.q : EndComes(q, 0))
            /\ p.m = IF relay[1].flushed THEN Len(groups) ELSE Len(groups) + 1
            /\ e.kind = "end" => p.m = Place(e.q) /\ p.m \in 1..Len(saved) /\ saved[p.m].q = {e.q}
            /\ ~relay[1].flushed => /\ e.kind = "end"
                                    /\ e.q \notin cut => relay[1].group = Called(e.q, Len(saved[p.m].text) - 1)
<1>1. relay \in Seq(Relays) /\ Len(relay) <= 1
  BY DEF ChatInv, ChatShapes
<1>2. Len(relay) = 1 /\ 1 \in 1..Len(relay) /\ relay[1] \in Relays
  <2>1. Len(relay) \in Nat /\ Len(relay) >= 1 /\ relay[1] \in Relays
    BY <1>1
  <2> QED
    BY <1>1, <2>1
<1>3. PICK e \in Emissions : /\ relay[1].event = e /\ relay[1].group \in SUBSET Pairs /\ relay[1].flushed \in BOOLEAN
                             /\ relay[1] = [event |-> e, group |-> relay[1].group, flushed |-> relay[1].flushed]
  BY <1>2 DEF Relays
<1>4. PICK p \in Progress :
        /\ FlightFits(p) /\ ComesAt(p, 1)
        /\ \A i \in 1..Len(relay) : p = After(relay[i].event)
        /\ p.m = IF Flushed THEN Len(groups) ELSE Len(groups) + 1
        /\ \A q \in p.q : EndComes(q, 0)
  BY DEF ChatInv, PumpHolds
<1>5. /\ EventIs(e) /\ p = After(e)
      /\ ~relay[1].flushed =>
          /\ e.kind = "end"
          /\ e.q \notin cut => relay[1].group = Called(e.q, Len(saved[Place(e.q)].text) - 1)
  BY <1>2, <1>3, <1>4 DEF ChatInv, PumpHolds
<1>6. p.m = IF relay[1].flushed THEN Len(groups) ELSE Len(groups) + 1
  BY <1>4 DEF Flushed
<1>7. e.q \in Questions /\ (e.kind = "end" => p.m = Place(e.q) /\ p.m \in 1..Len(saved) /\ saved[p.m].q = {e.q})
  BY <1>5, EventParts, PlaceFacts DEF ChatInv, EventIs
<1> QED
  BY <1>2, <1>3, <1>4, <1>5, <1>6, <1>7

\* The pump puts the group of the turn that has ended with the others.
LEMMA AppendToolsChat ==
  ASSUME ChatInv, AppendTools
  PROVE  ChatInv'
<1>1. relay # <<>> /\ ~relay[1].flushed /\ groups' = Append(groups, relay[1].group) /\ relay' = <<[relay[1] EXCEPT !.flushed = TRUE]>>
      /\ inputs' = inputs /\ loop' = loop /\ emitted' = emitted /\ flight' = flight /\ saved' = saved /\ cut' = cut
  BY DEF AppendTools
<1>2. PICK e \in Emissions, p \in Progress :
        /\ Len(relay) = 1 /\ relay[1].event = e /\ p = After(e) /\ EventIs(e) /\ e.q \in Questions
        /\ relay[1].group \in SUBSET Pairs
        /\ relay[1] = [event |-> e, group |-> relay[1].group, flushed |-> relay[1].flushed]
        /\ FlightFits(p) /\ ComesAt(p, 1) /\ (\A q \in p.q : EndComes(q, 0))
        /\ p.m = IF relay[1].flushed THEN Len(groups) ELSE Len(groups) + 1
        /\ e.kind = "end" => p.m = Place(e.q) /\ p.m \in 1..Len(saved) /\ saved[p.m].q = {e.q}
        /\ ~relay[1].flushed => /\ e.kind = "end"
                                /\ e.q \notin cut => relay[1].group = Called(e.q, Len(saved[p.m].text) - 1)
  BY <1>1, Held
<1>3. e.kind = "end" /\ p.m = Len(groups) + 1 /\ p.m \in 1..Len(saved) /\ saved[p.m].q = {e.q}
      /\ (e.q \notin cut => relay[1].group = Called(e.q, Len(saved[p.m].text) - 1))
  BY <1>1, <1>2
<1>4. PICK g \in SUBSET Pairs : g = relay[1].group
  BY <1>2
<1>5. relay' \in Seq(Relays) /\ Len(relay') = 1 /\ relay'[1].event = e /\ relay'[1].flushed
  <2>1. PICK b \in BOOLEAN : b = TRUE
    OBVIOUS
  <2>2. PICK x : x = relay[1]
    OBVIOUS
  <2>3. [x EXCEPT !.flushed = b] = [event |-> e, group |-> g, flushed |-> b]
    <3>1. x = [event |-> e, group |-> g, flushed |-> x.flushed]
      BY <1>2, <1>4, <2>2
    <3> QED
      BY <3>1
  <2>4. relay' = <<[event |-> e, group |-> g, flushed |-> b]>>
    BY <1>1, <2>1, <2>2, <2>3
  <2>5. relay' \in Seq(Relays) /\ Len(relay') = 1 /\ relay'[1].event = e /\ relay'[1].flushed = b
    BY <2>4, RelayMade
  <2> QED
    BY <2>1, <2>5
<1>6. ChatShapes /\ LoopHolds' /\ EachOnce' /\ FileHolds' /\ StreamHolds'
  BY <1>1, SameLoop, SameStream DEF ChatInv
<1>7. PICK n \in Nat : n = Len(groups)
  BY <1>6 DEF ChatShapes
<1>8. groups' \in Seq(SUBSET Pairs) /\ Len(groups') = n + 1 /\ groups'[n + 1] = g /\ \A i \in 1..n : groups'[i] = groups[i]
  BY <1>1, <1>4, <1>6, <1>7 DEF ChatShapes
<1>9. ChatShapes'
  <2>1. Len(relay') <= 1
    BY <1>5
  <2> QED
    BY <1>1, <1>5, <1>6, <1>8, <2>1 DEF ChatShapes
<1>10. GroupsHold'
  <2>1. Len(groups') <= Len(saved')
    BY <1>1, <1>3, <1>7, <1>8
  <2>2. ASSUME NEW i \in 1..Len(groups'), NEW q \in saved'[i].q, q \notin cut'
        PROVE  groups'[i] = Called(q, Len(saved'[i].text) - 1)
    <3>1. CASE i \in 1..n
      BY <1>1, <1>7, <1>8, <2>2, <3>1 DEF ChatInv, GroupsHold
    <3>2. CASE i = n + 1
      BY <1>1, <1>3, <1>4, <1>7, <1>8, <2>2, <3>2
    <3> QED
      BY <1>8, <3>1, <3>2
  <2> QED
    BY <2>1, <2>2 DEF GroupsHold
<1>11. PumpHolds'
  <2>1. FlightFits(p)' /\ ComesAt(p, 1)' /\ (\A q \in p.q : EndComes(q, 0)')
    BY <1>1, <1>2, SameStream DEF FlightFits
  <2>2. p.m = IF Flushed' THEN Len(groups') ELSE Len(groups') + 1
    <3>1. Flushed'
      BY <1>5 DEF Flushed
    <3> QED
      BY <1>3, <1>7, <1>8, <3>1
  <2>3. flight'.running \/ flight'.input # Nobody => MoreComes'
    BY <1>1 DEF ChatInv, PumpHolds, MoreComes
  <2>4. EventIs(e)' /\ p = After(e)'
    BY <1>1, <1>2, SameKnown
  <2>5. ASSUME NEW i \in 1..Len(relay') PROVE p = After(relay[i].event)' /\ EventIs(relay[i].event)' /\ relay'[i].flushed
    <3>1. i = 1
      BY <1>5
    <3> QED
      BY <1>5, <2>4, <3>1
  <2>6. \A i \in 1..Len(relay') : p = After(relay[i].event)'
    BY <2>5
  <2>7. \A i \in 1..Len(relay') :
          /\ EventIs(relay[i].event)'
          /\ ~relay'[i].flushed =>
              /\ relay'[i].event.kind = "end"
              /\ relay'[i].event.q \notin cut' =>
                   relay'[i].group = Called(relay'[i].event.q, Len(saved'[Place(relay[i].event.q)'].text) - 1)
    BY <2>5
  <2> QED
    BY <2>1, <2>2, <2>3, <2>6, <2>7 DEF PumpHolds
<1> QED
  BY <1>6, <1>9, <1>10, <1>11 DEF ChatInv

\* The pump hands the event on.
LEMMA HandOnChat ==
  ASSUME ChatInv, HandOn
  PROVE  ChatInv'
<1>1. relay # <<>> /\ relay[1].flushed /\ relay' = <<>> /\ groups' = groups
      /\ inputs' = inputs /\ loop' = loop /\ emitted' = emitted /\ flight' = flight /\ saved' = saved /\ cut' = cut
  BY DEF HandOn
<1>2. PICK p \in Progress : /\ FlightFits(p) /\ ComesAt(p, 1) /\ (\A q \in p.q : EndComes(q, 0))
                            /\ p.m = Len(groups)
  BY <1>1, Held
<1>3. ChatShapes /\ LoopHolds' /\ EachOnce' /\ FileHolds' /\ StreamHolds'
  BY <1>1, SameLoop, SameStream DEF ChatInv
<1>4. ChatShapes'
  <2>1. <<>> \in Seq(Relays) /\ Len(<<>>) = 0
    OBVIOUS
  <2> QED
    BY <1>1, <1>3, <2>1 DEF ChatShapes
<1>5. GroupsHold'
  BY <1>1 DEF ChatInv, GroupsHold
<1>6. PumpHolds'
  <2>1. FlightFits(p)' /\ ComesAt(p, 1)' /\ (\A q \in p.q : EndComes(q, 0)')
    BY <1>1, <1>2, SameStream DEF FlightFits
  <2>2. p.m = IF Flushed' THEN Len(groups') ELSE Len(groups') + 1
    BY <1>1, <1>2 DEF Flushed
  <2>3. flight'.running \/ flight'.input # Nobody => MoreComes'
    BY <1>1 DEF ChatInv, PumpHolds, MoreComes
  <2>4. \A i : ~(i \in 1..Len(relay'))
    BY <1>1
  <2> QED
    BY <2>1, <2>2, <2>3, <2>4 DEF PumpHolds
<1> QED
  BY <1>3, <1>4, <1>5, <1>6 DEF ChatInv

-----------------------------------------------------------------------------
(*****************************************************************************)
(* The screen.  What a view fits, and what an event comes at, no step of the *)
(* chat takes back.                                                          *)
(*****************************************************************************)
Moves ==
    /\ \A v \in Views : \A p \in Progress : Fits(v, p) => Fits(v, p)'
    /\ \A e \in Emissions : EventIs(e) => /\ EventIs(e)' /\ After(e)' = After(e) /\ Place(e.q)' = Place(e.q)
                                          /\ \A p : Leads(p, e) => Leads(p, e)'
    /\ Len(groups) <= Len(groups')
Beyond == MoreComes \/ (relay # <<>> /\ relay[1].event.kind = "end")

\* A sequence that grows keeps its beginnings.
LEMMA SubSeqSame ==
  ASSUME NEW S, NEW s \in Seq(S), NEW t \in Seq(S), NEW m \in Nat, m <= Len(s), Len(s) <= Len(t),
         \A i \in 1..Len(s) : t[i] = s[i]
  PROVE  SubSeq(t, 1, m) = SubSeq(s, 1, m)
<1>1. /\ \A i \in 1..m : s[i] \in S /\ t[i] = s[i] /\ t[i] \in S
      /\ m \in Int /\ 1 \in Int
  OBVIOUS
<1>2. /\ SubSeq(s, 1, m) \in Seq(S) /\ Len(SubSeq(s, 1, m)) = m
      /\ \A i \in 1..m : SubSeq(s, 1, m)[i] = s[i]
  <2>1. /\ SubSeq(s, 1, m) \in Seq(S) /\ Len(SubSeq(s, 1, m)) = IF 1 <= m THEN m - 1 + 1 ELSE 0
        /\ \A i \in 1..(m - 1 + 1) : SubSeq(s, 1, m)[i] = s[1 + i - 1]
    BY <1>1, SubSeqProperties
  <2> QED
    BY <2>1
<1>3. /\ SubSeq(t, 1, m) \in Seq(S) /\ Len(SubSeq(t, 1, m)) = m
      /\ \A i \in 1..m : SubSeq(t, 1, m)[i] = t[i]
  <2>1. /\ SubSeq(t, 1, m) \in Seq(S) /\ Len(SubSeq(t, 1, m)) = IF 1 <= m THEN m - 1 + 1 ELSE 0
        /\ \A i \in 1..(m - 1 + 1) : SubSeq(t, 1, m)[i] = t[1 + i - 1]
    BY <1>1, SubSeqProperties
  <2> QED
    BY <2>1
<1>4. \A i \in 1..m : SubSeq(t, 1, m)[i] = SubSeq(s, 1, m)[i]
  BY <1>1, <1>2, <1>3
<1> HIDE <1>1
<1> QED
  BY <1>2, <1>3, <1>4

\* A view that fits still does when the file and the groups grow and turns are cut short.
LEMMA FitsStays ==
  ASSUME ChatShapes, GroupsHold, saved' \in Seq(SavedTurns), groups' \in Seq(SUBSET Pairs),
         Len(saved) <= Len(saved'), \A i \in 1..Len(saved) : saved'[i] = saved[i],
         Len(groups) <= Len(groups'), \A i \in 1..Len(groups) : groups'[i] = groups[i], cut \subseteq cut',
         NEW v \in Views, NEW p \in Progress, Fits(v, p)
  PROVE  Fits(v, p)'
<1>1. PICK s \in Seq(Blocks) : ShowsTurns(s, p.m) /\ (v.blocks = Append(s, Partial(p)) \/ (p.q = Nobody /\ v.blocks = s))
  BY DEF Fits
<1>2. PICK m \in Nat : m = p.m
  BY DEF Progress
<1>3. m <= Len(groups) /\ Len(groups) \in Nat /\ Len(saved) \in Nat /\ Len(groups) <= Len(saved)
      /\ saved \in Seq(SavedTurns) /\ groups \in Seq(SUBSET Pairs) /\ Len(groups') \in Nat
  BY <1>1, <1>2 DEF ShowsTurns, ChatShapes, GroupsHold
<1>4. SubSeq(saved', 1, m) = SubSeq(saved, 1, m)
  BY <1>3, SubSeqSame
<1>5. SubSeq(groups', 1, m) = SubSeq(groups, 1, m)
  BY <1>3, SubSeqSame
<1>6. FileUpTo(m)' = FileUpTo(m)
  BY <1>4, <1>5 DEF FileUpTo
<1>7. \A C \in SUBSET Questions : cut' \subseteq C => Kept(C, s) = Kept(C, FileUpTo(m)')
  <2> SUFFICES ASSUME NEW C \in SUBSET Questions, cut' \subseteq C PROVE Kept(C, s) = Kept(C, FileUpTo(m)')
    OBVIOUS
  <2>1. cut \subseteq C
    OBVIOUS
  <2>2. Kept(C, s) = Kept(C, FileUpTo(m))
    BY <1>1, <1>2, <2>1 DEF ShowsTurns
  <2> QED
    BY <1>6, <2>2
<1>8. ShowsTurns(s, m)'
  <2>1. m <= Len(groups')
    BY <1>3
  <2>2. \A i \in 1..Len(s) : ~s[i].pending
    BY <1>1 DEF ShowsTurns
  <2> QED
    BY <1>7, <2>1, <2>2 DEF ShowsTurns
<1> QED
  BY <1>1, <1>2, <1>8 DEF Fits

\* A step of the loop takes nothing back.
LEMMA MovesOf ==
  ASSUME ChatShapes, ChatShapes', GroupsHold, Stays, groups' = groups
  PROVE  Moves
<1>1. Len(groups) \in Nat /\ saved' \in Seq(SavedTurns) /\ groups' \in Seq(SUBSET Pairs) /\ Len(groups) <= Len(groups')
  BY DEF ChatShapes
<1>2. \A v \in Views : \A p \in Progress : Fits(v, p) => Fits(v, p)'
  BY <1>1, FitsStays DEF Stays
<1> QED
  BY <1>1, <1>2, LeadsStays DEF Moves

\* The loop and the file as they were, or with one group more.
LEMMA MovesPast ==
  ASSUME ChatShapes, ChatShapes', GroupsHold, loop' = loop, saved' = saved, cut' = cut,
         groups' = groups \/ \E g \in SUBSET Pairs : groups' = Append(groups, g)
  PROVE  Moves
<1>0. Len(groups) \in Nat /\ saved' \in Seq(SavedTurns) /\ groups' \in Seq(SUBSET Pairs) /\ groups \in Seq(SUBSET Pairs)
      /\ Len(saved) \in Nat
  BY DEF ChatShapes
<1>1. Len(groups) <= Len(groups') /\ \A i \in 1..Len(groups) : groups'[i] = groups[i]
  <2>1. CASE groups' = groups
    BY <1>0, <2>1
  <2>2. CASE \E g \in SUBSET Pairs : groups' = Append(groups, g)
    BY <1>0, <2>2
  <2> QED
    BY <2>1, <2>2
<1>2. \A v \in Views : \A p \in Progress : Fits(v, p) => Fits(v, p)'
  BY <1>0, <1>1, FitsStays
<1> QED
  BY <1>1, <1>2, SameKnown DEF Moves

-----------------------------------------------------------------------------
(*****************************************************************************)
(* What was on its way after the place l of the feed is on its way after i.  *)
(*****************************************************************************)
Carries(i, l) ==
    /\ \A j \in 1..(Len(feed') + 1) : Link(i, j)' =>
         \E h \in 1..(Len(feed) + 1) : Link(l, h) /\ \A p \in Progress : Meets(p, h) => Meets(p, j)'
    /\ EndAhead(l) => EndAhead(i)'

\* What is on the way to the screen.
LEMMA FeedParts ==
  ASSUME ScreenShapes
  PROVE  /\ Len(feed) \in Nat
         /\ \A i \in 1..Len(feed) : /\ feed[i] \in Items /\ feed[i].kind \in {"event", "snapshot", "notice"}
                                    /\ IsEvent(i) => feed[i].event \in Emissions
                                    /\ feed[i].kind = "snapshot" => feed[i].view \in Views /\ feed[i].clean \in BOOLEAN
<1>1. feed \in Seq(Items) /\ Len(feed) \in Nat
  BY DEF ScreenShapes
<1>2. ASSUME NEW x \in Items
      PROVE  /\ x.kind \in {"event", "snapshot", "notice"} /\ (x.kind = "event" => x.event \in Emissions)
             /\ x.kind = "snapshot" => x.view \in Views /\ x.clean \in BOOLEAN
  BY <1>2 DEF Items, Events, Snapshots, Notices
<1>3. ASSUME NEW i \in 1..Len(feed) PROVE feed[i] \in Items
  BY <1>1
<1> QED
  BY <1>1, <1>2, <1>3 DEF IsEvent

\* A view that holds at a position of the feed holds where that position goes.
LEMMA ViewCarries ==
  ASSUME Moves, NEW i, NEW l, Carries(i, l), NEW v \in Views, ViewHolds(v, l)
  PROVE  ViewHolds(v, i)'
<1>1. ASSUME NEW j \in 1..(Len(feed') + 1), Link(i, j)' PROVE \E p \in Progress : Fits(v, p)' /\ Meets(p, j)'
  <2>1. PICK h \in 1..(Len(feed) + 1) : Link(l, h) /\ \A p \in Progress : Meets(p, h) => Meets(p, j)'
    BY <1>1 DEF Carries
  <2>2. PICK p \in Progress : Fits(v, p) /\ Meets(p, h)
    BY <2>1 DEF ViewHolds
  <2> QED
    BY <2>1, <2>2 DEF Moves
<1>2. Expects(v) => EndAhead(i)'
  BY DEF ViewHolds, Carries
<1> QED
  BY <1>1, <1>2 DEF ViewHolds

\* An event of the feed holds where it goes.
LEMMA EventCarries ==
  ASSUME Moves, ChatShapes, NEW i, NEW l, Carries(i, l), feed'[i] = feed[l], NEW e \in Emissions, e = feed[l].event,
         EventHolds(l), Followed(i)' => Followed(l), Len(groups) \in Nat, Len(groups') \in Nat
  PROVE  EventHolds(i)'
<1>1. EventIs(e) /\ (e.kind = "end" => Place(e.q) <= Len(groups)) /\ feed'[i].event = e
  BY DEF EventHolds
<1>2. PICK r : r = After(e)
  OBVIOUS
<1>3. r \in Progress /\ EventIs(e)' /\ r = After(e)' /\ Place(e.q)' = Place(e.q) /\ Place(e.q) \in Nat
  BY <1>1, <1>2, EventParts, PlaceFacts DEF Moves
<1>4. e.kind = "end" => Place(e.q)' <= Len(groups')
  BY <1>1, <1>3 DEF Moves
<1>5. ASSUME Followed(i)'
      PROVE  (\A j \in 1..(Len(feed') + 1) : Link(i, j)' => Meets(r, j)') /\ (e.kind # "end" => EndAhead(i)')
  <2>1. (\A h \in 1..(Len(feed) + 1) : Link(l, h) => Meets(r, h)) /\ (e.kind # "end" => EndAhead(l))
    BY <1>2, <1>5 DEF EventHolds
  <2>2. ASSUME NEW j \in 1..(Len(feed') + 1), Link(i, j)' PROVE Meets(r, j)'
    <3>1. PICK h \in 1..(Len(feed) + 1) : Link(l, h) /\ \A p \in Progress : Meets(p, h) => Meets(p, j)'
      BY <2>2 DEF Carries
    <3> QED
      BY <1>3, <2>1, <3>1
  <2> QED
    BY <2>1, <2>2 DEF Carries
<1> QED
  BY <1>1, <1>3, <1>4, <1>5 DEF EventHolds

\* The feed as it was, while the chat goes on.
LEMMA CarriesSame ==
  ASSUME ScreenShapes, FeedHolds, Moves, feed' = feed, \A p \in Progress : Behind(p) => Behind(p)', Beyond => Beyond'
  PROVE  \A i \in 0..Len(feed) : Carries(i, i)
<1> SUFFICES ASSUME NEW i \in 0..Len(feed) PROVE Carries(i, i)
  OBVIOUS
<1>1. ASSUME NEW j \in 1..(Len(feed) + 1), Link(i, j)' PROVE Link(i, j) /\ \A p \in Progress : Meets(p, j) => Meets(p, j)'
  <2>1. Link(i, j)
    BY <1>1 DEF Link, IsEvent
  <2>2. ASSUME NEW p \in Progress, Meets(p, j) PROVE Meets(p, j)'
    <3>1. CASE j <= Len(feed)
      <4>1. j \in 1..Len(feed) /\ IsEvent(j)
        BY <2>1, <3>1, FeedParts DEF Link
      <4>2. PICK e \in Emissions : e = feed[j].event
        BY <4>1, FeedParts
      <4>3. EventIs(e) /\ Leads(p, e)
        BY <2>2, <3>1, <4>1, <4>2 DEF FeedHolds, EventHolds, Meets
      <4>4. Leads(p, e)'
        BY <4>3 DEF Moves
      <4> QED
        BY <3>1, <4>2, <4>4 DEF Meets
    <3>2. CASE ~(j <= Len(feed))
      BY <2>2, <3>2 DEF Meets
    <3> QED
      BY <3>1, <3>2
  <2> QED
    BY <2>1, <2>2
<1>2. EndAhead(i) => EndAhead(i)'
  BY DEF EndAhead, Beyond, IsEvent
<1>3. Len(feed') = Len(feed)
  OBVIOUS
<1>4. \A j \in 1..(Len(feed') + 1) : Link(i, j)' =>
         \E h \in 1..(Len(feed) + 1) : Link(i, h) /\ \A p \in Progress : Meets(p, h) => Meets(p, j)'
  BY <1>1, <1>3
<1> QED
  BY <1>2, <1>4 DEF Carries

\* An item put behind the feed: no event, or the one that was next.
Joins(x) ==
    IF x.kind = "event"
    THEN (\A p \in Progress : Behind(p) => Leads(p, x.event)') /\ (Beyond => Beyond' \/ x.event.kind = "end")
    ELSE (\A p \in Progress : Behind(p) => Behind(p)') /\ (Beyond => Beyond')

\* One item more behind the feed moves no other.
LEMMA CarriesAppended ==
  ASSUME ScreenShapes, FeedHolds, Moves, NEW x, feed' = Append(feed, x), Joins(x)
  PROVE  \A i \in 0..Len(feed) : Carries(i, i)
<1> SUFFICES ASSUME NEW i \in 0..Len(feed) PROVE Carries(i, i)
  OBVIOUS
<1>1. PICK n \in Nat : n = Len(feed)
  BY FeedParts
<1>2. Len(feed') = n + 1 /\ feed'[n + 1] = x /\ \A j \in 1..n : feed'[j] = feed[j]
  BY <1>1 DEF ScreenShapes
<1>3. ASSUME NEW j \in 1..n, Link(i, j)' PROVE Link(i, j) /\ \A p \in Progress : Meets(p, j) => Meets(p, j)'
  <2>1. Link(i, j)
    <3>1. i < j /\ j <= n + 1 /\ feed'[j].kind = "event" /\ \A l \in 1..(n + 1) : i < l /\ l < j => feed'[l].kind # "event"
      BY <1>1, <1>2, <1>3 DEF Link, IsEvent
    <3>2. feed[j].kind = "event" /\ \A l \in 1..n : i < l /\ l < j => feed[l].kind # "event"
      BY <1>2, <3>1
    <3> QED
      BY <1>1, <3>1, <3>2 DEF Link, IsEvent
  <2>2. ASSUME NEW p \in Progress, Meets(p, j) PROVE Meets(p, j)'
    <3>1. j \in 1..Len(feed) /\ IsEvent(j) /\ j <= Len(feed)
      BY <1>1, <2>1 DEF Link
    <3>2. PICK e \in Emissions : e = feed[j].event
      BY <3>1, FeedParts
    <3>3. EventIs(e) /\ Leads(p, e)
      BY <2>2, <3>1, <3>2 DEF FeedHolds, EventHolds, Meets
    <3>4. Leads(p, e)'
      BY <3>3 DEF Moves
    <3>5. j <= Len(feed') /\ feed'[j].event = e
      BY <1>2, <3>2
    <3> QED
      BY <3>4, <3>5 DEF Meets
  <2> QED
    BY <2>1, <2>2
<1>4. ASSUME NEW j \in {n + 1, n + 2}, Link(i, j)'
      PROVE  Link(i, n + 1) /\ \A p \in Progress : Meets(p, n + 1) => Meets(p, j)'
  <2>1. /\ j <= n + 1 => feed'[j].kind = "event"
        /\ \A l \in 1..(n + 1) : i < l /\ l < j => feed'[l].kind # "event"
    BY <1>2, <1>4 DEF Link, IsEvent
  <2>2. Link(i, n + 1)
    <3>1. \A l \in 1..n : i < l /\ l < n + 1 => feed[l].kind # "event"
      BY <1>2, <2>1
    <3> QED
      BY <1>1, <3>1 DEF Link, IsEvent
  <2>3. ASSUME NEW p \in Progress, Meets(p, n + 1) PROVE Meets(p, j)'
    <3>1. Behind(p)
      BY <1>1, <2>3 DEF Meets
    <3>2. CASE j = n + 1
      <4>1. x.kind = "event"
        BY <1>2, <2>1, <3>2
      <4>2. Leads(p, x.event)'
        BY <3>1, <4>1 DEF Joins
      <4>3. PICK e : e = x.event
        OBVIOUS
      <4>4. j <= Len(feed') /\ feed'[j].event = e /\ Leads(p, e)'
        BY <1>2, <3>2, <4>2, <4>3
      <4> QED
        BY <4>4 DEF Meets
    <3>3. CASE j = n + 2
      <4>1. x.kind # "event" /\ ~(j <= Len(feed'))
        BY <1>1, <1>2, <2>1, <3>3
      <4>2. Behind(p)'
        BY <3>1, <4>1 DEF Joins
      <4> QED
        BY <4>1, <4>2 DEF Meets
    <3> QED
      BY <3>2, <3>3
  <2> QED
    BY <2>2, <2>3
<1>5. EndAhead(i) => EndAhead(i)'
  <2> SUFFICES ASSUME EndAhead(i) PROVE EndAhead(i)'
    OBVIOUS
  <2>1. CASE Beyond
    <3>1. CASE Beyond'
      BY <3>1 DEF EndAhead, Beyond
    <3>2. CASE x.kind = "event" /\ x.event.kind = "end"
      <4>1. n + 1 \in 1..Len(feed') /\ n + 1 > i /\ feed'[n + 1] = x
        BY <1>1, <1>2
      <4> QED
        BY <3>2, <4>1 DEF EndAhead, IsEvent
    <3> QED
      BY <2>1, <3>1, <3>2 DEF Joins
  <2>2. CASE \E j \in 1..Len(feed) : j > i /\ IsEvent(j) /\ feed[j].event.kind = "end"
    <3>1. PICK j \in 1..Len(feed) : j > i /\ IsEvent(j) /\ feed[j].event.kind = "end"
      BY <2>2
    <3>2. j \in 1..Len(feed') /\ feed'[j] = feed[j]
      BY <1>1, <1>2
    <3> QED
      BY <3>1, <3>2 DEF EndAhead, IsEvent
  <2> QED
    BY <2>1, <2>2 DEF EndAhead, Beyond
<1>6. ASSUME NEW j \in 1..(Len(feed') + 1), Link(i, j)'
      PROVE  \E h \in 1..(Len(feed) + 1) : Link(i, h) /\ \A p \in Progress : Meets(p, h) => Meets(p, j)'
  <2>1. CASE j \in 1..n
    BY <1>1, <1>3, <1>6, <2>1
  <2>2. CASE j \in {n + 1, n + 2}
    <3>1. n + 1 \in 1..(Len(feed) + 1)
      BY <1>1
    <3> QED
      BY <1>4, <1>6, <2>2, <3>1
  <2> QED
    BY <1>2, <2>1, <2>2
<1> QED
  BY <1>5, <1>6 DEF Carries

\* The first of the feed has been taken.
LEMMA CarriesTail ==
  ASSUME ScreenShapes, FeedHolds, Moves, feed # <<>>, feed' = Tail(feed), \A p \in Progress : Behind(p) => Behind(p)',
         Beyond => Beyond'
  PROVE  /\ \A i \in 0..Len(feed') : Carries(i, i + 1)
         /\ Len(feed') = Len(feed) - 1 /\ \A i \in 1..Len(feed') : feed'[i] = feed[i + 1] /\ i + 1 \in 1..Len(feed)
<1>1. /\ Len(feed) \in Nat /\ Len(feed) >= 1 /\ Len(feed') = Len(feed) - 1
      /\ \A i \in 1..(Len(feed) - 1) : feed'[i] = feed[i + 1] /\ i + 1 \in 1..Len(feed)
  BY FirstOf DEF ScreenShapes
<1>2. ASSUME NEW i \in 0..Len(feed'), NEW j \in 1..(Len(feed') + 1), Link(i, j)'
      PROVE  j + 1 \in 1..(Len(feed) + 1) /\ Link(i + 1, j + 1) /\ \A p \in Progress : Meets(p, j + 1) => Meets(p, j)'
  <2>1. /\ i < j /\ (j <= Len(feed') => feed'[j].kind = "event")
        /\ \A l \in 1..Len(feed') : i < l /\ l < j => feed'[l].kind # "event"
    BY <1>2 DEF Link, IsEvent
  <2>2. Link(i + 1, j + 1)
    <3>1. j + 1 <= Len(feed) => feed[j + 1].kind = "event"
      BY <1>1, <2>1
    <3>2. ASSUME NEW l \in 1..Len(feed), i + 1 < l, l < j + 1 PROVE feed[l].kind # "event"
      <4>1. PICK h \in 1..Len(feed') : h + 1 = l
        BY <1>1, <3>2
      <4> QED
        BY <1>1, <2>1, <3>2, <4>1
    <3> QED
      BY <1>1, <2>1, <3>1, <3>2 DEF Link, IsEvent
  <2>3. ASSUME NEW p \in Progress, Meets(p, j + 1) PROVE Meets(p, j)'
    <3>1. CASE j <= Len(feed')
      <4>1. j + 1 \in 1..Len(feed) /\ IsEvent(j + 1) /\ j + 1 <= Len(feed)
        BY <1>1, <2>2, <3>1 DEF Link
      <4>2. PICK e \in Emissions : e = feed[j + 1].event
        BY <4>1, FeedParts
      <4>3. EventIs(e) /\ Leads(p, e)
        BY <2>3, <4>1, <4>2 DEF FeedHolds, EventHolds, Meets
      <4>4. Leads(p, e)'
        BY <4>3 DEF Moves
      <4>5. feed'[j].event = e
        BY <1>1, <3>1, <4>2
      <4> QED
        BY <3>1, <4>4, <4>5 DEF Meets
    <3>2. CASE ~(j <= Len(feed'))
      <4>1. ~(j + 1 <= Len(feed))
        BY <1>1, <3>2
      <4> QED
        BY <2>3, <3>2, <4>1 DEF Meets
    <3> QED
      BY <3>1, <3>2
  <2>4. j + 1 \in 1..(Len(feed) + 1)
    BY <1>1
  <2> QED
    BY <2>2, <2>3, <2>4
<1>3. ASSUME NEW i \in 0..Len(feed'), EndAhead(i + 1) PROVE EndAhead(i)'
  <2>1. CASE Beyond
    BY <2>1 DEF EndAhead, Beyond
  <2>2. CASE \E j \in 1..Len(feed) : j > i + 1 /\ IsEvent(j) /\ feed[j].event.kind = "end"
    <3>1. PICK j \in 1..Len(feed) : j > i + 1 /\ IsEvent(j) /\ feed[j].event.kind = "end"
      BY <2>2
    <3>2. PICK h \in 1..Len(feed') : h + 1 = j /\ h > i
      BY <1>1, <3>1
    <3>3. feed'[h] = feed[j]
      BY <1>1, <3>2
    <3> QED
      BY <3>1, <3>2, <3>3 DEF EndAhead, IsEvent
  <2> QED
    BY <1>3, <2>1, <2>2 DEF EndAhead, Beyond
<1>4. ASSUME NEW i \in 0..Len(feed') PROVE Carries(i, i + 1)
  <2>1. \A j \in 1..(Len(feed') + 1) : Link(i, j)' =>
          \E h \in 1..(Len(feed) + 1) : Link(i + 1, h) /\ \A p \in Progress : Meets(p, h) => Meets(p, j)'
    BY <1>2
  <2> QED
    BY <1>3, <2>1 DEF Carries
<1> QED
  BY <1>1, <1>4

ItemHolds(i) ==
    /\ IsEvent(i) => EventHolds(i)
    /\ IsSnapshot(i) => ViewHolds(feed[i].view, i)

\* An item of the feed holds where it goes.
LEMMA ItemCarried ==
  ASSUME ScreenShapes, ChatShapes, ChatShapes', FeedHolds, Moves, NEW i, NEW l \in 1..Len(feed), feed'[i] = feed[l],
         Carries(i, l), IsEvent(l) /\ Followed(i)' => Followed(l)
  PROVE  ItemHolds(i)'
<1>1. Len(groups) \in Nat /\ Len(groups') \in Nat
  BY DEF ChatShapes
<1>2. ASSUME IsEvent(i)' PROVE EventHolds(i)'
  <2>1. IsEvent(l)
    BY <1>2 DEF IsEvent
  <2>2. PICK e \in Emissions : e = feed[l].event
    BY <2>1, FeedParts
  <2>3. EventHolds(l) /\ (Followed(i)' => Followed(l))
    BY <2>1 DEF FeedHolds
  <2> QED
    BY <1>1, <2>2, <2>3, EventCarries
<1>3. ASSUME IsSnapshot(i)' PROVE ViewHolds(feed[i].view, i)'
  <2>1. IsSnapshot(l)
    BY <1>3 DEF IsSnapshot
  <2>2. PICK v \in Views : v = feed[l].view
    BY <2>1, FeedParts DEF IsSnapshot
  <2>3. ViewHolds(v, l)
    BY <2>1, <2>2 DEF FeedHolds
  <2>4. ViewHolds(v, i)'
    BY <2>3, ViewCarries
  <2>5. v = feed'[i].view
    BY <2>2
  <2> QED
    BY <2>4, <2>5
<1> QED
  BY <1>2, <1>3 DEF ItemHolds

\* The feed holds when each item of it does, and the view does in front of it.
LEMMA FeedMade ==
  ASSUME \A i \in 1..Len(feed') : ItemHolds(i)', NEW v, v = view', InStep' => ViewHolds(v, 0)'
  PROVE  FeedHolds'
BY DEF FeedHolds, ItemHolds

\* The feed and the view as they were, while the chat goes on.
LEMMA FeedSame ==
  ASSUME ScreenShapes, ChatShapes, ChatShapes', FeedHolds, Moves, feed' = feed,
         \A p \in Progress : Behind(p) => Behind(p)', Beyond => Beyond'
  PROVE  /\ InStep \/ ~InStep' \/ NoEventComes => \A i \in 1..Len(feed') : ItemHolds(i)'
         /\ (InStep' => InStep /\ view' = view) => FeedHolds'
<1>1. (\A i \in 0..Len(feed) : Carries(i, i)) /\ Len(feed) \in Nat
  BY CarriesSame, FeedParts
<1>2. ASSUME InStep \/ ~InStep' \/ NoEventComes, NEW i \in 1..Len(feed) PROVE ItemHolds(i)'
  <2>1. Carries(i, i)
    BY <1>1
  <2>2. IsEvent(i) /\ Followed(i)' => Followed(i)
    <3> SUFFICES ASSUME IsEvent(i), Followed(i)' PROVE Followed(i)
      OBVIOUS
    <3>1. CASE \E j \in 1..Len(feed') : j < i /\ IsSnapshot(j)'
      BY <3>1 DEF Followed, IsSnapshot
    <3>2. CASE InStep'
      BY <1>2, <3>2 DEF Followed, NoEventComes
    <3> QED
      BY <3>1, <3>2 DEF Followed
  <2>3. feed'[i] = feed[i]
    OBVIOUS
  <2> QED
    BY <2>1, <2>2, <2>3, ItemCarried
<1>3. ASSUME InStep' => InStep /\ view' = view PROVE FeedHolds'
  <2>1. PICK v \in Views : v = view
    BY DEF ScreenShapes
  <2>2. ASSUME InStep' PROVE v = view' /\ ViewHolds(v, 0)'
    <3>1. v = view' /\ ViewHolds(v, 0)
      BY <1>3, <2>1, <2>2 DEF FeedHolds
    <3>2. Carries(0, 0)
      BY <1>1
    <3> QED
      BY <3>1, <3>2, ViewCarries
  <2>3. \A i \in 1..Len(feed') : ItemHolds(i)'
    <3>1. ASSUME NEW i \in 1..Len(feed') PROVE i \in 1..Len(feed)
      OBVIOUS
    <3> QED
      BY <1>2, <1>3, <3>1
  <2>4. PICK w : w = view'
    OBVIOUS
  <2>5. InStep' => ViewHolds(w, 0)'
    BY <2>2, <2>4
  <2> QED
    BY <2>3, <2>4, <2>5, FeedMade
<1>4. Len(feed') = Len(feed)
  OBVIOUS
<1> QED
  BY <1>2, <1>3, <1>4

-----------------------------------------------------------------------------
(*****************************************************************************)
(* What is behind the feed, as the chat goes on.                             *)
(*****************************************************************************)
LEMMA BehindGoes ==
  ASSUME ChatInv, ChatShapes', Goes, relay' = relay, groups' = groups
  PROVE  Moves /\ (\A p \in Progress : Behind(p) => Behind(p)') /\ (Beyond => Beyond')
<1>1. ChatShapes /\ StreamHolds /\ GroupsHold /\ Stays /\ Len(emitted) \in Nat
  BY DEF ChatInv, Goes, ChatShapes
<1>2. Moves
  BY <1>1, MovesOf
<1>3. ASSUME NEW p \in Progress, Behind(p) PROVE Behind(p)'
  <2>1. CASE relay = <<>>
    <3>1. PICK i \in 1..(Len(emitted) + 1) : i = 1
      BY <1>1
    <3>2. ComesAt(p, i)
      BY <1>3, <2>1, <3>1 DEF Behind
    <3>3. ComesAt(p, i)'
      BY <1>1, <3>2, NextGoes
    <3> QED
      BY <2>1, <3>1, <3>3 DEF Behind
  <2>2. CASE relay # <<>>
    <3>1. PICK e \in Emissions : relay[1].event = e /\ EventIs(e)
      BY <2>2, Held
    <3>2. Leads(p, e)
      BY <1>3, <2>2, <3>1 DEF Behind
    <3>3. Leads(p, e)'
      BY <1>2, <3>1, <3>2 DEF Moves
    <3>4. relay' # <<>> /\ relay'[1].event = e
      BY <2>2, <3>1
    <3> QED
      BY <3>3, <3>4 DEF Behind
  <2> QED
    BY <2>1, <2>2
<1>4. Beyond => Beyond'
  BY DEF Beyond, Goes
<1> QED
  BY <1>2, <1>3, <1>4

\* The pump takes the event that came first in the stream: it still comes first behind the feed.
LEMMA BehindTaken ==
  ASSUME ChatInv, ChatInv', TakeEvent
  PROVE  Moves /\ (\A p \in Progress : Behind(p) => Behind(p)') /\ (Beyond => Beyond')
<1>1. PICK e \in Emissions : \E p \in Progress :
        /\ EventIs(e) /\ Leads(p, e) /\ relay = <<>>
        /\ emitted # <<>> /\ e = emitted[1] /\ emitted' = Tail(emitted)
        /\ relay'[1].event = e /\ relay' # <<>>
        /\ inputs' = inputs /\ loop' = loop /\ saved' = saved /\ groups' = groups /\ cut' = cut
  BY Taken
<1>2. ChatShapes /\ ChatShapes' /\ GroupsHold
  BY DEF ChatInv
<1>3. Moves
  BY <1>1, <1>2, MovesPast
<1>4. /\ Len(emitted) \in Nat /\ Len(emitted) >= 1 /\ Len(emitted') = Len(emitted) - 1
      /\ \A i \in 1..(Len(emitted) - 1) : emitted'[i] = emitted[i + 1]
  BY <1>1, <1>2, FirstOf DEF ChatShapes
<1>5. ASSUME NEW p \in Progress, Behind(p) PROVE Behind(p)'
  <2>1. Leads(p, e)
    BY <1>1, <1>4, <1>5 DEF Behind, ComesAt
  <2>2. Leads(p, e)'
    BY <1>1, <1>3, <2>1 DEF Moves
  <2> QED
    BY <1>1, <2>2 DEF Behind
<1>6. Beyond => Beyond'
  <2> SUFFICES ASSUME MoreComes PROVE Beyond'
    BY <1>1 DEF Beyond
  <2>1. CASE inputs # <<>> \/ loop.at # "idle"
    BY <1>1, <2>1 DEF Beyond, MoreComes
  <2>2. CASE \E j \in 1..Len(emitted) : emitted[j].kind = "end"
    <3>1. PICK j \in 1..Len(emitted) : emitted[j].kind = "end"
      BY <2>2
    <3>2. CASE j = 1
      BY <1>1, <3>1, <3>2 DEF Beyond
    <3>3. CASE j # 1
      <4>1. PICK h \in 1..Len(emitted') : h + 1 = j
        BY <1>4, <3>1, <3>3
      <4>2. emitted'[h].kind = "end"
        BY <1>4, <3>1, <4>1
      <4> QED
        BY <4>2 DEF Beyond, MoreComes
    <3> QED
      BY <3>2, <3>3
  <2> QED
    BY <2>1, <2>2 DEF MoreComes
<1> QED
  BY <1>3, <1>5, <1>6

\* Putting the group away leaves what comes behind the feed.
LEMMA BehindAppended ==
  ASSUME ChatInv, ChatInv', AppendTools
  PROVE  Moves /\ (\A p \in Progress : Behind(p) => Behind(p)') /\ (Beyond => Beyond')
<1>1. relay # <<>> /\ groups' = Append(groups, relay[1].group) /\ relay' = <<[relay[1] EXCEPT !.flushed = TRUE]>>
      /\ inputs' = inputs /\ loop' = loop /\ emitted' = emitted /\ flight' = flight /\ saved' = saved /\ cut' = cut
  BY DEF AppendTools
<1>2. PICK e \in Emissions : /\ relay[1].event = e /\ EventIs(e) /\ relay[1].group \in SUBSET Pairs
                             /\ relay[1] = [event |-> e, group |-> relay[1].group, flushed |-> relay[1].flushed]
  BY <1>1, Held
<1>3. ChatShapes /\ ChatShapes' /\ GroupsHold
  BY DEF ChatInv
<1>4. Moves
  BY <1>1, <1>2, <1>3, MovesPast
<1>5. relay' # <<>> /\ relay'[1].event = e
  <2>1. PICK x : x = relay[1]
    OBVIOUS
  <2>2. x = [event |-> e, group |-> x.group, flushed |-> x.flushed]
    BY <1>2, <2>1
  <2>3. PICK y : y = [x EXCEPT !.flushed = TRUE]
    OBVIOUS
  <2>4. y.event = e
    BY <2>2, <2>3
  <2>5. relay' = <<y>>
    BY <1>1, <2>1, <2>3
  <2> QED
    BY <2>4, <2>5
<1>6. ASSUME NEW p \in Progress, Behind(p) PROVE Behind(p)'
  <2>1. Leads(p, e)
    BY <1>1, <1>2, <1>6 DEF Behind
  <2>2. Leads(p, e)'
    BY <1>2, <1>4, <2>1 DEF Moves
  <2> QED
    BY <1>5, <2>2 DEF Behind
<1>7. Beyond => Beyond'
  BY <1>1, <1>2, <1>5 DEF Beyond, MoreComes
<1> QED
  BY <1>4, <1>6, <1>7

\* A step that leaves the chat alone leaves what comes behind the feed.
LEMMA BehindSame ==
  ASSUME ChatInv, ChatInv', UNCHANGED chatSide
  PROVE  Moves /\ (\A p \in Progress : Behind(p) => Behind(p)') /\ (Beyond => Beyond')
<1>1. /\ inputs' = inputs /\ loop' = loop /\ emitted' = emitted /\ relay' = relay
      /\ saved' = saved /\ groups' = groups /\ cut' = cut
  BY DEF chatSide
<1>2. ChatShapes /\ ChatShapes' /\ GroupsHold
  BY DEF ChatInv
<1>3. Moves
  BY <1>1, <1>2, MovesPast
<1>4. ASSUME NEW p \in Progress, Behind(p) PROVE Behind(p)'
  <2>1. PICK e : e = relay[1].event
    OBVIOUS
  <2>2. (Leads(p, e)' <=> Leads(p, e)) /\ (ComesAt(p, 1)' <=> ComesAt(p, 1))
    BY <1>1, SameKnown, SameStream
  <2>3. IF relay = <<>> THEN ComesAt(p, 1) ELSE Leads(p, e)
    BY <1>4, <2>1 DEF Behind
  <2>4. IF relay' = <<>> THEN ComesAt(p, 1)' ELSE Leads(p, e)'
    BY <1>1, <2>2, <2>3
  <2>5. e = relay'[1].event
    BY <1>1, <2>1
  <2> QED
    BY <2>4, <2>5 DEF Behind
<1>5. Beyond => Beyond'
  BY <1>1 DEF Beyond, MoreComes
<1> QED
  BY <1>3, <1>4, <1>5

\* An event on its way is an item.
LEMMA EventItem ==
  ASSUME NEW e \in Emissions, NEW x, x = [kind |-> "event", event |-> e]
  PROVE  x \in Items /\ x.kind = "event" /\ x.event = e
BY DEF Items, Events

\* What the feed held, and the view, when an item has joined the feed.
LEMMA Appended ==
  ASSUME ScreenShapes, ChatShapes, ChatShapes', FeedHolds, Moves, NEW x, feed' = Append(feed, x), Joins(x),
         InStep' => InStep, NEW n \in Nat, n = Len(feed)
  PROVE  /\ \A i \in 1..n : ItemHolds(i)'
         /\ \A v \in Views : v = view /\ InStep' => ViewHolds(v, 0)'
<1>1. Len(feed') = n + 1 /\ \A j \in 1..n : feed'[j] = feed[j]
  BY DEF ScreenShapes
<1>2. \A i \in 0..n : Carries(i, i)
  BY CarriesAppended
<1>3. ASSUME NEW i \in 1..n PROVE ItemHolds(i)'
  <2>1. feed'[i] = feed[i] /\ Carries(i, i) /\ i \in 1..Len(feed)
    BY <1>1, <1>2
  <2>2. Followed(i)' => Followed(i)
    <3>1. CASE InStep'
      BY <3>1 DEF Followed
    <3>2. CASE \E j \in 1..Len(feed') : j < i /\ IsSnapshot(j)'
      <4>1. PICK j \in 1..Len(feed') : j < i /\ IsSnapshot(j)'
        BY <3>2
      <4>2. j \in 1..Len(feed) /\ feed'[j] = feed[j]
        BY <1>1, <4>1
      <4>3. IsSnapshot(j)
        BY <4>1, <4>2 DEF IsSnapshot
      <4> QED
        BY <4>1, <4>2, <4>3 DEF Followed
    <3> QED
      BY <3>1, <3>2 DEF Followed
  <2> QED
    BY <2>1, <2>2, ItemCarried
<1>4. ASSUME NEW v \in Views, v = view, InStep' PROVE ViewHolds(v, 0)'
  <2>1. ViewHolds(v, 0)
    BY <1>4 DEF FeedHolds
  <2>2. Carries(0, 0)
    BY <1>2
  <2> QED
    BY <2>1, <2>2, ViewCarries
<1> QED
  BY <1>3, <1>4

\* The event that is handed on is the last of the feed.
LEMMA HandedOn ==
  ASSUME ChatInv, ChatInv', ScreenInv, HandOn, Len(feed) < FeedRoom, screen.linked
  PROVE  feed' \in Seq(Items) /\ Len(feed') <= FeedRoom /\ FeedHolds'
         /\ \A i \in 1..Len(feed') : feed'[i].kind = "event" \/ (feed'[i] = feed[i] /\ i \in 1..Len(feed))
<1>1. relay # <<>> /\ relay[1].flushed /\ relay' = <<>> /\ groups' = groups /\ inputs' = inputs /\ loop' = loop
      /\ emitted' = emitted /\ flight' = flight /\ saved' = saved /\ cut' = cut
      /\ interrupted' = interrupted
  BY DEF HandOn
<1>2. PICK e \in Emissions, r \in Progress :
        /\ relay[1].event = e /\ r = After(e) /\ EventIs(e) /\ e.q \in Questions
        /\ ComesAt(r, 1) /\ (\A q \in r.q : EndComes(q, 0))
        /\ r.m = IF relay[1].flushed THEN Len(groups) ELSE Len(groups) + 1
        /\ e.kind = "end" => r.m = Place(e.q)
  BY <1>1, Held
<1>3. PICK x \in Items : x = [kind |-> "event", event |-> e] /\ x.kind = "event" /\ x.event = e
  BY EventItem
<1>4. feed' = Append(feed, x) /\ astray' = astray /\ view' = Seen(view, astray)
  <2>1. ScreenShapes
    BY DEF ScreenInv
  <2> QED
    BY <1>2, <1>3, <2>1 DEF HandOn, ScreenShapes
<1>5. ScreenShapes /\ FeedHolds /\ ChatShapes /\ ChatShapes' /\ GroupsHold /\ FeedRoom \in Nat
  BY ConversationAssumption DEF ScreenInv, ChatInv
<1>6. PICK n \in Nat : n = Len(feed)
  BY <1>5, FeedParts
<1>7. feed' \in Seq(Items) /\ Len(feed') = n + 1 /\ feed'[n + 1] = x /\ \A j \in 1..n : feed'[j] = feed[j]
  BY <1>4, <1>5, <1>6 DEF ScreenShapes
<1>8. Moves
  BY <1>1, <1>5, MovesPast
<1>9. Joins(x)
  <2>1. ASSUME NEW p \in Progress, Behind(p) PROVE Leads(p, x.event)'
    <3>1. Leads(p, e)
      BY <1>1, <1>2, <2>1 DEF Behind
    <3>2. Leads(p, e)'
      BY <1>2, <1>8, <3>1 DEF Moves
    <3> QED
      BY <1>3, <3>2
  <2>2. Beyond => Beyond' \/ x.event.kind = "end"
    BY <1>1, <1>2, <1>3 DEF Beyond, MoreComes
  <2> QED
    BY <1>3, <2>1, <2>2 DEF Joins
<1>10. InStep' <=> InStep
  BY <1>1, <1>4 DEF InStep
<1>11. /\ \A i \in 1..n : ItemHolds(i)'
       /\ \A v \in Views : v = view /\ InStep' => ViewHolds(v, 0)'
  BY <1>4, <1>5, <1>6, <1>8, <1>9, <1>10, Appended
<1>13. ASSUME NEW i, i = n + 1 PROVE ItemHolds(i)'
  <2>1. feed'[i] = x /\ feed'[i].event = e
    BY <1>3, <1>7, <1>13
  <2>2. ~IsSnapshot(i)'
    BY <1>3, <2>1 DEF IsSnapshot
  <2>3. EventIs(e)' /\ r = After(e)' /\ Place(e.q)' = Place(e.q)
    BY <1>2, <1>8 DEF Moves
  <2>4. e.kind = "end" => Place(e.q)' <= Len(groups')
    <3>1. Len(groups) \in Nat
      BY <1>5 DEF ChatShapes
    <3> QED
      BY <1>1, <1>2, <2>3, <3>1
  <2>5. ASSUME NEW j \in 1..(Len(feed') + 1), Link(i, j)' PROVE Meets(r, j)'
    <3>1. ~(j <= Len(feed'))
      BY <1>7, <1>13, <2>5 DEF Link
    <3>2. ComesAt(r, 1)'
      BY <1>1, <1>2, SameStream
    <3>3. Behind(r)'
      BY <1>1, <3>2 DEF Behind
    <3> QED
      BY <3>1, <3>3 DEF Meets
  <2>6. e.kind # "end" => EndAhead(i)'
    <3> SUFFICES ASSUME e.kind # "end" PROVE EndAhead(i)'
      OBVIOUS
    <3>1. r.q = {e.q}
      BY <1>2, <1>5, EventParts
    <3>2. EndComes(e.q, 0)
      BY <1>2, <3>1
    <3>3. MoreComes
      <4>1. CASE loop.q = {e.q}
        <5>1. loop.at # "idle"
          BY <4>1 DEF ChatInv, LoopHolds, Nobody
        <5> QED
          BY <5>1 DEF MoreComes
      <4>2. CASE \E j \in 1..Len(emitted) : emitted[j].kind = "end"
        BY <4>2 DEF MoreComes
      <4> QED
        BY <3>2, <4>1, <4>2 DEF EndComes
    <3>4. MoreComes'
      BY <1>1, <3>3 DEF MoreComes
    <3> QED
      BY <3>4 DEF EndAhead
  <2>7. EventHolds(i)'
    BY <2>1, <2>3, <2>4, <2>5, <2>6 DEF EventHolds
  <2> QED
    BY <2>2, <2>7 DEF ItemHolds
<1>14. PICK v \in Views : v = view
  BY <1>5 DEF ScreenShapes
<1>15. ASSUME InStep' PROVE view' = v /\ ViewHolds(v, 0)'
  <2>1. ~astray
    BY <1>10, <1>15 DEF InStep
  <2> QED
    BY <1>4, <1>11, <1>14, <1>15, <2>1 DEF Seen
<1>16. FeedHolds'
  <2>1. \A i \in 1..Len(feed') : ItemHolds(i)'
    <3> SUFFICES ASSUME NEW i \in 1..Len(feed') PROVE ItemHolds(i)'
      OBVIOUS
    <3>1. i \in 1..n \/ i = n + 1
      BY <1>7
    <3> QED
      BY <1>11, <1>13, <3>1
  <2>2. PICK w : w = view'
    OBVIOUS
  <2>3. InStep' => ViewHolds(w, 0)'
    BY <1>15, <2>2
  <2> QED
    BY <2>1, <2>2, <2>3, FeedMade
<1>17. Len(feed') <= FeedRoom
  BY <1>5, <1>6, <1>7
<1>18. ASSUME NEW i \in 1..Len(feed') PROVE feed'[i].kind = "event" \/ (feed'[i] = feed[i] /\ i \in 1..Len(feed))
  <2>1. i \in 1..n \/ i = n + 1
    BY <1>7
  <2> QED
    BY <1>3, <1>6, <1>7, <2>1
<1> QED
  BY <1>7, <1>16, <1>17, <1>18

\* A snapshot that missed an event is an item, and says so.
LEMMA TaintedItem ==
  ASSUME NEW x \in Items, x.kind = "snapshot", NEW w \in Views, NEW y,
         y = [x EXCEPT !.clean = FALSE, !.view = w]
  PROVE  y \in Items /\ y.kind = "snapshot" /\ ~y.clean
<1>1. x \in Snapshots
  BY DEF Items, Events, Notices
<1>2. y = [kind |-> "snapshot", clean |-> FALSE, view |-> w]
  BY <1>1 DEF Snapshots
<1> QED
  BY <1>2 DEF Items, Snapshots

\* What is seen of a view is a view.
LEMMA SeenTypes ==
  ASSUME NEW v \in Views, NEW b
  PROVE  Seen(v, b) \in Views /\ (~b => Seen(v, b) = v)
<1>1. CASE b
  <2>0. <<>> \in Seq(Blocks)
    OBVIOUS
  <2>1. PICK s \in Seq(Blocks) : s = <<>>
    BY <2>0
  <2>2. Seen(v, b) = [v EXCEPT !.blocks = s]
    BY <1>1, <2>1 DEF Seen
  <2>3. [v EXCEPT !.blocks = s] = [blocks |-> s, running |-> v.running]
    BY WithBlocks
  <2>4. v.running \in BOOLEAN
    BY ViewParts
  <2>5. Seen(v, b) \in Views
    BY <2>1, <2>2, <2>3, <2>4, ViewMade
  <2> QED
    BY <1>1, <2>5
<1>2. CASE ~b
  BY <1>2 DEF Seen
<1> QED
  BY <1>1, <1>2

\* A screen that misses the event goes astray, and so does what is on its way to it.
LEMMA Missed ==
  ASSUME ChatInv, ChatInv', ScreenInv, HandOn, ~(Len(feed) < FeedRoom /\ screen.linked)
  PROVE  feed' \in Seq(Items) /\ Len(feed') <= FeedRoom /\ FeedHolds' /\ astray'
         /\ \A i \in 1..Len(feed') : feed'[i].kind = feed[i].kind /\ i \in 1..Len(feed)
<1>1. relay' = <<>> /\ groups' = groups /\ loop' = loop /\ saved' = saved /\ cut' = cut
  BY DEF HandOn
<1>2. ScreenShapes /\ FeedHolds /\ ChatShapes /\ ChatShapes' /\ GroupsHold
  BY DEF ScreenInv, ChatInv
<1>3. feed' = Tainted /\ astray'
  BY <1>2 DEF HandOn, ScreenShapes
<1>4. PICK n \in Nat : n = Len(feed)
  BY <1>2, FeedParts
<1>5. DOMAIN feed = 1..n /\ feed \in Seq(Items)
  BY <1>2, <1>4 DEF ScreenShapes
<1>6. ASSUME NEW i \in 1..n
      PROVE  /\ Tainted[i] \in Items /\ Tainted[i].kind = feed[i].kind
             /\ feed[i].kind = "event" => Tainted[i] = feed[i]
             /\ Tainted[i].kind = "snapshot" => ~Tainted[i].clean
  <2>1. PICK x \in Items : x = feed[i]
    BY <1>5
  <2>2. Tainted[i] = IF x.kind = "snapshot" THEN [x EXCEPT !.clean = FALSE, !.view = Seen(x.view, TRUE)] ELSE x
    BY <1>5, <2>1 DEF Tainted
  <2>3. CASE x.kind = "snapshot"
    <3>1. PICK w \in Views : w = Seen(x.view, TRUE)
      BY <1>2, <1>4, <2>1, <2>3, FeedParts, SeenTypes
    <3>2. PICK y : y = [x EXCEPT !.clean = FALSE, !.view = w]
      OBVIOUS
    <3>3. Tainted[i] = y
      BY <2>2, <2>3, <3>1, <3>2
    <3>4. y \in Items /\ y.kind = "snapshot" /\ ~y.clean
      BY <2>3, <3>2, TaintedItem
    <3> QED
      BY <2>1, <2>3, <3>3, <3>4
  <2>4. CASE x.kind # "snapshot"
    BY <2>1, <2>2, <2>4
  <2> QED
    BY <2>3, <2>4
<1>7. feed' \in Seq(Items) /\ Len(feed') = n
  <2>1. Tainted \in [1..n -> Items]
    <3>1. DOMAIN Tainted = 1..n /\ Tainted = [i \in 1..n |-> Tainted[i]]
      BY <1>5 DEF Tainted
    <3> QED
      BY <1>6, <3>1
  <2> QED
    BY <1>3, <1>4, <2>1
<1>8. Moves
  BY <1>1, <1>2, MovesPast
<1>9. ASSUME NEW i \in 1..n PROVE ItemHolds(i)'
  <2>1. \A j \in 1..n : ~IsSnapshot(j)'
    BY <1>3, <1>6 DEF IsSnapshot
  <2>2. ~Followed(i)'
    BY <1>3, <1>7, <2>1 DEF Followed, InStep
  <2>3. ASSUME IsEvent(i)' PROVE EventHolds(i)'
    <3>1. feed'[i] = feed[i] /\ IsEvent(i) /\ i \in 1..Len(feed)
      BY <1>3, <1>4, <1>6, <2>3 DEF IsEvent
    <3>2. PICK e \in Emissions : e = feed[i].event
      BY <1>2, <3>1, FeedParts
    <3>3. EventIs(e) /\ (e.kind = "end" => Place(e.q) <= Len(groups))
      BY <1>2, <3>1, <3>2 DEF FeedHolds, EventHolds
    <3>4. EventIs(e)' /\ (e.kind = "end" => Place(e.q)' <= Len(groups'))
      BY <1>1, <1>8, <3>3 DEF Moves
    <3>5. feed'[i].event = e
      BY <3>1, <3>2
    <3> QED
      BY <2>2, <3>4, <3>5 DEF EventHolds
  <2> QED
    BY <2>1, <2>3 DEF ItemHolds
<1>10. FeedHolds'
  <2>1. PICK w : w = view'
    OBVIOUS
  <2>2. ~InStep'
    BY <1>3 DEF InStep
  <2>3. \A i \in 1..Len(feed') : ItemHolds(i)'
    BY <1>7, <1>9
  <2> QED
    BY <2>1, <2>2, <2>3, FeedMade
<1>11. Len(feed') <= FeedRoom
  BY <1>2, <1>4, <1>7 DEF ScreenShapes
<1> QED
  BY <1>3, <1>4, <1>6, <1>7, <1>10, <1>11

-----------------------------------------------------------------------------
(*****************************************************************************)
(* The steps of the chat keep the screen.                                    *)
(*****************************************************************************)
\* A line below finished answers.
LEMMA LineBelow ==
  ASSUME NEW v \in Views, NEW w \in Views, NEW b \in Blocks, ~b.pending, b.who # "assistant",
         w.blocks = Append(v.blocks, b), Closed(v), NEW p \in Progress, Fits(v, p)
  PROVE  Fits(w, p) /\ Closed(w)
<1>1. PICK s \in Seq(Blocks) : ShowsTurns(s, p.m) /\ (v.blocks = Append(s, Partial(p)) \/ (p.q = Nobody /\ v.blocks = s))
  BY DEF Fits
<1>2. v.blocks # Append(s, Partial(p))
  <2> SUFFICES ASSUME v.blocks = Append(s, Partial(p)) PROVE FALSE
    OBVIOUS
  <2>1. Partial(p) \in Blocks /\ Partial(p).who = "assistant" /\ Partial(p).pending
    BY PartialFacts
  <2> QED
    BY <2>1, EndsInAnswer DEF Columns
<1>3. p.q = Nobody /\ v.blocks = s
  BY <1>1, <1>2
<1>4. Append(s, b) \in Columns /\ Still(Append(s, b))
  <2>1. Still(s)
    BY <1>1 DEF ShowsTurns, Still
  <2> QED
    BY <2>1, StillAppends DEF Columns
<1>5. ASSUME NEW C PROVE Kept(C, Append(s, b)) = Kept(C, s)
  <2>1. b \notin Keepers(C)
    BY DEF Keepers
  <2> QED
    BY <2>1, KeptSteps
<1>6. ShowsTurns(Append(s, b), p.m)
  BY <1>1, <1>4, <1>5 DEF ShowsTurns, Still
<1>7. Fits(w, p)
  BY <1>3, <1>4, <1>6 DEF Fits, Columns
<1>8. Still(w.blocks)
  BY <1>3, <1>4
<1> QED
  BY <1>7, <1>8, StillCloses

\* A view that still fits holds, as long as what it waits for is ahead.
LEMMA ShownCarries ==
  ASSUME Moves, NEW i, NEW l, Carries(i, l), NEW v \in Views,
         \A h \in 1..(Len(feed) + 1) : Link(l, h) => \E p \in Progress : Fits(v, p) /\ Meets(p, h),
         Expects(v) => EndAhead(i)'
  PROVE  ViewHolds(v, i)'
<1>1. ASSUME NEW j \in 1..(Len(feed') + 1), Link(i, j)' PROVE \E p \in Progress : Fits(v, p)' /\ Meets(p, j)'
  <2>1. PICK h \in 1..(Len(feed) + 1) : Link(l, h) /\ \A p \in Progress : Meets(p, h) => Meets(p, j)'
    BY <1>1 DEF Carries
  <2>2. PICK p \in Progress : Fits(v, p) /\ Meets(p, h)
    BY <2>1
  <2> QED
    BY <2>1, <2>2 DEF Moves
<1> QED
  BY <1>1 DEF ViewHolds

\* A reader stirred while it reads claims nothing.
LEMMA Stirred ==
  ASSUME ScreenShapes, Stir
  PROVE  reader' \in Readers /\ reader'.at = reader.at /\ ~reader'.clean /\ ReaderHolds'
<1>1. PICK r \in Readers : r = reader
  BY DEF ScreenShapes
<1>2. PICK b \in BOOLEAN : b = FALSE
  OBVIOUS
<1>3. reader' = [r EXCEPT !.clean = b]
  BY <1>1, <1>2 DEF Stir
<1>4. reader' = [at |-> r.at, turns |-> r.turns, tools |-> r.tools, flight |-> r.flight, clean |-> b]
  BY <1>3 DEF Readers
<1>5. reader' \in Readers /\ reader'.at = r.at /\ reader'.clean = b
  BY <1>4 DEF Readers
<1>6. ~reader'.clean
  BY <1>2, <1>5
<1> QED
  BY <1>1, <1>5, <1>6 DEF ReaderHolds

\* A reader keeps what it knows when nothing it read changes.
LEMMA ReaderKept ==
  ASSUME ChatShapes, ReaderHolds, reader' = reader, relay' = relay, saved' = saved, groups' = groups, flight' = flight,
         feed' = feed, screen' = screen,
         loop.at # "saved" => /\ loop'.at # "saved"
                              /\ emitted' = emitted \/ \E e \in Emissions : e.kind # "end" /\ emitted' = Append(emitted, e)
  PROVE  ReaderHolds'
<1> SUFFICES ASSUME reader.at \in {"tools", "flight", "send"}, reader.clean
             PROVE  /\ relay = <<>> /\ loop'.at # "saved" /\ \A i \in 1..Len(emitted') : emitted'[i].kind # "end"
                    /\ reader.turns = saved
                    /\ reader.at # "tools" => reader.tools = groups
                    /\ reader.at = "send" => reader.flight = flight
                    /\ OnTerminal => NoEventComes
  BY DEF ReaderHolds, OnTerminal, NoEventComes, IsEvent
<1>1. /\ relay = <<>> /\ loop.at # "saved" /\ \A i \in 1..Len(emitted) : emitted[i].kind # "end"
      /\ reader.turns = saved
      /\ reader.at # "tools" => reader.tools = groups
      /\ reader.at = "send" => reader.flight = flight
      /\ OnTerminal => NoEventComes
  BY DEF ReaderHolds
<1>2. ASSUME NEW i \in 1..Len(emitted') PROVE emitted'[i].kind # "end"
  <2>1. CASE emitted' = emitted
    BY <1>1, <2>1
  <2>2. CASE \E e \in Emissions : e.kind # "end" /\ emitted' = Append(emitted, e)
    <3>1. PICK e \in Emissions : e.kind # "end" /\ emitted' = Append(emitted, e)
      BY <2>2
    <3>2. PICK n \in Nat : n = Len(emitted)
      BY DEF ChatShapes
    <3>3. Len(emitted') = n + 1 /\ emitted'[n + 1] = e /\ \A j \in 1..n : emitted'[j] = emitted[j]
      BY <3>1, <3>2, StreamGrows
    <3>4. i \in 1..n \/ i = n + 1
      BY <3>3
    <3> QED
      BY <1>1, <3>1, <3>2, <3>3, <3>4
  <2> QED
    BY <1>1, <2>1, <2>2
<1> QED
  BY <1>1, <1>2

\* A step that leaves the screen, the feed and the reader's place keeps their types and kinds.
LEMMA ScreenKept ==
  ASSUME ScreenShapes, KindsHold, screen' = screen, feed' = feed, reader' \in Readers, reader'.at = reader.at, view' \in Views,
         opens' = opens, notices' = notices, astray' \in BOOLEAN, astray => astray', interrupted' = interrupted
  PROVE  ScreenShapes' /\ KindsHold'
<1>1. ScreenShapes'
  BY DEF ScreenShapes
<1>2. KindsHold'
  BY DEF KindsHold, OnTerminal, IsEvent
<1> QED
  BY <1>1, <1>2

\* What the loop does of the stream, as far as a snapshot that is being read can tell.
LEMMA LoopLeaves ==
  ASSUME LoopInv, TurnSteps, ~Stir
  PROVE  /\ reader' = reader /\ saved' = saved
         /\ loop.at # "saved" => /\ loop'.at # "saved"
                                 /\ emitted' = emitted \/ \E e \in Emissions : e.kind # "end" /\ emitted' = Append(emitted, e)
<1>0. ChatShapes /\ LoopHolds
  BY DEF LoopInv
<1>1. CASE BeginTurn
  <2>1. PICK q \in Questions : q = Head(inputs)
    BY <1>0, <1>1 DEF BeginTurn, ChatShapes
  <2>2. PICK e \in Emissions : e = Emission("start", q, 0) /\ e.kind = "start"
    BY ConversationAssumption, EmissionMade
  <2>3. emitted' = Append(emitted, e) /\ loop' = [NoTurn EXCEPT !.at = "asking", !.q = {q}, !.round = 1]
    BY <1>1, <2>1, <2>2 DEF BeginTurn, EmitOut
  <2>4. loop'.at = "asking"
    BY <2>3 DEF NoTurn
  <2> QED
    BY <1>1, <2>2, <2>3, <2>4 DEF BeginTurn
<1>2. CASE StreamText
  <2>1. PICK q \in Questions : loop.q = {q} /\ TurnIs(q)
    BY <1>0, <1>2, InTurn DEF StreamText
  <2>2. PICK n \in 0..Rounds : n = loop.round
    BY <1>0, <2>1, RoundFacts
  <2>3. PICK e \in Emissions : e = Emission("text", q, n) /\ e.kind = "text"
    BY EmissionMade
  <2>4. emitted' = Append(emitted, e) /\ loop' = [loop EXCEPT !.at = "spoke", !.text = Append(loop.text, <<q, loop.round>>)]
    BY <1>2, <2>1, <2>2, <2>3 DEF StreamText, EmitOut
  <2>5. loop' = [at |-> "spoke", q |-> loop.q, text |-> Append(loop.text, <<q, loop.round>>), produced |-> loop.produced,
                 calls |-> loop.calls, round |-> loop.round]
    BY <1>0, <2>4, LoopWithText
  <2>6. loop'.at = "spoke"
    BY <2>5
  <2> QED
    BY <1>2, <2>3, <2>4, <2>6 DEF StreamText
<1>3. CASE CallTool
  <2>1. PICK q \in Questions : loop.q = {q} /\ TurnIs(q)
    BY <1>0, <1>3, InTurn DEF CallTool
  <2>2. PICK n \in 0..Rounds : n = loop.round
    BY <1>0, <2>1, RoundFacts
  <2>3. PICK e \in Emissions : e = Emission("call", q, n) /\ e.kind = "call"
    BY EmissionMade
  <2>4. /\ emitted' = Append(emitted, e)
        /\ loop' = [loop EXCEPT !.at = "calling", !.produced = loop.text, !.calls = loop.calls \cup {<<q, loop.round>>}]
    BY <1>3, <2>1, <2>2, <2>3 DEF CallTool, EmitOut
  <2>5. loop' = [at |-> "calling", q |-> loop.q, text |-> loop.text, produced |-> loop.text,
                 calls |-> loop.calls \cup {<<q, loop.round>>}, round |-> loop.round]
    BY <1>0, <2>4, LoopWithCall
  <2>6. loop'.at = "calling"
    BY <2>5
  <2> QED
    BY <1>3, <2>3, <2>4, <2>6 DEF CallTool
<1>4. CASE ToolReturns
  <2>1. PICK q \in Questions : loop.q = {q} /\ TurnIs(q)
    BY <1>0, <1>4, InTurn DEF ToolReturns
  <2>2. PICK n \in 0..Rounds : n = loop.round
    BY <1>0, <2>1, RoundFacts
  <2>3. PICK e \in Emissions : e = Emission("return", q, n) /\ e.kind = "return"
    BY EmissionMade
  <2>4. emitted' = Append(emitted, e) /\ loop' = [loop EXCEPT !.at = "asking", !.round = loop.round + 1]
    BY <1>4, <2>1, <2>2, <2>3 DEF ToolReturns, EmitOut
  <2>5. loop' = [at |-> "asking", q |-> loop.q, text |-> loop.text, produced |-> loop.produced, calls |-> loop.calls,
                 round |-> loop.round + 1]
    BY <1>0, <2>4, LoopWithRound
  <2>6. loop'.at = "asking"
    BY <2>5
  <2> QED
    BY <1>4, <2>3, <2>4, <2>6 DEF ToolReturns
<1>5. CASE FinishRound
  <2>1. loop' = [loop EXCEPT !.at = "finished", !.produced = loop.text]
    BY <1>5 DEF FinishRound
  <2>2. loop' = [at |-> "finished", q |-> loop.q, text |-> loop.text, produced |-> loop.text, calls |-> loop.calls,
                 round |-> loop.round]
    BY <1>0, <2>1, LoopWithProduced
  <2>3. loop'.at = "finished"
    BY <2>2
  <2> QED
    BY <1>5, <2>3 DEF FinishRound
<1>6. CASE AbortTurn
  <2>1. loop' = [loop EXCEPT !.at = "finished"]
    BY <1>6 DEF AbortTurn
  <2>2. loop' = [at |-> "finished", q |-> loop.q, text |-> loop.text, produced |-> loop.produced, calls |-> loop.calls,
                 round |-> loop.round]
    BY <1>0, <2>1, LoopWithAt
  <2>3. loop'.at = "finished"
    BY <2>2
  <2> QED
    BY <1>6, <2>3 DEF AbortTurn
<1>7. CASE PersistTurn
  BY <1>7 DEF PersistTurn
<1>8. CASE EndTurn
  BY <1>8 DEF EndTurn
<1> QED
  BY <1>1, <1>2, <1>3, <1>4, <1>5, <1>6, <1>7, <1>8 DEF TurnSteps

\* The steps of a turn.
LEMMA TurnScreen ==
  ASSUME ConversationInv, TurnSteps
  PROVE  ConversationInv'
<1>0. ChatInv /\ ScreenShapes /\ FeedHolds /\ ReaderHolds /\ KindsHold
  BY DEF ConversationInv, ScreenInv
<1>1. ChatInv' /\ LoopInv /\ Goes
  BY <1>0, ChatGoes
<1>2. /\ relay' = relay /\ flight' = flight /\ groups' = groups /\ screen' = screen /\ feed' = feed /\ view' = view
      /\ opens' = opens /\ notices' = notices /\ astray' = astray /\ interrupted' = interrupted
  BY DEF TurnSteps, BeginTurn, StreamText, CallTool, ToolReturns, FinishRound, AbortTurn, PersistTurn, EndTurn, LoopStep,
         marks
<1>3. ChatShapes /\ ChatShapes'
  BY <1>0, <1>1 DEF ChatInv
<1>4. Moves /\ (\A p \in Progress : Behind(p) => Behind(p)') /\ (Beyond => Beyond')
  BY <1>0, <1>1, <1>2, <1>3, BehindGoes
<1>5. FeedHolds'
  <2>1. InStep' => InStep /\ view' = view
    BY <1>2 DEF InStep
  <2> QED
    BY <1>0, <1>2, <1>3, <1>4, <2>1, FeedSame
<1>6. reader' \in Readers /\ reader'.at = reader.at /\ ReaderHolds'
  <2>1. CASE Stir
    BY <1>0, <2>1, Stirred
  <2>2. CASE ~Stir
    <3>1. /\ reader' = reader /\ saved' = saved
          /\ loop.at # "saved" => /\ loop'.at # "saved"
                                  /\ emitted' = emitted \/ \E e \in Emissions : e.kind # "end" /\ emitted' = Append(emitted, e)
      BY <1>1, <2>2, LoopLeaves
    <3>2. ReaderHolds'
      BY <1>0, <1>2, <1>3, <3>1, ReaderKept
    <3> QED
      BY <1>0, <3>1, <3>2 DEF ScreenShapes
  <2> QED
    BY <2>1, <2>2
<1>7. ScreenShapes' /\ KindsHold'
  <2>1. view' \in Views /\ astray' \in BOOLEAN
    BY <1>0, <1>2 DEF ScreenShapes
  <2> QED
    BY <1>0, <1>2, <1>6, <2>1, ScreenKept
<1> QED
  BY <1>1, <1>5, <1>6, <1>7 DEF ConversationInv, ScreenInv

\* A question put in line from elsewhere.
LEMMA ElsewhereScreen ==
  ASSUME ConversationInv, NEW q \in Questions, Elsewhere(q)
  PROVE  ConversationInv'
<1>0. ChatInv /\ ScreenShapes /\ FeedHolds /\ ReaderHolds /\ KindsHold
  BY DEF ConversationInv, ScreenInv
<1>1. Submitted(q) /\ Stir
      /\ loop' = loop /\ emitted' = emitted /\ relay' = relay /\ saved' = saved /\ groups' = groups /\ cut' = cut
      /\ screen' = screen /\ feed' = feed /\ view' = view
      /\ opens' = opens /\ notices' = notices /\ astray' = astray /\ interrupted' = interrupted
  BY DEF Elsewhere, marks
<1>2. ChatInv' /\ Goes
  <2>1. Submitted(q) /\ UNCHANGED <<loop, emitted, relay, saved, groups, cut>>
    BY <1>1
  <2> QED
    BY <1>0, <2>1, ChatGoes
<1>3. ChatShapes /\ ChatShapes'
  BY <1>0, <1>2 DEF ChatInv
<1>4. Moves /\ (\A p \in Progress : Behind(p) => Behind(p)') /\ (Beyond => Beyond')
  BY <1>0, <1>1, <1>2, <1>3, BehindGoes
<1>5. FeedHolds'
  <2>1. InStep' => InStep /\ view' = view
    BY <1>1 DEF InStep
  <2> QED
    BY <1>0, <1>1, <1>3, <1>4, <2>1, FeedSame
<1>6. reader' \in Readers /\ reader'.at = reader.at /\ ReaderHolds'
  BY <1>0, <1>1, Stirred
<1>7. ScreenShapes' /\ KindsHold'
  <2>1. view' \in Views /\ astray' \in BOOLEAN
    BY <1>0, <1>1 DEF ScreenShapes
  <2> QED
    BY <1>0, <1>1, <1>6, <2>1, ScreenKept
<1> QED
  BY <1>2, <1>5, <1>6, <1>7 DEF ConversationInv, ScreenInv

\* A question put in line on this screen.
LEMMA SubmitHereScreen ==
  ASSUME ConversationInv, NEW q \in Questions, SubmitHere(q)
  PROVE  ConversationInv'
<1>0. ChatInv /\ ScreenShapes /\ FeedHolds /\ ReaderHolds /\ KindsHold
  BY DEF ConversationInv, ScreenInv
<1>1. Submitted(q) /\ reader' = reader /\ reader.at = "idle"
      /\ loop' = loop /\ emitted' = emitted /\ relay' = relay /\ saved' = saved /\ groups' = groups /\ cut' = cut
      /\ screen' = screen /\ feed' = feed
      /\ opens' = opens /\ notices' = notices /\ interrupted' = interrupted
      /\ astray' = (astray \/ ~Closed(view))
      /\ view' = Seen([PushUser(view, {q}) EXCEPT !.running = TRUE], astray')
  BY DEF SubmitHere, Closed
<1>2. ChatInv' /\ Goes
  <2>1. Submitted(q) /\ UNCHANGED <<loop, emitted, relay, saved, groups, cut>>
    BY <1>1
  <2> QED
    BY <1>0, <2>1, ChatGoes
<1>3. ChatShapes /\ ChatShapes'
  BY <1>0, <1>2 DEF ChatInv
<1>4. Moves /\ (\A p \in Progress : Behind(p) => Behind(p)') /\ (Beyond => Beyond')
  BY <1>0, <1>1, <1>2, <1>3, BehindGoes
<1>5. PICK v \in Views : v = view
  BY <1>0 DEF ScreenShapes
<1>6. PICK w \in Views : w = [PushUser(v, {q}) EXCEPT !.running = TRUE] /\ w.blocks = Append(v.blocks, Bubble({q}))
  <2>1. v.blocks \in Seq(Blocks) /\ {q} \in Asked
    BY ViewParts DEF Asked
  <2>2. Append(v.blocks, Bubble({q})) \in Seq(Blocks)
    BY <2>1, BubbleTypes
  <2>3. PushUser(v, {q}) = [blocks |-> Append(v.blocks, Bubble({q})), running |-> v.running]
    BY WithBlocks DEF PushUser
  <2>9. PICK u : u = PushUser(v, {q})
    OBVIOUS
  <2>10. u \in Views
    BY <2>1, <2>9, PushTypes
  <2>4. u \in Views /\ u = PushUser(v, {q}) /\ u.blocks = Append(v.blocks, Bubble({q}))
    <3>1. PICK t, r : t = Append(v.blocks, Bubble({q})) /\ r = v.running
      OBVIOUS
    <3>2. u = [blocks |-> t, running |-> r]
      BY <2>3, <2>9, <3>1
    <3>3. u.blocks = t
      BY <3>2, BlocksOf
    <3> QED
      BY <2>9, <2>10, <3>1, <3>3
  <2>5. [u EXCEPT !.running = TRUE] = [blocks |-> u.blocks, running |-> TRUE]
    BY <2>4, WithRunning
  <2>6. PICK w : w = [u EXCEPT !.running = TRUE]
    OBVIOUS
  <2>7. w \in Views
    BY <2>2, <2>4, <2>5, <2>6, ViewMade
  <2>8. w.blocks = u.blocks
    BY <2>5, <2>6, BlocksOf
  <2> QED
    BY <2>4, <2>6, <2>7, <2>8
<1>7. view' = Seen(w, astray') /\ view' \in Views /\ (~astray' => view' = w)
  BY <1>1, <1>5, <1>6, SeenTypes
<1>8. InStep' => InStep /\ Closed(v)
  BY <1>1, <1>5 DEF InStep
<1>9. ASSUME InStep' PROVE ViewHolds(w, 0)'
  <2>1. ASSUME NEW h \in 1..(Len(feed) + 1), Link(0, h) PROVE \E p \in Progress : Fits(w, p) /\ Meets(p, h)
    <3>1. PICK p \in Progress : Fits(v, p) /\ Meets(p, h)
      BY <1>0, <1>5, <1>8, <1>9, <2>1 DEF FeedHolds, ViewHolds
    <3>2. Bubble({q}) \in Blocks /\ ~Bubble({q}).pending /\ Bubble({q}).who # "assistant"
      <4>1. {q} \in Asked
        BY DEF Asked
      <4> QED
        BY <4>1, BubbleFacts DEF Bubble
    <3>3. Fits(w, p)
      BY <1>6, <1>8, <1>9, <3>1, <3>2, LineBelow
    <3> QED
      BY <3>1, <3>3
  <2>2. EndAhead(0)'
    <3>1. inputs' = Append(inputs, q) /\ inputs \in Seq(Questions)
      BY <1>1, <1>3 DEF Submitted, ChatShapes
    <3>2. inputs' # <<>>
      BY <3>1
    <3> QED
      BY <3>2 DEF EndAhead, MoreComes
  <2>3. Carries(0, 0)
    BY <1>0, <1>1, <1>4, CarriesSame, FeedParts
  <2> QED
    BY <1>4, <2>1, <2>2, <2>3, ShownCarries
<1>10. FeedHolds'
  <2>1. \A i \in 1..Len(feed') : ItemHolds(i)'
    BY <1>0, <1>1, <1>3, <1>4, <1>8, FeedSame
  <2>2. PICK u : u = view'
    OBVIOUS
  <2>3. InStep' => ViewHolds(u, 0)'
    <3> SUFFICES ASSUME InStep' PROVE ViewHolds(u, 0)'
      OBVIOUS
    <3>1. u = w
      BY <1>7, <2>2 DEF InStep
    <3> QED
      BY <1>9, <3>1
  <2> QED
    BY <2>1, <2>2, <2>3, FeedMade
<1>11. ReaderHolds'
  BY <1>1 DEF ReaderHolds
<1>12. ScreenShapes' /\ KindsHold'
  <2>1. astray' \in BOOLEAN /\ (astray => astray') /\ reader' \in Readers /\ reader'.at = reader.at
    BY <1>0, <1>1 DEF ScreenShapes
  <2> QED
    BY <1>0, <1>1, <1>7, <2>1, ScreenKept
<1> QED
  BY <1>2, <1>10, <1>11, <1>12 DEF ConversationInv, ScreenInv

\* The pump takes an event, or puts a group away.
LEMMA PumpScreen ==
  ASSUME ConversationInv, TakeEvent \/ AppendTools
  PROVE  ConversationInv'
<1>0. ChatInv /\ ScreenShapes /\ FeedHolds /\ ReaderHolds /\ KindsHold
  BY DEF ConversationInv, ScreenInv
<1>1. ChatInv'
  BY <1>0, TakeEventChat, AppendToolsChat
<1>2. /\ screen' = screen /\ feed' = feed /\ view' = view /\ Stir
      /\ opens' = opens /\ notices' = notices /\ astray' = astray /\ interrupted' = interrupted
  BY DEF TakeEvent, AppendTools, marks
<1>3. ChatShapes /\ ChatShapes'
  BY <1>0, <1>1 DEF ChatInv
<1>4. Moves /\ (\A p \in Progress : Behind(p) => Behind(p)') /\ (Beyond => Beyond')
  BY <1>0, <1>1, BehindTaken, BehindAppended
<1>5. FeedHolds'
  <2>1. InStep' => InStep /\ view' = view
    BY <1>2 DEF InStep
  <2> QED
    BY <1>0, <1>2, <1>3, <1>4, <2>1, FeedSame
<1>6. reader' \in Readers /\ reader'.at = reader.at /\ ReaderHolds'
  BY <1>0, <1>2, Stirred
<1>7. ScreenShapes' /\ KindsHold'
  <2>1. view' \in Views /\ astray' \in BOOLEAN
    BY <1>0, <1>2 DEF ScreenShapes
  <2> QED
    BY <1>0, <1>2, <1>6, <2>1, ScreenKept
<1> QED
  BY <1>1, <1>5, <1>6, <1>7 DEF ConversationInv, ScreenInv

\* The pump hands an event on to the screen.
LEMMA HandOnScreen ==
  ASSUME ConversationInv, HandOn
  PROVE  ConversationInv'
<1>0. ChatInv /\ ScreenInv /\ ScreenShapes /\ FeedHolds /\ ReaderHolds /\ KindsHold
  BY DEF ConversationInv, ScreenInv
<1>1. ChatInv'
  BY <1>0, HandOnChat
<1>2. /\ screen' = screen /\ Stir /\ opens' = opens /\ notices' = notices /\ interrupted' = interrupted
      /\ astray' \in BOOLEAN /\ (astray => astray') /\ view' = Seen(view, astray')
  BY <1>0 DEF HandOn, ScreenShapes
<1>3. view' \in Views
  BY <1>0, <1>2, SeenTypes DEF ScreenShapes
<1>4. reader' \in Readers /\ reader'.at = reader.at /\ ReaderHolds'
  BY <1>0, <1>2, Stirred
<1>5. /\ feed' \in Seq(Items) /\ Len(feed') <= FeedRoom /\ FeedHolds'
      /\ \A i \in 1..Len(feed') : feed'[i].kind = "event" \/ (feed'[i].kind = feed[i].kind /\ i \in 1..Len(feed))
  <2>1. CASE Len(feed) < FeedRoom /\ screen.linked
    BY <1>0, <1>1, <2>1, HandedOn
  <2>2. CASE ~(Len(feed) < FeedRoom /\ screen.linked)
    BY <1>0, <1>1, <2>2, Missed
  <2> QED
    BY <2>1, <2>2
<1>6. ScreenShapes'
  BY <1>0, <1>2, <1>3, <1>4, <1>5 DEF ScreenShapes
<1>7. KindsHold'
  BY <1>0, <1>2, <1>4, <1>5 DEF KindsHold, OnTerminal, IsEvent
<1> QED
  BY <1>1, <1>4, <1>5, <1>6, <1>7 DEF ConversationInv, ScreenInv

-----------------------------------------------------------------------------
(*****************************************************************************)
(* The steps of the screen.  The chat stays as it is.                        *)
(*****************************************************************************)
LEMMA NoReadParts == NoRead \in Readers /\ NoRead.at = "idle"
<1>1. <<>> \in Seq(SavedTurns) /\ <<>> \in Seq(SUBSET Pairs) /\ NoFlight \in Flights
  BY NoFlightParts
<1> QED
  BY <1>1 DEF NoRead, Readers

\* A reader that has been asked.
LEMMA AskedParts == [NoRead EXCEPT !.at = "asked"] \in Readers /\ [NoRead EXCEPT !.at = "asked"].at = "asked"
BY NoReadParts DEF Readers

\* A step of the screen that leaves the feed, and the view unless the screen is astray.
LEMMA ScreenStays ==
  ASSUME ConversationInv, UNCHANGED chatSide, feed' = feed, InStep' => InStep /\ view' = view
  PROVE  ChatInv' /\ FeedHolds'
<1>0. ChatInv /\ ScreenShapes /\ FeedHolds
  BY DEF ConversationInv, ScreenInv
<1>1. ChatInv'
  BY <1>0, SameChat
<1>2. ChatShapes /\ ChatShapes'
  BY <1>0, <1>1 DEF ChatInv
<1>3. Moves /\ (\A p \in Progress : Behind(p) => Behind(p)') /\ (Beyond => Beyond')
  BY <1>0, <1>1, BehindSame
<1> QED
  BY <1>0, <1>1, <1>2, <1>3, FeedSame

\* The screen opens the chat.
LEMMA OpenChatScreen ==
  ASSUME ConversationInv, OpenChat
  PROVE  ConversationInv'
<1>0. ScreenShapes /\ KindsHold
  BY DEF ConversationInv, ScreenInv
<1>1. /\ opens < MaxOpens /\ opens' = opens + 1 /\ screen' = [screen EXCEPT !.on = TRUE] /\ astray'
      /\ view' = IF OnTerminal THEN Seen(view, TRUE) ELSE Blank
      /\ reader' = [NoRead EXCEPT !.at = "asked"] /\ feed' = feed /\ notices' = notices /\ interrupted' = interrupted
      /\ UNCHANGED chatSide /\ screen.linked
  BY <1>0 DEF OpenChat, ScreenShapes
<1>2. ChatInv' /\ FeedHolds'
  BY <1>1, ScreenStays DEF InStep
<1>3. reader' \in Readers /\ reader'.at = "asked"
  BY <1>1, AskedParts
<1>4. view' \in Views
  <2>1. Blank \in Views
    <3>1. <<>> \in Seq(Blocks)
      OBVIOUS
    <3> QED
      BY <3>1 DEF Blank, Views
  <2> QED
    BY <1>0, <1>1, <2>1, SeenTypes DEF ScreenShapes
<1>5. screen' \in [kind : Kinds, on : BOOLEAN, linked : BOOLEAN] /\ screen'.kind = screen.kind
      /\ screen'.on /\ screen'.linked = screen.linked
  BY <1>0, <1>1 DEF ScreenShapes
<1>6. opens' \in 0..MaxOpens
  BY <1>0, <1>1, ConversationAssumption DEF ScreenShapes
<1>7. astray' \in BOOLEAN
  BY <1>0 DEF OpenChat
<1>8. ScreenShapes'
  BY <1>0, <1>1, <1>3, <1>4, <1>5, <1>6, <1>7 DEF ScreenShapes
<1>9. ReaderHolds'
  BY <1>3 DEF ReaderHolds
<1>10. KindsHold'
  BY <1>0, <1>1, <1>3, <1>5 DEF KindsHold, OnTerminal, IsEvent
<1> QED
  BY <1>2, <1>8, <1>9, <1>10 DEF ConversationInv, ScreenInv

\* The screen leaves the chat.
LEMMA LeaveChatScreen ==
  ASSUME ConversationInv, LeaveChat
  PROVE  ConversationInv'
<1>0. ScreenShapes /\ KindsHold
  BY DEF ConversationInv, ScreenInv
<1>1. /\ screen' = [screen EXCEPT !.on = FALSE] /\ astray' /\ astray' \in BOOLEAN /\ view' = Blank /\ reader.at = "idle"
      /\ reader' = reader /\ feed' = feed /\ opens' = opens /\ notices' = notices /\ interrupted' = interrupted
      /\ UNCHANGED chatSide
  BY DEF LeaveChat
<1>2. ChatInv' /\ FeedHolds'
  BY <1>1, ScreenStays DEF InStep
<1>3. view' \in Views
  <2>1. <<>> \in Seq(Blocks)
    OBVIOUS
  <2> QED
    BY <1>1, <2>1 DEF Blank, Views
<1>4. screen' \in [kind : Kinds, on : BOOLEAN, linked : BOOLEAN] /\ screen'.kind = screen.kind
      /\ screen'.linked = screen.linked
  BY <1>0, <1>1 DEF ScreenShapes
<1>5. ScreenShapes'
  BY <1>0, <1>1, <1>3, <1>4 DEF ScreenShapes
<1>6. ReaderHolds'
  BY <1>1 DEF ReaderHolds
<1>7. KindsHold'
  BY <1>0, <1>1, <1>4 DEF KindsHold, OnTerminal, IsEvent
<1> QED
  BY <1>2, <1>5, <1>6, <1>7 DEF ConversationInv, ScreenInv

\* The reader is a record of its fields.
LEMMA ReaderParts ==
  ASSUME ScreenShapes
  PROVE  \E a1, a2, a3, a4, a5 :
            /\ reader = [at |-> a1, turns |-> a2, tools |-> a3, flight |-> a4, clean |-> a5]
            /\ a1 = reader.at /\ a2 = reader.turns /\ a3 = reader.tools /\ a4 = reader.flight /\ a5 = reader.clean
            /\ a2 \in Seq(SavedTurns) /\ a3 \in Seq(SUBSET Pairs) /\ a4 \in Flights /\ a5 \in BOOLEAN
<1>1. PICK r \in Readers : r = reader
  BY DEF ScreenShapes
<1>2. r = [at |-> r.at, turns |-> r.turns, tools |-> r.tools, flight |-> r.flight, clean |-> r.clean]
      /\ r.turns \in Seq(SavedTurns) /\ r.tools \in Seq(SUBSET Pairs) /\ r.flight \in Flights /\ r.clean \in BOOLEAN
  BY DEF Readers
<1> QED
  BY <1>1, <1>2

\* The three readings.
LEMMA ReadingScreen ==
  ASSUME ConversationInv, UNCHANGED chatSide, screen' = screen, feed' = feed, view' = view, UNCHANGED marks,
         reader' \in Readers, ReaderHolds', reader'.at # "idle", reader.at # "idle", reader'.at = "send" => ~OnTerminal
  PROVE  ConversationInv'
<1>0. ScreenShapes /\ KindsHold
  BY DEF ConversationInv, ScreenInv
<1>1. opens' = opens /\ notices' = notices /\ astray' = astray /\ interrupted' = interrupted
  BY DEF marks
<1>2. ChatInv' /\ FeedHolds'
  BY <1>1, ScreenStays DEF InStep
<1>3. ScreenShapes'
  BY <1>0, <1>1 DEF ScreenShapes
<1>4. KindsHold'
  BY <1>0, <1>1 DEF KindsHold, OnTerminal, IsEvent
<1> QED
  BY <1>2, <1>3, <1>4 DEF ConversationInv, ScreenInv

\* The file is read.
LEMMA ReadTranscriptScreen ==
  ASSUME ConversationInv, ReadTranscript
  PROVE  ConversationInv'
<1>0. ScreenShapes /\ ChatShapes
  BY DEF ConversationInv, ScreenInv, ChatInv
<1>1. /\ reader.at = "asked" /\ screen' = screen /\ feed' = feed /\ view' = view /\ UNCHANGED marks /\ UNCHANGED chatSide
  BY DEF ReadTranscript
<1>2. PICK a1, a2, a3, a4, a5 :
        /\ reader = [at |-> a1, turns |-> a2, tools |-> a3, flight |-> a4, clean |-> a5]
        /\ a3 \in Seq(SUBSET Pairs) /\ a4 \in Flights
  BY <1>0, ReaderParts
<1>3. PICK b \in BOOLEAN : b = Settled
  BY DEF Settled
<1>4. reader' = [reader EXCEPT !.at = "tools", !.turns = saved, !.clean = b]
  BY <1>3 DEF ReadTranscript
<1>5. reader' = [at |-> "tools", turns |-> saved, tools |-> a3, flight |-> a4, clean |-> b]
  <2>1. PICK r1 : r1 = [reader EXCEPT !.at = "tools"]
    OBVIOUS
  <2>2. r1 = [at |-> "tools", turns |-> a2, tools |-> a3, flight |-> a4, clean |-> a5]
    BY <1>2, <2>1
  <2>3. PICK t : t = saved
    OBVIOUS
  <2>4. PICK r2 : r2 = [r1 EXCEPT !.turns = t]
    OBVIOUS
  <2>5. r2 = [at |-> "tools", turns |-> t, tools |-> a3, flight |-> a4, clean |-> a5]
    BY <2>2, <2>4
  <2>6. PICK r3 : r3 = [r2 EXCEPT !.clean = b]
    OBVIOUS
  <2>7. r3 = [at |-> "tools", turns |-> t, tools |-> a3, flight |-> a4, clean |-> b]
    BY <2>5, <2>6
  <2>8. reader' = r3
    BY <1>4, <2>1, <2>3, <2>4, <2>6
  <2> QED
    BY <2>3, <2>7, <2>8
<1>6. reader' \in Readers /\ reader'.at = "tools" /\ reader'.turns = saved /\ reader'.clean = b
  <2>1. PICK t \in Seq(SavedTurns) : t = saved
    BY <1>0 DEF ChatShapes
  <2>2. PICK at \in {"idle", "asked", "tools", "flight", "send"} : at = "tools"
    OBVIOUS
  <2>3. PICK r : r = reader'
    OBVIOUS
  <2>4. r = [at |-> at, turns |-> t, tools |-> a3, flight |-> a4, clean |-> b]
    BY <1>5, <2>1, <2>2, <2>3
  <2>5. r \in Readers /\ r.at = at /\ r.turns = t /\ r.clean = b
    BY <1>2, <2>4 DEF Readers
  <2> QED
    BY <2>1, <2>2, <2>3, <2>5
<1>7. ReaderHolds'
  <2> SUFFICES ASSUME reader'.clean
               PROVE  /\ relay' = <<>> /\ loop'.at # "saved" /\ \A i \in 1..Len(emitted') : emitted'[i].kind # "end"
                      /\ reader'.turns = saved' /\ (OnTerminal' => NoEventComes')
    BY <1>6 DEF ReaderHolds
  <2>1. Settled
    BY <1>3, <1>6
  <2>2. relay' = relay /\ loop' = loop /\ emitted' = emitted /\ saved' = saved
    BY <1>1 DEF chatSide
  <2>3. DOMAIN emitted = 1..Len(emitted)
    BY <1>0 DEF ChatShapes
  <2>4. OnTerminal' => NoEventComes'
    BY <1>1, <2>1 DEF Settled, OnTerminal, NoEventComes
  <2>5. \A i \in 1..Len(emitted') : emitted'[i].kind # "end"
    BY <2>1, <2>2, <2>3 DEF Settled
  <2> QED
    BY <1>6, <2>1, <2>2, <2>4, <2>5 DEF Settled
<1> QED
  BY <1>1, <1>6, <1>7, ReadingScreen

\* The groups are read.
LEMMA ReadToolsScreen ==
  ASSUME ConversationInv, ReadTools
  PROVE  ConversationInv'
<1>0. ScreenShapes /\ ChatShapes /\ ReaderHolds
  BY DEF ConversationInv, ScreenInv, ChatInv
<1>1. /\ reader.at = "tools" /\ screen' = screen /\ feed' = feed /\ view' = view /\ UNCHANGED marks /\ UNCHANGED chatSide
      /\ reader' = [reader EXCEPT !.at = "flight", !.tools = groups]
  BY DEF ReadTools
<1>2. PICK a1, a2, a3, a4, a5 :
        /\ reader = [at |-> a1, turns |-> a2, tools |-> a3, flight |-> a4, clean |-> a5]
        /\ a2 \in Seq(SavedTurns) /\ a4 \in Flights /\ a5 \in BOOLEAN /\ a2 = reader.turns /\ a5 = reader.clean
  BY <1>0, ReaderParts
<1>3. reader' = [at |-> "flight", turns |-> a2, tools |-> groups, flight |-> a4, clean |-> a5]
  BY <1>1, <1>2
<1>4. reader' \in Readers /\ reader'.at = "flight" /\ reader'.turns = a2 /\ reader'.tools = groups /\ reader'.clean = a5
  <2>1. PICK g \in Seq(SUBSET Pairs) : g = groups
    BY <1>0 DEF ChatShapes
  <2>2. PICK at \in {"idle", "asked", "tools", "flight", "send"} : at = "flight"
    OBVIOUS
  <2>3. PICK r : r = reader'
    OBVIOUS
  <2>4. r = [at |-> at, turns |-> a2, tools |-> g, flight |-> a4, clean |-> a5]
    BY <1>3, <2>1, <2>2, <2>3
  <2>5. r \in Readers /\ r.at = at /\ r.turns = a2 /\ r.tools = g /\ r.clean = a5
    BY <1>2, <2>4 DEF Readers
  <2> QED
    BY <2>1, <2>2, <2>3, <2>5
<1>5. ReaderHolds'
  <2> SUFFICES ASSUME reader.clean
               PROVE  /\ relay' = <<>> /\ loop'.at # "saved" /\ \A i \in 1..Len(emitted') : emitted'[i].kind # "end"
                      /\ reader'.turns = saved' /\ reader'.tools = groups' /\ (OnTerminal' => NoEventComes')
    BY <1>2, <1>4 DEF ReaderHolds
  <2>1. /\ relay = <<>> /\ loop.at # "saved" /\ \A i \in 1..Len(emitted) : emitted[i].kind # "end"
        /\ reader.turns = saved /\ (OnTerminal => NoEventComes)
    BY <1>0, <1>1 DEF ReaderHolds
  <2>2. relay' = relay /\ loop' = loop /\ emitted' = emitted /\ saved' = saved /\ groups' = groups
    BY <1>1 DEF chatSide
  <2>3. OnTerminal' => NoEventComes'
    BY <1>1, <2>1 DEF OnTerminal, NoEventComes, IsEvent
  <2> QED
    BY <1>2, <1>4, <2>1, <2>2, <2>3
<1> QED
  BY <1>1, <1>4, <1>5, ReadingScreen

\* A seed is a view.
LEMMA SeedTypes ==
  ASSUME NEW turns \in Seq(SavedTurns), NEW tools \in Seq(SUBSET Pairs), NEW f \in Flights
  PROVE  Seed(turns, tools, f) \in Views
<1>1. f.input \in Asked /\ f.events \in Seq(Emissions)
  BY DEF Flights
<1>2. PICK finished : finished = [blocks |-> SnapshotBlocks(turns, tools), running |-> FALSE]
  OBVIOUS
<1>3. finished \in Views
  <2>1. SnapshotBlocks(turns, tools) \in Seq(Blocks)
    BY SnapshotSteps DEF Columns
  <2> QED
    BY <1>2, <2>1, ViewMade
<1>4. PICK asked : asked = IF f.input = Nobody THEN finished ELSE PushUser(finished, f.input)
  OBVIOUS
<1>5. asked \in Views
  BY <1>1, <1>3, <1>4, PushTypes
<1>6. PICK folded : folded = OpenAssistant(Folded(asked, f.events))
  OBVIOUS
<1>7. folded \in Views
  BY <1>1, <1>5, <1>6, FoldedSteps, PushTypes
<1>8. [folded EXCEPT !.running = TRUE] \in Views
  <2>1. [folded EXCEPT !.running = TRUE] = [blocks |-> folded.blocks, running |-> TRUE] /\ folded.blocks \in Seq(Blocks)
    BY <1>7, WithRunning, ViewParts
  <2> QED
    BY <2>1, ViewMade
<1>9. Seed(turns, tools, f) = IF f.running \/ f.input # Nobody THEN [folded EXCEPT !.running = TRUE] ELSE finished
  BY <1>2, <1>4, <1>6 DEF Seed
<1> QED
  BY <1>3, <1>8, <1>9

\* A snapshot that was read whole shows what is behind the feed.
LEMMA SeedHolds ==
  ASSUME ChatInv, relay = <<>>, loop.at # "saved", \A i \in 1..Len(emitted) : emitted[i].kind # "end"
  PROVE  /\ Seed(saved, groups, flight) \in Views
         /\ \E p \in Progress : Fits(Seed(saved, groups, flight), p) /\ Behind(p)
         /\ Expects(Seed(saved, groups, flight)) => MoreComes
<1>1. PICK p \in Progress : FlightFits(p) /\ ComesAt(p, 1) /\ p.m = IF Flushed THEN Len(groups) ELSE Len(groups) + 1
  BY DEF ChatInv, PumpHolds
<1>2. p.m = Len(saved) /\ p.m = Len(groups)
  BY <1>1, PumpAtFile DEF ChatInv, Flushed
<1>3. /\ Seed(saved, groups, flight) \in Views /\ Fits(Seed(saved, groups, flight), p)
      /\ Expects(Seed(saved, groups, flight)) => flight.running \/ flight.input # Nobody
  BY <1>1, <1>2, SeedFits DEF ChatInv
<1>4. Behind(p)
  BY <1>1 DEF Behind
<1>5. flight.running \/ flight.input # Nobody => MoreComes
  BY DEF ChatInv, PumpHolds
<1> QED
  BY <1>3, <1>4, <1>5

\* The turn in flight is read on the terminal, which shows it at once.
LEMMA ReadFlightTerminal ==
  ASSUME ConversationInv, ReadFlight, OnTerminal
  PROVE  ConversationInv'
<1>0. ChatInv /\ ScreenShapes /\ FeedHolds /\ ReaderHolds /\ KindsHold
  BY DEF ConversationInv, ScreenInv
<1>1. /\ reader.at = "flight" /\ astray' = ~reader.clean /\ reader' = NoRead /\ ~interrupted' /\ interrupted' \in BOOLEAN
      /\ view' = Seen(Seed(reader.turns, reader.tools, flight), astray')
      /\ screen' = screen /\ feed' = feed /\ opens' = opens /\ notices' = notices /\ UNCHANGED chatSide
  BY DEF ReadFlight
<1>2. ChatInv'
  BY <1>0, <1>1, SameChat
<1>3. ChatShapes /\ ChatShapes' /\ Len(feed) \in Nat
  BY <1>0, <1>2, FeedParts DEF ChatInv
<1>4. Moves /\ (\A p \in Progress : Behind(p) => Behind(p)') /\ (Beyond => Beyond')
  BY <1>0, <1>1, <1>2, BehindSame
<1>5. PICK v \in Views : v = Seed(reader.turns, reader.tools, flight)
  <2>1. reader.turns \in Seq(SavedTurns) /\ reader.tools \in Seq(SUBSET Pairs) /\ flight \in Flights
    BY <1>0, <1>3, ReaderParts DEF ChatShapes
  <2> QED
    BY <2>1, SeedTypes
<1>6. view' = Seen(v, astray') /\ view' \in Views /\ (~astray' => view' = v)
  BY <1>1, <1>5, SeenTypes
<1>7. ASSUME InStep' PROVE NoEventComes /\ view' = v /\ ViewHolds(v, 0)'
  <2>1. ~astray' /\ reader.clean
    BY <1>1, <1>7 DEF InStep
  <2>2. /\ relay = <<>> /\ loop.at # "saved" /\ \A i \in 1..Len(emitted) : emitted[i].kind # "end"
        /\ reader.turns = saved /\ reader.tools = groups /\ NoEventComes
    BY <1>0, <1>1, <2>1 DEF ReaderHolds
  <2>3. (\E p \in Progress : Fits(v, p) /\ Behind(p)) /\ (Expects(v) => MoreComes)
    BY <1>0, <1>5, <2>2, SeedHolds
  <2>4. ASSUME NEW h \in 1..(Len(feed) + 1), Link(0, h) PROVE \E p \in Progress : Fits(v, p) /\ Meets(p, h)
    <3>1. ~(h <= Len(feed))
      BY <1>3, <2>2, <2>4 DEF Link, NoEventComes
    <3> QED
      BY <2>3, <3>1 DEF Meets
  <2>5. Expects(v) => EndAhead(0)'
    <3>1. MoreComes => MoreComes'
      BY <1>1 DEF MoreComes, chatSide
    <3> QED
      BY <2>3, <3>1 DEF EndAhead
  <2>6. Carries(0, 0)
    BY <1>0, <1>1, <1>3, <1>4, CarriesSame
  <2> QED
    BY <1>4, <1>6, <2>1, <2>2, <2>4, <2>5, <2>6, ShownCarries
<1>8. FeedHolds'
  <2>1. \A i \in 1..Len(feed') : ItemHolds(i)'
    BY <1>0, <1>1, <1>3, <1>4, <1>7, FeedSame
  <2>2. PICK u : u = view'
    OBVIOUS
  <2>3. InStep' => ViewHolds(u, 0)'
    BY <1>7, <2>2
  <2> QED
    BY <2>1, <2>2, <2>3, FeedMade
<1>9. reader' \in Readers /\ reader'.at = "idle"
  BY <1>1, NoReadParts
<1>10. astray' \in BOOLEAN
  BY <1>1
<1>11. ScreenShapes'
  BY <1>0, <1>1, <1>6, <1>9, <1>10 DEF ScreenShapes
<1>12. ReaderHolds'
  BY <1>9 DEF ReaderHolds
<1>13. KindsHold'
  BY <1>0, <1>1, <1>9 DEF KindsHold, OnTerminal, IsEvent
<1> QED
  BY <1>2, <1>8, <1>11, <1>12, <1>13 DEF ConversationInv, ScreenInv

\* The turn in flight is read for a phone.
LEMMA ReadFlightPhone ==
  ASSUME ConversationInv, ReadFlight, ~OnTerminal
  PROVE  ConversationInv'
<1>0. ScreenShapes /\ ChatShapes /\ ReaderHolds
  BY DEF ConversationInv, ScreenInv, ChatInv
<1>1. /\ reader.at = "flight" /\ reader' = [reader EXCEPT !.at = "send", !.flight = flight]
      /\ screen' = screen /\ feed' = feed /\ view' = view /\ UNCHANGED marks /\ UNCHANGED chatSide
  BY DEF ReadFlight, marks
<1>2. PICK a1, a2, a3, a4, a5 :
        /\ reader = [at |-> a1, turns |-> a2, tools |-> a3, flight |-> a4, clean |-> a5]
        /\ a2 \in Seq(SavedTurns) /\ a3 \in Seq(SUBSET Pairs) /\ a5 \in BOOLEAN
        /\ a2 = reader.turns /\ a3 = reader.tools /\ a5 = reader.clean
  BY <1>0, ReaderParts
<1>3. PICK f \in Flights : f = flight
  BY <1>0 DEF ChatShapes
<1>4. reader' = [at |-> "send", turns |-> a2, tools |-> a3, flight |-> f, clean |-> a5]
  BY <1>1, <1>2, <1>3
<1>5. reader' \in Readers /\ reader'.at = "send" /\ reader'.turns = a2 /\ reader'.tools = a3 /\ reader'.flight = f
      /\ reader'.clean = a5
  BY <1>2, <1>4 DEF Readers
<1>6. ReaderHolds'
  <2> SUFFICES ASSUME reader.clean
               PROVE  /\ relay' = <<>> /\ loop'.at # "saved" /\ \A i \in 1..Len(emitted') : emitted'[i].kind # "end"
                      /\ reader'.turns = saved' /\ reader'.tools = groups' /\ reader'.flight = flight' /\ ~OnTerminal'
    BY <1>2, <1>5 DEF ReaderHolds
  <2>1. /\ relay = <<>> /\ loop.at # "saved" /\ \A i \in 1..Len(emitted) : emitted[i].kind # "end"
        /\ reader.turns = saved /\ reader.tools = groups
    BY <1>0, <1>1 DEF ReaderHolds
  <2>2. relay' = relay /\ loop' = loop /\ emitted' = emitted /\ saved' = saved /\ groups' = groups /\ flight' = flight
    BY <1>1 DEF chatSide
  <2>3. ~OnTerminal'
    BY <1>1 DEF OnTerminal
  <2> QED
    BY <1>2, <1>3, <1>5, <2>1, <2>2, <2>3
<1> QED
  BY <1>1, <1>5, <1>6, ReadingScreen

\* A snapshot on its way is an item.
LEMMA SnapshotItem ==
  ASSUME NEW v \in Views, NEW b \in BOOLEAN, NEW x, x = [kind |-> "snapshot", clean |-> b, view |-> v]
  PROVE  x \in Items /\ x.kind = "snapshot" /\ x.clean = b /\ x.view = v
BY DEF Items, Snapshots

\* The snapshot is sent to the phone.
LEMMA SendSnapshotScreen ==
  ASSUME ConversationInv, SendSnapshot
  PROVE  ConversationInv'
<1>0. ChatInv /\ ScreenShapes /\ FeedHolds /\ ReaderHolds /\ KindsHold
  BY DEF ConversationInv, ScreenInv
<1>1. /\ reader.at = "send" /\ Len(feed) < FeedRoom /\ reader' = NoRead
      /\ feed' = Append(feed, [kind |-> "snapshot", clean |-> reader.clean,
                               view |-> Seen(Seed(reader.turns, reader.tools, reader.flight), ~reader.clean)])
      /\ screen' = screen /\ view' = view /\ UNCHANGED chatSide
      /\ opens' = opens /\ notices' = notices /\ astray' = astray /\ interrupted' = interrupted
  BY DEF SendSnapshot, marks
<1>2. ChatInv'
  BY <1>0, <1>1, SameChat
<1>3. ChatShapes /\ ChatShapes' /\ FeedRoom \in Nat
  BY <1>0, <1>2, ConversationAssumption DEF ChatInv
<1>4. Moves /\ (\A p \in Progress : Behind(p) => Behind(p)') /\ (Beyond => Beyond')
  BY <1>0, <1>1, <1>2, BehindSame
<1>5. PICK b \in BOOLEAN : b = reader.clean
  BY <1>0, ReaderParts
<1>6. PICK s \in Views : s = Seed(reader.turns, reader.tools, reader.flight)
  <2>1. reader.turns \in Seq(SavedTurns) /\ reader.tools \in Seq(SUBSET Pairs) /\ reader.flight \in Flights
    BY <1>0, ReaderParts
  <2> QED
    BY <2>1, SeedTypes
<1>7. PICK v \in Views : v = Seen(s, ~b) /\ (b => v = s)
  BY SeenTypes
<1>8. PICK x : x = [kind |-> "snapshot", clean |-> b, view |-> v]
  OBVIOUS
<1>9. x \in Items /\ x.kind = "snapshot" /\ x.clean = b /\ x.view = v /\ feed' = Append(feed, x)
  <2>1. x \in Items /\ x.kind = "snapshot" /\ x.clean = b /\ x.view = v
    BY <1>8, SnapshotItem
  <2> QED
    BY <1>1, <1>5, <1>6, <1>7, <1>8, <2>1
<1>10. PICK n \in Nat : n = Len(feed)
  BY <1>0, FeedParts
<1>11. feed' \in Seq(Items) /\ Len(feed') = n + 1 /\ feed'[n + 1] = x /\ \A j \in 1..n : feed'[j] = feed[j]
  BY <1>0, <1>9, <1>10 DEF ScreenShapes
<1>12. Joins(x) /\ (InStep' => InStep)
  BY <1>1, <1>4, <1>9 DEF Joins, InStep
<1>13. (\A i \in 1..n : ItemHolds(i)') /\ (\A u \in Views : u = view /\ InStep' => ViewHolds(u, 0)')
  BY <1>0, <1>3, <1>4, <1>9, <1>10, <1>12, Appended
<1>14. ASSUME NEW i, i = n + 1 PROVE ItemHolds(i)'
  <2>1. feed'[i] = x /\ ~IsEvent(i)'
    BY <1>9, <1>11, <1>14 DEF IsEvent
  <2>2. ASSUME IsSnapshot(i)' PROVE ViewHolds(v, i)'
    <3>1. b
      BY <1>9, <2>1, <2>2 DEF IsSnapshot
    <3>2. reader.clean
      BY <1>5, <3>1
    <3>3. /\ relay = <<>> /\ loop.at # "saved" /\ \A j \in 1..Len(emitted) : emitted[j].kind # "end"
          /\ reader.turns = saved /\ reader.tools = groups /\ reader.flight = flight
      BY <1>0, <1>1, <3>2 DEF ReaderHolds
    <3>4. v = Seed(saved, groups, flight)
      BY <1>6, <1>7, <3>1, <3>3
    <3>5. (\E p \in Progress : Fits(v, p) /\ Behind(p)) /\ (Expects(v) => MoreComes)
      BY <1>0, <3>3, <3>4, SeedHolds
    <3>6. ASSUME NEW j \in 1..(Len(feed') + 1), Link(i, j)' PROVE \E p \in Progress : Fits(v, p)' /\ Meets(p, j)'
      <4>1. ~(j <= Len(feed'))
        BY <1>11, <1>14, <3>6 DEF Link
      <4>2. PICK p \in Progress : Fits(v, p) /\ Behind(p)
        BY <3>5
      <4>3. Fits(v, p)' /\ Behind(p)'
        BY <1>4, <4>2 DEF Moves
      <4> QED
        BY <4>1, <4>3 DEF Meets
    <3>7. Expects(v) => EndAhead(i)'
      <4>1. MoreComes => MoreComes'
        BY <1>1 DEF MoreComes, chatSide
      <4> QED
        BY <3>5, <4>1 DEF EndAhead
    <3> QED
      BY <3>6, <3>7 DEF ViewHolds
  <2>3. feed'[i].view = v
    BY <1>9, <2>1
  <2> QED
    BY <2>1, <2>2, <2>3 DEF ItemHolds
<1>15. FeedHolds'
  <2>1. \A i \in 1..Len(feed') : ItemHolds(i)'
    <3> SUFFICES ASSUME NEW i \in 1..Len(feed') PROVE ItemHolds(i)'
      OBVIOUS
    <3>1. i \in 1..n \/ i = n + 1
      BY <1>11
    <3> QED
      BY <1>13, <1>14, <3>1
  <2>2. PICK w \in Views : w = view' /\ w = view
    BY <1>0, <1>1 DEF ScreenShapes
  <2>3. InStep' => ViewHolds(w, 0)'
    BY <1>13, <2>2
  <2> QED
    BY <2>1, <2>2, <2>3, FeedMade
<1>16. reader' \in Readers /\ reader'.at = "idle"
  BY <1>1, NoReadParts
<1>17. Len(feed') <= FeedRoom
  BY <1>1, <1>3, <1>10, <1>11
<1>18. ScreenShapes'
  BY <1>0, <1>1, <1>11, <1>16, <1>17 DEF ScreenShapes
<1>19. ReaderHolds'
  BY <1>16 DEF ReaderHolds
<1>20. ~OnTerminal
  BY <1>0, <1>1 DEF KindsHold
<1>21. ASSUME NEW i \in 1..Len(feed')
       PROVE  feed'[i].kind = "snapshot" \/ feed'[i].kind = "event"
  <2>1. CASE i \in 1..n
    BY <1>0, <1>10, <1>11, <1>20, <2>1 DEF KindsHold, IsEvent
  <2>2. CASE i = n + 1
    BY <1>9, <1>11, <2>2
  <2> QED
    BY <1>11, <2>1, <2>2
<1>22. KindsHold'
  BY <1>0, <1>1, <1>16, <1>20, <1>21 DEF KindsHold, OnTerminal, IsEvent
<1> QED
  BY <1>2, <1>15, <1>18, <1>19, <1>22 DEF ConversationInv, ScreenInv

\* The end of the turn a view is in leaves it waiting for nothing.
LEMMA EndCloses ==
  ASSUME ChatShapes, NEW v \in Views, NEW p \in Progress, Fits(v, p), NEW e \in Emissions, EventIs(e), e.kind = "end",
         Leads(p, e)
  PROVE  ~Expects(ApplyEvent(v, e))
<1>1. e.q \in Questions /\ p = Within(e.q, p.k, p.c, p.c) /\ p.k \in 0..Rounds /\ p.c \in 0..Rounds
  BY DEF Leads, Emissions, Progress
<1>2. PICK q, k, c : q = e.q /\ k = p.k /\ c = p.c
  OBVIOUS
<1>3. q \in Questions /\ k \in 0..Rounds /\ c \in 0..Rounds /\ p = Within(q, k, c, c)
  BY <1>1, <1>2
<1>4. p.q = {q} /\ Partial(p) = Answering(q, k, c, c) /\ p.q # Nobody
  BY <1>3, WithinFacts DEF Nobody
<1>5. PICK s \in Columns : v.blocks = Append(s, Answering(q, k, c, c))
  BY <1>4 DEF Fits, Columns
<1>6. PICK a \in Blocks : a = Answered(q, k, c, c) /\ ~a.pending
  BY <1>3, AnsweredFacts
<1>7. ApplyEvent(v, e) = [blocks |-> Append(s, a), running |-> FALSE]
  <2>1. v.blocks = Append(s, Answering(q, k, c, c))
    BY <1>5
  <2> QED
    BY <1>3, <1>6, <2>1, ApplyEnd
<1>8. ApplyEvent(v, e).blocks = Append(s, a)
  BY <1>7
<1>9. ~ApplyEvent(v, e).running
  BY <1>7
<1>10. Last(ApplyEvent(v, e).blocks) = a /\ Append(s, a) # <<>>
  BY <1>6, <1>8, AppendEnds
<1>11. Closed(ApplyEvent(v, e))
  BY <1>6, <1>8, <1>10 DEF Closed
<1> QED
  BY <1>9, <1>11 DEF Expects

\* A screen in step folds the event it takes.
LEMMA EventFolds ==
  ASSUME ChatInv, ScreenShapes, FeedHolds, InStep, feed # <<>>, IsEvent(1), NEW v \in Views, v = view,
         NEW e \in Emissions, e = feed[1].event
  PROVE  ApplyEvent(v, e) \in Views /\ ViewHolds(ApplyEvent(v, e), 1)
<1>1. Len(feed) \in Nat /\ Len(feed) >= 1 /\ 1 \in 1..Len(feed)
  BY FirstOf DEF ScreenShapes
<1>2. PICK o \in Nat : o = 1
  OBVIOUS
<1>3. Link(0, o) /\ o \in 1..(Len(feed) + 1) /\ o <= Len(feed)
  BY <1>1, <1>2 DEF Link
<1>4. PICK p \in Progress : Fits(v, p) /\ Leads(p, e)
  <2>1. \E p \in Progress : Fits(v, p) /\ Meets(p, o)
    BY <1>3 DEF FeedHolds, ViewHolds
  <2> QED
    BY <1>2, <1>3, <2>1 DEF Meets
<1>5. EventHolds(1) /\ Followed(1)
  BY <1>1 DEF FeedHolds, Followed
<1>6. EventIs(e) /\ (e.kind = "end" => Place(e.q) <= Len(groups))
  BY <1>5 DEF EventHolds
<1>7. PICK r : r = After(e)
  OBVIOUS
<1>8. Fits(ApplyEvent(v, e), r) /\ r \in Progress
  BY <1>4, <1>6, <1>7, FitsStep DEF ChatInv
<1>9. \A h \in 1..(Len(feed) + 1) : Link(1, h) => Meets(r, h)
  BY <1>5, <1>7 DEF EventHolds
<1>10. Expects(ApplyEvent(v, e)) => EndAhead(1)
  <2>1. CASE e.kind = "end"
    BY <1>4, <1>6, <2>1, EndCloses DEF ChatInv
  <2>2. CASE e.kind # "end"
    BY <1>5, <2>2 DEF EventHolds
  <2> QED
    BY <2>1, <2>2
<1>11. ApplyEvent(v, e) \in Views
  BY ApplyTypes
<1> QED
  BY <1>8, <1>9, <1>10, <1>11 DEF ViewHolds

\* A screen in step puts a notice below finished answers.
LEMMA NoticeFolds ==
  ASSUME ScreenShapes, FeedHolds, InStep, feed # <<>>, ~IsEvent(1), NEW v \in Views, v = view, Closed(v)
  PROVE  PushNotice(v) \in Views /\ ViewHolds(PushNotice(v), 1)
<1>1. Len(feed) \in Nat /\ Len(feed) >= 1 /\ 1 \in 1..Len(feed)
  BY FirstOf DEF ScreenShapes
<1>2. PICK w : w = PushNotice(v)
  OBVIOUS
<1>3. w \in Views
  BY <1>2, PushTypes
<1>4. w = [blocks |-> Append(v.blocks, Notice), running |-> v.running]
  BY <1>2, WithBlocks DEF PushNotice
<1>5. w.blocks = Append(v.blocks, Notice) /\ w.running = v.running
  BY <1>4
<1>6. Notice \in Blocks /\ ~Notice.pending /\ Notice.who # "assistant"
  BY BubbleTypes DEF Notice, Bubble
<1>7. ASSUME NEW h \in 1..(Len(feed) + 1), Link(1, h) PROVE \E p \in Progress : Fits(w, p) /\ Meets(p, h)
  <2>1. Link(0, h)
    BY <1>7 DEF Link
  <2>2. PICK p \in Progress : Fits(v, p) /\ Meets(p, h)
    BY <2>1 DEF FeedHolds, ViewHolds
  <2>3. Fits(w, p)
    BY <1>3, <1>5, <1>6, <2>2, LineBelow
  <2> QED
    BY <2>2, <2>3
<1>8. Expects(w) => EndAhead(1)
  <2>1. Closed(w)
    <3>1. w.blocks # <<>> /\ Last(w.blocks) = Notice
      BY <1>5, <1>6, ViewParts, AppendEnds DEF Columns
    <3> QED
      BY <1>6, <3>1 DEF Closed
  <2>2. Expects(w) => Expects(v)
    BY <1>5, <2>1 DEF Expects
  <2>3. Expects(v) => EndAhead(0)
    BY DEF FeedHolds, ViewHolds
  <2>4. EndAhead(0) => EndAhead(1)
    <3> SUFFICES ASSUME NEW j \in 1..Len(feed), j > 0, IsEvent(j) PROVE j > 1
      BY DEF EndAhead
    <3>1. j # 1
      OBVIOUS
    <3> QED
      BY <1>1, <3>1
  <2> QED
    BY <2>2, <2>3, <2>4
<1> QED
  BY <1>2, <1>3, <1>7, <1>8 DEF ViewHolds

\* The screen folds what comes first in its feed.
LEMMA ReduceChatScreen ==
  ASSUME ConversationInv, ReduceChat
  PROVE  ConversationInv'
<1>0. ChatInv /\ ScreenShapes /\ FeedHolds /\ ReaderHolds /\ KindsHold
  BY DEF ConversationInv, ScreenInv
<1>1. /\ feed # <<>> /\ feed' = Tail(feed) /\ (OnTerminal => reader.at = "idle")
      /\ screen' = screen /\ reader' = reader /\ opens' = opens /\ notices' = notices /\ UNCHANGED chatSide
  BY DEF ReduceChat
<1>2. ChatInv'
  BY <1>0, <1>1, SameChat
<1>3. ChatShapes /\ ChatShapes'
  BY <1>0, <1>2 DEF ChatInv
<1>4. Moves /\ (\A p \in Progress : Behind(p) => Behind(p)') /\ (Beyond => Beyond')
  BY <1>0, <1>1, <1>2, BehindSame
<1>5. PICK n \in Nat : n = Len(feed) /\ n >= 1 /\ 1 \in 1..n
  BY <1>0, <1>1, FirstOf DEF ScreenShapes
<1>6. PICK x \in Items : x = feed[1] /\ x = Head(feed)
  BY <1>0, <1>1, FirstOf DEF ScreenShapes
<1>7. /\ x.kind \in {"event", "snapshot", "notice"}
      /\ x.kind = "event" => x.event \in Emissions
      /\ x.kind = "snapshot" => x.view \in Views /\ x.clean \in BOOLEAN
  BY <1>0, <1>5, <1>6, FeedParts DEF IsEvent
<1>8. PICK v \in Views : v = view
  BY <1>0 DEF ScreenShapes
<1>9. PICK u \in Views : u = CASE x.kind = "snapshot" -> x.view
                               [] x.kind = "notice" -> PushNotice(v)
                               [] OTHER -> ApplyEvent(v, x.event)
  <2>1. PushNotice(v) \in Views /\ (x.kind = "event" => ApplyEvent(v, x.event) \in Views)
    BY <1>7, PushTypes, ApplyTypes
  <2> QED
    BY <1>7, <2>1
<1>10. /\ astray' = IF screen.on /\ x.kind = "snapshot" THEN ~x.clean ELSE astray
       /\ view' = IF ~screen.on THEN v ELSE Seen(u, astray')
       /\ interrupted' = (interrupted \/ (screen.on /\ x.kind = "notice" /\ ~Closed(v)))
  <2>1. astray' = IF screen.on /\ x.kind = "snapshot" THEN ~x.clean ELSE astray
    BY <1>6 DEF ReduceChat
  <2>2. view' = IF ~screen.on THEN v ELSE Seen(u, astray')
    BY <1>6, <1>8, <1>9 DEF ReduceChat
  <2>3. interrupted' = (interrupted \/ (screen.on /\ x.kind = "notice" /\ ~Closed(v)))
    BY <1>6, <1>8 DEF ReduceChat, Closed
  <2> QED
    BY <2>1, <2>2, <2>3
<1>11. astray' \in BOOLEAN /\ interrupted' \in BOOLEAN /\ view' \in Views
  <2>1. Seen(u, astray') \in Views
    BY SeenTypes
  <2> QED
    BY <1>0, <1>7, <1>10, <2>1 DEF ScreenShapes
<1>12. InStep' => /\ screen.on /\ ~astray' /\ (IsSnapshot(1) \/ (InStep /\ x.kind # "snapshot"))
                  /\ x.kind = "notice" => Closed(v)
  <2> SUFFICES ASSUME InStep'
               PROVE  /\ screen.on /\ ~astray' /\ (IsSnapshot(1) \/ (InStep /\ x.kind # "snapshot"))
                      /\ x.kind = "notice" => Closed(v)
    OBVIOUS
  <2>1. ~astray' /\ ~interrupted'
    BY DEF InStep
  <2>2. screen.on
    BY <1>0, <1>10, <2>1 DEF KindsHold
  <2>3. CASE x.kind = "snapshot"
    BY <1>6, <1>10, <2>1, <2>2, <2>3 DEF IsSnapshot
  <2>4. CASE x.kind # "snapshot"
    BY <1>10, <2>1, <2>2, <2>4 DEF InStep
  <2> QED
    BY <2>1, <2>2, <2>3, <2>4
<1>13. /\ \A i \in 0..Len(feed') : Carries(i, i + 1)
       /\ Len(feed') = n - 1 /\ \A i \in 1..Len(feed') : feed'[i] = feed[i + 1] /\ i + 1 \in 1..n
  BY <1>0, <1>1, <1>4, <1>5, CarriesTail
<1>14. ASSUME NEW i \in 1..Len(feed') PROVE ItemHolds(i)'
  <2>1. PICK l \in 1..n : l = i + 1
    BY <1>13
  <2>2. feed'[i] = feed[l] /\ Carries(i, l) /\ l \in 1..Len(feed)
    BY <1>5, <1>13, <2>1
  <2>3. Followed(i)' => Followed(l)
    <3>1. CASE InStep'
      <4>1. InStep \/ IsSnapshot(1)
        BY <1>12, <3>1
      <4>2. 1 \in 1..Len(feed) /\ 1 < l
        BY <1>5, <2>1
      <4> QED
        BY <4>1, <4>2 DEF Followed
    <3>2. CASE \E j \in 1..Len(feed') : j < i /\ IsSnapshot(j)'
      <4>1. PICK j \in 1..Len(feed') : j < i /\ IsSnapshot(j)'
        BY <3>2
      <4>2. PICK h \in 1..n : h = j + 1 /\ h < l
        BY <1>13, <2>1, <4>1
      <4>3. feed'[j] = feed[h]
        BY <1>13, <4>2
      <4>4. IsSnapshot(h)
        BY <4>1, <4>3 DEF IsSnapshot
      <4> QED
        BY <1>5, <4>2, <4>4 DEF Followed
    <3> QED
      BY <3>1, <3>2 DEF Followed
  <2> QED
    BY <1>0, <1>3, <1>4, <2>2, <2>3, ItemCarried
<1>15. ASSUME InStep' PROVE view' = u /\ ViewHolds(u, 0)'
  <2>1. view' = u
    BY <1>10, <1>12, <1>15 DEF Seen
  <2>2. ViewHolds(u, 1)
    <3>1. CASE x.kind = "snapshot"
      <4>1. IsSnapshot(1) /\ u = feed[1].view /\ 1 \in 1..Len(feed)
        BY <1>5, <1>6, <1>9, <1>12, <1>15, <3>1
      <4> QED
        BY <1>0, <4>1 DEF FeedHolds
    <3>2. CASE x.kind = "event"
      <4>1. PICK e \in Emissions : e = x.event
        BY <1>7, <3>2
      <4>2. InStep /\ IsEvent(1) /\ e = feed[1].event
        BY <1>6, <1>12, <1>15, <3>2, <4>1 DEF IsEvent, IsSnapshot
      <4>3. ViewHolds(ApplyEvent(v, e), 1)
        BY <1>0, <1>1, <1>8, <4>2, EventFolds
      <4>4. u = ApplyEvent(v, e)
        BY <1>9, <3>2, <4>1
      <4> QED
        BY <4>3, <4>4
    <3>3. CASE x.kind = "notice"
      <4>1. InStep /\ ~IsEvent(1) /\ Closed(v)
        BY <1>6, <1>12, <1>15, <3>3 DEF IsEvent, IsSnapshot
      <4>2. ViewHolds(PushNotice(v), 1)
        BY <1>0, <1>1, <1>8, <4>1, NoticeFolds
      <4>3. u = PushNotice(v)
        BY <1>9, <3>3
      <4> QED
        BY <4>2, <4>3
    <3> QED
      BY <1>7, <3>1, <3>2, <3>3
  <2>3. PICK o, z : o = 1 /\ z = 0 /\ Carries(z, o)
    <3>1. 0 \in 0..Len(feed') /\ 0 + 1 = 1
      BY <1>5, <1>13
    <3>2. Carries(0, 0 + 1)
      BY <1>13, <3>1
    <3> QED
      BY <3>1, <3>2
  <2>4. ViewHolds(u, z)'
    BY <1>4, <2>2, <2>3, ViewCarries
  <2> QED
    BY <2>1, <2>3, <2>4
<1>16. FeedHolds'
  <2>1. PICK w : w = view'
    OBVIOUS
  <2>2. InStep' => ViewHolds(w, 0)'
    BY <1>15, <2>1
  <2> QED
    BY <1>14, <2>1, <2>2, FeedMade
<1>17. ScreenShapes'
  <2>1. feed' \in Seq(Items) /\ Len(feed') <= FeedRoom
    <3>1. feed' \in Seq(Items)
      BY <1>0, <1>1, FirstOf DEF ScreenShapes
    <3>2. FeedRoom \in Nat /\ n <= FeedRoom
      BY <1>0, <1>5, ConversationAssumption DEF ScreenShapes
    <3> QED
      BY <1>13, <3>1, <3>2
  <2> QED
    BY <1>0, <1>1, <1>11, <2>1 DEF ScreenShapes
<1>18. ReaderHolds'
  <2> SUFFICES ASSUME reader.at \in {"tools", "flight", "send"}, reader.clean
               PROVE  /\ relay' = <<>> /\ loop'.at # "saved" /\ \A i \in 1..Len(emitted') : emitted'[i].kind # "end"
                      /\ reader.turns = saved'
                      /\ reader.at # "tools" => reader.tools = groups'
                      /\ reader.at = "send" => reader.flight = flight'
                      /\ ~OnTerminal'
    BY <1>1 DEF ReaderHolds
  <2>1. /\ relay' = relay /\ loop' = loop /\ emitted' = emitted /\ saved' = saved /\ groups' = groups /\ flight' = flight
        /\ (OnTerminal' <=> OnTerminal)
    BY <1>1 DEF chatSide, OnTerminal
  <2>2. ~OnTerminal
    BY <1>1
  <2>3. /\ relay = <<>> /\ loop.at # "saved" /\ \A i \in 1..Len(emitted) : emitted[i].kind # "end"
        /\ reader.turns = saved
        /\ reader.at # "tools" => reader.tools = groups
        /\ reader.at = "send" => reader.flight = flight
    BY <1>0 DEF ReaderHolds
  <2> QED
    BY <2>1, <2>2, <2>3
<1>19. KindsHold'
  <2>1. OnTerminal' <=> OnTerminal
    BY <1>1 DEF OnTerminal
  <2>2. \A i \in 1..Len(feed') : feed'[i].kind = (IF OnTerminal THEN "notice" ELSE "snapshot") \/ feed'[i].kind = "event"
    BY <1>0, <1>5, <1>13 DEF KindsHold, IsEvent
  <2>3. ~OnTerminal => ~interrupted'
    <3> SUFFICES ASSUME ~OnTerminal PROVE ~interrupted'
      OBVIOUS
    <3>1. ~interrupted /\ x.kind # "notice"
      <4>1. 1 \in 1..Len(feed)
        BY <1>5
      <4> QED
        BY <1>0, <1>6, <4>1 DEF KindsHold, IsEvent
    <3> QED
      BY <1>10, <3>1
  <2>4. ~screen.on => astray'
    BY <1>0, <1>10 DEF KindsHold
  <2>5. reader.at # "idle" => screen.on /\ (OnTerminal => astray')
    BY <1>0, <1>1 DEF KindsHold
  <2>6. OnTerminal => reader.at # "send"
    BY <1>0 DEF KindsHold
  <2> QED
    BY <1>1, <2>1, <2>2, <2>3, <2>4, <2>5, <2>6 DEF KindsHold, IsEvent
<1> QED
  BY <1>2, <1>16, <1>17, <1>18, <1>19 DEF ConversationInv, ScreenInv

\* A notice is put in the terminal's feed.
LEMMA NotifyScreen ==
  ASSUME ConversationInv, Notify
  PROVE  ConversationInv'
<1>0. ChatInv /\ ScreenShapes /\ FeedHolds /\ ReaderHolds /\ KindsHold
  BY DEF ConversationInv, ScreenInv
<1>1. /\ OnTerminal /\ Len(feed) < FeedRoom /\ notices < MaxNotices /\ notices' = notices + 1
      /\ feed' = Append(feed, [kind |-> "notice"])
      /\ screen' = screen /\ reader' = reader /\ view' = view /\ UNCHANGED chatSide
      /\ opens' = opens /\ astray' = astray /\ interrupted' = interrupted
  BY DEF Notify
<1>2. ChatInv'
  BY <1>0, <1>1, SameChat
<1>3. ChatShapes /\ ChatShapes' /\ FeedRoom \in Nat
  BY <1>0, <1>2, ConversationAssumption DEF ChatInv
<1>4. Moves /\ (\A p \in Progress : Behind(p) => Behind(p)') /\ (Beyond => Beyond')
  BY <1>0, <1>1, <1>2, BehindSame
<1>5. PICK x \in Items : x = [kind |-> "notice"] /\ x.kind = "notice"
  <2>1. PICK x : x = [kind |-> "notice"]
    OBVIOUS
  <2>2. x.kind = "notice"
    BY <2>1
  <2>3. x \in Notices
    BY <2>1 DEF Notices
  <2> QED
    BY <2>1, <2>2, <2>3 DEF Items
<1>6. PICK n \in Nat : n = Len(feed)
  BY <1>0, FeedParts
<1>7. feed' = Append(feed, x) /\ feed' \in Seq(Items) /\ Len(feed') = n + 1 /\ feed'[n + 1] = x
      /\ \A j \in 1..n : feed'[j] = feed[j]
  BY <1>0, <1>1, <1>5, <1>6 DEF ScreenShapes
<1>8. Joins(x) /\ (InStep' => InStep)
  BY <1>1, <1>4, <1>5 DEF Joins, InStep
<1>9. (\A i \in 1..n : ItemHolds(i)') /\ (\A u \in Views : u = view /\ InStep' => ViewHolds(u, 0)')
  BY <1>0, <1>3, <1>4, <1>6, <1>7, <1>8, Appended
<1>10. FeedHolds'
  <2>1. \A i \in 1..Len(feed') : ItemHolds(i)'
    <3> SUFFICES ASSUME NEW i \in 1..Len(feed') PROVE ItemHolds(i)'
      OBVIOUS
    <3>1. CASE i \in 1..n
      BY <1>9, <3>1
    <3>2. CASE i = n + 1
      BY <1>5, <1>7, <3>2 DEF ItemHolds, IsEvent, IsSnapshot
    <3> QED
      BY <1>7, <3>1, <3>2
  <2>2. PICK w \in Views : w = view' /\ w = view
    BY <1>0, <1>1 DEF ScreenShapes
  <2>3. InStep' => ViewHolds(w, 0)'
    BY <1>9, <2>2
  <2> QED
    BY <2>1, <2>2, <2>3, FeedMade
<1>11. Len(feed') <= FeedRoom
  BY <1>1, <1>3, <1>6, <1>7
<1>12. notices' \in 0..MaxNotices
  BY <1>0, <1>1, ConversationAssumption DEF ScreenShapes
<1>13. ScreenShapes'
  BY <1>0, <1>1, <1>7, <1>11, <1>12 DEF ScreenShapes
<1>14. ASSUME NEW i \in 1..Len(feed')
       PROVE  feed'[i].kind = "notice" \/ feed'[i].kind = "event"
  <2>1. CASE i \in 1..n
    BY <1>0, <1>1, <1>6, <1>7, <2>1 DEF KindsHold, IsEvent
  <2>2. CASE i = n + 1
    BY <1>5, <1>7, <2>2
  <2> QED
    BY <1>7, <2>1, <2>2
<1>15. KindsHold'
  BY <1>0, <1>1, <1>14 DEF KindsHold, OnTerminal, IsEvent
<1>16. ReaderHolds'
  <2> SUFFICES ASSUME reader.at \in {"tools", "flight", "send"}, reader.clean
               PROVE  /\ relay' = <<>> /\ loop'.at # "saved" /\ \A i \in 1..Len(emitted') : emitted'[i].kind # "end"
                      /\ reader.turns = saved'
                      /\ reader.at # "tools" => reader.tools = groups'
                      /\ reader.at = "send" => reader.flight = flight'
                      /\ NoEventComes'
    BY <1>1 DEF ReaderHolds
  <2>1. /\ relay' = relay /\ loop' = loop /\ emitted' = emitted /\ saved' = saved /\ groups' = groups /\ flight' = flight
    BY <1>1 DEF chatSide
  <2>2. /\ relay = <<>> /\ loop.at # "saved" /\ \A i \in 1..Len(emitted) : emitted[i].kind # "end"
        /\ reader.turns = saved
        /\ reader.at # "tools" => reader.tools = groups
        /\ reader.at = "send" => reader.flight = flight
        /\ NoEventComes
    BY <1>0, <1>1 DEF ReaderHolds
  <2>3. NoEventComes'
    <3> SUFFICES ASSUME NEW i \in 1..Len(feed') PROVE feed'[i].kind # "event"
      BY DEF NoEventComes, IsEvent
    <3>1. CASE i \in 1..n
      BY <1>6, <1>7, <2>2, <3>1 DEF NoEventComes, IsEvent
    <3>2. CASE i = n + 1
      BY <1>5, <1>7, <3>2
    <3> QED
      BY <1>7, <3>1, <3>2
  <2> QED
    BY <2>1, <2>2, <2>3
<1> QED
  BY <1>2, <1>10, <1>13, <1>15, <1>16 DEF ConversationInv, ScreenInv

\* The phone loses its socket, and with it the feed.
LEMMA LoseSocketScreen ==
  ASSUME ConversationInv, LoseSocket
  PROVE  ConversationInv'
<1>0. ChatInv /\ ScreenShapes /\ KindsHold
  BY DEF ConversationInv, ScreenInv
<1>1. /\ ~OnTerminal /\ screen' = [screen EXCEPT !.linked = FALSE] /\ feed' = <<>> /\ reader' = NoRead
      /\ astray' /\ astray' \in BOOLEAN /\ view' = Seen(view, TRUE) /\ UNCHANGED chatSide
      /\ opens' = opens /\ notices' = notices /\ interrupted' = interrupted
  BY DEF LoseSocket
<1>2. ChatInv'
  BY <1>0, <1>1, SameChat
<1>3. reader' \in Readers /\ reader'.at = "idle"
  BY <1>1, NoReadParts
<1>4. view' \in Views
  BY <1>0, <1>1, SeenTypes DEF ScreenShapes
<1>5. screen' \in [kind : Kinds, on : BOOLEAN, linked : BOOLEAN] /\ screen'.kind = screen.kind /\ screen'.on = screen.on
  BY <1>0, <1>1 DEF ScreenShapes
<1>6. feed' \in Seq(Items) /\ Len(feed') = 0 /\ Len(feed') <= FeedRoom
  BY <1>1, ConversationAssumption
<1>7. ScreenShapes'
  BY <1>0, <1>1, <1>3, <1>4, <1>5, <1>6 DEF ScreenShapes, OnTerminal
<1>8. FeedHolds'
  <2>1. PICK w : w = view'
    OBVIOUS
  <2>2. \A i \in 1..Len(feed') : ItemHolds(i)'
    BY <1>6
  <2>3. ~InStep'
    BY <1>1 DEF InStep
  <2> QED
    BY <2>1, <2>2, <2>3, FeedMade
<1>9. ReaderHolds'
  BY <1>3 DEF ReaderHolds
<1>10. KindsHold'
  BY <1>0, <1>1, <1>3, <1>5, <1>6 DEF KindsHold, OnTerminal, IsEvent
<1> QED
  BY <1>2, <1>7, <1>8, <1>9, <1>10 DEF ConversationInv, ScreenInv

\* The phone is back, and asks for a snapshot.
LEMMA ReconnectScreen ==
  ASSUME ConversationInv, Reconnect
  PROVE  ConversationInv'
<1>0. ScreenShapes /\ KindsHold
  BY DEF ConversationInv, ScreenInv
<1>1. /\ ~screen.linked /\ opens < MaxOpens /\ opens' = opens + 1 /\ screen' = [screen EXCEPT !.linked = TRUE]
      /\ reader' = IF screen.on THEN [NoRead EXCEPT !.at = "asked"] ELSE NoRead
      /\ feed' = feed /\ view' = view /\ notices' = notices /\ astray' = astray /\ interrupted' = interrupted
      /\ UNCHANGED chatSide
  BY DEF Reconnect
<1>2. ChatInv' /\ FeedHolds'
  BY <1>1, ScreenStays DEF InStep
<1>3. reader' \in Readers /\ reader'.at \in {"idle", "asked"} /\ (reader'.at # "idle" => screen.on)
  BY <1>1, AskedParts, NoReadParts
<1>4. screen' \in [kind : Kinds, on : BOOLEAN, linked : BOOLEAN] /\ screen'.kind = screen.kind /\ screen'.on = screen.on
      /\ screen'.linked
  BY <1>0, <1>1 DEF ScreenShapes
<1>5. ~OnTerminal
  BY <1>0, <1>1 DEF ScreenShapes, OnTerminal
<1>6. opens' \in 0..MaxOpens
  BY <1>0, <1>1, ConversationAssumption DEF ScreenShapes
<1>7. ScreenShapes'
  BY <1>0, <1>1, <1>3, <1>4, <1>6 DEF ScreenShapes
<1>8. ReaderHolds'
  BY <1>3 DEF ReaderHolds
<1>9. KindsHold'
  BY <1>0, <1>1, <1>3, <1>4, <1>5 DEF KindsHold, OnTerminal, IsEvent
<1> QED
  BY <1>2, <1>7, <1>8, <1>9 DEF ConversationInv, ScreenInv

-----------------------------------------------------------------------------
(*****************************************************************************)
(* The invariant.                                                            *)
(*****************************************************************************)
LEMMA ConversationStarts == ConversationInit => ConversationInv
<1> SUFFICES ASSUME ConversationInit PROVE ConversationInv
  OBVIOUS
<1>1. /\ inputs = <<>> /\ loop = NoTurn /\ emitted = <<>> /\ relay = <<>> /\ flight = NoFlight
      /\ saved = <<>> /\ groups = <<>> /\ cut = {} /\ feed = <<>> /\ reader = NoRead /\ view = Blank /\ opens = 0
      /\ astray = TRUE /\ notices = 0 /\ interrupted = FALSE
  BY DEF ConversationInit
<1>2. PICK k \in Kinds : screen = [kind |-> k, on |-> FALSE, linked |-> TRUE]
  BY DEF ConversationInit
<1>3. ChatShapes
  <2>1. <<>> \in Seq(Questions) /\ <<>> \in Seq(Emissions) /\ <<>> \in Seq(Relays) /\ <<>> \in Seq(SavedTurns)
        /\ <<>> \in Seq(SUBSET Pairs) /\ Len(<<>>) = 0 /\ {} \in SUBSET Questions
    OBVIOUS
  <2>2. NoTurn \in Loops /\ NoFlight \in Flights
    BY NoTurnParts, NoFlightParts
  <2>3. 0 <= OutRoom /\ 0 <= 1
    BY ConversationAssumption
  <2> QED
    BY <1>1, <2>1, <2>2, <2>3 DEF ChatShapes
<1>4. LoopHolds
  BY <1>1, NoTurnParts DEF LoopHolds, Nobody
<1>5. \A i : ~(i \in 1..Len(inputs)) /\ ~(i \in 1..Len(saved)) /\ ~(i \in 1..Len(emitted)) /\ ~(i \in 1..Len(groups))
             /\ ~(i \in 1..Len(relay)) /\ ~(i \in 1..Len(feed))
  BY <1>1
<1>6. EachOnce /\ FileHolds /\ StreamHolds /\ GroupsHold
  <2>1. EachOnce
    BY <1>1, <1>5, NoTurnParts DEF EachOnce, Nobody
  <2>2. FileHolds /\ StreamHolds
    BY <1>5 DEF FileHolds, StreamHolds
  <2>3. GroupsHold
    BY <1>1, <1>5 DEF GroupsHold
  <2> QED
    BY <2>1, <2>2, <2>3
<1>7. PumpHolds
  <2>1. PICK z \in Nat : z = 0
    OBVIOUS
  <2>2. PICK p \in Progress : p = Between(z) /\ p.m = 0 /\ p.q = Nobody
    BY <2>1, BetweenFacts
  <2>3. Len(saved) = z /\ Len(emitted) = 0 /\ Len(groups) = 0
    BY <1>1, <2>1
  <2>4. ComesAt(p, 1)
    <3>1. p \in Reached
      BY <1>1, <2>2, <2>3, NoTurnParts DEF Reached
    <3> QED
      BY <2>3, <3>1 DEF ComesAt
  <2>5. FlightFits(p)
    <3>1. UNION {Called(q, p.c) : q \in p.q} = {}
      BY <2>2 DEF Nobody
    <3> QED
      BY <1>1, <2>2, <3>1, NoFlightParts DEF FlightFits
  <2>6. p.m = IF Flushed THEN Len(groups) ELSE Len(groups) + 1
    BY <1>1, <2>2, <2>3 DEF Flushed
  <2>7. \A q \in p.q : EndComes(q, 0)
    BY <2>2 DEF Nobody
  <2>8. ~flight.running /\ flight.input = Nobody
    BY <1>1, NoFlightParts
  <2> QED
    BY <1>5, <2>4, <2>5, <2>6, <2>7, <2>8 DEF PumpHolds
<1>8. ScreenShapes
  <2>1. <<>> \in Seq(Items) /\ Len(<<>>) = 0 /\ 0 <= FeedRoom /\ 0 \in 0..MaxOpens /\ 0 \in 0..MaxNotices
    BY ConversationAssumption
  <2>2. Blank \in Views
    <3>1. <<>> \in Seq(Blocks)
      OBVIOUS
    <3> QED
      BY <3>1 DEF Blank, Views
  <2> QED
    BY <1>1, <1>2, <2>1, <2>2, NoReadParts DEF ScreenShapes
<1>9. FeedHolds
  BY <1>1, <1>5 DEF FeedHolds, InStep
<1>10. ReaderHolds
  BY <1>1, NoReadParts DEF ReaderHolds
<1>11. KindsHold
  BY <1>1, <1>5, NoReadParts DEF KindsHold
<1> QED
  BY <1>3, <1>4, <1>6, <1>7, <1>8, <1>9, <1>10, <1>11 DEF ConversationInv, ChatInv, ScreenInv

\* Every step keeps the invariant.
LEMMA ConversationSteps == ConversationInv /\ [ConversationNext]_conversationVars => ConversationInv'
<1> SUFFICES ASSUME ConversationInv, [ConversationNext]_conversationVars PROVE ConversationInv'
  OBVIOUS
<1>1. CASE TurnSteps
  BY <1>1, TurnScreen
<1>2. CASE PumpSteps
  BY <1>2, PumpScreen, HandOnScreen DEF PumpSteps
<1>3. CASE ScreenSteps
  <2>1. CASE ReadFlight
    BY <2>1, ReadFlightTerminal, ReadFlightPhone
  <2>2. CASE OpenChat \/ LeaveChat \/ ReadTranscript \/ ReadTools
    BY <2>2, OpenChatScreen, LeaveChatScreen, ReadTranscriptScreen, ReadToolsScreen
  <2>3. CASE SendSnapshot \/ ReduceChat \/ Notify \/ LoseSocket \/ Reconnect
    BY <2>3, SendSnapshotScreen, ReduceChatScreen, NotifyScreen, LoseSocketScreen, ReconnectScreen
  <2> QED
    BY <1>3, <2>1, <2>2, <2>3 DEF ScreenSteps
<1>4. CASE \E q \in Questions : SubmitHere(q) \/ Elsewhere(q)
  BY <1>4, SubmitHereScreen, ElsewhereScreen
<1>5. CASE UNCHANGED conversationVars
  <2>1. /\ UNCHANGED chatSide /\ screen' = screen /\ feed' = feed /\ reader' = reader /\ view' = view
        /\ opens' = opens /\ notices' = notices /\ astray' = astray /\ interrupted' = interrupted
    BY <1>5 DEF conversationVars, chatSide
  <2>2. ChatInv' /\ FeedHolds'
    BY <2>1, ScreenStays DEF InStep
  <2>3. ScreenShapes' /\ KindsHold'
    <3>1. ScreenShapes /\ KindsHold
      BY DEF ConversationInv, ScreenInv
    <3>2. reader' \in Readers /\ view' \in Views /\ astray' \in BOOLEAN
      BY <2>1, <3>1 DEF ScreenShapes
    <3> QED
      BY <2>1, <3>1, <3>2, ScreenKept
  <2>4. ReaderHolds'
    <3>1. ChatShapes /\ ReaderHolds
      BY DEF ConversationInv, ScreenInv, ChatInv
    <3> QED
      BY <2>1, <3>1, ReaderKept DEF chatSide
  <2> QED
    BY <2>2, <2>3, <2>4 DEF ConversationInv, ScreenInv
<1> QED
  BY <1>1, <1>2, <1>3, <1>4, <1>5 DEF ConversationNext

\* At rest the pump has seen what there is.
LEMMA AtRest ==
  ASSUME ConversationInv, ChatRests
  PROVE  /\ ~MoreComes /\ ~Beyond
         /\ \A p \in Progress : ComesAt(p, 1) => p.m = Len(saved) /\ p.q = Nobody
         /\ \A p \in Progress : Behind(p) => ComesAt(p, 1)
<1>1. inputs = <<>> /\ loop.at = "idle" /\ emitted = <<>> /\ relay = <<>>
  BY DEF ChatRests
<1>2. Len(emitted) = 0
  BY <1>1
<1>3. ~MoreComes /\ ~Beyond
  BY <1>1, <1>2 DEF MoreComes, Beyond
<1>4. ASSUME NEW p \in Progress, ComesAt(p, 1) PROVE p.m = Len(saved) /\ p.q = Nobody
  <2>1. p \in Reached
    BY <1>2, <1>4 DEF ComesAt
  <2>2. p = Between(Len(saved))
    BY <1>1, <2>1 DEF Reached
  <2> QED
    BY <2>2 DEF Between
<1>5. \A p \in Progress : Behind(p) => ComesAt(p, 1)
  BY <1>1 DEF Behind
<1> QED
  BY <1>3, <1>4, <1>5

\* When the chat rests its groups are those of its file, and nothing is in flight.
LEMMA FileAtRest ==
  ASSUME ConversationInv, ChatRests
  PROVE  Len(groups) = Len(saved) /\ flight = NoFlight
<1>1. PICK p \in Progress :
        /\ FlightFits(p) /\ ComesAt(p, 1)
        /\ p.m = IF Flushed THEN Len(groups) ELSE Len(groups) + 1
  BY DEF ConversationInv, ChatInv, PumpHolds
<1>2. p.m = Len(saved) /\ p.q = Nobody /\ ~MoreComes
  BY <1>1, AtRest
<1>3. p.m = Len(groups)
  BY <1>1 DEF Flushed, ChatRests
<1>4. ~flight.running /\ flight.input = Nobody
  BY <1>1, <1>2 DEF FlightFits, ConversationInv, ChatInv, PumpHolds
<1>5. flight.events = <<>> /\ flight.forest = {}
  <2>1. UNION {Called(q, p.c) : q \in p.q} = {}
    BY <1>2 DEF Nobody
  <2> QED
    BY <1>1, <1>2, <2>1 DEF FlightFits
<1>6. flight = NoFlight
  BY <1>4, <1>5 DEF ConversationInv, ChatInv, ChatShapes, Flights, NoFlight
<1> QED
  BY <1>2, <1>3, <1>6

\* When everything rests a screen in step shows the answers of the file, and waits for nothing.
LEMMA ScreenAtRest ==
  ASSUME ConversationInv
  PROVE  ScreenConverges
<1> SUFFICES ASSUME ChatRests, ScreenRests, ~astray, ~interrupted
             PROVE  /\ AnswersOf(view.blocks) = AnswersOf(SnapshotBlocks(saved, groups))
                    /\ ~view.running
                    /\ \A i \in DOMAIN view.blocks : ~view.blocks[i].pending
  BY DEF ScreenConverges
<1>1. PICK v \in Views : v = view
  BY DEF ConversationInv, ScreenInv, ScreenShapes
<1>2. feed = <<>> /\ Len(feed) = 0
  BY DEF ScreenRests
<1>3. ViewHolds(v, 0)
  BY <1>1 DEF ConversationInv, ScreenInv, FeedHolds, InStep
<1>4. ~v.running /\ Closed(v)
  <2>1. ~EndAhead(0)
    BY <1>2, AtRest DEF EndAhead, Beyond
  <2> QED
    BY <1>3, <2>1 DEF ViewHolds, Expects
<1>5. PICK p \in Progress : Fits(v, p) /\ p.m = Len(saved) /\ p.q = Nobody
  <2>1. PICK o \in 1..(Len(feed) + 1) : o = 1
    BY <1>2
  <2>2. Link(0, o) /\ ~(o <= Len(feed))
    BY <1>2, <2>1 DEF Link
  <2>3. PICK p \in Progress : Fits(v, p) /\ Meets(p, o)
    BY <1>3, <2>2 DEF ViewHolds
  <2>4. Behind(p)
    BY <2>2, <2>3 DEF Meets
  <2> QED
    BY <2>3, <2>4, AtRest
<1>6. PICK s \in Columns : ShowsTurns(s, p.m) /\ (v.blocks = Append(s, Partial(p)) \/ v.blocks = s)
  BY <1>5 DEF Fits, Columns
<1>7. v.blocks = s
  <2>1. Partial(p) \in Blocks /\ Partial(p).who = "assistant" /\ Partial(p).pending
    BY PartialFacts
  <2>2. v.blocks # Append(s, Partial(p))
    BY <1>4, <2>1, EndsInAnswer
  <2> QED
    BY <1>6, <2>2
<1>8. Kept(cut, s) = Kept(cut, SnapshotBlocks(saved, groups))
  <2>1. FileUpTo(Len(saved)) = SnapshotBlocks(saved, groups)
    BY FileAtRest, FileWhole DEF ConversationInv, ChatInv
  <2>2. cut \in SUBSET Questions
    BY DEF ConversationInv, ChatInv, ChatShapes
  <2>3. Kept(cut, s) = Kept(cut, FileUpTo(p.m))
    BY <1>6, <2>2 DEF ShowsTurns
  <2> QED
    BY <1>5, <2>1, <2>3
<1>9. \A i \in DOMAIN s : ~s[i].pending
  <2>1. DOMAIN s = 1..Len(s)
    BY DEF Columns
  <2> QED
    BY <1>6, <2>1 DEF ShowsTurns
<1>10. AnswersOf(s) = AnswersOf(SnapshotBlocks(saved, groups))
  BY <1>8, AnswersAreKept
<1> QED
  BY <1>1, <1>4, <1>7, <1>9, <1>10

\* The invariant says more than ConversationHolds.
LEMMA ConversationImplied == ConversationInv => ConversationHolds
<1> SUFFICES ASSUME ConversationInv PROVE ConversationHolds
  OBVIOUS
<1>1. ConversationTypeOK
  <2>1. ChatShapes /\ ScreenShapes /\ GroupsHold
    BY DEF ConversationInv, ChatInv, ScreenInv
  <2>2. Len(groups) <= Len(saved) + 1
    BY <2>1 DEF ChatShapes, GroupsHold
  <2>3. loop.at \in {"idle", "asking", "spoke", "calling", "finished", "saved"}
    BY <2>1 DEF ChatShapes, Loops
  <2>4. reader.at \in {"idle", "asked", "tools", "flight", "send"}
    BY <2>1 DEF ScreenShapes, Readers
  <2>5. opens <= MaxOpens /\ notices <= MaxNotices
    BY <2>1, ConversationAssumption DEF ScreenShapes
  <2> QED
    BY <2>1, <2>2, <2>3, <2>4, <2>5 DEF ChatShapes, ScreenShapes, ConversationTypeOK
<1>2. ScreenConverges
  BY ScreenAtRest
<1>3. ChatRests => Len(groups) = Len(saved) /\ flight = NoFlight
  BY FileAtRest
<1> QED
  BY <1>1, <1>2, <1>3 DEF ConversationHolds

(*****************************************************************************)
(* One view of a chat: when the chat and the screen are at rest, a screen    *)
(* that missed nothing shows the answers of the file with their tools and    *)
(* none of them under way, and the file and its groups belong together; for  *)
(* any questions, rounds, rooms, bounds and kinds of screen.                 *)
(*****************************************************************************)
THEOREM ConversationAlwaysHolds == ConversationSpec => []ConversationHolds
<1>1. ConversationInit => ConversationInv
  BY ConversationStarts
<1>2. ConversationInv /\ [ConversationNext]_conversationVars => ConversationInv'
  BY ConversationSteps
<1>3. ConversationInv => ConversationHolds
  BY ConversationImplied
<1> QED
  BY <1>1, <1>2, <1>3, PTL DEF ConversationSpec
=============================================================================
