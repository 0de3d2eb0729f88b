--------------------------- MODULE StateFilesProofs ---------------------------
(***************************************************************************)
(* Proofs about module StateFiles, for any number of processes, actions,   *)
(* decisions and crashes.                                                  *)
(***************************************************************************)
EXTENDS StateFiles, FiniteSetTheorems, SequenceTheorems, TLAPS

LineSet == Events \cup {Torn}

(* Lines that an append may add: whole ones are events of P, each once.    *)
Fresh(lines, P) ==
    /\ lines \in Seq(LineSet)
    /\ \A i \in DOMAIN lines : lines[i] # Torn => lines[i] \in P
    /\ \A i, j \in DOMAIN lines : lines[i] # Torn /\ lines[i] = lines[j] => i = j

(* What a cut leaves of the line after the first k.                        *)
PartOfNext(rest, lines, k) ==
    rest \in IF k = Len(lines) THEN {<<>>}
            ELSE {<<>>, <<Torn>>, <<lines[k + 1]>>}

-----------------------------------------------------------------------------
(* Events of a queue.                                                      *)

LEMMA WithBatchType ==
    ASSUME NEW c \in Contents, NEW batch
    PROVE  Store!WithBatch(c, batch) \in Contents
BY DEF Contents, Stages, Store!WithBatch

LEMMA ReviewedType ==
    ASSUME NEW c \in Contents, NEW a \in Actions, NEW d \in Reviews
    PROVE  [c EXCEPT ![a] = @ \cup {d}] \in Contents
BY DEF Contents, Stages

(* The history of an action only grows, whatever a build or a review does. *)
LEMMA BuildKeepsEvents ==
    ASSUME NEW c \in Contents, NEW batch
    PROVE  EventsOf(c, Actions) \subseteq EventsOf(Store!WithBatch(c, batch), Actions)
BY DEF EventsOf, Events, Contents, Store!WithBatch

LEMMA ReviewKeepsEvents ==
    ASSUME NEW c \in Contents, NEW a \in Actions, NEW d \in Reviews
    PROVE  EventsOf(c, Actions) \subseteq EventsOf([c EXCEPT ![a] = @ \cup {d}], Actions)
BY DEF EventsOf, Events, Contents

(* The guard of a review is what the store lets a person decide.           *)
LEMMA ReviewIsLegal ==
    ASSUME NEW c \in Contents, NEW a \in Actions, NEW d \in Reviews,
           \/ c[a] = {"pending_review"}
           \/ d \in Rejections /\ c[a] # {} /\ c[a] \cap Rejections = {}
    PROVE  Store!MayReview(c[a], d)
BY ReviewsAssumption, PendingAssumption DEF Store!MayReview, Reviews

LEMMA EventsOfFewer ==
    ASSUME NEW c, NEW A \in SUBSET Actions
    PROVE  EventsOf(c, A) \subseteq EventsOf(c, Actions)
BY DEF EventsOf

LEMMA EventsAreFinite ==
    ASSUME NEW c \in Contents, NEW A
    PROVE  IsFiniteSet(EventsOf(c, A))
<1> DEFINE S == Actions \X Stages
           f == [p \in S |-> [of |-> p[1], stage |-> p[2]]]
           T == {f[p] : p \in S}
<1>1. IsFiniteSet(Stages)
  BY ReviewsAreFinite, FS_AddElement DEF Stages
<1>2. IsFiniteSet(S)
  BY <1>1, FS_Product, ActionsAssumption
<1>3. f \in Surjection(S, T)
  BY DEF Surjection
<1>4. IsFiniteSet(T)
  <2> HIDE DEF f, S, T
  <2> QED
    BY <1>2, <1>3, FS_Surjection
<1>5. ASSUME NEW e \in EventsOf(c, A)
      PROVE  e \in T
  <2>1. e.of \in Actions /\ e.stage \in Stages /\ e = [of |-> e.of, stage |-> e.stage]
    BY DEF EventsOf, Events
  <2>2. <<e.of, e.stage>> \in S /\ f[<<e.of, e.stage>>] = e
    BY <2>1
  <2> QED
    BY <2>2
<1> QED
  BY <1>4, <1>5, FS_Subset

-----------------------------------------------------------------------------
(* What an append makes of the log.                                        *)

(* The lines of an append name each pending event at most once.            *)
LEMMA LinesAreFresh ==
    ASSUME NEW w \in Workers, pending[w] \subseteq Events, IsFiniteSet(pending[w]),
           NEW text \in Texts(w)
    PROVE  /\ text \in Seq(Events)
           /\ Len(text) = Cardinality(pending[w])
           /\ DOMAIN text = 1 .. Cardinality(pending[w])
           /\ Len(Lines(text)) = Len(text)
           /\ Fresh(Lines(text), pending[w])
<1> DEFINE n == Cardinality(pending[w])
<1>1. n \in Nat
  BY FS_CardinalityType
<1>2. text \in [1 .. n -> pending[w]]
  BY DEF Texts, Bijection, Injection
<1>3. \A i, j \in 1 .. n : text[i] = text[j] => i = j
  BY DEF Texts, Bijection, Injection, IsInjective
<1> HIDE DEF n
<1>4. text \in Seq(Events) /\ Len(text) = n /\ DOMAIN text = 1 .. n
  BY <1>1, <1>2
<1>5. \A i \in 1 .. n : Lines(text)[i] = Line(text[i])
  BY <1>4 DEF Lines
<1>6. \A e \in Events : Line(e) \in LineSet /\ (Line(e) # Torn => Line(e) = e)
  BY DEF Line, LineSet
<1>7. \A i \in 1 .. n : text[i] \in Events
  BY <1>2
<1>8. Lines(text) \in [1 .. n -> LineSet]
  BY <1>4, <1>6, <1>7 DEF Lines
<1>9. Lines(text) \in Seq(LineSet) /\ Len(Lines(text)) = n /\ DOMAIN Lines(text) = 1 .. n
  BY <1>1, <1>8
<1>10. Fresh(Lines(text), pending[w])
  <2>1. ASSUME NEW i \in 1 .. n, Lines(text)[i] # Torn
        PROVE  Lines(text)[i] = text[i]
    BY <2>1, <1>5, <1>6, <1>7
  <2>2. ASSUME NEW i \in 1 .. n, NEW j \in 1 .. n, Lines(text)[i] # Torn,
               Lines(text)[i] = Lines(text)[j]
        PROVE  i = j
    BY <2>1, <2>2, <1>3
  <2> QED
    BY <1>2, <1>9, <2>1, <2>2 DEF Fresh
<1> QED
  BY <1>4, <1>9, <1>10 DEF n

(* So do those of which an append was cut.                                 *)
LEMMA CutIsFresh ==
    ASSUME NEW lines, NEW P, Fresh(lines, P), NEW k \in 0 .. Len(lines),
           NEW rest, PartOfNext(rest, lines, k)
    PROVE  Fresh(SubSeq(lines, 1, k) \o rest, P)
<1> DEFINE start == SubSeq(lines, 1, k)
           all   == start \o rest
<1>1. /\ lines \in Seq(LineSet)
      /\ Len(lines) \in Nat
      /\ DOMAIN lines = 1 .. Len(lines)
      /\ \A i \in 1 .. Len(lines) : lines[i] \in LineSet
  <2>1. lines \in Seq(LineSet)
    BY DEF Fresh
  <2> QED
    BY <2>1, LenProperties
<1> k \in Nat /\ k <= Len(lines)
  BY <1>1
<1>2. /\ start \in Seq(LineSet)
      /\ Len(start) = k
      /\ \A i \in 1 .. k : start[i] = lines[i]
  <2>1. \A i \in 1 .. k : lines[i] \in LineSet
    BY <1>1
  <2>2. start \in Seq(LineSet) /\ Len(start) = (IF 1 <= k THEN k - 1 + 1 ELSE 0)
        /\ \A i \in 1 .. k - 1 + 1 : start[i] = lines[1 + i - 1]
    BY <2>1, SubSeqProperties
  <2> QED
    BY <1>1, <2>2
<1>3. Torn \in LineSet
  BY DEF LineSet
<1> HIDE DEF start
<1> SUFFICES Fresh(all, P)
  BY DEF start
<1>4. CASE rest = <<>>
  <2>1. all = start
    BY <1>2, <1>4, ConcatEmptySeq
  <2>2. DOMAIN start = 1 .. k /\ 1 .. k \subseteq DOMAIN lines
    BY <1>1, <1>2
  <2>3. Fresh(start, P)
    BY <1>2, <2>2 DEF Fresh
  <2> QED
    BY <2>1, <2>3
<1>5. ASSUME NEW last \in LineSet, rest = <<last>>, k + 1 \in DOMAIN lines,
             last = Torn \/ last = lines[k + 1]
      PROVE  Fresh(all, P)
  <2>1. rest \in Seq(LineSet) /\ Len(rest) = 1 /\ rest[1] = last
    BY <1>5
  <2>2. /\ all \in Seq(LineSet)
        /\ Len(all) = k + 1
        /\ \A i \in 1 .. k + 1 : all[i] = IF i <= k THEN start[i] ELSE rest[i - k]
    <3>1. /\ all \in Seq(LineSet)
          /\ Len(all) = Len(start) + Len(rest)
          /\ \A i \in 1 .. Len(start) + Len(rest) :
                all[i] = IF i <= Len(start) THEN start[i] ELSE rest[i - Len(start)]
      BY <1>2, <2>1, ConcatProperties, Zenon
    <3> HIDE DEF all
    <3> QED
      BY <1>2, <2>1, <3>1
  <2>3. DOMAIN all = 1 .. k + 1
    BY <2>2, <1>1
  <2> HIDE DEF all
  <2>4. \A i \in 1 .. k + 1 : all[i] = Torn \/ all[i] = lines[i]
    <3> SUFFICES ASSUME NEW i \in 1 .. k + 1
                 PROVE  all[i] = Torn \/ all[i] = lines[i]
      OBVIOUS
    <3>1. CASE i <= k
      <4>1. all[i] = start[i]
        BY <2>2, <3>1
      <4> QED
        BY <4>1, <1>2, <3>1
    <3>2. CASE i = k + 1
      <4>1. all[i] = rest[1]
        BY <2>2, <3>2
      <4> QED
        BY <4>1, <2>1, <1>5, <3>2
    <3> QED
      BY <3>1, <3>2, <1>1
  <2>5. 1 .. k + 1 \subseteq DOMAIN lines
    BY <1>1, <1>5
  <2> QED
    BY <2>2, <2>3, <2>4, <2>5 DEF Fresh
<1>6. CASE rest # <<>>
  <2>1. k # Len(lines)
    BY <1>6, Zenon DEF PartOfNext
  <2>2. k + 1 \in DOMAIN lines
    <3>1. k + 1 \in 1 .. Len(lines)
      <4>1. Len(lines) \in Nat
        BY <1>1
      <4> QED
        BY <2>1, <4>1
    <3> QED
      BY <1>1, <3>1, Zenon
  <2>3. lines[k + 1] \in LineSet
    BY <1>1, <2>2
  <2>4. rest = <<Torn>> \/ rest = <<lines[k + 1]>>
    BY <1>6, Zenon DEF PartOfNext
  <2> QED
    <3>1. CASE rest = <<Torn>>
      BY <1>3, <1>5, <2>2, <3>1
    <3>2. CASE rest = <<lines[k + 1]>>
      BY <1>5, <2>2, <2>3, <3>2
    <3> QED
      BY <2>4, <3>1, <3>2
<1> QED
  BY <1>4, <1>6

(* The log after an append: old lines, of which the last may be spoiled,   *)
(* and the new ones.                                                       *)
LEMMA JoinedLines ==
    ASSUME log \in Seq(LineSet), open \in BOOLEAN, open => log # <<>>,
           NEW P, NEW lines, Fresh(lines, P)
    PROVE  /\ Joined(lines) \in Seq(LineSet)
           /\ lines # <<>> => Joined(lines) # <<>>
           /\ lines = <<>> => Joined(lines) = log
           /\ open /\ lines # <<>> => \E i \in DOMAIN Joined(lines) : Joined(lines)[i] = Torn
           /\ \E shift \in {Len(log), Len(log) - 1} :
                \A i \in DOMAIN Joined(lines) :
                   \/ Joined(lines)[i] = Torn
                   \/ i \in DOMAIN log /\ Joined(lines)[i] = log[i]
                   \/ i - shift \in DOMAIN lines /\ Joined(lines)[i] = lines[i - shift]
<1>1. /\ lines \in Seq(LineSet)
      /\ Len(lines) \in Nat
      /\ DOMAIN lines = 1 .. Len(lines)
  <2>1. lines \in Seq(LineSet)
    BY DEF Fresh
  <2> QED
    BY <2>1, LenProperties
<1>2. Len(log) \in Nat /\ DOMAIN log = 1 .. Len(log)
  BY LenProperties
<1>3. CASE ~(open /\ lines # <<>>)
  <2>1. Joined(lines) = log \o lines
    BY <1>3 DEF Joined
  <2> DEFINE all == log \o lines
  <2>2. /\ all \in Seq(LineSet)
        /\ Len(all) = Len(log) + Len(lines)
        /\ \A i \in 1 .. Len(log) + Len(lines) :
              all[i] = IF i <= Len(log) THEN log[i] ELSE lines[i - Len(log)]
    BY <1>1, ConcatProperties, Zenon
  <2>3. lines = <<>> => all = log
    BY ConcatEmptySeq
  <2> HIDE DEF all
  <2>4. DOMAIN all = 1 .. Len(log) + Len(lines)
    BY <1>1, <1>2, <2>2
  <2>5. lines # <<>> => all # <<>>
    <3>1. lines # <<>> => Len(lines) # 0
      BY <1>1, EmptySeq
    <3>2. all = <<>> => Len(all) = 0
      OBVIOUS
    <3> QED
      BY <1>1, <1>2, <2>2, <3>1, <3>2
  <2>6. \A i \in DOMAIN all :
           \/ i \in DOMAIN log /\ all[i] = log[i]
           \/ i - Len(log) \in DOMAIN lines /\ all[i] = lines[i - Len(log)]
    BY <1>1, <1>2, <2>2, <2>4
  <2>7. Joined(lines) = all
    BY <2>1 DEF all
  <2> QED
    BY <1>3, <2>2, <2>3, <2>5, <2>6, <2>7
<1>4. CASE open /\ lines # <<>>
  <2> DEFINE n   == Len(log) - 1
             old == SubSeq(log, 1, n)
  <2>1. Joined(lines) = (old \o <<Torn>>) \o Tail(lines)
    BY <1>4 DEF Joined
  <2>2. n \in Nat /\ n + 1 = Len(log)
    BY <1>2, <1>4, EmptySeq
  <2> HIDE DEF n
  <2>3. /\ old \in Seq(LineSet)
        /\ Len(old) = n
        /\ \A i \in 1 .. n : old[i] = log[i]
    <3>1. \A i \in 1 .. n : log[i] \in LineSet
      BY <1>2, <2>2
    <3>2. /\ old \in Seq(LineSet)
          /\ Len(old) = IF 1 <= n THEN n - 1 + 1 ELSE 0
          /\ \A i \in 1 .. n - 1 + 1 : old[i] = log[1 + i - 1]
      <4>1. 1 \in Int /\ n \in Int
        BY <2>2
      <4> QED
        BY <3>1, <4>1, SubSeqProperties
    <3> HIDE DEF old
    <3>3. /\ n = 0 => Len(old) = 0
          /\ n # 0 => Len(old) = n - 1 + 1
      BY <2>2, <3>2
    <3>4. \A i \in 1 .. n : i \in 1 .. n - 1 + 1 /\ 1 + i - 1 = i
      BY <2>2
    <3> QED
      BY <2>2, <3>2, <3>3, <3>4
  <2> HIDE DEF old
  <2>4. <<Torn>> \in Seq(LineSet) /\ Len(<<Torn>>) = 1 /\ <<Torn>>[1] = Torn
    BY DEF LineSet
  <2> DEFINE start == old \o <<Torn>>
  <2>5. /\ start \in Seq(LineSet)
        /\ Len(start) = n + 1
        /\ \A i \in 1 .. n : start[i] = log[i]
        /\ start[n + 1] = Torn
    <3> DEFINE spoiled == <<Torn>>
    <3>1. spoiled \in Seq(LineSet) /\ Len(spoiled) = 1 /\ spoiled[1] = Torn
      BY <2>4
    <3> HIDE DEF spoiled
    <3>2. /\ old \o spoiled \in Seq(LineSet)
          /\ Len(old \o spoiled) = Len(old) + Len(spoiled)
          /\ \A i \in 1 .. Len(old) + Len(spoiled) :
                (old \o spoiled)[i] = IF i <= Len(old) THEN old[i] ELSE spoiled[i - Len(old)]
      BY <2>3, <3>1, ConcatProperties, Zenon
    <3> DEFINE both == old \o spoiled
    <3>3. both = start
      BY DEF spoiled
    <3> HIDE DEF both, start
    <3>4. /\ both \in Seq(LineSet)
          /\ Len(both) = n + 1
          /\ \A i \in 1 .. n + 1 : both[i] = IF i <= n THEN old[i] ELSE spoiled[i - n]
      BY <2>2, <2>3, <3>1, <3>2 DEF both
    <3> QED
      BY <2>2, <2>3, <3>1, <3>3, <3>4
  <2> HIDE DEF start
  <2> DEFINE new == Tail(lines)
  <2>6. /\ new \in Seq(LineSet)
        /\ Len(new) = Len(lines) - 1
        /\ \A i \in 1 .. Len(new) : new[i] = lines[i + 1]
    BY <1>1, <1>4, HeadTailProperties
  <2> HIDE DEF new
  <2> DEFINE all == start \o new
  <2>7. /\ all \in Seq(LineSet)
        /\ Len(all) = Len(start) + Len(new)
        /\ \A i \in 1 .. Len(start) + Len(new) :
              all[i] = IF i <= Len(start) THEN start[i] ELSE new[i - Len(start)]
    BY <2>5, <2>6, ConcatProperties, Zenon
  <2>8. Joined(lines) = all
    BY <2>1 DEF start, new
  <2> HIDE DEF all
  <2>9. Len(lines) >= 1
    BY <1>1, <1>4, EmptySeq
  <2>10. DOMAIN all = 1 .. n + Len(lines)
    BY <1>1, <2>2, <2>5, <2>6, <2>7, <2>9
  <2>11. ASSUME NEW i \in DOMAIN all
         PROVE  \/ all[i] = Torn
                \/ i \in DOMAIN log /\ all[i] = log[i]
                \/ i - n \in DOMAIN lines /\ all[i] = lines[i - n]
    <3>1. i \in 1 .. n + Len(lines) /\ Len(start) + Len(new) = n + Len(lines)
      BY <2>5, <2>6, <2>10, <1>1, <2>2
    <3>2. CASE i <= n
      <4>1. all[i] = start[i] /\ start[i] = log[i]
        BY <2>2, <2>5, <2>7, <3>1, <3>2
      <4> QED
        BY <4>1, <1>2, <2>2, <3>1, <3>2
    <3>3. CASE i = n + 1
      <4>1. all[i] = start[i] /\ start[i] = Torn
        BY <2>2, <2>5, <2>7, <3>1, <3>3
      <4> QED
        BY <4>1
    <3>4. CASE i > n + 1
      <4>1. all[i] = new[i - (n + 1)]
        BY <2>2, <2>5, <2>7, <3>1, <3>4
      <4>2. i - (n + 1) \in 1 .. Len(new)
        BY <1>1, <2>2, <2>6, <3>1, <3>4
      <4>3. new[i - (n + 1)] = lines[i - (n + 1) + 1]
        BY <2>6, <4>2
      <4>4. i - (n + 1) + 1 = i - n /\ i - n \in DOMAIN lines
        BY <1>1, <2>2, <3>1, <3>4
      <4> QED
        BY <4>1, <4>3, <4>4
    <3> QED
      BY <2>2, <3>1, <3>2, <3>3, <3>4
  <2>12. all # <<>>
    <3>1. Len(all) >= 1
      BY <1>1, <2>2, <2>5, <2>6, <2>7, <2>9
    <3>2. Len(<<>>) = 0
      OBVIOUS
    <3> QED
      BY <3>1, <3>2
  <2>13. n + 1 \in DOMAIN all /\ all[n + 1] = Torn
    BY <1>1, <2>2, <2>5, <2>6, <2>7, <2>9, <2>10
  <2> QED
    BY <1>4, <2>7, <2>8, <2>11, <2>12, <2>13 DEF n
<1> QED
  BY <1>3, <1>4

LEMMA JoinedTells ==
    ASSUME log \in Seq(LineSet), open \in BOOLEAN, open => log # <<>>,
           NEW P, NEW lines, Fresh(lines, P), log' = Joined(lines)
    PROVE  /\ Logged' \subseteq Logged \cup P
           /\ NoLineTwice /\ P \cap Logged = {} => NoLineTwice'
<1>1. PICK shift \in {Len(log), Len(log) - 1} :
         \A i \in DOMAIN log' :
            \/ log'[i] = Torn
            \/ i \in DOMAIN log /\ log'[i] = log[i]
            \/ i - shift \in DOMAIN lines /\ log'[i] = lines[i - shift]
  BY JoinedLines
<1>2. shift \in Int /\ DOMAIN log' \subseteq Int
  <2>1. log' \in Seq(LineSet)
    BY JoinedLines
  <2>2. Len(log) \in Nat /\ Len(log') \in Nat /\ DOMAIN log' = 1 .. Len(log')
    BY <2>1, LenProperties
  <2> QED
    BY <2>2
<1>3. \A i \in DOMAIN lines : lines[i] # Torn => lines[i] \in P
  BY DEF Fresh
<1>4. \A i, j \in DOMAIN lines : lines[i] # Torn /\ lines[i] = lines[j] => i = j
  BY DEF Fresh
<1>5. Logged' \subseteq Logged \cup P
  BY <1>1, <1>3 DEF Logged
<1>6. ASSUME NoLineTwice, P \cap Logged = {},
             NEW i \in DOMAIN log', NEW j \in DOMAIN log',
             log'[i] # Torn, log'[i] = log'[j]
      PROVE  i = j
  <2> DEFINE Old(x) == x \in DOMAIN log /\ log'[x] = log[x]
             New(x) == x - shift \in DOMAIN lines /\ log'[x] = lines[x - shift]
  <2>1. (Old(i) \/ New(i)) /\ (Old(j) \/ New(j))
    BY <1>1, <1>6
  <2>2. CASE Old(i) /\ Old(j)
    BY <1>6, <2>2 DEF NoLineTwice
  <2>3. CASE New(i) /\ New(j)
    <3>1. i - shift = j - shift
      BY <1>4, <1>6, <2>3
    <3> QED
      BY <1>2, <3>1
  <2>4. ASSUME NEW x \in DOMAIN log', NEW y \in DOMAIN log', Old(x), New(y),
               log'[x] = log'[y], log'[x] # Torn
        PROVE  FALSE
    <3>1. log'[x] \in Logged
      BY <2>4 DEF Logged
    <3>2. log'[y] \in P
      BY <1>3, <2>4
    <3> QED
      BY <1>6, <2>4, <3>1, <3>2
  <2> QED
    BY <1>6, <2>1, <2>2, <2>3, <2>4
<1> QED
  BY <1>5, <1>6 DEF NoLineTwice

-----------------------------------------------------------------------------
(* The invariant.  A lock is held by whom is at a step that it covers; a   *)
(* version to be saved is that of a build or review of the queue as it is; *)
(* what will be appended is what the log lacks of the history of a saved   *)
(* queue.                                                                  *)

Locking ==
    \A w \in Workers :
       /\ step[w] \in {"stage", "publish"} <=> queueHolder = w
       /\ step[w] = "append" <=> logHolder = w

Saving ==
    \A w \in Workers :
       /\ step[w] \in {"stage", "publish"} =>
             \/ \E batch \in SUBSET Actions : held[w] = Store!WithBatch(queue, batch)
             \/ \E a \in Actions, d \in Reviews :
                   Store!MayReview(queue[a], d) /\ held[w] = [queue EXCEPT ![a] = @ \cup {d}]
       /\ step[w] = "publish" => temp = held[w]

Telling ==
    \A w \in Workers :
       /\ step[w] \in {"record", "append"} =>
             EventsOf(held[w], about[w]) \subseteq EventsOf(queue, Actions)
       /\ step[w] = "append" => pending[w] = EventsOf(held[w], about[w]) \ Logged

OpenIsALine == open => log # <<>>

FilesInv ==
    FilesTypeOK /\ Locking /\ Saving /\ Telling /\ OpenIsALine /\ LogBehindQueue /\ NoLineTwice

LEMMA FilesInvInit == Init => FilesInv
<1> SUFFICES ASSUME Init PROVE FilesInv
  OBVIOUS
<1>1. Nothing \in Contents
  BY DEF Nothing, Contents, Stages
<1>2. FilesTypeOK
  <2>1. <<>> \in Seq(Events \cup {Torn})
    OBVIOUS
  <2>2. queue \in Contents /\ held \in [Workers -> Contents]
    BY <1>1 DEF Init
  <2> QED
    BY <2>1, <2>2 DEF Init, FilesTypeOK, Steps
<1>3. Locking
  BY NobodyAssumption DEF Init, Locking
<1>4. Saving /\ Telling /\ OpenIsALine
  BY DEF Init, Saving, Telling, OpenIsALine
<1>5. LogBehindQueue /\ NoLineTwice
  BY DEF Init, LogBehindQueue, NoLineTwice, Logged
<1> QED
  BY <1>2, <1>3, <1>4, <1>5 DEF FilesInv

(* Either append adds fresh lines of events that are not in the log.       *)
LEMMA AppendAddsFresh ==
    ASSUME FilesInv, NEW w \in Workers, AppendLines(w) \/ CutAppend(w)
    PROVE  /\ pending[w] = EventsOf(held[w], about[w]) \ Logged
           /\ \E lines : /\ Fresh(lines, pending[w])
                         /\ log' = Joined(lines)
                         /\ open' => open \/ lines # <<>>
                         /\ open' \in BOOLEAN
<1>1. step[w] = "append" /\ pending[w] \subseteq Events /\ held[w] \in Contents /\ open \in BOOLEAN
  BY DEF FilesInv, FilesTypeOK, AppendLines, CutAppend
<1>2. pending[w] = EventsOf(held[w], about[w]) \ Logged
  BY <1>1 DEF FilesInv, Telling
<1>3. IsFiniteSet(pending[w])
  BY <1>1, <1>2, EventsAreFinite, FS_Subset
<1>4. CASE AppendLines(w)
  <2>1. PICK text \in Texts(w) : log' = Joined(Lines(text))
    BY <1>4 DEF AppendLines
  <2>2. Fresh(Lines(text), pending[w])
    BY <1>1, <1>3, LinesAreFresh
  <2> QED
    BY <1>2, <1>4, <2>1, <2>2 DEF AppendLines
<1>5. CASE CutAppend(w)
  <2>1. PICK text \in Texts(w), k \in 0 .. Cardinality(pending[w]) :
           \E rest \in IF k = Len(text) THEN {<<>>}
                       ELSE {<<>>, <<Torn>>, <<Lines(text)[k + 1]>>} :
              LET written == SubSeq(Lines(text), 1, k) \o rest IN
              /\ log' = Joined(written)
              /\ open' = IF written = <<>> THEN open ELSE rest # <<>>
    BY <1>5, Zenon DEF CutAppend
  <2>2. /\ Fresh(Lines(text), pending[w])
        /\ Len(Lines(text)) = Len(text)
        /\ Len(text) = Cardinality(pending[w])
    BY <1>1, <1>3, LinesAreFresh
  <2>3. PICK rest :
           /\ PartOfNext(rest, Lines(text), k)
           /\ log' = Joined(SubSeq(Lines(text), 1, k) \o rest)
           /\ open' = IF SubSeq(Lines(text), 1, k) \o rest = <<>> THEN open ELSE rest # <<>>
    BY <2>1, <2>2, Zenon DEF PartOfNext
  <2>4. k \in 0 .. Len(Lines(text))
    BY <2>2, Zenon
  <2> DEFINE written == SubSeq(Lines(text), 1, k) \o rest
  <2>5. Fresh(written, pending[w])
    BY <2>2, <2>3, <2>4, CutIsFresh
  <2>6. log' = Joined(written) /\ open' = IF written = <<>> THEN open ELSE rest # <<>>
    BY <2>3
  <2> HIDE DEF written
  <2> QED
    BY <1>1, <1>2, <2>5, <2>6
<1> QED
  BY <1>4, <1>5

-----------------------------------------------------------------------------
(* Each step keeps the invariant.                                          *)

StepOf(w) ==
    \/ \E batch \in SUBSET Actions : EnqueueUnderLock(w, batch)
    \/ \E a \in Actions, d \in Reviews : ReviewUnderLock(w, a, d)
    \/ Stage(w) \/ Publish(w) \/ SaveFails(w) \/ Reload(w)
    \/ Record(w) \/ AppendLines(w) \/ CutAppend(w) \/ GiveUp(w) \/ Crash(w)

LEMMA TypeKept ==
    ASSUME FilesInv, NEW w \in Workers, StepOf(w)
    PROVE  FilesTypeOK'
<1>1. FilesTypeOK
  BY DEF FilesInv
<1>2. Nothing \in Contents
  BY DEF Nothing, Contents, Stages
<1>3. ASSUME Ends(w)
      PROVE  /\ step' \in [Workers -> Steps]
             /\ held' \in [Workers -> Contents]
             /\ about' \in [Workers -> SUBSET Actions]
             /\ pending' \in [Workers -> SUBSET Events]
  BY <1>1, <1>2, <1>3 DEF Ends, Goto, FilesTypeOK, Steps
<1>4. \A c, A : EventsOf(c, A) \subseteq Events
  BY DEF EventsOf
<1>5. ASSUME NEW batch \in SUBSET Actions, EnqueueUnderLock(w, batch)
      PROVE  FilesTypeOK'
  <2>1. Store!WithBatch(queue, batch) \in Contents
    BY <1>1, WithBatchType DEF FilesTypeOK
  <2> QED
    BY <1>1, <1>5, <2>1 DEF EnqueueUnderLock, Goto, FilesTypeOK, Steps, logFiles
<1>6. ASSUME NEW a \in Actions, NEW d \in Reviews, ReviewUnderLock(w, a, d)
      PROVE  FilesTypeOK'
  <2>1. [queue EXCEPT ![a] = @ \cup {d}] \in Contents
    BY <1>1, ReviewedType DEF FilesTypeOK
  <2> QED
    BY <1>1, <1>6, <2>1 DEF ReviewUnderLock, Goto, FilesTypeOK, Steps, logFiles
<1>7. CASE Stage(w)
  BY <1>1, <1>7 DEF Stage, Goto, FilesTypeOK, Steps, logFiles
<1>8. CASE Publish(w)
  <2>1. temp \in Contents
    BY <1>1, <1>8 DEF Publish, FilesInv, Saving, FilesTypeOK
  <2> QED
    BY <1>1, <1>8, <2>1 DEF Publish, Goto, FilesTypeOK, Steps, logFiles
<1>9. CASE SaveFails(w)
  BY <1>1, <1>3, <1>9 DEF SaveFails, FilesTypeOK, logFiles
<1>10. CASE Reload(w)
  BY <1>1, <1>10 DEF Reload, Goto, FilesTypeOK, Steps, queueFiles, logFiles
<1>11. CASE Record(w)
  <2>1. CASE EventsOf(held[w], about[w]) \ Logged = {}
    BY <1>1, <1>3, <1>4, <1>11, <2>1 DEF Record, FilesTypeOK, queueFiles
  <2>2. CASE EventsOf(held[w], about[w]) \ Logged # {}
    BY <1>1, <1>4, <1>11, <2>2 DEF Record, Goto, FilesTypeOK, Steps, queueFiles
  <2> QED
    BY <2>1, <2>2
<1>12. CASE AppendLines(w) \/ CutAppend(w)
  <2>1. log' \in Seq(Events \cup {Torn}) /\ open' \in BOOLEAN
    <3>1. PICK lines : /\ Fresh(lines, pending[w])
                       /\ log' = Joined(lines)
                       /\ open' \in BOOLEAN
      BY <1>12, AppendAddsFresh
    <3>2. log \in Seq(LineSet) /\ open \in BOOLEAN /\ (open => log # <<>>)
      BY <1>1 DEF FilesInv, OpenIsALine, FilesTypeOK, LineSet
    <3>3. Joined(lines) \in Seq(LineSet)
      BY <3>1, <3>2, JoinedLines
    <3> QED
      BY <3>1, <3>3 DEF LineSet
  <2>2. Ends(w) /\ UNCHANGED queueFiles /\ logHolder' = Nobody
        /\ reported' \in {reported, reported \cup EventsOf(held[w], about[w])}
    BY <1>12 DEF AppendLines, CutAppend
  <2> QED
    BY <1>1, <1>3, <1>4, <2>1, <2>2 DEF FilesTypeOK, queueFiles
<1>13. CASE GiveUp(w)
  BY <1>1, <1>3, <1>13 DEF GiveUp, FilesTypeOK, queueFiles, logFiles
<1>14. CASE Crash(w)
  BY <1>1, <1>3, <1>14 DEF Crash, FilesTypeOK
<1> QED
  BY <1>5, <1>6, <1>7, <1>8, <1>9, <1>10, <1>11, <1>12, <1>13, <1>14 DEF StepOf

LEMMA LockingKept ==
    ASSUME FilesInv, NEW w \in Workers, StepOf(w)
    PROVE  Locking'
<1>1. Locking /\ step \in [Workers -> Steps]
  BY DEF FilesInv, FilesTypeOK
<1>2. SUFFICES ASSUME NEW v \in Workers
               PROVE  /\ step'[v] \in {"stage", "publish"} <=> queueHolder' = v
                      /\ step'[v] = "append" <=> logHolder' = v
  BY DEF Locking
<1>3. /\ step[v] \in {"stage", "publish"} <=> queueHolder = v
      /\ step[v] = "append" <=> logHolder = v
      /\ step[w] \in {"stage", "publish"} <=> queueHolder = w
      /\ step[w] = "append" <=> logHolder = w
  BY <1>1 DEF Locking
<1> USE NobodyAssumption, <1>1, <1>3 DEF Goto, Ends, queueFiles, logFiles
<1>4. CASE \E batch \in SUBSET Actions : EnqueueUnderLock(w, batch)
  BY <1>4 DEF EnqueueUnderLock
<1>5. CASE \E a \in Actions, d \in Reviews : ReviewUnderLock(w, a, d)
  BY <1>5 DEF ReviewUnderLock
<1>6. CASE Stage(w) \/ Publish(w) \/ SaveFails(w) \/ Reload(w)
  BY <1>6 DEF Stage, Publish, SaveFails, Reload
<1>7. CASE Record(w)
  BY <1>7 DEF Record
<1>8. CASE AppendLines(w)
  BY <1>8 DEF AppendLines
<1>9. CASE CutAppend(w)
  BY <1>9 DEF CutAppend
<1>10. CASE GiveUp(w) \/ Crash(w)
  BY <1>10 DEF GiveUp, Crash
<1> QED
  BY <1>4, <1>5, <1>6, <1>7, <1>8, <1>9, <1>10 DEF StepOf

LEMMA SavingKept ==
    ASSUME FilesInv, NEW w \in Workers, StepOf(w)
    PROVE  Saving'
<1>1. /\ Locking
      /\ Saving
      /\ step \in [Workers -> Steps]
      /\ held \in [Workers -> Contents]
  BY DEF FilesInv, FilesTypeOK
<1> DEFINE Due(q, h) ==
              \/ \E batch \in SUBSET Actions : h = Store!WithBatch(q, batch)
              \/ \E a \in Actions, d \in Reviews :
                    Store!MayReview(q[a], d) /\ h = [q EXCEPT ![a] = @ \cup {d}]
<1>2. \A v \in Workers :
         /\ step[v] \in {"stage", "publish"} => Due(queue, held[v])
         /\ step[v] = "publish" => temp = held[v]
  BY <1>1 DEF Saving
<1>3. SUFFICES \A v \in Workers :
                  /\ step'[v] \in {"stage", "publish"} => Due(queue', held'[v])
                  /\ step'[v] = "publish" => temp' = held'[v]
  <2>1. Saving' <=> \A v \in Workers :
                       /\ step'[v] \in {"stage", "publish"} => Due(queue', held'[v])
                       /\ step'[v] = "publish" => temp' = held'[v]
    BY DEF Saving, Store!WithBatch
  <2> QED
    BY <2>1
<1>4. \A v \in Workers : step[v] \in {"stage", "publish"} <=> queueHolder = v
  BY <1>1 DEF Locking
<1>5. ASSUME NEW batch \in SUBSET Actions, EnqueueUnderLock(w, batch)
      PROVE  \A v \in Workers :
                /\ step'[v] \in {"stage", "publish"} => Due(queue', held'[v])
                /\ step'[v] = "publish" => temp' = held'[v]
  <2>1. Due(queue, Store!WithBatch(queue, batch))
    OBVIOUS
  <2> HIDE DEF Due
  <2> QED
    BY <1>1, <1>2, <1>5, <2>1 DEF EnqueueUnderLock, Goto
<1>6. ASSUME NEW a \in Actions, NEW d \in Reviews, ReviewUnderLock(w, a, d)
      PROVE  \A v \in Workers :
                /\ step'[v] \in {"stage", "publish"} => Due(queue', held'[v])
                /\ step'[v] = "publish" => temp' = held'[v]
  <2>1. Due(queue, [queue EXCEPT ![a] = @ \cup {d}])
    <3>1. queue \in Contents
      BY DEF FilesInv, FilesTypeOK
    <3> QED
      BY <1>6, <3>1, ReviewIsLegal DEF ReviewUnderLock
  <2> HIDE DEF Due
  <2> QED
    BY <1>1, <1>2, <1>6, <2>1 DEF ReviewUnderLock, Goto
<1> HIDE DEF Due
<1>7. CASE Stage(w)
  <2>1. \A v \in Workers \ {w} : step[v] # "publish"
    BY <1>4, <1>7 DEF Stage
  <2> QED
    BY <1>1, <1>2, <1>7, <2>1 DEF Stage, Goto
<1>8. CASE Publish(w) \/ SaveFails(w)
  <2>1. \A v \in Workers \ {w} : step[v] \notin {"stage", "publish"}
    BY <1>4, <1>8 DEF Publish, SaveFails
  <2>2. step' \in [Workers -> Steps] /\ step'[w] \notin {"stage", "publish"}
        /\ \A v \in Workers \ {w} : step'[v] = step[v]
    BY <1>1, <1>8 DEF Publish, SaveFails, Ends, Goto, Steps
  <2> QED
    BY <2>1, <2>2
<1>9. CASE Crash(w)
  <2>1. step'[w] = "idle" /\ \A v \in Workers \ {w} : step'[v] = step[v] /\ held'[v] = held[v]
    BY <1>1, <1>9 DEF Crash, Ends, Goto
  <2>2. queue' = queue
    BY <1>9 DEF Crash
  <2>3. ASSUME NEW v \in Workers \ {w}, step[v] = "publish"
        PROVE  temp' = temp
    <3>1. step[w] # "stage"
      BY <1>4, <2>3
    <3> QED
      BY <1>9, <3>1 DEF Crash
  <2> QED
    BY <1>2, <2>1, <2>2, <2>3
<1>10. CASE Reload(w) \/ Record(w) \/ AppendLines(w) \/ CutAppend(w) \/ GiveUp(w)
  <2>1. UNCHANGED <<queue, temp>>
    BY <1>10 DEF Reload, Record, AppendLines, CutAppend, GiveUp, queueFiles
  <2>2. step'[w] \notin {"stage", "publish"}
        /\ \A v \in Workers \ {w} : step'[v] = step[v] /\ held'[v] = held[v]
    BY <1>1, <1>10, Zenon DEF Reload, Record, AppendLines, CutAppend, GiveUp, Ends, Goto
  <2> QED
    BY <1>2, <2>1, <2>2
<1> QED
  BY <1>5, <1>6, <1>7, <1>8, <1>9, <1>10 DEF StepOf

(* The queue changes when a save is published, by what it was saved for.   *)
LEMMA QueueMoves ==
    ASSUME FilesInv, NEW w \in Workers, StepOf(w)
    PROVE  /\ Publish(w) => queue' = held[w] /\ Store!StoreNext
           /\ ~Publish(w) => queue' = queue
           /\ EventsOf(queue, Actions) \subseteq EventsOf(queue', Actions)
<1>1. CASE Publish(w)
  <2>1. step[w] = "publish" /\ queue' = temp /\ queue \in Contents
    BY <1>1 DEF Publish, FilesInv, FilesTypeOK
  <2>2. queue' = held[w]
    BY <2>1 DEF FilesInv, Saving
  <2>3. \/ \E batch \in SUBSET Actions : held[w] = Store!WithBatch(queue, batch)
        \/ \E a \in Actions, d \in Reviews :
              Store!MayReview(queue[a], d) /\ held[w] = [queue EXCEPT ![a] = @ \cup {d}]
    BY <2>1 DEF FilesInv, Saving
  <2>4. Store!StoreNext
    BY <2>2, <2>3 DEF Store!StoreNext, Store!Build, Store!Review, Store!Reviews, Reviews
  <2>5. EventsOf(queue, Actions) \subseteq EventsOf(queue', Actions)
    BY <2>1, <2>2, <2>3, BuildKeepsEvents, ReviewKeepsEvents
  <2> QED
    BY <1>1, <2>2, <2>4, <2>5
<1>2. CASE ~Publish(w)
  <2>1. queue' = queue
    BY <1>2 DEF StepOf, EnqueueUnderLock, ReviewUnderLock, Stage, SaveFails, Reload, Record,
                AppendLines, CutAppend, GiveUp, Crash, queueFiles
  <2> QED
    BY <1>2, <2>1
<1> QED
  BY <1>1, <1>2

LEMMA LogKept ==
    ASSUME FilesInv, NEW w \in Workers, StepOf(w)
    PROVE  OpenIsALine' /\ NoLineTwice' /\ LogBehindQueue'
<1>1. OpenIsALine /\ NoLineTwice /\ LogBehindQueue
  BY DEF FilesInv
<1>2. EventsOf(queue, Actions) \subseteq EventsOf(queue', Actions)
  BY QueueMoves
<1>3. CASE AppendLines(w) \/ CutAppend(w)
  <2>1. log \in Seq(LineSet) /\ open \in BOOLEAN
    BY DEF FilesInv, FilesTypeOK, LineSet
  <2>2. PICK lines : /\ Fresh(lines, pending[w])
                     /\ log' = Joined(lines)
                     /\ open' => open \/ lines # <<>>
    BY <1>3, AppendAddsFresh
  <2>3. /\ lines # <<>> => log' # <<>>
        /\ lines = <<>> => log' = log
    BY <1>1, <2>1, <2>2, JoinedLines DEF OpenIsALine
  <2>4. OpenIsALine'
    BY <1>1, <2>2, <2>3 DEF OpenIsALine
  <2>5. pending[w] \cap Logged = {} /\ pending[w] \subseteq EventsOf(queue, Actions)
    <3>1. step[w] = "append" /\ pending[w] = EventsOf(held[w], about[w]) \ Logged
      BY <1>3, AppendAddsFresh DEF AppendLines, CutAppend
    <3> QED
      BY <3>1 DEF FilesInv, Telling
  <2>6. Logged' \subseteq Logged \cup pending[w] /\ NoLineTwice'
    BY <1>1, <2>1, <2>2, <2>5, JoinedTells DEF OpenIsALine
  <2>7. LogBehindQueue'
    BY <1>1, <1>2, <2>5, <2>6 DEF LogBehindQueue
  <2> QED
    BY <2>4, <2>6, <2>7
<1>4. CASE ~(AppendLines(w) \/ CutAppend(w))
  <2>1. log' = log /\ open' = open
    BY <1>4 DEF StepOf, EnqueueUnderLock, ReviewUnderLock, Stage, Publish, SaveFails, Reload,
                Record, GiveUp, Crash, logFiles
  <2> QED
    BY <1>1, <1>2, <2>1 DEF OpenIsALine, NoLineTwice, LogBehindQueue, Logged
<1> QED
  BY <1>3, <1>4

LEMMA TellingKept ==
    ASSUME FilesInv, NEW w \in Workers, StepOf(w)
    PROVE  Telling'
<1>1. /\ Telling
      /\ Locking
      /\ queue \in Contents
      /\ step \in [Workers -> Steps]
      /\ held \in [Workers -> Contents]
      /\ about \in [Workers -> SUBSET Actions]
      /\ pending \in [Workers -> SUBSET Events]
  BY DEF FilesInv, FilesTypeOK
<1>2. EventsOf(queue, Actions) \subseteq EventsOf(queue', Actions)
  BY QueueMoves
<1> DEFINE Tells(v) ==
       /\ step'[v] \in {"record", "append"} =>
             EventsOf(held'[v], about'[v]) \subseteq EventsOf(queue', Actions)
       /\ step'[v] = "append" => pending'[v] = EventsOf(held'[v], about'[v]) \ Logged'
<1>3. ASSUME NEW v \in Workers \ {w}
      PROVE  Tells(v)
  <2>1. /\ step'[v] = step[v]
        /\ held'[v] = held[v]
        /\ about'[v] = about[v]
        /\ pending'[v] = pending[v]
    BY <1>1 DEF StepOf, EnqueueUnderLock, ReviewUnderLock, Stage, Publish, SaveFails, Reload,
                Record, AppendLines, CutAppend, GiveUp, Crash, Ends, Goto
  <2>2. step[v] = "append" => log' = log
    <3>1. step[v] = "append" => step[w] # "append"
      BY <1>1 DEF Locking
    <3> QED
      BY <3>1 DEF StepOf, EnqueueUnderLock, ReviewUnderLock, Stage, Publish, SaveFails, Reload,
                  Record, AppendLines, CutAppend, GiveUp, Crash, logFiles
  <2>3. /\ step[v] \in {"record", "append"} =>
              EventsOf(held[v], about[v]) \subseteq EventsOf(queue, Actions)
        /\ step[v] = "append" => pending[v] = EventsOf(held[v], about[v]) \ Logged
    BY <1>1 DEF Telling
  <2> QED
    BY <1>2, <2>1, <2>2, <2>3 DEF Logged
<1>4. Tells(w)
  <2>1. CASE Publish(w)
    <3>1. held'[w] = queue' /\ about'[w] \in SUBSET Actions /\ step'[w] # "append"
      BY <1>1, <2>1, QueueMoves DEF Publish, Goto
    <3> QED
      BY <3>1, EventsOfFewer
  <2>2. CASE Reload(w)
    <3>1. PICK A \in {Actions} \cup {{a} : a \in Actions} : about' = [about EXCEPT ![w] = A]
      BY <2>2 DEF Reload
    <3>2. A \in SUBSET Actions
      OBVIOUS
    <3>3. held'[w] = queue /\ queue' = queue /\ about'[w] = A /\ step'[w] = "record"
      BY <1>1, <2>2, <3>1 DEF Reload, Goto, queueFiles
    <3> QED
      BY <3>2, <3>3, EventsOfFewer
  <2>3. CASE Record(w)
    <3>1. CASE EventsOf(held[w], about[w]) \ Logged = {}
      BY <1>1, <2>3, <3>1 DEF Record, Ends, Goto
    <3>2. CASE EventsOf(held[w], about[w]) \ Logged # {}
      <4>1. /\ step[w] = "record"
            /\ held'[w] = held[w] /\ about'[w] = about[w] /\ queue' = queue /\ log' = log
            /\ pending'[w] = EventsOf(held[w], about[w]) \ Logged
        BY <1>1, <2>3, <3>2 DEF Record, queueFiles
      <4> QED
        BY <1>1, <4>1 DEF Telling, Logged
    <3> QED
      BY <3>1, <3>2
  <2>4. CASE ~(Publish(w) \/ Reload(w) \/ Record(w))
    <3>1. step'[w] \notin {"record", "append"}
      BY <1>1, <2>4 DEF StepOf, EnqueueUnderLock, ReviewUnderLock, Stage, SaveFails,
                        AppendLines, CutAppend, GiveUp, Crash, Ends, Goto
    <3> QED
      BY <3>1
  <2> QED
    BY <2>1, <2>2, <2>3, <2>4
<1>5. \A v \in Workers : Tells(v)
  BY <1>3, <1>4
<1> QED
  BY <1>5 DEF Telling

LEMMA FilesInvKept == FilesInv /\ [Next]_vars => FilesInv'
<1> SUFFICES ASSUME FilesInv, [Next]_vars PROVE FilesInv'
  OBVIOUS
<1>1. CASE UNCHANGED vars
  <2>1. UNCHANGED <<queue, temp, queueHolder>> /\ UNCHANGED <<log, open, logHolder, reported>>
        /\ UNCHANGED <<step, held, about, pending>>
    BY <1>1 DEF vars, queueFiles, logFiles
  <2>2. FilesTypeOK' /\ Locking'
    BY <2>1 DEF FilesInv, FilesTypeOK, Locking
  <2>3. Saving'
    <3> DEFINE Due(q, h) ==
                  \/ \E batch \in SUBSET Actions : h = Store!WithBatch(q, batch)
                  \/ \E a \in Actions, d \in Reviews :
                        Store!MayReview(q[a], d) /\ h = [q EXCEPT ![a] = @ \cup {d}]
    <3>1. \A v \in Workers :
             /\ step[v] \in {"stage", "publish"} => Due(queue, held[v])
             /\ step[v] = "publish" => temp = held[v]
      BY DEF FilesInv, Saving
    <3>2. Saving' <=> \A v \in Workers :
                         /\ step'[v] \in {"stage", "publish"} => Due(queue', held'[v])
                         /\ step'[v] = "publish" => temp' = held'[v]
      BY DEF Saving, Store!WithBatch
    <3> HIDE DEF Due
    <3> QED
      BY <2>1, <3>1, <3>2
  <2>4. Telling' /\ OpenIsALine' /\ LogBehindQueue' /\ NoLineTwice'
    BY <2>1 DEF FilesInv, Telling, OpenIsALine, LogBehindQueue, NoLineTwice, Logged
  <2> QED
    BY <2>2, <2>3, <2>4 DEF FilesInv
<1>2. CASE Next
  <2>1. PICK w \in Workers : StepOf(w)
    BY <1>2 DEF Next, StepOf
  <2> QED
    BY <2>1, TypeKept, LockingKept, SavingKept, TellingKept, LogKept DEF FilesInv
<1> QED
  BY <1>1, <1>2

LEMMA FilesInvariant == Spec => []FilesInv
<1> QED
  BY FilesInvInit, FilesInvKept, PTL DEF Spec

-----------------------------------------------------------------------------
(* The queue file is always a whole version, and everything else has its   *)
(* type, whatever saves, appends and processes end half-way.               *)
THEOREM FilesTypeInvariant == Spec => []FilesTypeOK
<1>1. FilesInv => FilesTypeOK
  BY DEF FilesInv
<1> QED
  BY <1>1, FilesInvariant, PTL

(* The log never tells of what is not in the queue file.                   *)
THEOREM LogBehindInvariant == Spec => []LogBehindQueue
<1>1. FilesInv => LogBehindQueue
  BY DEF FilesInv
<1> QED
  BY <1>1, FilesInvariant, PTL

(* No event is logged twice.                                               *)
THEOREM NoLineTwiceInvariant == Spec => []NoLineTwice
<1>1. FilesInv => NoLineTwice
  BY DEF FilesInv
<1> QED
  BY <1>1, FilesInvariant, PTL

(* Lock, temporary file and rename implement the atomic store.             *)
THEOREM StoreIsAtomicTheorem == Spec => StoreIsAtomic
<1>1. Init => Store!StoreInit
  BY DEF Init, Nothing, Store!StoreInit
<1>2. FilesInv /\ [Next]_vars => [Store!StoreNext]_queue
  <2> SUFFICES ASSUME FilesInv, [Next]_vars PROVE [Store!StoreNext]_queue
    OBVIOUS
  <2>1. CASE UNCHANGED vars
    BY <2>1 DEF vars, queueFiles
  <2>2. CASE Next
    <3>1. PICK w \in Workers : StepOf(w)
      BY <2>2 DEF Next, StepOf
    <3> QED
      BY <3>1, QueueMoves
  <2> QED
    BY <2>1, <2>2
<1> QED
  BY <1>1, <1>2, FilesInvariant, PTL DEF Spec, StoreIsAtomic, Store!StoreSpec

-----------------------------------------------------------------------------
(* What was reported.                                                      *)

(* A log that loads after an append loaded before it, and kept its lines.  *)
LEMMA LoadableLogGrew ==
    ASSUME log \in Seq(LineSet), open \in BOOLEAN, open => log # <<>>,
           NEW P, NEW lines, Fresh(lines, P), log' = Joined(lines), Loadable'
    PROVE  /\ Loadable
           /\ Logged \subseteq Logged'
           /\ \A i \in DOMAIN lines : \E j \in DOMAIN log' : log'[j] = lines[i]
<1>1. \A i \in DOMAIN log' : log'[i] # Torn
  BY DEF Loadable
<1>2. ~(open /\ lines # <<>>)
  BY <1>1, JoinedLines
<1>3. lines \in Seq(LineSet)
  BY DEF Fresh
<1>4. /\ Len(log) \in Nat /\ DOMAIN log = 1 .. Len(log)
      /\ Len(lines) \in Nat /\ DOMAIN lines = 1 .. Len(lines)
  BY <1>3, LenProperties
<1>5. /\ log' \in Seq(LineSet)
      /\ Len(log') = Len(log) + Len(lines)
      /\ \A i \in 1 .. Len(log) + Len(lines) :
            log'[i] = IF i <= Len(log) THEN log[i] ELSE lines[i - Len(log)]
  <2>1. log' = log \o lines
    BY <1>2 DEF Joined
  <2> QED
    BY <1>3, <2>1, ConcatProperties, Zenon
<1>6. DOMAIN log' = 1 .. Len(log) + Len(lines)
  BY <1>4, <1>5
<1>7. \A i \in DOMAIN log : i \in DOMAIN log' /\ log'[i] = log[i]
  BY <1>4, <1>5, <1>6
<1>8. \A i \in DOMAIN lines : Len(log) + i \in DOMAIN log' /\ log'[Len(log) + i] = lines[i]
  <2> TAKE i \in DOMAIN lines
  <2>1. Len(log) + i \in 1 .. Len(log) + Len(lines) /\ ~(Len(log) + i <= Len(log))
        /\ Len(log) + i - Len(log) = i
    BY <1>4
  <2> QED
    BY <1>5, <1>6, <2>1
<1>9. Loadable
  BY <1>7 DEF Loadable
<1>10. Logged \subseteq Logged'
  BY <1>7 DEF Logged
<1> QED
  BY <1>8, <1>9, <1>10

LEMMA ReportedKept ==
    ASSUME FilesInv, ReportedIsLogged, NEW w \in Workers, StepOf(w)
    PROVE  ReportedIsLogged'
<1> SUFFICES ASSUME Loadable'
             PROVE  reported' \subseteq Logged'
  BY DEF ReportedIsLogged
<1>1. /\ log \in Seq(LineSet)
      /\ open \in BOOLEAN
      /\ open => log # <<>>
  BY DEF FilesInv, FilesTypeOK, LineSet, OpenIsALine
<1>2. CASE AppendLines(w)
  <2>1. step[w] = "append" /\ held[w] \in Contents
    BY <1>2 DEF AppendLines, FilesInv, FilesTypeOK
  <2>2. pending[w] = EventsOf(held[w], about[w]) \ Logged
    BY <1>2, AppendAddsFresh
  <2>3. pending[w] \subseteq Events /\ IsFiniteSet(pending[w])
    <3>1. EventsOf(held[w], about[w]) \subseteq Events
      BY DEF EventsOf
    <3> QED
      BY <2>1, <2>2, <3>1, EventsAreFinite, FS_Subset
  <2>4. PICK text \in Texts(w) : log' = Joined(Lines(text))
    BY <1>2 DEF AppendLines
  <2> DEFINE n == Cardinality(pending[w])
             lines == Lines(text)
  <2>5. DOMAIN text = 1 .. n /\ Fresh(lines, pending[w])
    BY <2>3, LinesAreFresh
  <2>6. \A e \in pending[w] : \E i \in 1 .. n : text[i] = e
    BY DEF Texts, Bijection, Surjection
  <2>7. \A i \in 1 .. n : i \in DOMAIN lines /\ lines[i] = Line(text[i])
    BY <2>5 DEF Lines
  <2> HIDE DEF n, lines
  <2>8. /\ Loadable
        /\ Logged \subseteq Logged'
        /\ \A i \in DOMAIN lines : \E j \in DOMAIN log' : log'[j] = lines[i]
    BY <1>1, <2>4, <2>5, LoadableLogGrew DEF lines
  <2>9. pending[w] \subseteq Logged'
    <3> SUFFICES ASSUME NEW e \in pending[w]
                 PROVE  e \in Logged'
      OBVIOUS
    <3>1. PICK i \in 1 .. n : text[i] = e
      BY <2>6
    <3>2. PICK j \in DOMAIN log' : log'[j] = Line(e)
      BY <2>7, <2>8, <3>1
    <3>3. Line(e) # Torn
      BY <3>2 DEF Loadable
    <3> QED
      BY <3>2, <3>3 DEF Line, Logged
  <2>10. reported' = reported \cup EventsOf(held[w], about[w])
    BY <1>2 DEF AppendLines
  <2> QED
    BY <2>2, <2>8, <2>9, <2>10 DEF ReportedIsLogged
<1>3. CASE CutAppend(w)
  <2>1. PICK lines : Fresh(lines, pending[w]) /\ log' = Joined(lines)
    BY <1>3, AppendAddsFresh
  <2>2. Loadable /\ Logged \subseteq Logged'
    BY <1>1, <2>1, LoadableLogGrew
  <2>3. reported' = reported
    BY <1>3 DEF CutAppend
  <2> QED
    BY <2>2, <2>3 DEF ReportedIsLogged
<1>4. CASE ~(AppendLines(w) \/ CutAppend(w))
  <2>1. log' = log
    BY <1>4 DEF StepOf, EnqueueUnderLock, ReviewUnderLock, Stage, Publish, SaveFails, Reload,
                Record, GiveUp, Crash, logFiles
  <2>2. Loadable /\ Logged' = Logged
    BY <2>1 DEF Loadable, Logged
  <2>3. reported' \subseteq reported \cup Logged
    <3>1. CASE Record(w)
      BY <3>1 DEF Record
    <3>2. CASE ~Record(w)
      BY <1>4, <3>2 DEF StepOf, EnqueueUnderLock, ReviewUnderLock, Stage, Publish, SaveFails,
                        Reload, GiveUp, Crash, logFiles
    <3> QED
      BY <3>1, <3>2
  <2> QED
    BY <2>2, <2>3 DEF ReportedIsLogged
<1> QED
  BY <1>2, <1>3, <1>4

(* What append_unique reported is in the log as long as the log loads: a   *)
(* cut append or a broken line makes it unreadable before an event is lost. *)
THEOREM ReportedInvariant == Spec => []ReportedIsLogged
<1>1. Init => ReportedIsLogged
  BY DEF Init, ReportedIsLogged
<1>2. FilesInv /\ ReportedIsLogged /\ [Next]_vars => ReportedIsLogged'
  <2> SUFFICES ASSUME FilesInv, ReportedIsLogged, [Next]_vars PROVE ReportedIsLogged'
    OBVIOUS
  <2>1. CASE UNCHANGED vars
    BY <2>1 DEF vars, logFiles, ReportedIsLogged, Loadable, Logged
  <2>2. CASE Next
    <3>1. PICK w \in Workers : StepOf(w)
      BY <2>2 DEF Next, StepOf
    <3> QED
      BY <3>1, ReportedKept
  <2> QED
    BY <2>1, <2>2
<1> QED
  BY <1>1, <1>2, FilesInvariant, PTL DEF Spec
-----------------------------------------------------------------------------
(* What makes a log unreadable: a note that splits its line, or an append  *)
(* that is cut short, and nothing else.                                    *)

WholeLines == EachEventOnItsLine /\ ~open

(* A whole append of events whose notes are single lines adds whole lines. *)
LEMMA AppendsWholeLines ==
    ASSUME FilesInv, WholeLines, Splitting = {}, NEW w \in Workers, AppendLines(w)
    PROVE  WholeLines'
<1>1. /\ step[w] = "append" /\ pending[w] \subseteq Events /\ held[w] \in Contents
      /\ log \in Seq(LineSet) /\ ~open
  BY DEF FilesInv, FilesTypeOK, AppendLines, LineSet, WholeLines
<1>2. IsFiniteSet(pending[w])
  <2>1. pending[w] = EventsOf(held[w], about[w]) \ Logged
    BY <1>1 DEF FilesInv, Telling
  <2> QED BY <1>1, <2>1, EventsAreFinite, FS_Subset
<1>3. PICK text \in Texts(w) : log' = Joined(Lines(text))
  BY DEF AppendLines
<1>4. text \in Seq(Events) /\ Lines(text) \in Seq(LineSet)
  BY <1>1, <1>2, LinesAreFresh DEF Fresh
<1>5. log' = log \o Lines(text)
  BY <1>1, <1>3 DEF Joined
<1>6. \A i \in DOMAIN Lines(text) : Lines(text)[i] # Torn
  BY <1>4, TornAssumption DEF Lines, Line
<1>7. \A i \in DOMAIN log : log[i] # Torn
  BY DEF WholeLines, EachEventOnItsLine
<1>8. \A i \in DOMAIN log' : log'[i] # Torn
  BY <1>1, <1>4, <1>5, <1>6, <1>7
<1> QED
  BY <1>8 DEF WholeLines, EachEventOnItsLine, AppendLines

LEMMA WholeLinesKept ==
    ASSUME FilesInv, WholeLines, Splitting = {}, ~CutWrites, [Next]_vars
    PROVE  WholeLines'
<1>1. CASE UNCHANGED <<log, open>>
  BY <1>1 DEF WholeLines, EachEventOnItsLine
<1>2. CASE UNCHANGED vars
  BY <1>1, <1>2 DEF vars, logFiles
<1>3. ASSUME NEW w \in Workers, StepOf(w)
      PROVE  WholeLines'
  <2>1. CASE AppendLines(w)
    BY <2>1, AppendsWholeLines
  <2>2. CASE CutAppend(w)
    BY <2>2 DEF CutAppend
  <2>3. CASE ~AppendLines(w) /\ ~CutAppend(w)
    BY <1>1, <1>3, <2>3 DEF StepOf, EnqueueUnderLock, ReviewUnderLock, Stage, Publish,
                            SaveFails, Reload, Record, GiveUp, Crash, logFiles
  <2> QED
    BY <2>1, <2>2, <2>3
<1> QED
  BY <1>2, <1>3 DEF Next, StepOf

(* The documented promise of the audit log, with what it rests on: when no *)
(* note holds a line separator and no append is cut short, every event has *)
(* its line, the log always loads, and all that was ever reported as logged *)
(* is in it, for any number of processes that race, fail and die.          *)
THEOREM LogLoadsUnlessCutOrSplit ==
    ASSUME Splitting = {}, ~CutWrites
    PROVE  Spec => [](EachEventOnItsLine /\ Loadable /\ reported \subseteq Logged)
<1>1. Init => WholeLines
  BY DEF Init, WholeLines, EachEventOnItsLine
<1>2. FilesInv /\ WholeLines /\ [Next]_vars => WholeLines'
  BY WholeLinesKept
<1>3. FilesInv /\ WholeLines /\ ReportedIsLogged
        => EachEventOnItsLine /\ Loadable /\ reported \subseteq Logged
  BY DEF FilesInv, WholeLines, EachEventOnItsLine, NoLineTwice, Loadable, ReportedIsLogged
<1> QED
  BY <1>1, <1>2, <1>3, FilesInvariant, ReportedInvariant, PTL DEF Spec
=============================================================================
