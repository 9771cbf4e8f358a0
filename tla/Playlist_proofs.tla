-------------------------- MODULE Playlist_proofs --------------------------
(***************************************************************************)
(* Theorems about Playlist, for any numbers of objects and lines, any      *)
(* files and any crashes.                                                  *)
(***************************************************************************)
EXTENDS Playlist, SequenceTheorems, WellFoundedInduction, TLAPS

-----------------------------------------------------------------------------
(* Induction over numbers, for a set instead of a predicate.               *)
LEMMA LeastNumber ==
    ASSUME NEW T \in SUBSET Nat, T # {}
    PROVE  \E x \in T : \A y \in T : x <= y
<1> DEFINE R == OpToRel(<, Nat)
<1>1. \E x \in T : \A y \in T : ~(<<y, x>> \in R)
  <2>1. IsWellFoundedOn(R, Nat)
    BY NatLessThanWellFounded
  <2> HIDE DEF R
  <2> QED BY <2>1, WFMin
<1>2. \A x, y \in Nat : x < y => <<x, y>> \in R
  BY DEF OpToRel
<1> HIDE DEF R
<1>3. PICK x \in T : \A y \in T : ~(<<y, x>> \in R)
  BY <1>1
<1>4. \A y \in T : ~(y < x)
  BY <1>2, <1>3
<1> QED BY <1>4

LEMMA Induction ==
    ASSUME NEW S \in SUBSET Nat, 0 \in S, \A n \in S : n + 1 \in S
    PROVE  S = Nat
<1>1. SUFFICES ASSUME Nat \ S # {} PROVE FALSE
  OBVIOUS
<1>2. PICK x \in Nat \ S : \A y \in Nat \ S : x <= y
  BY <1>1, LeastNumber
<1>3. x # 0 /\ x - 1 \in Nat /\ x - 1 \notin Nat \ S
  BY <1>2
<1> QED BY <1>2, <1>3

-----------------------------------------------------------------------------
(* The parser.                                                             *)
Parsers == [head : Seq(Others), pieces : Seq(Extinf \X Lines), extinf : Seq(Extinf),
            ended : BOOLEAN]

LEMMA StartTyped == Start \in Parsers
BY EmptySeq DEF Start, Parsers

LEMMA LinesTyped == End \in Lines /\ Empty \in Lines /\ Extinf \subseteq Lines
BY DEF Lines

LEMMA TakeTyped ==
    ASSUME NEW s \in Parsers, NEW x \in Lines
    PROVE  Take(s, x) \in Parsers
<1>0. /\ s.head \in Seq(Others) /\ s.pieces \in Seq(Extinf \X Lines)
      /\ s.extinf \in Seq(Extinf) /\ s.ended \in BOOLEAN
      /\ s = [head |-> s.head, pieces |-> s.pieces, extinf |-> s.extinf, ended |-> s.ended]
  BY DEF Parsers
<1>1. CASE s.ended
  BY <1>1 DEF Take
<1>2. CASE ~s.ended /\ s.extinf # <<>>
  <2>1. s.extinf[1] \in Extinf
    BY <1>0, <1>2
  <2>2. Append(s.pieces, <<s.extinf[1], x>>) \in Seq(Extinf \X Lines)
    BY <2>1, <1>0, AppendProperties
  <2>3. <<>> \in Seq(Extinf)
    BY EmptySeq
  <2>4. Take(s, x) = [s EXCEPT !.pieces = Append(s.pieces, <<s.extinf[1], x>>),
                               !.extinf = <<>>]
    BY <1>2 DEF Take
  <2> QED BY <2>2, <2>3, <2>4, <1>0 DEF Parsers
<1>3. CASE ~s.ended /\ s.extinf = <<>> /\ x \in Extinf
  <2>1. Take(s, x) = [s EXCEPT !.extinf = <<x>>]
    BY <1>3 DEF Take
  <2>2. <<x>> \in Seq(Extinf)
    BY <1>3
  <2> QED BY <2>1, <2>2, <1>0 DEF Parsers
<1>4. CASE ~s.ended /\ s.extinf = <<>> /\ x \notin Extinf /\ x = End
  <2>1. Take(s, x) = [s EXCEPT !.ended = TRUE]
    BY <1>4 DEF Take
  <2> QED BY <2>1, <1>0 DEF Parsers
<1>5. CASE ~s.ended /\ s.extinf = <<>> /\ x \notin Extinf /\ x # End
  <2>1. Take(s, x) = [s EXCEPT !.head = Append(s.head, x)]
    BY <1>5 DEF Take
  <2>2. Append(s.head, x) \in Seq(Others)
    BY <1>0, <1>5, AppendProperties DEF Others
  <2> QED BY <2>1, <2>2, <1>0 DEF Parsers
<1> QED BY <1>1, <1>2, <1>3, <1>4, <1>5, <1>0

LEMMA ReadTyped ==
    ASSUME NEW s \in Parsers, NEW x \in Lines
    PROVE  Read(s, x) \in Parsers
BY TakeTyped DEF Read

\* g is the run of the parser over the first n lines.
Run(g, lines, n) ==
    g = [i \in 0 .. n |-> IF i = 0 THEN Start ELSE Read(g[i - 1], lines[i])]

LEMMA RunExists ==
    ASSUME NEW lines
    PROVE  \A n \in Nat : \E g : Run(g, lines, n)
<1> DEFINE S == {n \in Nat : \E g : Run(g, lines, n)}
<1>1. 0 \in S
  <2> DEFINE g == [i \in 0 .. 0 |-> Start]
  <2>1. Run(g, lines, 0)
    BY DEF Run
  <2> QED BY <2>1
<1>2. ASSUME NEW n \in S
      PROVE  n + 1 \in S
  <2>1. PICK g : Run(g, lines, n)
    OBVIOUS
  <2> DEFINE h == [i \in 0 .. n + 1 |-> IF i = n + 1 THEN Read(g[n], lines[n + 1]) ELSE g[i]]
  <2>2. n \in Nat
    OBVIOUS
  <2>3. \A i \in 0 .. n + 1 :
          h[i] = IF i = 0 THEN Start ELSE Read(h[i - 1], lines[i])
    <3> SUFFICES ASSUME NEW i \in 0 .. n + 1
                 PROVE  h[i] = IF i = 0 THEN Start ELSE Read(h[i - 1], lines[i])
      OBVIOUS
    <3>1. CASE i = 0
      BY <3>1, <2>1, <2>2 DEF Run
    <3>2. CASE i \in 1 .. n
      <4>1. h[i] = g[i] /\ h[i - 1] = g[i - 1]
        BY <3>2, <2>2
      <4>2. g[i] = Read(g[i - 1], lines[i])
        BY <3>2, <2>1, <2>2 DEF Run
      <4> QED BY <3>2, <4>1, <4>2
    <3>3. CASE i = n + 1
      BY <3>3, <2>2
    <3> QED BY <3>1, <3>2, <3>3, <2>2
  <2>4. Run(h, lines, n + 1)
    BY <2>3 DEF Run
  <2> QED BY <2>2, <2>4
<1> HIDE DEF S
<1>3. S \in SUBSET Nat
  BY DEF S
<1>4. S = Nat
  BY <1>1, <1>2, <1>3, Induction
<1> QED BY <1>4 DEF S

LEMMA AfterRuns ==
    ASSUME NEW lines \in Seq(Lines)
    PROVE  Run(After(lines), lines, Len(lines))
<1>1. \E g : Run(g, lines, Len(lines))
  BY RunExists
<1> QED BY <1>1 DEF Run, After

\* What After() computes, a line at a time.
LEMMA AfterStep ==
    ASSUME NEW lines \in Seq(Lines)
    PROVE  /\ After(lines)[0] = Start
           /\ \A i \in 0 .. Len(lines) - 1 :
                After(lines)[i + 1] = Read(After(lines)[i], lines[i + 1])
<1>1. Run(After(lines), lines, Len(lines)) /\ Len(lines) \in Nat
  BY AfterRuns
<1> QED BY <1>1 DEF Run

LEMMA AfterTyped ==
    ASSUME NEW lines \in Seq(Lines)
    PROVE  \A i \in 0 .. Len(lines) : After(lines)[i] \in Parsers
<1> DEFINE S == {i \in Nat : i <= Len(lines) => After(lines)[i] \in Parsers}
<1>1. 0 \in S
  BY AfterStep, StartTyped
<1>2. ASSUME NEW i \in S
      PROVE  i + 1 \in S
  <2>1. CASE i + 1 <= Len(lines)
    <3>1. After(lines)[i] \in Parsers /\ i \in 0 .. Len(lines) - 1
      BY <2>1
    <3>2. lines[i + 1] \in Lines
      BY <3>1
    <3> QED BY <3>1, <3>2, AfterStep, ReadTyped
  <2> QED BY <2>1
<1>3. S \in SUBSET Nat
  OBVIOUS
<1>4. S = Nat
  <2> HIDE DEF S
  <2> QED BY <1>1, <1>2, <1>3, Induction
<1> QED BY <1>4

LEMMA ScanTyped ==
    ASSUME NEW f \in Files
    PROVE  Scan(f) \in Parsers
<1>1. f.lines \in Seq(Lines) /\ Len(f.lines) \in 0 .. Len(f.lines)
  BY DEF Files
<1>2. After(f.lines)[Len(f.lines)] \in Parsers
  BY <1>1, AfterTyped
<1> QED BY <1>2, TakeTyped, LinesTyped DEF Scan

-----------------------------------------------------------------------------
(* The types of the state.                                                 *)
LEMMA FlatTyped ==
    ASSUME NEW pieces \in Seq(Extinf \X Lines)
    PROVE  Flat(pieces) \in Seq(Lines)
<1>1. PICK n : n = Len(pieces) /\ n \in Nat
  OBVIOUS
<1>2. ASSUME NEW i \in 1 .. 2 * n
      PROVE  pieces[(i + 1) \div 2][2 - (i % 2)] \in Lines
  <2>1. (i + 1) \div 2 \in 1 .. n
    BY <1>1
  <2>2. pieces[(i + 1) \div 2] \in Extinf \X Lines
    BY <2>1, <1>1
  <2>3. 2 - (i % 2) \in {1, 2}
    BY <1>1
  <2> QED BY <2>2, <2>3, LinesTyped
<1>3. Flat(pieces) \in [1 .. 2 * n -> Lines] /\ 2 * n \in Nat
  BY <1>1, <1>2 DEF Flat
<1> QED BY <1>3

LEMMA RenderingTyped ==
    ASSUME NEW o \in Editors, obj \in [Editors -> Objects]
    PROVE  Rendering(o) \in Seq(Lines)
<1>1. obj[o].head \in Seq(Lines) /\ obj[o].pieces \in Seq(Extinf \X Lines)
  <2>1. obj[o].head \in Seq(Others) /\ obj[o].pieces \in Seq(Extinf \X Lines)
    BY DEF Objects
  <2>2. Others \subseteq Lines
    BY DEF Others
  <2> QED BY <2>1, <2>2, SeqMonotonic
<1>2. Flat(obj[o].pieces) \in Seq(Lines) /\ <<End>> \in Seq(Lines)
  BY <1>1, FlatTyped, LinesTyped
<1> QED BY <1>1, <1>2 DEF Rendering

LEMMA MisreadTyped ==
    ASSUME NEW f \in Files
    PROVE  Misread(f) \subseteq Files
<1>1. PICK n \in Nat : n = Len(f.lines)
  BY DEF Files
<1>2. f.lines \in Seq(Lines) /\ f.lines \in [1 .. n -> Lines]
  BY <1>1 DEF Files
<1>3. ASSUME NEW k \in Int, k <= n
      PROVE  SubSeq(f.lines, 1, k) \in Seq(Lines)
  <2>1. CASE k <= 0
    BY <2>1, <1>1, <1>2, <1>3, SubSeqEmpty, EmptySeq
  <2>2. CASE k > 0
    BY <2>2, <1>1, <1>2, <1>3, SubSeqProperties
  <2> QED BY <2>1, <2>2
<1>4. PICK e \in Int : e = (IF f.open THEN n - 1 ELSE n) /\ e <= n
  OBVIOUS
<1>5. Nuls \in Lines
  BY PlaylistAssumption DEF Lines
<1>6. ASSUME NEW k \in Int, k <= n, NEW x \in Lines
      PROVE  Append(SubSeq(f.lines, 1, k), x) \in Seq(Lines)
  BY <1>3, <1>6, AppendProperties
<1>7. \A i \in 1 .. n : f.lines[i] \in Lines /\ Spoilt[f.lines[i]] \subseteq Lines
  BY <1>2, PlaylistAssumption
<1>8. ASSUME NEW g \in Misread(f)
      PROVE  g \in Files
  <2>1. CASE \E k \in 0 .. e : g = [lines |-> SubSeq(f.lines, 1, k), open |-> FALSE]
    BY <2>1, <1>3, <1>4 DEF Files
  <2>2. CASE g = [lines |-> Append(SubSeq(f.lines, 1, e), Nuls), open |-> TRUE]
    BY <2>2, <1>4, <1>5, <1>6 DEF Files
  <2>3. CASE \E i \in 1 .. n : \E x \in {f.lines[i]} \cup Spoilt[f.lines[i]] :
               g = [lines |-> Append(SubSeq(f.lines, 1, i - 1), x), open |-> TRUE]
    <3>0. PICK i \in 1 .. n : \E x \in {f.lines[i]} \cup Spoilt[f.lines[i]] :
               g = [lines |-> Append(SubSeq(f.lines, 1, i - 1), x), open |-> TRUE]
      BY <2>3
    <3>1. PICK x \in {f.lines[i]} \cup Spoilt[f.lines[i]] :
            g = [lines |-> Append(SubSeq(f.lines, 1, i - 1), x), open |-> TRUE]
      BY <3>0
    <3>2. x \in Lines /\ i - 1 \in Int /\ i - 1 <= n
      BY <1>7
    <3> QED BY <3>1, <3>2, <1>6 DEF Files
  <2>4. DOMAIN f.lines = 1 .. n
    BY <1>2
  <2> QED BY <1>1, <1>4, <1>8, <2>1, <2>2, <2>3, <2>4 DEF Misread
<1> QED BY <1>8

LEMMA ReadingsTyped ==
    ASSUME TypeOK, NEW o \in Editors, reading[o] # None
    PROVE  Readings(o) \subseteq Files
BY MisreadTyped DEF TypeOK, Readings

LEMMA InitTyped == Init => TypeOK
<1> SUFFICES ASSUME Init PROVE TypeOK
  OBVIOUS
<1>1. file \in Files /\ MaxFaults \in Nat
  BY PlaylistAssumption DEF Init
<1>2. file.lines \in Seq(Lines)
  BY <1>1 DEF Files
<1>3. Fresh \in Objects
  BY EmptySeq DEF Fresh, Objects
<1>4. <<>> \in Seq(Lines)
  BY EmptySeq
<1> QED BY <1>1, <1>2, <1>3, <1>4 DEF Init, TypeOK

LEMMA ParseTyped ==
    ASSUME TypeOK, NEW o \in Editors, Parse(o)
    PROVE  obj' \in [Editors -> Objects]
<1>0. PICK f \in Readings(o) :
        LET s == Scan(f)
            new == [head   |-> obj[o].head \o s.head,
                    pieces |-> obj[o].pieces \o s.pieces,
                    parses |-> obj[o].parses + 1,
                    ok     |-> s.extinf = <<>>]
        IN obj' = [obj EXCEPT ![o] = new]
  BY DEF Parse
<1> DEFINE s == Scan(f)
           new == [head   |-> obj[o].head \o s.head,
                   pieces |-> obj[o].pieces \o s.pieces,
                   parses |-> obj[o].parses + 1,
                   ok     |-> s.extinf = <<>>]
<1>1. obj[o] \in Objects /\ s \in Parsers
  BY ScanTyped, ReadingsTyped DEF Parse, TypeOK
<1>2. obj[o].parses \in 0 .. 1
  BY <1>1 DEF Parse, Objects, TypeOK
<1>3. obj[o].head \o s.head \in Seq(Others)
  BY <1>1, ConcatProperties DEF Objects, Parsers
<1>4. obj[o].pieces \o s.pieces \in Seq(Extinf \X Lines)
  BY <1>1, ConcatProperties DEF Objects, Parsers
<1>5. new \in Objects
  <2> HIDE DEF s
  <2> QED BY <1>2, <1>3, <1>4 DEF Objects
<1>6. obj' = [obj EXCEPT ![o] = new]
  BY <1>0
<1> HIDE DEF new
<1> QED BY <1>5, <1>6 DEF TypeOK

LEMMA RelocateTyped ==
    ASSUME TypeOK, NEW o \in Editors, NEW u \in Url, Relocate(o, u)
    PROVE  obj' \in [Editors -> Objects]
<1> DEFINE moved == [i \in DOMAIN obj[o].pieces |-> <<obj[o].pieces[i][1], u>>]
           new == [obj[o] EXCEPT !.pieces = moved]
<1>1. obj[o] \in Objects /\ u \in Lines
  BY DEF TypeOK, Lines
<1>2. obj[o].pieces \in Seq(Extinf \X Lines)
  BY <1>1 DEF Objects
<1>3. moved \in Seq(Extinf \X Lines)
  <2>1. PICK n : n \in Nat /\ n = Len(obj[o].pieces) /\ DOMAIN obj[o].pieces = 1 .. n
    BY <1>2
  <2>2. ASSUME NEW i \in 1 .. n
        PROVE  <<obj[o].pieces[i][1], u>> \in Extinf \X Lines
    <3>1. obj[o].pieces[i] \in Extinf \X Lines
      BY <2>1, <1>2
    <3> QED BY <3>1, <1>1
  <2>3. moved \in [1 .. n -> Extinf \X Lines]
    BY <2>1, <2>2
  <2> HIDE DEF moved
  <2> QED BY <2>1, <2>3
<1>4. obj' = [obj EXCEPT ![o] = new]
  BY DEF Relocate
<1> HIDE DEF moved
<1>5. new \in Objects
  BY <1>1, <1>3 DEF Objects
<1> QED BY <1>4, <1>5 DEF TypeOK

LEMMA StepTyped == TypeOK /\ [Next]_vars => TypeOK'
<1> SUFFICES ASSUME TypeOK, [Next]_vars
             PROVE  TypeOK'
  OBVIOUS
<1>e. <<>> \in Seq(Lines) /\ Fresh \in Objects /\ Fresh.parses < 2
  BY EmptySeq DEF Fresh, Objects
<1>n. None \notin Editors
  BY PlaylistAssumption
<1>f. Fault => faults' \in 0 .. MaxFaults
  BY PlaylistAssumption DEF Fault, TypeOK
<1>1. ASSUME NEW o \in Editors, Construct(o)
      PROVE  TypeOK'
  BY <1>1, <1>e DEF Construct, Idle, history, TypeOK
<1>2. ASSUME NEW o \in Editors, Parse(o)
      PROVE  TypeOK'
  <2>1. obj' \in [Editors -> Objects]
    BY <1>2, ParseTyped
  <2>2. /\ UNCHANGED <<file, writer, left, target>> /\ clean' \in BOOLEAN
        /\ reading' = [reading EXCEPT ![o] = None]
        /\ \A e \in Editors : e # o => obj'[e] = obj[e]
    BY <1>2 DEF Parse, TypeOK
  <2>3. faults' \in 0 .. MaxFaults
    BY <1>2, <1>f DEF Parse, TypeOK
  <2> QED BY <2>1, <2>2, <2>3 DEF TypeOK
<1>3. ASSUME NEW o \in Editors, ParseFails(o)
      PROVE  TypeOK'
  <2>1. obj[o] \in Objects
    BY DEF TypeOK
  <2>2. [obj[o] EXCEPT !.ok = FALSE] \in Objects
    BY <2>1 DEF Objects
  <2> QED BY <1>3, <1>f, <2>2 DEF ParseFails, Idle, history, TypeOK
<1>4. ASSUME NEW o \in Editors, NEW u \in Url, Relocate(o, u)
      PROVE  TypeOK'
  <2>1. obj' \in [Editors -> Objects]
    BY <1>4, RelocateTyped
  <2>2. reading[o] = None /\ \A e \in Editors : e # o => obj'[e] = obj[e]
    BY <1>4 DEF Relocate, Idle, TypeOK
  <2> QED BY <1>4, <2>1, <2>2 DEF Relocate, history, TypeOK
<1>5. ASSUME NEW o \in Editors, StartWrite(o)
      PROVE  TypeOK'
  <2>1. Rendering(o) \in Seq(Lines) /\ o # None
    BY RenderingTyped, PlaylistAssumption DEF TypeOK
  <2>2. [lines |-> <<>>, open |-> FALSE] \in Files
    BY <1>e DEF Files
  <2>3. /\ reading' \in [Editors -> Files \cup {None, Stale}]
        /\ \A e \in Editors : reading'[e] # None => reading[e] # None /\ e # o
    BY <1>5 DEF StartWrite, Idle, TypeOK
  <2> QED BY <1>5, <2>1, <2>2, <2>3 DEF StartWrite, OpenToWrite, TypeOK
<1>6. CASE WriteLine
  <2>1. Head(left) \in Lines /\ Tail(left) \in Seq(Lines)
    BY <1>6, HeadTailProperties DEF WriteLine, TypeOK
  <2>2. file \in Files /\ Append(file.lines, Head(left)) \in Seq(Lines)
    BY <2>1, AppendProperties DEF TypeOK, Files
  <2>3. file' \in Files
    BY <1>6, <2>2 DEF WriteLine, Files
  <2> QED BY <1>6, <2>1, <2>3 DEF WriteLine, history, TypeOK
<1>7. CASE DiskFull
  <2>1. file' \in Files
    <3>1. Head(left) \in Lines /\ Spoilt[Head(left)] \subseteq Lines
      BY <1>7, PlaylistAssumption, HeadTailProperties DEF DiskFull, TypeOK
    <3>2. \A x \in Lines : Append(file.lines, x) \in Seq(Lines)
      BY AppendProperties DEF TypeOK, Files
    <3>3. CASE file' = file
      BY <3>3 DEF TypeOK
    <3>4. ASSUME NEW x \in {Head(left)} \cup Spoilt[Head(left)], NEW b \in BOOLEAN,
                 file' = [lines |-> Append(file.lines, x), open |-> b]
          PROVE  file' \in Files
      <4>1. x \in Lines
        BY <3>1
      <4> QED BY <3>2, <3>4, <4>1 DEF Files
    <3> QED BY <1>7, <3>3, <3>4 DEF DiskFull
  <2> QED BY <1>7, <1>f, <2>1, <1>e DEF DiskFull, TypeOK
<1>8. CASE WriteReturns
  BY <1>8, <1>n DEF WriteReturns, history, TypeOK
<1>9. CASE Crash
  BY <1>9, <1>f, <1>e, <1>n DEF Crash, TypeOK
<1>10. CASE UNCHANGED vars
  BY <1>10 DEF vars, TypeOK
<1>11. ASSUME NEW o \in Editors, Measure(o)
       PROVE  TypeOK'
  BY <1>11 DEF Measure, Idle, history, TypeOK
<1> QED BY <1>1, <1>2, <1>3, <1>4, <1>5, <1>6, <1>7, <1>8, <1>9, <1>10, <1>11 DEF Next

THEOREM TypeCorrect == Spec => []TypeOK
BY InitTyped, StepTyped, PTL DEF Spec

-----------------------------------------------------------------------------
(* What is in the file, and what is still to come.                         *)
Beginning(f, t) ==
    /\ Len(f) <= Len(t)
    /\ \A i \in 1 .. Len(f) : \/ f[i] = t[i]
                              \/ i = Len(f) /\ f[i] \in Spoilt[t[i]]

\* Only a writing that has ended, not well, leaves a line that is spoilt.
Coming ==
    /\ Beginning(file.lines, target)
    /\ \A o \in Editors : reading[o] \notin {None, Stale} => Beginning(reading[o].lines, target)
    /\ clean \/ left # <<>> => \A i \in 1 .. Len(file.lines) : file.lines[i] = target[i]
    /\ left # <<>> =>
         /\ Len(target) = Len(file.lines) + Len(left)
         /\ \A i \in 1 .. Len(left) : left[i] = target[Len(file.lines) + i]

LEMMA WriteLineComes ==
    ASSUME TypeOK, Coming, WriteLine
    PROVE  Coming'
<1>1. file.lines \in Seq(Lines) /\ left \in Seq(Lines) /\ left # <<>>
  BY DEF TypeOK, Files, WriteLine
<1>2. PICK n, k : n = Len(file.lines) /\ k = Len(left)
  OBVIOUS
<1>3. n \in Nat /\ k \in Nat \ {0}
  BY <1>1, <1>2, EmptySeq
<1>4. Len(target) = n + k /\ target' = target
  BY <1>1, <1>2 DEF Coming, WriteLine, history
<1>5. /\ Len(left') = k - 1
      /\ \A i \in 1 .. k - 1 : left'[i] = left[i + 1]
  BY <1>1, <1>2, HeadTailProperties DEF WriteLine
<1>6. Head(left) \in Lines /\ Head(left) = left[1] /\ left[1] = target[n + 1]
  BY <1>1, <1>2, <1>3 DEF Coming
<1>7. file'.lines = Append(file.lines, Head(left))
  BY DEF WriteLine, TypeOK, Files
<1>8. /\ Len(file'.lines) = n + 1
      /\ \A i \in 1 .. n : file'.lines[i] = file.lines[i]
      /\ file'.lines[n + 1] = Head(left)
  BY <1>1, <1>2, <1>6, <1>7, AppendProperties
<1>9. \A i \in 1 .. n + 1 : file'.lines[i] = target[i]
  <2>1. \A i \in 1 .. n : file.lines[i] = target[i]
    BY <1>1, <1>2 DEF Coming
  <2> QED BY <2>1, <1>3, <1>6, <1>8
<1>10. \A i \in 1 .. k - 1 : left'[i] = target[n + 1 + i]
  <2>1. \A i \in 1 .. k : left[i] = target[n + i]
    BY <1>1, <1>2 DEF Coming
  <2> SUFFICES ASSUME NEW i \in 1 .. k - 1
               PROVE  left'[i] = target[n + 1 + i]
    OBVIOUS
  <2>2. i + 1 \in 1 .. k /\ n + (i + 1) = n + 1 + i
    BY <1>3
  <2> QED BY <2>1, <2>2, <1>5
<1>11. n + 1 <= n + k /\ n + k = (n + 1) + (k - 1)
  BY <1>3
<1>12. PICK lines : lines = file'.lines
  OBVIOUS
<1>13. /\ Beginning(lines, target')
       /\ \A i \in 1 .. Len(lines) : lines[i] = target'[i]
  <2>1. Len(lines) = n + 1 /\ Len(target') = n + k /\ \A i \in 1 .. n + 1 : lines[i] = target'[i]
    BY <1>4, <1>8, <1>9, <1>12
  <2>2. Len(lines) <= Len(target') /\ \A i \in 1 .. Len(lines) : lines[i] = target'[i]
    BY <2>1, <1>11
  <2> QED BY <2>2 DEF Beginning
<1>14. /\ Len(target') = Len(lines) + Len(left')
       /\ \A i \in 1 .. Len(left') : left'[i] = target'[Len(lines) + i]
  BY <1>4, <1>5, <1>8, <1>10, <1>11, <1>12
<1>15. \A o \in Editors : reading'[o] \notin {None, Stale} => Beginning(reading'[o].lines, target')
  BY <1>4 DEF Coming, WriteLine
<1> QED BY <1>12, <1>13, <1>14, <1>15 DEF Coming

LEMMA StepComes == TypeOK /\ Coming /\ [Next]_vars => Coming'
<1> SUFFICES ASSUME TypeOK, Coming, [Next]_vars
             PROVE  Coming'
  OBVIOUS
<1>1. ASSUME UNCHANGED <<file, left, target>>, clean' => clean,
             \A o \in Editors : reading'[o] \in {reading[o], file, None}
      PROVE  Coming'
  BY <1>1 DEF Coming
<1>2. ASSUME NEW o \in Editors, StartWrite(o)
      PROVE  Coming'
  <2>1. Rendering(o) \in Seq(Lines)
    BY RenderingTyped DEF TypeOK
  <2>2. /\ file'.lines = <<>> /\ left' = Rendering(o) /\ target' = Rendering(o)
        /\ \A e \in Editors : reading'[e] \in {None, Stale}
    BY <1>2 DEF StartWrite, OpenToWrite
  <2>3. Len(file'.lines) = 0 /\ Len(target') \in Nat
    BY <2>1, <2>2, EmptySeq
  <2> QED BY <2>2, <2>3 DEF Coming, Beginning
<1>3. CASE WriteLine
  BY <1>3, WriteLineComes
<1>4. CASE DiskFull
  <2>1. /\ UNCHANGED <<target, reading>> /\ left' = <<>> /\ clean' = FALSE /\ left # <<>>
        /\ \/ file' = file
           \/ \E x \in {Head(left)} \cup Spoilt[Head(left)] : file'.lines = Append(file.lines, x)
    BY <1>4 DEF DiskFull
  <2>2. Beginning(file'.lines, target)
    <3>1. CASE file' = file
      BY <3>1 DEF Coming
    <3>2. ASSUME NEW x \in {Head(left)} \cup Spoilt[Head(left)], file'.lines = Append(file.lines, x)
          PROVE  Beginning(file'.lines, target)
      <4>1. PICK n \in Nat : n = Len(file.lines)
        BY DEF TypeOK, Files
      <4>2. Len(left) \in Nat \ {0} /\ Head(left) = left[1] /\ Head(left) \in Lines
        BY <2>1, EmptySeq, HeadTailProperties DEF TypeOK
      <4>3. Head(left) = target[n + 1] /\ Len(target) >= n + 1
        BY <2>1, <4>1, <4>2 DEF Coming
      <4>4. x \in Lines
        BY <4>2, PlaylistAssumption
      <4>5. /\ Len(file'.lines) = n + 1 /\ file'.lines[n + 1] = x
            /\ \A i \in 1 .. n : file'.lines[i] = file.lines[i]
        BY <3>2, <4>1, <4>4, AppendProperties DEF TypeOK, Files
      <4>6. \A i \in 1 .. n : file.lines[i] = target[i]
        BY <2>1, <4>1 DEF Coming
      <4>7. PICK f : f = file'.lines
        OBVIOUS
      <4>8. Len(f) = n + 1 /\ f[n + 1] = x /\ \A i \in 1 .. n : f[i] = target[i]
        BY <4>5, <4>6, <4>7
      <4>9. x = target[n + 1] \/ x \in Spoilt[target[n + 1]]
        BY <4>3
      <4>10. Beginning(f, target)
        BY ONLY <4>1, <4>3, <4>8, <4>9 DEF Beginning
      <4> QED BY <4>7, <4>10
    <3> QED BY <2>1, <3>1, <3>2
  <2> QED BY <2>1, <2>2 DEF Coming
<1>5. CASE Crash
  BY <1>5 DEF Crash, Coming
<1>6. ASSUME NEW o \in Editors, Construct(o) \/ Parse(o) \/ ParseFails(o) \/ Measure(o)
      PROVE  Coming'
  BY <1>1, <1>6 DEF Construct, Parse, ParseFails, Measure, history, TypeOK
<1>7. ASSUME NEW o \in Editors, NEW u \in Url, Relocate(o, u)
      PROVE  Coming'
  BY <1>1, <1>7 DEF Relocate, history
<1>8. CASE WriteReturns \/ UNCHANGED vars
  BY <1>8, <1>1 DEF WriteReturns, vars, history
<1> QED BY <1>2, <1>3, <1>4, <1>5, <1>6, <1>7, <1>8 DEF Next

LEMMA InitComes == Init => Coming
<1> SUFFICES ASSUME Init PROVE Coming
  OBVIOUS
<1>1. /\ file.lines \in Seq(Lines) /\ target = file.lines /\ left = <<>>
      /\ \A o \in Editors : reading[o] = None
  BY PlaylistAssumption DEF Init, Files
<1>2. Len(file.lines) \in Nat
  BY <1>1, LenProperties
<1>3. Beginning(file.lines, target)
  BY <1>1, <1>2 DEF Beginning
<1> QED BY <1>1, <1>3 DEF Coming

LEMMA ComingHolds == Spec => [](TypeOK /\ Coming)
BY InitTyped, StepTyped, InitComes, StepComes, PTL DEF Spec

LEMMA BeginningBegins ==
    ASSUME target \in Seq(Lines), NEW lines \in Seq(Lines), Beginning(lines, target)
    PROVE  Begins(lines)
<1>1. PICK n \in Nat, m \in Nat : n = Len(lines) /\ m = Len(target) /\ n <= m
  BY DEF Beginning
<1>2. CASE \A i \in 1 .. n : lines[i] = target[i]
  <2>1. SubSeq(lines, 1, n) = SubSeq(target, 1, n)
    BY <1>1, <1>2
  <2> QED BY <1>1, <2>1 DEF Begins, IsPrefix
<1>3. CASE n # 0 /\ lines[n] \in Spoilt[target[n]] /\ \A i \in 1 .. n - 1 : lines[i] = target[i]
  <2>1. PICK f : f = Front(lines)
    OBVIOUS
  <2>2. f = SubSeq(lines, 1, n - 1) /\ Len(f) = n - 1 /\ f \in Seq(Lines)
    <3>1. n - 1 \in Nat /\ n - 1 <= Len(lines)
      BY <1>1, <1>3
    <3> QED BY <2>1, <3>1, <1>1 DEF Front
  <2>3. SubSeq(f, 1, n - 1) = SubSeq(target, 1, n - 1)
    <3>1. \A i \in 1 .. n - 1 : f[i] = target[i]
      BY <1>1, <1>3, <2>2
    <3> QED BY <1>1, <1>3, <2>2, <3>1
  <2>4. IsStrictPrefix(f, target)
    BY <1>1, <1>3, <2>2, <2>3 DEF IsStrictPrefix, IsPrefix
  <2>5. lines # <<>> /\ Last(lines) = lines[n]
    BY <1>1, <1>3 DEF Last
  <2> QED BY <1>1, <1>3, <2>1, <2>4, <2>5 DEF Begins
<1>4. (\A i \in 1 .. n : lines[i] = target[i])
      \/ (n # 0 /\ lines[n] \in Spoilt[target[n]] /\ \A i \in 1 .. n - 1 : lines[i] = target[i])
  BY <1>1 DEF Beginning
<1> QED BY <1>2, <1>3, <1>4

\* Whatever the playlists are, and wherever a writer dies.
THEOREM NeverMixedHolds == Spec => []NeverMixed
<1>1. TypeOK /\ Coming => NeverMixed
  <2> SUFFICES ASSUME TypeOK, Coming
               PROVE  NeverMixed
    OBVIOUS
  <2>1. target \in Seq(Lines) /\ file.lines \in Seq(Lines)
    BY DEF TypeOK, Files
  <2>2. \A o \in Editors : reading[o] \notin {None, Stale} => reading[o].lines \in Seq(Lines)
    BY DEF TypeOK, Files
  <2> QED BY <2>1, <2>2, BeginningBegins DEF Coming, NeverMixed
<1> QED BY <1>1, ComingHolds, PTL

-----------------------------------------------------------------------------
(* A parser that has read more follows one that has read less.             *)
Follows(s, t) ==
    /\ Len(s.pieces) <= Len(t.pieces)
    /\ \A i \in 1 .. Len(s.pieces) : t.pieces[i] = s.pieces[i]
    /\ s.ended => t = s
    /\ ~s.ended /\ s.extinf # <<>> =>
         \/ t.pieces = s.pieces /\ t.extinf = s.extinf /\ ~t.ended
         \/ /\ Len(t.pieces) > Len(s.pieces)
            /\ t.pieces[Len(s.pieces) + 1][1] = s.extinf[1]

\* The two ways of Take(): a piece is added, or the pieces stay.
LEMMA TakePieces ==
    ASSUME NEW s \in Parsers, NEW x \in Lines
    PROVE  /\ s.ended => Take(s, x) = s
           /\ ~s.ended /\ s.extinf # <<>> =>
                Take(s, x).pieces = Append(s.pieces, <<s.extinf[1], x>>)
           /\ s.extinf = <<>> => Take(s, x).pieces = s.pieces
<1>1. s = [head |-> s.head, pieces |-> s.pieces, extinf |-> s.extinf, ended |-> s.ended]
  BY DEF Parsers
<1> QED BY <1>1 DEF Take

LEMMA FollowsTake ==
    ASSUME NEW s \in Parsers, NEW t \in Parsers, NEW x \in Lines, Follows(s, t)
    PROVE  Follows(s, Take(t, x))
<1>1. PICK n, k : n = Len(s.pieces) /\ k = Len(t.pieces)
  OBVIOUS
<1>2. /\ n \in Nat /\ k \in Nat /\ n <= k
      /\ \A i \in 1 .. n : t.pieces[i] = s.pieces[i]
      /\ t.pieces \in Seq(Extinf \X Lines) /\ t.extinf \in Seq(Extinf)
  BY <1>1 DEF Parsers, Follows
<1>3. CASE t.ended
  BY <1>3, TakePieces
<1>4. CASE ~t.ended /\ t.extinf # <<>>
  <2>1. t.extinf[1] \in Extinf
    BY <1>2, <1>4
  <2>2. <<t.extinf[1], x>> \in Extinf \X Lines
    BY <2>1
  <2>3. PICK p : p = Take(t, x).pieces /\ p = Append(t.pieces, <<t.extinf[1], x>>)
    BY <1>4, TakePieces
  <2>4. /\ Len(p) = k + 1
        /\ \A i \in 1 .. k : p[i] = t.pieces[i]
        /\ p[k + 1] = <<t.extinf[1], x>>
    BY <1>1, <1>2, <2>2, <2>3, AppendProperties
  <2>5. ~s.ended
    BY <1>4 DEF Follows
  <2>6. s.extinf # <<>> => Len(p) > n /\ p[n + 1][1] = s.extinf[1]
    <3> SUFFICES ASSUME s.extinf # <<>>
                 PROVE  Len(p) > n /\ p[n + 1][1] = s.extinf[1]
      OBVIOUS
    <3>1. CASE t.pieces = s.pieces /\ t.extinf = s.extinf
      BY <3>1, <1>1, <1>2, <2>4
    <3>2. CASE k > n /\ t.pieces[n + 1][1] = s.extinf[1]
      BY <3>2, <1>2, <2>4
    <3> QED BY <3>1, <3>2, <2>5, <1>1 DEF Follows
  <2>7. \A i \in 1 .. n : p[i] = s.pieces[i]
    BY <1>2, <2>4
  <2>8. PICK r : r = Take(t, x)
    OBVIOUS
  <2>9. r.pieces = p /\ n <= Len(p)
    <3>1. n <= k + 1
      BY <1>2
    <3> QED BY ONLY <2>3, <2>4, <2>8, <3>1
  <2>10. Follows(s, r)
    BY ONLY <1>1, <2>5, <2>6, <2>7, <2>9 DEF Follows
  <2> QED BY <2>8, <2>10
<1>5. CASE ~t.ended /\ t.extinf = <<>>
  <2>1. Take(t, x).pieces = t.pieces
    BY <1>5, TakePieces
  <2>2. ~s.ended
    BY <1>5 DEF Follows
  <2> QED BY <1>5, <2>1, <2>2 DEF Follows
<1>6. t.ended \in BOOLEAN
  BY DEF Parsers
<1> QED BY <1>3, <1>4, <1>5, <1>6

LEMMA FollowsSelf ==
    ASSUME NEW s \in Parsers
    PROVE  Follows(s, s)
<1>1. Len(s.pieces) \in Nat
  BY DEF Parsers
<1> QED BY <1>1 DEF Follows

LEMMA FollowsLater ==
    ASSUME NEW lines \in Seq(Lines), NEW n \in 0 .. Len(lines)
    PROVE  Follows(After(lines)[n], After(lines)[Len(lines)])
<1> DEFINE S == {d \in Nat : n + d <= Len(lines) =>
                               Follows(After(lines)[n], After(lines)[n + d])}
<1>0. Len(lines) \in Nat /\ n \in Nat /\ n <= Len(lines)
  OBVIOUS
<1>1. 0 \in S
  <2>1. Follows(After(lines)[n], After(lines)[n])
    BY AfterTyped, FollowsSelf
  <2>2. n + 0 = n
    BY <1>0
  <2> QED BY <2>1, <2>2
<1>2. ASSUME NEW d \in S
      PROVE  d + 1 \in S
  <2>1. SUFFICES ASSUME n + (d + 1) <= Len(lines)
                 PROVE  Follows(After(lines)[n], After(lines)[n + (d + 1)])
    OBVIOUS
  <2>2. PICK i : i = n + d /\ i + 1 = n + (d + 1) /\ i \in 0 .. Len(lines) - 1
    BY <2>1, <1>0
  <2>3. Follows(After(lines)[n], After(lines)[i])
    BY <2>2, <1>0
  <2>4. After(lines)[n] \in Parsers /\ After(lines)[i] \in Parsers /\ lines[i + 1] \in Lines
    BY <2>2, <1>0, AfterTyped
  <2>5. After(lines)[i + 1] = Read(After(lines)[i], lines[i + 1])
    BY <2>2, AfterStep
  <2>6. Follows(After(lines)[n], After(lines)[i + 1])
    BY <2>3, <2>4, <2>5, FollowsTake DEF Read
  <2> QED BY <2>2, <2>6
<1>3. S \in SUBSET Nat
  OBVIOUS
<1>4. S = Nat
  <2> HIDE DEF S
  <2> QED BY <1>1, <1>2, <1>3, Induction
<1>5. PICK d \in Nat : n + d = Len(lines)
  BY <1>0
<1>6. d \in S
  BY <1>4
<1> QED BY <1>0, <1>5, <1>6

\* The parser does not look ahead.
LEMMA AfterAgrees ==
    ASSUME NEW f \in Seq(Lines), NEW g \in Seq(Lines), NEW n \in Nat,
           n <= Len(f), n <= Len(g), \A i \in 1 .. n : f[i] = g[i]
    PROVE  After(f)[n] = After(g)[n]
<1> DEFINE S == {i \in Nat : i <= n => After(f)[i] = After(g)[i]}
<1>0. PICK k \in Nat, m \in Nat : k = Len(f) /\ m = Len(g) /\ n <= k /\ n <= m
  BY LenProperties
<1>1. 0 \in S
  BY AfterStep
<1>2. ASSUME NEW i \in S
      PROVE  i + 1 \in S
  <2>1. SUFFICES ASSUME i + 1 <= n
                 PROVE  After(f)[i + 1] = After(g)[i + 1]
    OBVIOUS
  <2>2. i \in 0 .. k - 1 /\ i \in 0 .. m - 1 /\ i + 1 \in 1 .. n
    BY <2>1, <1>0
  <2>3. After(f)[i] = After(g)[i] /\ f[i + 1] = g[i + 1]
    BY <2>2
  <2>4. After(f)[i + 1] = Read(After(f)[i], f[i + 1])
    BY <2>2, <1>0, AfterStep
  <2>5. After(g)[i + 1] = Read(After(g)[i], g[i + 1])
    BY <2>2, <1>0, AfterStep
  <2> QED BY <2>3, <2>4, <2>5
<1>3. S \in SUBSET Nat
  OBVIOUS
<1>4. S = Nat
  <2> HIDE DEF S
  <2> QED BY <1>1, <1>2, <1>3, Induction
<1>5. n \in S
  BY <1>4
<1> QED BY <1>5

LEMMA AppendPiece ==
    ASSUME NEW p \in Seq(Extinf \X Lines), NEW e \in Extinf \X Lines,
           NEW n \in Nat, n = Len(p), NEW a, a = Append(p, e)
    PROVE  /\ a \in Seq(Extinf \X Lines) /\ Len(a) = n + 1 /\ a[n + 1] = e
           /\ \A j \in 1 .. n : a[j] = p[j]
BY AppendProperties

\* The pieces after the last line, which has a newline or not.
Closed(t, open) == (IF open THEN t ELSE Take(t, Empty)).pieces

\* A piece of a playlist that was cut, beside the same one of the whole playlist.
Resembles(seen, whole, i) ==
    /\ i \in DOMAIN whole
    /\ \/ seen[i] = whole[i]
       \/ /\ i = Len(seen) /\ seen[i][1] = whole[i][1]
          /\ seen[i][2] \in {Empty} \cup Spoilt[whole[i][2]]
       \/ /\ i = Len(seen) /\ seen[i][1] \in Spoilt[whole[i][1]]
          /\ seen[i][2] = Empty

\* A playlist of any length, cut after any line, or before its newline.
LEMMA CutLemma ==
    ASSUME NEW s \in Parsers, NEW t \in Parsers, Follows(s, t), NEW open \in BOOLEAN,
           NEW i \in DOMAIN Closed(s, open)
    PROVE  Resembles(Closed(s, open), Closed(t, open), i)
<1> SUFFICES ASSUME NEW seen, seen = (IF open THEN s ELSE Take(s, Empty)).pieces,
                    NEW whole, whole = (IF open THEN t ELSE Take(t, Empty)).pieces,
                    i \in DOMAIN seen
             PROVE  /\ i \in DOMAIN whole
                    /\ \/ seen[i] = whole[i]
                       \/ /\ i = Len(seen) /\ seen[i][1] = whole[i][1]
                          /\ seen[i][2] = Empty
  BY DEF Closed, Resembles
<1>0. Empty \in Lines
  BY LinesTyped
<1>2. /\ s.pieces \in Seq(Extinf \X Lines) /\ whole \in Seq(Extinf \X Lines)
      /\ seen \in Seq(Extinf \X Lines)
  BY <1>0, TakeTyped DEF Parsers
<1>1. PICK n : n = Len(s.pieces) /\ n \in Nat
  <2>1. Len(s.pieces) \in Nat
    BY <1>2, LenProperties
  <2> QED BY <2>1
<1>3. PICK r \in Parsers : r.pieces = whole /\ Follows(s, r)
  BY <1>0, TakeTyped, FollowsTake
<1>4. PICK m : m = Len(whole) /\ m \in Nat /\ DOMAIN whole = 1 .. m
  BY <1>2, LenProperties
<1>5. n <= m /\ \A j \in 1 .. n : whole[j] = s.pieces[j]
  BY <1>1, <1>3, <1>4 DEF Follows
<1>6. CASE seen = s.pieces
  <2>1. i \in 1 .. n
    BY <1>1, <1>2, <1>6
  <2> QED BY <2>1, <1>1, <1>4, <1>5, <1>6
<1>7. CASE ~open /\ ~s.ended /\ s.extinf # <<>>
  <2>1. s.extinf[1] \in Extinf
    BY <1>7 DEF Parsers
  <2>2. <<s.extinf[1], Empty>> \in Extinf \X Lines
    BY <2>1, <1>0
  <2>3. seen = Append(s.pieces, <<s.extinf[1], Empty>>)
    BY <1>0, <1>7, TakePieces
  <2>8. DOMAIN seen = 1 .. Len(seen)
    BY <1>2, LenProperties
  <2>9. /\ Len(seen) = n + 1
        /\ \A j \in 1 .. n : seen[j] = s.pieces[j]
        /\ seen[n + 1] = <<s.extinf[1], Empty>>
    <3>1. PICK e \in Extinf \X Lines : e = <<s.extinf[1], Empty>>
      BY <2>2
    <3>2. PICK p \in Seq(Extinf \X Lines) : p = s.pieces
      BY <1>2
    <3>3. seen = Append(p, e) /\ n = Len(p)
      BY <2>3, <3>1, <3>2, <1>1
    <3>4. /\ Len(Append(p, e)) = n + 1
          /\ \A j \in 1 .. n : Append(p, e)[j] = p[j]
          /\ Append(p, e)[n + 1] = e
      BY ONLY <3>3, AppendProperties
    <3> QED BY ONLY <3>1, <3>2, <3>3, <3>4
  <2>4. /\ Len(seen) = n + 1 /\ i \in 1 .. n + 1
        /\ \A j \in 1 .. n : seen[j] = s.pieces[j]
        /\ seen[n + 1] = <<s.extinf[1], Empty>>
    BY <2>8, <2>9
  <2>5. CASE i \in 1 .. n
    BY <2>4, <2>5, <1>1, <1>4, <1>5
  <2>6. CASE i = n + 1
    <3>1. CASE t.pieces = s.pieces /\ t.extinf = s.extinf /\ ~t.ended
      <4>1. whole = Append(t.pieces, <<t.extinf[1], Empty>>)
        BY <3>1, <1>0, <1>7, TakePieces
      <4>2. whole = seen
        BY <4>1, <3>1, <2>3
      <4> QED BY <4>2
    <3>2. CASE Len(t.pieces) > n /\ t.pieces[n + 1][1] = s.extinf[1]
      <4>1. m >= Len(t.pieces) /\ \A j \in 1 .. Len(t.pieces) : whole[j] = t.pieces[j]
        BY <1>0, <1>4, FollowsSelf, FollowsTake DEF Follows
      <4>2. Len(t.pieces) \in Nat
        BY DEF Parsers
      <4>3. m > n /\ whole[n + 1][1] = s.extinf[1]
        BY <3>2, <4>1, <4>2, <1>1, <1>4
      <4> QED BY <4>3, <2>4, <2>6, <1>1, <1>4
    <3> QED BY <3>1, <3>2, <1>1, <1>7 DEF Follows
  <2> QED BY <2>4, <2>5, <2>6, <1>1
<1>8. seen = s.pieces \/ (~open /\ ~s.ended /\ s.extinf # <<>>)
  BY <1>0, TakePieces DEF Parsers
<1> QED BY <1>6, <1>7, <1>8

LEMMA TakeExtinf ==
    ASSUME NEW s \in Parsers, NEW x \in Lines, ~s.ended
    PROVE  /\ s.extinf # <<>> => Take(s, x).extinf = <<>>
           /\ s.extinf = <<>> /\ x \in Extinf =>
                Take(s, x).extinf = <<x>> /\ ~Take(s, x).ended
           /\ s.extinf = <<>> /\ x \notin Extinf => Take(s, x).extinf = <<>>
<1>1. s = [head |-> s.head, pieces |-> s.pieces, extinf |-> s.extinf, ended |-> s.ended]
  BY DEF Parsers
<1> QED BY <1>1 DEF Take

\* A parser that waits for an address gets one, if only the empty one.
LEMMA PendingTaken ==
    ASSUME NEW q \in Parsers, NEW t \in Parsers, Follows(q, t), ~q.ended, q.extinf # <<>>,
           NEW p, p = Take(t, Empty).pieces, NEW n \in Nat, n = Len(q.pieces)
    PROVE  n + 1 \in DOMAIN p /\ p[n + 1][1] = q.extinf[1]
<1>0. Empty \in Lines
  BY LinesTyped
<1>1. /\ p \in Seq(Extinf \X Lines) /\ t.pieces \in Seq(Extinf \X Lines)
      /\ t.extinf \in Seq(Extinf) /\ q.extinf \in Seq(Extinf)
  BY <1>0, TakeTyped DEF Parsers
<1>2. PICK k \in Nat : k = Len(t.pieces)
  BY <1>1
<1>3. CASE t.pieces = q.pieces /\ t.extinf = q.extinf /\ ~t.ended
  <2>0. q.extinf[1] \in Extinf
    BY <1>1
  <2>1. PICK e \in Extinf \X Lines : e = <<q.extinf[1], Empty>>
    BY <1>0, <2>0
  <2>2. p = Append(t.pieces, e) /\ k = n
    BY <1>0, <1>2, <1>3, <2>1, TakePieces
  <2>3. Len(p) = n + 1 /\ p[n + 1] = e
    <3>1. PICK b \in Seq(Extinf \X Lines) : b = t.pieces /\ n = Len(b) /\ p = Append(b, e)
      BY <1>1, <1>2, <2>2
    <3> QED BY ONLY <3>1, n \in Nat, AppendPiece
  <2> QED BY <1>1, <2>1, <2>3
<1>4. CASE k > n /\ t.pieces[n + 1][1] = q.extinf[1]
  <2>0. Follows(t, Take(t, Empty))
    BY <1>0, FollowsSelf, FollowsTake
  <2>1. Len(p) >= k /\ \A j \in 1 .. k : p[j] = t.pieces[j]
    <3>1. k <= Len(p) /\ \A j \in 1 .. k : p[j] = t.pieces[j]
      BY <1>2, <2>0 DEF Follows
    <3>2. Len(p) \in Nat
      BY <1>1, LenProperties
    <3> QED BY <3>1, <3>2
  <2>2. n + 1 \in 1 .. k /\ n + 1 \in 1 .. Len(p) /\ DOMAIN p = 1 .. Len(p)
    <3>1. Len(p) \in Nat /\ DOMAIN p = 1 .. Len(p)
      BY <1>1, LenProperties
    <3> QED BY <1>4, <2>1, <3>1
  <2> QED BY <1>4, <2>1, <2>2
<1> QED BY <1>2, <1>3, <1>4 DEF Follows

\* A playlist of any length of which the last line that is there, x, is what is
\* left of y.
LEMMA SpoiltLemma ==
    ASSUME NEW s \in Parsers, NEW t \in Parsers, NEW x \in Lines, NEW y \in Lines,
           x \in Spoilt[y], Follows(Take(s, y), t), NEW open \in BOOLEAN,
           NEW i \in DOMAIN Closed(Take(s, x), open)
    PROVE  Resembles(Closed(Take(s, x), open), Closed(t, open), i)
<1> SUFFICES ASSUME NEW seen,
                    seen = (IF open THEN Take(s, x) ELSE Take(Take(s, x), Empty)).pieces,
                    NEW whole, whole = (IF open THEN t ELSE Take(t, Empty)).pieces,
                    i \in DOMAIN seen
             PROVE  Resembles(seen, whole, i)
  BY DEF Closed
<1>0. Empty \in Lines /\ (x \in Extinf => y \in Extinf)
  BY LinesTyped, PlaylistAssumption
<1>1. PICK q \in Parsers : q = Take(s, y)
  BY TakeTyped
<1>2. PICK r \in Parsers : r.pieces = whole /\ Follows(q, r) /\ Follows(q, t)
  BY <1>0, <1>1, TakeTyped, FollowsTake
<1>3. PICK n \in Nat : n = Len(s.pieces)
  BY DEF Parsers
<1>4. PICK m \in Nat : m = Len(whole) /\ DOMAIN whole = 1 .. m
  BY <1>2, LenProperties DEF Parsers
<1>5. PICK l \in Nat : l = Len(q.pieces)
  BY DEF Parsers
<1>6. l <= m /\ \A j \in 1 .. l : whole[j] = q.pieces[j]
  BY <1>2, <1>4, <1>5 DEF Follows
<1>7. n <= l /\ \A j \in 1 .. n : q.pieces[j] = s.pieces[j]
  BY <1>1, <1>3, <1>5, FollowsSelf, FollowsTake DEF Follows
<1>8. n <= m /\ \A j \in 1 .. n : whole[j] = s.pieces[j]
  BY <1>6, <1>7
<1>9. s.pieces \in Seq(Extinf \X Lines) /\ s.extinf \in Seq(Extinf)
  BY DEF Parsers
<1>10. CASE seen = s.pieces
  <2>1. i \in 1 .. n
    BY <1>3, <1>9, <1>10
  <2> QED BY <2>1, <1>4, <1>8, <1>10 DEF Resembles
<1>11. Take(s, x) \in Parsers
  BY TakeTyped
\* One piece is added, which is not as in the whole playlist.
<1>12. ASSUME NEW e \in Extinf \X Lines, seen = Append(s.pieces, e), n + 1 \in 1 .. m,
              \/ e[1] = whole[n + 1][1] /\ e[2] \in Spoilt[whole[n + 1][2]]
              \/ e[1] \in Spoilt[whole[n + 1][1]] /\ e[2] = Empty
       PROVE  Resembles(seen, whole, i)
  <2>1. /\ Len(seen) = n + 1 /\ seen[n + 1] = e /\ seen \in Seq(Extinf \X Lines)
        /\ \A j \in 1 .. n : seen[j] = s.pieces[j]
    <3>1. PICK b \in Seq(Extinf \X Lines) : b = s.pieces /\ n = Len(b) /\ seen = Append(b, e)
      BY <1>3, <1>9, <1>12
    <3>2. /\ Len(seen) = n + 1 /\ seen[n + 1] = e /\ seen \in Seq(Extinf \X Lines)
          /\ \A j \in 1 .. n : seen[j] = b[j]
      BY ONLY <3>1, n \in Nat, AppendPiece
    <3> QED BY <3>1, <3>2
  <2>2. i \in 1 .. n + 1
    BY <2>1, LenProperties
  <2>3. CASE i \in 1 .. n
    BY <2>1, <2>3, <1>4, <1>8 DEF Resembles
  <2>4. CASE i = n + 1
    BY <2>1, <2>4, <1>4, <1>12 DEF Resembles
  <2> QED BY <2>2, <2>3, <2>4
<1>13. CASE s.ended
  <2>1. Take(s, x) = s /\ Take(s, Empty) = s
    BY <1>0, <1>13, TakePieces
  <2> QED BY <2>1, <1>10
<1>14. CASE ~s.ended /\ s.extinf # <<>>
  <2>0. s.extinf[1] \in Extinf
    BY <1>9, <1>14
  <2>1. PICK e \in Extinf \X Lines, d \in Extinf \X Lines :
          e = <<s.extinf[1], x>> /\ d = <<s.extinf[1], y>>
    BY <2>0
  <2>2. Take(s, x).pieces = Append(s.pieces, e) /\ q.pieces = Append(s.pieces, d)
    BY <1>1, <1>14, <2>1, TakePieces
  <2>3. seen = Append(s.pieces, e)
    <3>1. Take(s, x).extinf = <<>>
      BY <1>14, TakeExtinf
    <3>2. Take(Take(s, x), Empty).pieces = Take(s, x).pieces
      BY <1>0, <1>11, <3>1, TakePieces
    <3> QED BY <2>2, <3>2
  <2>4. n + 1 \in 1 .. m /\ whole[n + 1] = d
    <3>1. l = n + 1 /\ q.pieces[n + 1] = d
      BY <1>3, <1>5, <1>9, <2>2, AppendPiece
    <3> QED BY <1>6, <3>1
  <2>5. e[1] = whole[n + 1][1] /\ e[2] \in Spoilt[whole[n + 1][2]]
    BY <2>1, <2>4
  <2> QED BY <2>3, <2>4, <2>5, <1>12
<1>15. CASE ~s.ended /\ s.extinf = <<>> /\ x \in Extinf
  <2>1. Take(s, x).pieces = s.pieces /\ Take(s, x).extinf = <<x>> /\ ~Take(s, x).ended
    BY <1>15, TakePieces, TakeExtinf
  <2>2. q.pieces = s.pieces /\ q.extinf = <<y>> /\ ~q.ended
    BY <1>0, <1>1, <1>15, TakePieces, TakeExtinf
  <2>3. CASE open
    BY <2>1, <2>3, <1>10
  <2>4. CASE ~open
    <3>1. PICK e \in Extinf \X Lines : e = <<x, Empty>>
      BY <1>0, <1>15
    <3>2. Take(Take(s, x), Empty).pieces = Append(s.pieces, e)
      <4>1. PICK z \in Parsers : z = Take(s, x)
        BY <1>11
      <4>2. z.extinf # <<>> /\ z.extinf[1] = x /\ ~z.ended /\ z.pieces = s.pieces
        <5>1. z.extinf = <<x>> /\ ~z.ended /\ z.pieces = s.pieces
          BY <2>1, <4>1
        <5> QED BY ONLY <5>1
      <4>3. Take(z, Empty).pieces = Append(z.pieces, <<z.extinf[1], Empty>>)
        BY ONLY <1>0, <4>2, TakePieces
      <4> QED BY <3>1, <4>1, <4>2, <4>3
    <3>3. n + 1 \in 1 .. m /\ whole[n + 1][1] = y
      <4>1. whole = Take(t, Empty).pieces /\ n = Len(q.pieces) /\ q.extinf # <<>>
        BY <2>2, <2>4, <1>3
      <4>2. n + 1 \in DOMAIN whole /\ whole[n + 1][1] = q.extinf[1]
        BY <4>1, <2>2, <1>2, PendingTaken
      <4> QED BY <4>2, <2>2, <1>4
    <3>4. seen = Append(s.pieces, e) /\ e[1] \in Spoilt[whole[n + 1][1]] /\ e[2] = Empty
      BY <2>4, <3>1, <3>2, <3>3
    <3> QED BY <3>3, <3>4, <1>12
  <2> QED BY <2>3, <2>4
<1>16. CASE ~s.ended /\ s.extinf = <<>> /\ x \notin Extinf
  <2>1. Take(s, x).pieces = s.pieces /\ Take(s, x).extinf = <<>>
    BY <1>16, TakePieces, TakeExtinf
  <2>2. Take(Take(s, x), Empty).pieces = s.pieces
    BY <1>0, <1>11, <2>1, TakePieces
  <2> QED BY <2>1, <2>2, <1>10
<1> QED BY <1>13, <1>14, <1>15, <1>16

\* For playlists of any length, whatever their lines are and may become.
THEOREM CutIsPrefixHolds == Spec => []CutIsPrefix
<1>1. TypeOK /\ Coming => CutIsPrefix
  <2> SUFFICES ASSUME TypeOK, Coming,
                      NEW seen, seen = Scan(file).pieces,
                      NEW whole, whole = Scan([lines |-> target, open |-> file.open]).pieces,
                      NEW i \in DOMAIN seen
               PROVE  Resembles(seen, whole, i)
    BY DEF CutIsPrefix, Resembles
  <2>1. /\ file.lines \in Seq(Lines) /\ target \in Seq(Lines) /\ file.open \in BOOLEAN
        /\ Beginning(file.lines, target)
    BY DEF TypeOK, Files, Coming
  <2>2. PICK n \in Nat, m \in Nat : n = Len(file.lines) /\ m = Len(target) /\ n <= m
    BY <2>1 DEF Beginning
  <2>4. PICK t : t = After(target)[m]
    OBVIOUS
  <2>5. t \in Parsers /\ \A j \in 0 .. m : After(target)[j] \in Parsers /\ Follows(After(target)[j], t)
    BY <2>1, <2>2, <2>4, AfterTyped, FollowsLater
  <2>6. t \in Parsers
    BY <2>5
  <2>7. whole = (IF file.open THEN t ELSE Take(t, Empty)).pieces
    BY <2>2, <2>4 DEF Scan
  <2>8. PICK r : r = After(file.lines)[n] /\ seen = (IF file.open THEN r ELSE Take(r, Empty)).pieces
    BY <2>2 DEF Scan
  <2>9. PICK open \in BOOLEAN : open = file.open
    BY <2>1
  <2>10. CASE \A j \in 1 .. n : file.lines[j] = target[j]
    <3>1. r = After(target)[n] /\ r \in Parsers /\ Follows(r, t)
      <4>1. r = After(target)[n]
        BY <2>1, <2>2, <2>8, <2>10, AfterAgrees
      <4> QED BY <4>1, <2>2, <2>5
    <3>3. seen = Closed(r, open) /\ whole = Closed(t, open)
      BY <2>7, <2>8, <2>9 DEF Closed
    <3>2. i \in DOMAIN Closed(r, open)
      BY <3>3
    <3>4. Resembles(Closed(r, open), Closed(t, open), i)
      BY ONLY <2>6, <3>1, <3>2, open \in BOOLEAN, CutLemma
    <3> QED BY ONLY <3>3, <3>4
  <2>11. CASE n # 0 /\ file.lines[n] \in Spoilt[target[n]]
              /\ \A j \in 1 .. n - 1 : file.lines[j] = target[j]
    <3>0. n - 1 \in Nat
      BY <2>11
    <3>k. PICK k \in Nat : k = n - 1
      BY <3>0
    <3>1. /\ k + 1 = n /\ k \in 0 .. m /\ k + 1 \in 0 .. m
          /\ k \in 0 .. n - 1 /\ k \in 0 .. m - 1 /\ k <= n /\ k <= m
      BY <2>2, <3>k
    <3>2. PICK x \in Lines, y \in Lines :
            x = file.lines[k + 1] /\ y = target[k + 1] /\ x \in Spoilt[y]
      BY <2>1, <2>2, <2>11, <3>1
    <3>3. x # Empty /\ y # Empty
      BY <3>2, PlaylistAssumption
    <3>4. PICK s \in Parsers : s = After(target)[k]
      BY <2>5, <3>1
    <3>5. After(file.lines)[k] = s
      <4>1. \A j \in 1 .. k : file.lines[j] = target[j]
        BY <2>11, <3>k
      <4> QED BY <4>1, <2>1, <2>2, <3>1, <3>4, AfterAgrees
    <3>6. r = Take(s, x)
      <4>1. After(file.lines)[k + 1] = Read(After(file.lines)[k], file.lines[k + 1])
        BY <2>1, <2>2, <3>1, AfterStep
      <4> QED BY <4>1, <2>8, <3>1, <3>2, <3>3, <3>5 DEF Read
    <3>7. After(target)[k + 1] = Take(s, y)
      <4>1. After(target)[k + 1] = Read(After(target)[k], target[k + 1])
        BY <2>1, <2>2, <3>1, AfterStep
      <4> QED BY <4>1, <3>2, <3>3, <3>4 DEF Read
    <3>8. Follows(Take(s, y), t)
      BY <2>5, <3>1, <3>7
    <3>9. seen = Closed(Take(s, x), open) /\ whole = Closed(t, open)
      BY <2>7, <2>8, <2>9, <3>6 DEF Closed
    <3>10. i \in DOMAIN Closed(Take(s, x), open)
      BY <3>9
    <3>11. Resembles(Closed(Take(s, x), open), Closed(t, open), i)
      BY ONLY <2>6, <3>2, <3>8, <3>10, open \in BOOLEAN, s \in Parsers, SpoiltLemma
    <3> QED BY ONLY <3>9, <3>11
  <2> QED BY <2>1, <2>2, <2>10, <2>11 DEF Beginning
<1> QED BY <1>1, ComingHolds, PTL

-----------------------------------------------------------------------------
(* What is written is read back.                                           *)
LEMMA ReadFields ==
    ASSUME NEW s \in Parsers, ~s.ended, NEW x \in Lines
    PROVE  /\ s.extinf = <<>> /\ x \in Others =>
                /\ Read(s, x).pieces = s.pieces
                /\ Read(s, x).extinf = <<>> /\ ~Read(s, x).ended
           /\ s.extinf = <<>> /\ x \in Extinf =>
                /\ Read(s, x).pieces = s.pieces
                /\ Read(s, x).extinf = <<x>> /\ ~Read(s, x).ended
           /\ s.extinf # <<>> /\ x # Empty =>
                /\ Read(s, x).pieces = Append(s.pieces, <<s.extinf[1], x>>)
                /\ Read(s, x).extinf = <<>> /\ ~Read(s, x).ended
           /\ s.extinf = <<>> /\ x = End =>
                Read(s, x).pieces = s.pieces /\ Read(s, x).ended
<1>1. s = [head |-> s.head, pieces |-> s.pieces, extinf |-> s.extinf, ended |-> s.ended]
  BY DEF Parsers
<1>2. End \notin Extinf /\ Empty \notin Extinf /\ End # Empty
  BY PlaylistAssumption
<1> QED BY <1>1, <1>2 DEF Read, Take, Others

\* A rendering line by line.
Renders(lines, head, pieces) ==
    /\ Len(lines) = Len(head) + 2 * Len(pieces) + 1
    /\ \A i \in 1 .. Len(head) : lines[i] = head[i]
    /\ \A k \in 0 .. Len(pieces) - 1 :
         /\ lines[Len(head) + 2 * k + 1] = pieces[k + 1][1]
         /\ lines[Len(head) + 2 * k + 2] = pieces[k + 1][2]
    /\ lines[Len(head) + 2 * Len(pieces) + 1] = End

LEMMA ThreeParts ==
    ASSUME NEW S, NEW a \in Seq(S), NEW b \in Seq(S), NEW e \in S,
           NEW p \in Nat, p = Len(a), NEW q \in Nat, q = Len(b),
           NEW c, c = a \o b \o <<e>>
    PROVE  /\ Len(c) = p + q + 1
           /\ \A i \in 1 .. p : c[i] = a[i]
           /\ \A i \in 1 .. q : c[p + i] = b[i]
           /\ c[p + q + 1] = e
<1>1. PICK ab \in Seq(S) : ab = a \o b
  BY ConcatProperties
<1>2. /\ Len(ab) = p + q
      /\ \A i \in 1 .. p : ab[i] = a[i]
      /\ \A i \in 1 .. q : ab[p + i] = b[i]
  BY <1>1
<1>3. c = Append(ab, e)
  BY <1>1, AppendIsConcat
<1>4. /\ Len(c) = p + q + 1
      /\ \A i \in 1 .. p + q : c[i] = ab[i]
      /\ c[p + q + 1] = e
  <2>1. PICK r \in Nat : r = p + q
    OBVIOUS
  <2>2. ab \in Seq(S) /\ r = Len(ab)
    BY <1>2, <2>1
  <2>3. /\ Len(Append(ab, e)) = r + 1
        /\ \A i \in 1 .. r : Append(ab, e)[i] = ab[i]
        /\ Append(ab, e)[r + 1] = e
    BY ONLY <2>2, e \in S, AppendProperties
  <2> QED BY ONLY <1>3, <2>1, <2>3
<1> QED BY <1>2, <1>4

LEMMA SubSeqAppend ==
    ASSUME NEW S, NEW s \in Seq(S), NEW n \in Nat, n + 1 <= Len(s)
    PROVE  SubSeq(s, 1, n + 1) = Append(SubSeq(s, 1, n), s[n + 1])
<1>1. Len(s) \in Nat
  BY LenProperties
<1>2. n + 1 \in 1 .. Len(s) /\ 1 \in 1 .. Len(s) /\ n + 1 - 1 = n
  BY <1>1
<1>3. SubSeq(s, 1, n + 1) = SubSeq(s, 1, n + 1 - 1) \o <<s[n + 1]>>
  BY <1>1, <1>2, SubSeqRecursiveSecond
<1>4. s[n + 1] \in S /\ \A i \in 1 .. n : s[i] \in S
  BY <1>1, <1>2, ElementOfSeq
<1>5. SubSeq(s, 1, n) \in Seq(S)
  BY <1>4, SubSeqProperties
<1>6. Append(SubSeq(s, 1, n), s[n + 1]) = SubSeq(s, 1, n) \o <<s[n + 1]>>
  BY <1>4, <1>5, AppendIsConcat
<1> QED BY <1>2, <1>3, <1>6

LEMMA Halves ==
    ASSUME NEW n \in Nat, NEW k \in 0 .. n - 1
    PROVE  /\ 2 * k + 1 \in 1 .. 2 * n /\ 2 * k + 2 \in 1 .. 2 * n
           /\ (2 * k + 1 + 1) \div 2 = k + 1 /\ (2 * k + 2 + 1) \div 2 = k + 1
           /\ 2 - ((2 * k + 1) % 2) = 1 /\ 2 - ((2 * k + 2) % 2) = 2
<1>1. k \in Nat /\ k + 1 <= n
  OBVIOUS
<1>2. 2 * k + 1 \in 1 .. 2 * n /\ 2 * k + 2 \in 1 .. 2 * n
  BY <1>1
<1>3. (2 * k + 1 + 1) \div 2 = k + 1 /\ (2 * k + 2 + 1) \div 2 = k + 1
  BY <1>1
<1>4. (2 * k + 1) % 2 = 1 /\ (2 * k + 2) % 2 = 0
  BY <1>1
<1> QED BY <1>2, <1>3, <1>4

LEMMA RenderingRenders ==
    ASSUME NEW head \in Seq(Others), NEW pieces \in Seq(Extinf \X Lines)
    PROVE  Renders(head \o Flat(pieces) \o <<End>>, head, pieces)
<1>1. PICK h \in Nat : h = Len(head)
  BY LenProperties
<1>2. PICK n \in Nat : n = Len(pieces)
  BY LenProperties
<1>3. head \in Seq(Lines)
  <2>1. Others \subseteq Lines
    BY DEF Others
  <2> QED BY <2>1, SeqMonotonic
<1>4. PICK f \in Seq(Lines) : f = Flat(pieces)
  BY FlatTyped
<1>5. Len(f) = 2 * n /\ \A i \in 1 .. 2 * n : f[i] = pieces[(i + 1) \div 2][2 - (i % 2)]
  BY <1>2, <1>4 DEF Flat
<1>6. PICK r \in Nat : r = 2 * n
  OBVIOUS
<1>7. PICK lines : lines = head \o f \o <<End>>
  OBVIOUS
<1>8. r = Len(f)
  BY <1>5, <1>6
<1>9. /\ Len(lines) = h + r + 1
      /\ \A i \in 1 .. h : lines[i] = head[i]
      /\ \A i \in 1 .. r : lines[h + i] = f[i]
      /\ lines[h + r + 1] = End
  BY <1>1, <1>3, <1>7, <1>8, LinesTyped, ThreeParts
<1>12. ASSUME NEW k \in 0 .. n - 1
       PROVE  lines[h + 2 * k + 1] = pieces[k + 1][1] /\ lines[h + 2 * k + 2] = pieces[k + 1][2]
  <2>1. PICK c \in 1 .. r, d \in 1 .. r : c = 2 * k + 1 /\ d = 2 * k + 2
    BY <1>6, Halves
  <2>3. lines[h + c] = f[c] /\ lines[h + d] = f[d]
    BY <1>9
  <2>4. f[c] = pieces[k + 1][1] /\ f[d] = pieces[k + 1][2]
    BY <2>1, <1>5, <1>6, Halves
  <2>5. h + 2 * k + 1 = h + c /\ h + 2 * k + 2 = h + d
    BY <2>1
  <2> QED BY <2>3, <2>4, <2>5
<1>13. lines = head \o Flat(pieces) \o <<End>>
  BY <1>4, <1>7
<1> QED BY <1>1, <1>2, <1>6, <1>9, <1>12, <1>13 DEF Renders

LEMMA RoundTrip ==
    ASSUME NEW head \in Seq(Others), NEW pieces \in Seq(Extinf \X Url),
           NEW lines \in Seq(Lines), Renders(lines, head, pieces)
    PROVE  Scan([lines |-> lines, open |-> FALSE]).pieces = pieces
<1>0. Len(head) \in Nat /\ Len(pieces) \in Nat
  BY LenProperties
<1>1. PICK h, n : h = Len(head) /\ n = Len(pieces) /\ h \in Nat /\ n \in Nat
  BY <1>0
<1>2. PICK A : A = After(lines)
  OBVIOUS
<1>3. /\ A[0] = Start
      /\ \A i \in 0 .. h + 2 * n : A[i + 1] = Read(A[i], lines[i + 1])
      /\ \A i \in 0 .. h + 2 * n + 1 : A[i] \in Parsers
  <2>1. Len(lines) = h + 2 * n + 1 /\ Len(lines) - 1 = h + 2 * n
    BY <1>1 DEF Renders
  <2> QED BY <2>1, <1>2, AfterStep, AfterTyped
<1> DEFINE S == {i \in Nat : i <= h => A[i].pieces = <<>> /\ A[i].extinf = <<>> /\ ~A[i].ended}
           T == {k \in Nat : k <= n => /\ A[h + 2 * k].pieces = SubSeq(pieces, 1, k)
                                       /\ A[h + 2 * k].extinf = <<>> /\ ~A[h + 2 * k].ended}
<1>4. S = Nat
  <2>1. 0 \in S
    BY <1>3 DEF Start
  <2>2. ASSUME NEW i \in S
        PROVE  i + 1 \in S
    <3>1. SUFFICES ASSUME i + 1 <= h
                   PROVE  /\ A[i + 1].pieces = <<>> /\ A[i + 1].extinf = <<>>
                          /\ ~A[i + 1].ended
      OBVIOUS
    <3>2. i \in 0 .. h + 2 * n /\ i \in 0 .. h + 2 * n + 1 /\ i + 1 \in 1 .. h
      BY <3>1, <1>1
    <3>3. lines[i + 1] \in Others /\ lines[i + 1] \in Lines
      BY <3>2, <1>1 DEF Renders, Others
    <3>4. A[i].pieces = <<>> /\ A[i].extinf = <<>> /\ ~A[i].ended /\ A[i] \in Parsers
      BY <3>2, <1>1, <1>3
    <3>5. A[i + 1] = Read(A[i], lines[i + 1])
      BY <3>2, <1>3
    <3> QED BY <3>3, <3>4, <3>5, ReadFields
  <2>3. S \in SUBSET Nat
    OBVIOUS
  <2> HIDE DEF S
  <2> QED BY <2>1, <2>2, <2>3, Induction
<1>5. T = Nat
  <2>1. 0 \in T
    <3>1. SubSeq(pieces, 1, 0) = <<>>
      BY SubSeqEmpty
    <3>2. h \in S /\ h + 2 * 0 = h
      BY <1>1, <1>4
    <3>3. A[h].pieces = <<>> /\ A[h].extinf = <<>> /\ ~A[h].ended
      BY <3>2, <1>1
    <3> QED BY <3>1, <3>2, <3>3
  <2>2. ASSUME NEW k \in T
        PROVE  k + 1 \in T
    <3>1. SUFFICES ASSUME k + 1 <= n
                   PROVE  /\ A[h + 2 * (k + 1)].pieces = SubSeq(pieces, 1, k + 1)
                          /\ A[h + 2 * (k + 1)].extinf = <<>> /\ ~A[h + 2 * (k + 1)].ended
      OBVIOUS
    <3>2. PICK j : j = h + 2 * k
      OBVIOUS
    <3>3. /\ j \in 0 .. h + 2 * n /\ j + 1 \in 0 .. h + 2 * n /\ j \in 0 .. h + 2 * n + 1
          /\ k \in 0 .. n - 1 /\ k + 1 \in 1 .. n
          /\ j + 1 + 1 = h + 2 * (k + 1) /\ j + 1 \in 0 .. h + 2 * n + 1
          /\ h + 2 * k + 1 = j + 1 /\ h + 2 * k + 2 = j + 1 + 1
      BY <3>1, <3>2, <1>1
    <3>4. PICK e, u : e = pieces[k + 1][1] /\ u = pieces[k + 1][2]
      OBVIOUS
    <3>5. e \in Extinf /\ u \in Url /\ pieces[k + 1] = <<e, u>>
      BY <3>3, <3>4, <1>1
    <3>6. e \in Lines /\ u \in Lines /\ u # Empty
      BY <3>5, PlaylistAssumption DEF Lines
    <3>7. lines[j + 1] = e /\ lines[j + 1 + 1] = u
      BY <3>3, <3>4, <1>1 DEF Renders
    <3>8. /\ A[j].pieces = SubSeq(pieces, 1, k) /\ A[j].extinf = <<>> /\ ~A[j].ended
          /\ A[j] \in Parsers
      BY <3>1, <3>2, <3>3, <1>3, <1>1
    <3>9. /\ A[j + 1].pieces = SubSeq(pieces, 1, k) /\ A[j + 1].extinf = <<e>>
          /\ ~A[j + 1].ended /\ A[j + 1] \in Parsers
      <4>1. A[j + 1] = Read(A[j], e) /\ A[j + 1] \in Parsers
        BY <3>3, <3>7, <1>3
      <4> QED BY ONLY <4>1, <3>5, <3>6, <3>8, ReadFields
    <3>10. A[j + 1].extinf # <<>> /\ A[j + 1].extinf[1] = e
      BY <3>9
    <3>11. /\ A[j + 1 + 1].pieces = Append(SubSeq(pieces, 1, k), <<e, u>>)
           /\ A[j + 1 + 1].extinf = <<>> /\ ~A[j + 1 + 1].ended
      <4>1. A[j + 1 + 1] = Read(A[j + 1], u)
        BY <3>3, <3>7, <1>3
      <4>2. /\ A[j + 1 + 1].pieces = Append(A[j + 1].pieces, <<A[j + 1].extinf[1], u>>)
            /\ A[j + 1 + 1].extinf = <<>> /\ ~A[j + 1 + 1].ended
        <5>1. PICK r : r = A[j + 1]
          OBVIOUS
        <5>2. r \in Parsers /\ ~r.ended /\ r.extinf # <<>> /\ u \in Lines /\ u # Empty
          BY <5>1, <3>6, <3>9, <3>10
        <5>3. /\ Read(r, u).pieces = Append(r.pieces, <<r.extinf[1], u>>)
              /\ Read(r, u).extinf = <<>> /\ ~Read(r, u).ended
          BY ONLY <5>2, ReadFields
        <5> QED BY <5>1, <5>3, <4>1
      <4> QED BY <4>2, <3>9, <3>10
    <3>12. SubSeq(pieces, 1, k + 1) = Append(SubSeq(pieces, 1, k), pieces[k + 1])
      <4>1. k \in Nat /\ k + 1 <= Len(pieces)
        BY <3>3, <1>1
      <4> QED BY <4>1, SubSeqAppend
    <3> QED BY <3>3, <3>5, <3>11, <3>12
  <2>3. T \in SUBSET Nat
    OBVIOUS
  <2> HIDE DEF T
  <2> QED BY <2>1, <2>2, <2>3, Induction
<1>6. PICK m : m = h + 2 * n /\ m \in 0 .. h + 2 * n /\ m \in 0 .. h + 2 * n + 1
               /\ m + 1 \in 0 .. h + 2 * n + 1
  BY <1>1
<1>7. A[m].pieces = pieces /\ A[m].extinf = <<>> /\ ~A[m].ended /\ A[m] \in Parsers
  <2>1. n \in T
    BY <1>1, <1>5
  <2>2. SubSeq(pieces, 1, n) = pieces
    BY <1>1, SubSeqFull
  <2> QED BY <2>1, <2>2, <1>1, <1>3, <1>6
<1>8. lines[m + 1] = End /\ Len(lines) = m + 1
  BY <1>1, <1>6 DEF Renders
<1>9. A[m + 1].pieces = pieces /\ A[m + 1].ended /\ A[m + 1] \in Parsers
  BY <1>3, <1>6, <1>7, <1>8, LinesTyped, ReadFields
<1>10. Take(A[m + 1], Empty) = A[m + 1]
  BY <1>9, LinesTyped, TakePieces
<1> QED BY <1>2, <1>8, <1>9, <1>10 DEF Scan

-----------------------------------------------------------------------------
(* The pieces that a reader gets.                                          *)
Whole(pieces, d) == /\ pieces \in Seq(Extinf \X Url)
                    /\ [i \in DOMAIN pieces |-> pieces[i][1]] = d

Rewritten == [lines |-> target, open |-> FALSE]

Keeping ==
    /\ \A o \in Editors : obj[o].parses = 0 =>
         obj[o].head = <<>> /\ obj[o].pieces = <<>> /\ ~obj[o].ok
    /\ clean => \A o \in Editors : obj[o].parses # 0 => Whole(obj[o].pieces, durations)
    /\ clean /\ writer = None => Whole(Scan(file).pieces, durations)
    /\ clean /\ writer # None =>
         /\ Whole(Scan(Rewritten).pieces, durations) /\ ~file.open
         /\ left = <<>> => Len(file.lines) = Len(target)

LEMMA InitKeeps == Init => Keeping
<1> SUFFICES ASSUME Init PROVE Keeping
  OBVIOUS
<1>1. file \in Files /\ file \in Starts
  BY PlaylistAssumption DEF Init
<1>2. PICK p : p = Scan(file).pieces
  OBVIOUS
<1>3. p \in Seq(Extinf \X Lines)
  BY <1>1, <1>2, ScanTyped DEF Parsers
<1>4. \A i \in DOMAIN p : p[i][2] \in Url
  BY <1>1, <1>2, StartsAssumption
<1>5. p \in Seq(Extinf \X Url)
  <2>1. PICK n \in Nat : n = Len(p) /\ DOMAIN p = 1 .. n /\ p \in [1 .. n -> Extinf \X Lines]
    BY <1>3, LenProperties
  <2>2. ASSUME NEW i \in 1 .. n
        PROVE  p[i] \in Extinf \X Url
    <3>1. p[i] \in Extinf \X Lines /\ p[i][2] \in Url
      BY <2>1, <1>4
    <3> QED BY <3>1
  <2>3. p \in [1 .. n -> Extinf \X Url]
    BY <2>1, <2>2
  <2> QED BY <2>3
<1>6. Whole(p, durations)
  BY <1>2, <1>5 DEF Whole, Init, Durations
<1>7. \A o \in Editors : obj[o] = Fresh
  BY DEF Init
<1> QED BY <1>2, <1>6, <1>7 DEF Keeping, Init, Fresh

LEMMA ParseKeeps ==
    ASSUME TypeOK, Keeping, NEW o \in Editors, Parse(o)
    PROVE  Keeping'
<1>0. PICK f \in Readings(o) :
        /\ LET s == Scan(f)
               new == [head   |-> obj[o].head \o s.head,
                       pieces |-> obj[o].pieces \o s.pieces,
                       parses |-> obj[o].parses + 1,
                       ok     |-> s.extinf = <<>>]
           IN obj' = [obj EXCEPT ![o] = new]
        /\ f \in Files /\ (reading[o] = file => f = file)
  <2>1. reading[o] = file => Readings(o) = {file}
    BY PlaylistAssumption DEF Readings, TypeOK
  <2>2. reading[o] # None
    BY DEF Parse
  <2> QED BY <2>1, <2>2, ReadingsTyped DEF Parse
<1> DEFINE s == Scan(f)
           new == [head   |-> obj[o].head \o s.head,
                   pieces |-> obj[o].pieces \o s.pieces,
                   parses |-> obj[o].parses + 1,
                   ok     |-> s.extinf = <<>>]
<1>1. obj' = [obj EXCEPT ![o] = new] /\ obj \in [Editors -> Objects]
  BY <1>0 DEF TypeOK
<1>2. /\ UNCHANGED <<file, writer, left, target, durations>>
      /\ clean' => clean /\ writer = None /\ obj[o].parses = 0 /\ f = file
  BY <1>0 DEF Parse
<1>3. s.pieces \in Seq(Extinf \X Lines)
  BY <1>0, ScanTyped DEF Parsers
<1>4. obj[o].parses \in Nat
  BY <1>1 DEF Objects
<1>5. /\ obj'[o].parses # 0 /\ obj'[o].pieces = obj[o].pieces \o s.pieces
      /\ \A e \in Editors : e # o => obj'[e] = obj[e]
  <2>1. new.parses # 0 /\ new.pieces = obj[o].pieces \o s.pieces
    <3>1. PICK k : k = obj[o].parses + 1 /\ k # 0
      BY <1>4
    <3>2. PICK h, p, b : h = obj[o].head \o s.head /\ p = obj[o].pieces \o s.pieces
                         /\ b = (s.extinf = <<>>)
      OBVIOUS
    <3>3. new = [head |-> h, pieces |-> p, parses |-> k, ok |-> b]
      BY ONLY <3>1, <3>2
    <3> HIDE DEF new, s
    <3> QED BY <3>1, <3>2, <3>3
  <2>2. obj'[o] = new /\ \A e \in Editors : e # o => obj'[e] = obj[e]
    <3> HIDE DEF new
    <3> QED BY <1>1
  <2> HIDE DEF new, s
  <2> QED BY <2>1, <2>2
<1>6. clean' => obj'[o].pieces = s.pieces
  <2> SUFFICES ASSUME clean' PROVE obj'[o].pieces = s.pieces
    OBVIOUS
  <2>1. obj[o].pieces = <<>>
    BY <1>2 DEF Keeping
  <2>2. <<>> \o s.pieces = s.pieces
    BY <1>3, ConcatEmptySeq
  <2> QED BY <2>1, <2>2, <1>5
<1>7. clean' => Whole(s.pieces, durations) /\ Scan(file)' = s
  BY <1>2 DEF Keeping, Scan
<1> HIDE DEF new
<1>8. \A e \in Editors : obj'[e].parses = 0 =>
         obj'[e].head = <<>> /\ obj'[e].pieces = <<>> /\ ~obj'[e].ok
  BY <1>5 DEF Keeping
<1>9. clean' => \A e \in Editors : obj'[e].parses # 0 => Whole(obj'[e].pieces, durations)
  <2> SUFFICES ASSUME clean', NEW e \in Editors, obj'[e].parses # 0
               PROVE  Whole(obj'[e].pieces, durations)
    OBVIOUS
  <2>1. CASE e = o
    BY <2>1, <1>6, <1>7
  <2>2. CASE e # o
    <3>1. Whole(obj[e].pieces, durations) /\ obj'[e] = obj[e]
      BY <2>2, <1>2, <1>5 DEF Keeping
    <3> QED BY <3>1
  <2> QED BY <2>1, <2>2
<1> QED BY <1>2, <1>7, <1>8, <1>9 DEF Keeping

LEMMA RelocateKeeps ==
    ASSUME TypeOK, Keeping, NEW o \in Editors, NEW u \in Url, Relocate(o, u)
    PROVE  Keeping'
<1> DEFINE p == obj[o].pieces
           moved == [i \in DOMAIN p |-> <<p[i][1], u>>]
<1>1. UNCHANGED <<file, writer, left, target, durations, clean>>
  BY DEF Relocate, history
<1>2. obj' = [obj EXCEPT ![o] = [obj[o] EXCEPT !.pieces = moved]] /\ obj \in [Editors -> Objects]
  BY DEF Relocate, TypeOK
<1>3. /\ \A e \in Editors : e # o => obj'[e] = obj[e]
      /\ obj'[o].pieces = moved /\ obj'[o].parses = obj[o].parses
      /\ obj'[o].head = obj[o].head /\ obj'[o].ok = obj[o].ok
  <2> HIDE DEF moved
  <2> QED BY <1>2 DEF Objects
<1>4. PICK n \in Nat : n = Len(p) /\ DOMAIN p = 1 .. n
  <2>1. p \in Seq(Extinf \X Lines)
    BY <1>2 DEF Objects
  <2> QED BY <2>1, LenProperties
<1>5. obj[o].parses = 0 => moved = <<>>
  <2> SUFFICES ASSUME obj[o].parses = 0 PROVE moved = <<>>
    OBVIOUS
  <2>1. p = <<>>
    BY DEF Keeping
  <2> QED BY <2>1
<1>6. Whole(p, durations) => Whole(moved, durations)
  <2> SUFFICES ASSUME Whole(p, durations) PROVE Whole(moved, durations)
    OBVIOUS
  <2>1. ASSUME NEW i \in 1 .. n
        PROVE  <<p[i][1], u>> \in Extinf \X Url
    <3>1. p[i] \in Extinf \X Url
      BY <1>4 DEF Whole
    <3> QED BY <3>1
  <2>2. moved \in [1 .. n -> Extinf \X Url]
    BY <1>4, <2>1
  <2>3. moved \in Seq(Extinf \X Url)
    <3> HIDE DEF moved
    <3> QED BY <2>2
  <2>4. [i \in DOMAIN moved |-> moved[i][1]] = [i \in DOMAIN p |-> p[i][1]]
    <3>1. DOMAIN moved = DOMAIN p
      OBVIOUS
    <3>2. \A i \in DOMAIN p : moved[i][1] = p[i][1]
      OBVIOUS
    <3> HIDE DEF moved, p
    <3> QED BY <3>1, <3>2
  <2> QED BY <2>3, <2>4 DEF Whole
<1> HIDE DEF moved
<1>7. \A e \in Editors : obj'[e].parses = 0 =>
         obj'[e].head = <<>> /\ obj'[e].pieces = <<>> /\ ~obj'[e].ok
  BY <1>3, <1>5 DEF Keeping
<1>8. clean => \A e \in Editors : obj'[e].parses # 0 => Whole(obj'[e].pieces, durations)
  BY <1>3, <1>6 DEF Keeping
<1> QED BY <1>1, <1>7, <1>8 DEF Keeping, Rewritten

LEMMA StartWriteKeeps ==
    ASSUME TypeOK, Keeping, NEW o \in Editors, StartWrite(o)
    PROVE  Keeping'
<1>1. /\ obj[o].ok /\ UNCHANGED <<obj, durations, clean>> /\ writer' = o /\ o # None
      /\ file' = [lines |-> <<>>, open |-> FALSE]
      /\ left' = Rendering(o) /\ target' = Rendering(o)
  BY PlaylistAssumption DEF StartWrite, OpenToWrite
<1>2. PICK h, p : h = obj[o].head /\ p = obj[o].pieces
  OBVIOUS
<1>3. h \in Seq(Others) /\ p \in Seq(Extinf \X Lines)
  BY <1>2 DEF TypeOK, Objects
<1>4. PICK lines : lines = Rendering(o) /\ lines = h \o Flat(p) \o <<End>>
  BY <1>2 DEF Rendering
<1>5. lines \in Seq(Lines) /\ Renders(lines, h, p)
  BY <1>3, <1>4, RenderingTyped, RenderingRenders DEF TypeOK
<1>6. lines # <<>>
  <2>1. Len(h) \in Nat /\ Len(p) \in Nat
    BY <1>3, LenProperties
  <2>2. Len(lines) > 0
    BY <2>1, <1>5 DEF Renders
  <2> QED BY <2>2
<1>7. clean => Whole(p, durations)
  BY <1>1, <1>2 DEF Keeping
<1>8. clean => Whole(Scan([lines |-> lines, open |-> FALSE]).pieces, durations)
  <2> SUFFICES ASSUME clean
               PROVE  Whole(Scan([lines |-> lines, open |-> FALSE]).pieces, durations)
    OBVIOUS
  <2>1. p \in Seq(Extinf \X Url)
    BY <1>7 DEF Whole
  <2>2. Scan([lines |-> lines, open |-> FALSE]).pieces = p
    BY <2>1, <1>3, <1>5, RoundTrip
  <2> QED BY <2>2, <1>7
<1>9. Rewritten' = [lines |-> lines, open |-> FALSE]
  BY <1>1, <1>4 DEF Rewritten
<1>10. Scan(Rewritten)' = Scan([lines |-> lines, open |-> FALSE])
  BY <1>9 DEF Scan
<1>11. left' # <<>> /\ writer' # None /\ ~file'.open
  BY <1>1, <1>4, <1>6
<1> QED BY <1>1, <1>8, <1>10, <1>11 DEF Keeping

LEMMA WriteLineKeeps ==
    ASSUME TypeOK, Coming, Keeping, WriteLine
    PROVE  Keeping'
<1>1. /\ UNCHANGED <<obj, writer, target, durations, clean>> /\ writer # None
      /\ left # <<>> /\ left' = Tail(left)
      /\ file' = [file EXCEPT !.lines = Append(@, Head(left))]
  BY DEF WriteLine, history, TypeOK
<1>2. left \in Seq(Lines) /\ file.lines \in Seq(Lines)
  BY DEF TypeOK, Files
<1>3. file'.open = file.open /\ file'.lines = Append(file.lines, Head(left))
  BY <1>1 DEF TypeOK, Files
<1>4. PICK n, k : n = Len(file.lines) /\ k = Len(left) /\ n \in Nat /\ k \in Nat
  <2>1. Len(file.lines) \in Nat /\ Len(left) \in Nat
    BY <1>2, LenProperties
  <2> QED BY <2>1
<1>5. Len(target) = n + k
  BY <1>1, <1>4 DEF Coming
<1>6. Len(file'.lines) = n + 1 /\ Len(left') = k - 1
  BY <1>1, <1>2, <1>3, <1>4, HeadTailProperties, AppendProperties
<1>7. left' = <<>> => Len(file'.lines) = Len(target)
  <2> SUFFICES ASSUME left' = <<>> PROVE Len(file'.lines) = Len(target)
    OBVIOUS
  <2>1. k = 1
    <3>1. Len(left') = 0
      BY EmptySeq
    <3>2. k - 1 = 0 /\ k \in Nat
      BY ONLY <3>1, <1>4, <1>6
    <3> QED BY ONLY <3>2
  <2> QED BY <2>1, <1>5, <1>6
<1>8. Rewritten' = Rewritten /\ Scan(Rewritten)' = Scan(Rewritten)
  BY <1>1 DEF Rewritten, Scan
<1> QED BY <1>1, <1>3, <1>7, <1>8 DEF Keeping

LEMMA WriteReturnsKeeps ==
    ASSUME TypeOK, Coming, Keeping, WriteReturns
    PROVE  Keeping'
<1>1. /\ UNCHANGED <<obj, file, left, target, durations, clean>>
      /\ writer # None /\ writer' = None /\ left = <<>>
  BY DEF WriteReturns, history
<1>2. clean => file = Rewritten
  <2> SUFFICES ASSUME clean PROVE file = Rewritten
    OBVIOUS
  <2>1. /\ file.lines \in Seq(Lines) /\ target \in Seq(Lines) /\ file \in Files
        /\ ~file.open /\ Len(file.lines) = Len(target)
    BY <1>1 DEF TypeOK, Files, Keeping
  <2>2. file.lines = target
    BY <2>1, SeqEqual DEF Coming
  <2> QED BY <2>1, <2>2 DEF Rewritten, Files
<1>3. Scan(file)' = Scan(file)
  BY <1>1 DEF Scan
<1>4. clean => Whole(Scan(file).pieces, durations)
  BY <1>1, <1>2 DEF Keeping
<1> QED BY <1>1, <1>3, <1>4 DEF Keeping

LEMMA StepKeeps == TypeOK /\ Coming /\ Keeping /\ [Next]_vars => Keeping'
<1> SUFFICES ASSUME TypeOK, Coming, Keeping, [Next]_vars
             PROVE  Keeping'
  OBVIOUS
<1>1. ASSUME NEW o \in Editors, Construct(o)
      PROVE  Keeping'
  <2>1. UNCHANGED <<file, writer, left, target, durations, clean>>
    BY <1>1 DEF Construct, history
  <2>2. \A e \in Editors : obj'[e] = Fresh \/ obj'[e] = obj[e]
    BY <1>1 DEF Construct, TypeOK
  <2>3. Fresh.parses = 0 /\ Fresh.head = <<>> /\ Fresh.pieces = <<>> /\ ~Fresh.ok
    BY DEF Fresh
  <2>4. \A e \in Editors : obj'[e].parses = 0 =>
           obj'[e].head = <<>> /\ obj'[e].pieces = <<>> /\ ~obj'[e].ok
    BY <2>2, <2>3 DEF Keeping
  <2>5. clean => \A e \in Editors : obj'[e].parses # 0 => Whole(obj'[e].pieces, durations)
    BY <2>2, <2>3 DEF Keeping
  <2> QED BY <2>1, <2>4, <2>5 DEF Keeping, Rewritten
<1>2. ASSUME NEW o \in Editors, Parse(o)
      PROVE  Keeping'
  BY <1>2, ParseKeeps
<1>3. ASSUME NEW o \in Editors, ParseFails(o)
      PROVE  Keeping'
  <2>1. UNCHANGED <<file, writer, left, target, durations, clean>>
    BY <1>3 DEF ParseFails, history
  <2>2. /\ \A e \in Editors : e # o => obj'[e] = obj[e]
        /\ obj'[o].pieces = obj[o].pieces /\ obj'[o].parses = obj[o].parses
        /\ obj'[o].head = obj[o].head /\ obj'[o].ok = FALSE
    BY <1>3 DEF ParseFails, TypeOK, Objects
  <2>3. \A e \in Editors : obj'[e].parses = 0 =>
           obj'[e].head = <<>> /\ obj'[e].pieces = <<>> /\ ~obj'[e].ok
    BY <2>2 DEF Keeping
  <2>4. clean => \A e \in Editors : obj'[e].parses # 0 => Whole(obj'[e].pieces, durations)
    BY <2>2 DEF Keeping
  <2> QED BY <2>1, <2>3, <2>4 DEF Keeping, Rewritten
<1>4. ASSUME NEW o \in Editors, NEW u \in Url, Relocate(o, u)
      PROVE  Keeping'
  BY <1>4, RelocateKeeps
<1>5. ASSUME NEW o \in Editors, StartWrite(o)
      PROVE  Keeping'
  BY <1>5, StartWriteKeeps
<1>6. CASE WriteLine
  BY <1>6, WriteLineKeeps
<1>7. CASE DiskFull
  <2>1. clean' = FALSE /\ UNCHANGED <<obj>>
    BY <1>7 DEF DiskFull
  <2> QED BY <2>1 DEF Keeping
<1>8. CASE WriteReturns
  BY <1>8, WriteReturnsKeeps
<1>9. CASE Crash
  <2>1. clean' = FALSE /\ obj' = [obj EXCEPT ![writer] = Fresh]
    BY <1>9 DEF Crash
  <2>2. \A e \in Editors : obj'[e] = Fresh \/ obj'[e] = obj[e]
    BY <2>1 DEF TypeOK
  <2>3. Fresh.parses = 0 /\ Fresh.head = <<>> /\ Fresh.pieces = <<>> /\ ~Fresh.ok
    BY DEF Fresh
  <2>4. \A e \in Editors : obj'[e].parses = 0 =>
           obj'[e].head = <<>> /\ obj'[e].pieces = <<>> /\ ~obj'[e].ok
    BY <2>2, <2>3 DEF Keeping
  <2> QED BY <2>1, <2>4 DEF Keeping
<1>10. CASE UNCHANGED vars \/ \E o \in Editors : Measure(o)
  <2>1. UNCHANGED <<file, obj, writer, left, target, durations, clean>>
    BY <1>10 DEF vars, Measure, history
  <2> QED BY <2>1 DEF Keeping, Rewritten
<1> QED BY <1>1, <1>2, <1>3, <1>4, <1>5, <1>6, <1>7, <1>8, <1>9, <1>10 DEF Next

\* For playlists of any length, any number of objects, and any edits of the
\* addresses.
THEOREM PiecesKeptHolds == Spec => []PiecesKept
<1>1. Keeping => PiecesKept
  <2> SUFFICES ASSUME Keeping, clean, writer = None
               PROVE  /\ Durations(file) = durations
                      /\ \A i \in DOMAIN durations : Scan(file).pieces[i][2] \in Url
    BY DEF PiecesKept, Undamaged
  <2>1. PICK p : p = Scan(file).pieces
    OBVIOUS
  <2>2. Whole(p, durations)
    BY <2>1 DEF Keeping
  <2>3. Durations(file) = durations
    BY <2>1, <2>2 DEF Whole, Durations
  <2>4. ASSUME NEW i \in DOMAIN durations
        PROVE  p[i][2] \in Url
    <3>1. p \in Seq(Extinf \X Url) /\ i \in DOMAIN p
      BY <2>2 DEF Whole
    <3>2. p[i] \in Extinf \X Url
      BY <3>1, LenProperties
    <3> QED BY <3>2
  <2> QED BY <2>1, <2>3, <2>4
<1> QED BY <1>1, InitTyped, StepTyped, InitComes, StepComes, InitKeeps, StepKeeps, PTL DEF Spec
=============================================================================
