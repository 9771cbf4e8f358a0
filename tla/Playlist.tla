------------------------------ MODULE Playlist ------------------------------
(***************************************************************************)
(* Playlists and the objects that rewrite them (class M3U8Info of          *)
(* ffmpeg.cc, Util::split of util.cc).  parse() reads a playlist into the  *)
(* lines of its head and its pieces, each an #EXTINF line and the line     *)
(* after it; the caller edits what lines() and pieces() refer to; write()  *)
(* truncates the file and writes it anew, one line at a time, and does not *)
(* look at the state of the stream.  A process may die in the middle of    *)
(* write(), the disk may be full, and other objects parse the same file at *)
(* any time, because nothing locks it.                                     *)
(*                                                                         *)
(* A line is one value.  std::endl flushes every line, so that a process   *)
(* that dies leaves whole lines behind; a full disk may leave a part of    *)
(* one.  What becomes of a line of which not all is written or read is     *)
(* given by Spoilt.  Two write() at once, which would mix bytes, are left  *)
(* out, and a caller writes only what a parse() that returned true has     *)
(* read.                                                                   *)
(***************************************************************************)
EXTENDS Integers, SequencesExt

CONSTANTS
    Editors,    \* the objects
    Extinf,     \* lines that contain "#EXTINF"
    Url,        \* lines with the address of a piece
    Meta,       \* other lines
    End,        \* "#EXT-X-ENDLIST"
    Empty,      \* the empty line, and what split() makes of a final newline
    Spoilt,     \* per line, what it may be when only a part of it is there,
                \* when a part of it is written twice, or padded with NULs
    Nuls,       \* a line of NULs
    None,       \* no object is writing; an object is not reading
    Stale,      \* the file was truncated since an object took its size
    Starts,     \* the files that may be there at first
    MaxLines,   \* bound on the lines that an object holds
    MaxFaults   \* bound on crashes, full disks, failed opens, readings of a
                \* file that was truncated, and second parse() by an object

Lines == Extinf \cup Url \cup Meta \cup {End, Empty}

\* open: the last line of the file has no newline.
Files == [lines : Seq(Lines), open : BOOLEAN]

ASSUME PlaylistAssumption ==
    /\ Starts \subseteq Files /\ MaxFaults \in Nat /\ MaxLines \in Nat
    /\ None \notin Editors \cup Files /\ Stale \notin Files \cup {None}
    /\ End \notin Extinf /\ Empty \notin Extinf \cup Url \cup {End}
    /\ Nuls \in Meta \ (Extinf \cup Url \cup {End, Empty})
    /\ Spoilt \in [Lines -> SUBSET (Lines \ {Empty})] /\ Spoilt[Empty] = {}
    /\ \A x \in Lines \ Extinf : Spoilt[x] \cap Extinf = {}

VARIABLES
    file,      \* the playlist on the disk
    obj,       \* per editor its _head, _pieces, and what parse() returned
    reading,   \* per editor the file of which its parse() has taken the size,
               \* Stale, or None
    writer,    \* the editor that is in write(), or None
    left,      \* the lines it has still to write
    faults,    \* how many of these there were
    target,    \* history: the lines the last write() was to write
    durations, \* history: the #EXTINF lines of the file at first
    clean      \* history: every rewriting was whole, see Undamaged

vars == <<file, obj, reading, writer, left, faults, target, durations, clean>>
history == <<target, durations, clean>>

-----------------------------------------------------------------------------
\* The loop of parse(): the line after an #EXTINF line is its piece, whatever
\* it is; the loop ends at the end of the list.
Start == [head |-> <<>>, pieces |-> <<>>, extinf |-> <<>>, ended |-> FALSE]

\* Mutant of Take: a piece is put before those that were read earlier.
TakeFirst(s, x) ==
    IF s.ended THEN s
    ELSE IF s.extinf # <<>> THEN [s EXCEPT !.pieces = <<<<s.extinf[1], x>>>> \o @, !.extinf = <<>>]
    ELSE IF x \in Extinf THEN [s EXCEPT !.extinf = <<x>>]
    ELSE IF x = End THEN [s EXCEPT !.ended = TRUE]
    ELSE [s EXCEPT !.head = Append(@, x)]

Take(s, x) ==
    IF s.ended THEN s
    ELSE IF s.extinf # <<>> THEN [s EXCEPT !.pieces = Append(@, <<s.extinf[1], x>>), !.extinf = <<>>]
    ELSE IF x \in Extinf THEN [s EXCEPT !.extinf = <<x>>]
    ELSE IF x = End THEN [s EXCEPT !.ended = TRUE]
    ELSE [s EXCEPT !.head = Append(@, x)]

\* split() skips empty lines.
Read(s, x) == IF x = Empty THEN s ELSE Take(s, x)

\* The parser after each number of lines.
After(lines) == LET after[i \in 0 .. Len(lines)] ==
                      IF i = 0 THEN Start ELSE Read(after[i - 1], lines[i])
                IN after

\* What follows the last newline is always a token.
Scan(f) == LET s == After(f.lines)[Len(f.lines)]
           IN IF f.open THEN s ELSE Take(s, Empty)

\* Mutant of Flat: the address is written before its #EXTINF line.
FlatSwapped(pieces) == [i \in 1 .. 2 * Len(pieces) |-> pieces[(i + 1) \div 2][1 + (i % 2)]]

\* write(): the head, the two lines of each piece, the end of the list.
Flat(pieces) == [i \in 1 .. 2 * Len(pieces) |-> pieces[(i + 1) \div 2][2 - (i % 2)]]
Rendering(o) == obj[o].head \o Flat(obj[o].pieces) \o <<End>>

Fresh == [head |-> <<>>, pieces |-> <<>>, parses |-> 0, ok |-> FALSE]
Durations(f) == [i \in DOMAIN Scan(f).pieces |-> Scan(f).pieces[i][1]]

ASSUME StartsAssumption ==
    \A f \in Starts : \A i \in DOMAIN Scan(f).pieces : Scan(f).pieces[i][2] \in Url

-----------------------------------------------------------------------------
Init == /\ file \in Starts
        /\ obj = [o \in Editors |-> Fresh]
        /\ reading = [o \in Editors |-> None]
        /\ writer = None /\ left = <<>> /\ faults = 0
        /\ target = file.lines /\ durations = Durations(file) /\ clean = TRUE

Fault == faults < MaxFaults /\ faults' = faults + 1

\* The object is neither in parse() nor in write().
Idle(o) == writer # o /\ reading[o] = None

\* Another object is made for the same path.
Construct(o) == /\ Idle(o) /\ obj[o] # Fresh
                /\ obj' = [obj EXCEPT ![o] = Fresh]
                /\ UNCHANGED <<file, reading, writer, left, faults, history>>

\* parse() opens the file and takes its size.  What is appended later, it
\* will not read.
Measure(o) == /\ Idle(o) /\ obj[o].parses < 2
              /\ reading' = [reading EXCEPT ![o] = file]
              /\ UNCHANGED <<file, obj, writer, left, faults, history>>

\* After a truncation it reads as much as it can of what has been written
\* since, and the string is filled up with NULs.
Misread(f) ==
    LET ended == IF f.open THEN Len(f.lines) - 1 ELSE Len(f.lines)
        Cut(n) == SubSeq(f.lines, 1, n)
    IN {[lines |-> Cut(n), open |-> FALSE] : n \in 0 .. ended}
       \cup {[lines |-> Append(Cut(ended), Nuls), open |-> TRUE]}
       \cup UNION {{[lines |-> Append(Cut(i - 1), x), open |-> TRUE] :
                       x \in ({f.lines[i]} \cup Spoilt[f.lines[i]]) \ {Empty}} :
                     i \in DOMAIN f.lines}

Readings(o) == IF reading[o] = Stale THEN Misread(file) ELSE {reading[o]}

\* parse() reads and takes the lines apart.  A second parse() by an object adds
\* to what the first has read.
Parse(o) ==
    /\ reading[o] # None
    /\ IF reading[o] = Stale \/ obj[o].parses # 0 THEN Fault ELSE UNCHANGED faults
    /\ \E f \in Readings(o) :
         LET s == Scan(f)
             new == [head   |-> obj[o].head \o s.head,
                     pieces |-> obj[o].pieces \o s.pieces,
                     parses |-> obj[o].parses + 1,
                     ok     |-> s.extinf = <<>>]
         IN /\ Len(new.head) + 2 * Len(new.pieces) <= MaxLines
            /\ obj' = [obj EXCEPT ![o] = new]
    /\ reading' = [reading EXCEPT ![o] = None]
    /\ clean' = (clean /\ reading[o] = file /\ writer = None /\ obj[o].parses = 0)
    /\ UNCHANGED <<file, writer, left, target, durations>>

\* parse() cannot open the file.
ParseFails(o) ==
    /\ Idle(o) /\ Fault
    /\ obj' = [obj EXCEPT ![o] = [obj[o] EXCEPT !.ok = FALSE]]
    /\ UNCHANGED <<file, reading, writer, left, history>>

\* The caller goes through pieces() and changes the addresses.
Relocate(o, u) ==
    /\ Idle(o)
    /\ LET moved == [i \in DOMAIN obj[o].pieces |-> <<obj[o].pieces[i][1], u>>]
       IN obj' = [obj EXCEPT ![o] = [obj[o] EXCEPT !.pieces = moved]]
    /\ UNCHANGED <<file, reading, writer, left, faults, history>>

\* Mutant of OpenToWrite: the file is opened without ios::trunc.
OpenToAppend(o) == file' = file

OpenToWrite(o) == file' = [lines |-> <<>>, open |-> FALSE]

StartWrite(o) ==
    /\ writer = None /\ Idle(o) /\ obj[o].ok
    /\ writer' = o
    /\ OpenToWrite(o)
    /\ reading' = [e \in Editors |-> IF reading[e] = None THEN None ELSE Stale]
    /\ left' = Rendering(o) /\ target' = Rendering(o)
    /\ UNCHANGED <<obj, faults, durations, clean>>

WriteLine == /\ left # <<>>
             /\ file' = [file EXCEPT !.lines = Append(@, Head(left))]
             /\ left' = Tail(left)
             /\ UNCHANGED <<obj, reading, writer, faults, history>>

\* The flush of std::endl fails, perhaps after a part of the line, and close()
\* tries the line once more; the other lines are lost, and nobody notices.
DiskFull == /\ left # <<>> /\ Fault
            /\ \/ file' = file
               \/ \E x \in {Head(left)} \cup Spoilt[Head(left)], open \in BOOLEAN :
                    /\ open => x # Empty
                    /\ file' = [lines |-> Append(file.lines, x), open |-> open]
            /\ left' = <<>> /\ clean' = FALSE
            /\ UNCHANGED <<obj, reading, writer, target, durations>>

\* Mutant of WriteReturns: write() returns while lines are still to be written.
WriteReturnsEarly == /\ writer # None
                     /\ writer' = None
                     /\ UNCHANGED <<file, obj, reading, left, faults, history>>

\* write() returns true.
WriteReturns == /\ writer # None /\ left = <<>>
                /\ writer' = None
                /\ UNCHANGED <<file, obj, reading, left, faults, history>>

\* The process of the writer dies, between two flushed lines.
Crash == /\ left # <<>> /\ Fault
         /\ obj' = [obj EXCEPT ![writer] = Fresh]
         /\ writer' = None /\ left' = <<>> /\ clean' = FALSE
         /\ UNCHANGED <<file, reading, target, durations>>

Next == \/ \E o \in Editors :
             \/ Construct(o) \/ Measure(o) \/ Parse(o) \/ ParseFails(o) \/ StartWrite(o)
             \/ \E u \in Url : Relocate(o, u)
        \/ WriteLine \/ DiskFull \/ WriteReturns \/ Crash

Spec == Init /\ [][Next]_vars

-----------------------------------------------------------------------------
Others  == Lines \ (Extinf \cup {End})
Objects == [head : Seq(Others), pieces : Seq(Extinf \X Lines),
            parses : 0 .. 2, ok : BOOLEAN]

TypeOK == /\ file \in Files /\ obj \in [Editors -> Objects]
          /\ reading \in [Editors -> Files \cup {None, Stale}]
          /\ \A o \in Editors : reading[o] # None => writer # o /\ obj[o].parses < 2
          /\ writer \in Editors \cup {None}
          /\ left \in Seq(Lines) /\ (left # <<>> => writer # None)
          /\ target \in Seq(Lines) /\ faults \in 0 .. MaxFaults /\ clean \in BOOLEAN

\* A beginning of what the last write() was to write; its last line may be
\* spoilt.
Begins(lines) ==
    \/ IsPrefix(lines, target)
    \/ /\ lines # <<>> /\ IsStrictPrefix(Front(lines), target)
       /\ Last(lines) \in Spoilt[target[Len(lines)]]

\* At any time, also after a crash or on a full disk, the file is a beginning
\* of what the last write() was to write, and so is what a parse() reads that
\* no truncation has overtaken: never a mixture of an old playlist and a new
\* one (ffmpeg.cc:139-145, 179-196).
NeverMixed ==
    /\ Begins(file.lines)
    /\ \A o \in Editors : reading[o] \notin {None, Stale} => Begins(reading[o].lines)

\* What parse() makes of a file that was cut anywhere, in the middle of a line
\* too: the pieces of the whole file in their order.  Of the last one the
\* address may be spoilt or missing, and when it is missing the #EXTINF line
\* may be spoilt (ffmpeg.cc:150-173, util.cc:33-53).
CutIsPrefix ==
    LET seen  == Scan(file).pieces
        whole == Scan([lines |-> target, open |-> file.open]).pieces
    IN \A i \in DOMAIN seen :
         /\ i \in DOMAIN whole
         /\ \/ seen[i] = whole[i]
            \/ /\ i = Len(seen) /\ seen[i][1] = whole[i][1]
               /\ seen[i][2] \in {Empty} \cup Spoilt[whole[i][2]]
            \/ /\ i = Len(seen) /\ seen[i][1] \in Spoilt[whole[i][1]]
               /\ seen[i][2] = Empty

\* However often and by however many objects the playlist is parsed, edited
\* and written, no piece is lost, doubled or out of place, and each has an
\* address, as long as no writing was cut off, no object parsed during a
\* writing or beside a truncation, and none parsed twice.
Undamaged == clean /\ writer = None
PiecesKept ==
    Undamaged => /\ Durations(file) = durations
                 /\ \A i \in DOMAIN durations : Scan(file).pieces[i][2] \in Url

\* ffmpeg.cc:161 reports an #EXTINF line without a line after it as a format
\* error: what a parse() has read that returned true has addresses only.
PiecesHaveAddresses ==
    \A o \in Editors : obj[o].ok =>
      \A i \in DOMAIN obj[o].pieces : obj[o].pieces[i][2] \in Url
=============================================================================
