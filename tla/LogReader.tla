------------------------------ MODULE LogReader ------------------------------
(***************************************************************************)
(* How the logs of one RDS instance are followed: LogReader of             *)
(* metrics/aws/logs.go, which polls the list of files, downloads what is   *)
(* new after a marker and hands it line by line to the parser of the       *)
(* RDSCollector over an unbuffered channel, and the collector's Stop.      *)
(*                                                                         *)
(* A position in a file counts half lines: line k is complete at position  *)
(* 2k, and an odd position is inside a line.  What the parser gets is a    *)
(* piece of the file, from a position to the end of a line: mostly a line, *)
(* but only its rest when a portion ended inside it, for write drops what  *)
(* no newline ends, and the marker is past it.                             *)
(* The files, the API of AWS and the parser are external; every request is *)
(* an action of its own, because the files grow between two of them.       *)
(***************************************************************************)
EXTENDS Naturals, Sequences, FiniteSets

CONSTANTS
  Files,       \* log files of the instance
  Settings,    \* what the instance may be like: a set of records of
               \*   portion: the lines that one download returns at most,
               \*   sameStamp: whether LastWritten may miss a write after another,
               \*   maxSize: bound, file -> its length in half lines
  MaxFailures, \* bound: requests that fail
  Nil

ASSUME LogReaderAssumption ==
  /\ Settings \subseteq [portion : Nat \ {0}, sameStamp : BOOLEAN, maxSize : [Files -> Nat]]
  /\ MaxFailures \in Nat
  /\ Nil \notin Nat /\ Nil \notin Files /\ Nil \notin [lastWritten : Nat, marker : Nat \cup {Nil}]

VARIABLES
  rds,         \* the setting of this behaviour: never changed
  size,        \* file -> its length
  stamp,       \* file -> LastWritten, 0 before it exists
  gone,        \* files that were deleted
  logs,        \* r.logs: file -> [lastWritten, marker] or Nil
  initialized, \* whether a refresh(true) was completed
  pc,          \* "new" in NewLogReader, "select", "files", "write", "stopped"
  todo,        \* the files of the list that are left, with their LastWritten
  seen,        \* seenLogs
  out,         \* the pieces of a portion that are left to write
  stopPc,      \* RDSCollector.Stop: "no", "reader", "parser", "done"
  parsing,     \* whether the parser still reads its channel
  sent,        \* history: file -> the pieces the parser received
  begun,       \* history: file -> where the first download began, or Nil
  cut,         \* history: file -> where a portion ended inside a line
  stamped,     \* history: file -> its length when its LastWritten last changed
  failures

server == <<size, stamp, gone>>
reader == <<logs, initialized, pc, todo, seen, out>>
stop   == <<stopPc, parsing>>
past   == <<sent, begun, cut, stamped>>
vars   == <<rds, server, reader, stop, past, failures>>

NoOut == [file |-> Nil, lines |-> <<>>]

Init ==
  /\ rds \in Settings
  /\ size = [f \in Files |-> 0] /\ stamp = [f \in Files |-> 0] /\ gone = {}
  /\ logs = [f \in Files |-> Nil] /\ initialized = FALSE
  /\ pc = "new" /\ todo = {} /\ seen = {} /\ out = NoOut
  /\ stopPc = "no" /\ parsing = TRUE
  /\ sent = [f \in Files |-> <<>>] /\ begun = [f \in Files |-> Nil]
  /\ cut = [f \in Files |-> {}] /\ stamped = [f \in Files |-> 0]
  /\ failures = 0

-----------------------------------------------------------------------------
(***************************************************************************)
(* The server                                                              *)
(***************************************************************************)

\* Something is written: a line, the beginning of one, or the rest of it.
Grow(f, n) ==
  /\ f \notin gone /\ size[f] + n <= rds.maxSize[f]
  /\ size' = [size EXCEPT ![f] = @ + n]
  /\ \/ /\ stamp' = [stamp EXCEPT ![f] = @ + 1]
        /\ stamped' = [stamped EXCEPT ![f] = size'[f]]
     \/ rds.sameStamp /\ stamp[f] > 0 /\ UNCHANGED <<stamp, stamped>>
  /\ UNCHANGED <<rds, gone, reader, stop, sent, begun, cut, failures>>

Expire(f) ==
  /\ stamp[f] > 0 /\ f \notin gone
  /\ gone' = gone \cup {f}
  /\ UNCHANGED <<rds, size, stamp, reader, stop, past, failures>>

Fails == failures < MaxFailures /\ failures' = failures + 1

Smaller(a, b) == IF a < b THEN a ELSE b

\* DownloadDBLogFilePortion after a marker, and without one: the end of the file.
After(f, marker) ==
  IF marker = Nil
  THEN [from |-> IF size[f] \div 2 > rds.portion THEN 2 * (size[f] \div 2 - rds.portion) ELSE 0,
        to   |-> size[f]]
  ELSE [from |-> marker, to |-> Smaller(size[f], 2 * (marker \div 2 + rds.portion))]

\* The pieces that write makes of the text from a to b: up to each newline in it.
\* What is behind the last newline is dropped (io.EOF).
Pieces(a, b) ==
  [i \in 1 .. (b \div 2 - a \div 2) |->
    [from |-> IF i = 1 THEN a ELSE 2 * (a \div 2 + i - 1),
     to   |-> 2 * (a \div 2 + i)]]

-----------------------------------------------------------------------------
(***************************************************************************)
(* refresh                                                                 *)
(***************************************************************************)

\* DescribeDBLogFiles, in NewLogReader or when the ticker fires.
Describe ==
  /\ pc \in {"new", "select"}
  /\ \/ /\ Fails
        /\ pc' = "select"
        /\ UNCHANGED <<todo, seen>>
     \/ /\ pc' = "files"
        /\ seen' = {f \in Files \ gone : stamp[f] > 0}
        /\ todo' = {[file |-> f, lastWritten |-> stamp[f]] : f \in seen'}
        /\ UNCHANGED failures
  /\ UNCHANGED <<rds, server, logs, initialized, out, stop, past>>

Meta(f) == IF logs[f] = Nil THEN [lastWritten |-> 0, marker |-> Nil] ELSE logs[f]

\* Mutant: the new LastWritten is kept although the download failed.
DownloadFails_ForGood(e) ==
  /\ pc = "files" /\ e \in todo
  /\ initialized => Meta(e.file).lastWritten < e.lastWritten
  /\ \/ Fails
     \/ e.file \in gone /\ UNCHANGED failures
  /\ logs' = [logs EXCEPT ![e.file] =
       [lastWritten |-> e.lastWritten, marker |-> Meta(e.file).marker]]
  /\ todo' = todo \ {e}
  /\ UNCHANGED <<rds, server, initialized, pc, seen, out, stop, past>>

\* A download that fails leaves the file to the next round; new files are in
\* r.logs all the same.
DownloadFails(e) ==
  /\ pc = "files" /\ e \in todo
  /\ initialized => Meta(e.file).lastWritten < e.lastWritten
  /\ \/ Fails
     \/ e.file \in gone /\ UNCHANGED failures
  /\ logs' = [logs EXCEPT ![e.file] = Meta(e.file)]
  /\ todo' = todo \ {e}
  /\ UNCHANGED <<rds, server, initialized, pc, seen, out, stop, past>>

\* refresh(true): the marker of the last line, nothing is written.
FindEnd(e) ==
  /\ pc = "files" /\ e \in todo /\ ~initialized /\ e.file \notin gone
  /\ logs' = [logs EXCEPT ![e.file] =
       [lastWritten |-> e.lastWritten, marker |-> size[e.file]]]
  /\ begun' = [begun EXCEPT ![e.file] = size[e.file]]
  /\ todo' = todo \ {e}
  /\ UNCHANGED <<rds, server, initialized, pc, seen, out, stop, sent, cut, stamped, failures>>

Unchanged(e) ==
  /\ pc = "files" /\ e \in todo /\ initialized
  /\ Meta(e.file).lastWritten >= e.lastWritten
  /\ todo' = todo \ {e}
  /\ UNCHANGED <<rds, server, logs, initialized, pc, seen, out, stop, past, failures>>

\* Mutant: the position after the portion is read off the whole file.
Download_Jumps(e) ==
  /\ pc = "files" /\ e \in todo /\ initialized /\ e.file \notin gone
  /\ Meta(e.file).lastWritten < e.lastWritten
  /\ LET p == After(e.file, Meta(e.file).marker) IN
     /\ logs' = [logs EXCEPT ![e.file] =
          [lastWritten |-> e.lastWritten, marker |-> size[e.file]]]
     /\ out' = [file |-> e.file, lines |-> Pieces(p.from, p.to)]
     /\ begun' = [begun EXCEPT ![e.file] = IF @ = Nil THEN p.from ELSE @]
     /\ cut' = [cut EXCEPT ![e.file] = @ \cup {n \in {p.to} : n % 2 = 1}]
  /\ todo' = todo \ {e}
  /\ pc' = "write"
  /\ UNCHANGED <<rds, server, initialized, seen, stop, sent, stamped, failures>>

\* What is new since the marker.  The marker moves past all of it, a line that is
\* not complete yet included: its beginning is lost, and its rest comes later as
\* a piece of its own.
Download(e) ==
  /\ pc = "files" /\ e \in todo /\ initialized /\ e.file \notin gone
  /\ Meta(e.file).lastWritten < e.lastWritten
  /\ LET p == After(e.file, Meta(e.file).marker) IN
     /\ logs' = [logs EXCEPT ![e.file] =
          [lastWritten |-> e.lastWritten, marker |-> p.to]]
     /\ out' = [file |-> e.file, lines |-> Pieces(p.from, p.to)]
     /\ begun' = [begun EXCEPT ![e.file] = IF @ = Nil THEN p.from ELSE @]
     /\ cut' = [cut EXCEPT ![e.file] = @ \cup {n \in {p.to} : n % 2 = 1}]
  /\ todo' = todo \ {e}
  /\ pc' = "write"
  /\ UNCHANGED <<rds, server, initialized, seen, stop, sent, stamped, failures>>

\* write: one piece at a time, as the parser takes them.
Write ==
  /\ pc = "write"
  /\ IF out.lines = <<>>
     THEN pc' = "files" /\ out' = NoOut /\ UNCHANGED sent
     ELSE /\ parsing
          /\ sent' = [sent EXCEPT ![out.file] = Append(@, Head(out.lines))]
          /\ out' = [out EXCEPT !.lines = Tail(@)]
          /\ UNCHANGED pc
  /\ UNCHANGED <<rds, server, logs, initialized, todo, seen, stop, begun, cut, stamped, failures>>

\* The end of refresh: files that are no longer listed are forgotten.
Forget ==
  /\ pc = "files" /\ todo = {}
  /\ logs' = [f \in Files |-> IF f \in seen THEN logs[f] ELSE Nil]
  /\ initialized' = TRUE
  /\ pc' = "select" /\ seen' = {}
  /\ UNCHANGED <<rds, server, todo, out, stop, past, failures>>

-----------------------------------------------------------------------------
(***************************************************************************)
(* RDSCollector.Stop                                                       *)
(***************************************************************************)

\* Mutant: the parser is stopped first.
StopCalled_ParserFirst ==
  /\ stopPc = "no" /\ pc = "select"
  /\ stopPc' = "reader" /\ parsing' = FALSE
  /\ UNCHANGED <<rds, server, reader, past, failures>>

\* Called at any time after the constructor; what the reader does before it is
\* back at its select is the same whether Stop was called before or during it.
StopCalled ==
  /\ stopPc = "no" /\ pc = "select"
  /\ stopPc' = "reader"
  /\ UNCHANGED <<rds, server, reader, parsing, past, failures>>

\* LogReader.Stop: the send meets the receive of the reader's select.
StopReader ==
  /\ stopPc = "reader" /\ pc = "select"
  /\ pc' = "stopped" /\ stopPc' = "parser"
  /\ UNCHANGED <<rds, server, logs, initialized, todo, seen, out, parsing, past, failures>>

StopParser ==
  /\ stopPc = "parser"
  /\ parsing' = FALSE /\ stopPc' = "done"
  /\ UNCHANGED <<rds, server, reader, past, failures>>

-----------------------------------------------------------------------------

Server == \E f \in Files : (\E n \in 1 .. 2 : Grow(f, n)) \/ Expire(f)

Refresh ==
  \/ \E e \in todo : DownloadFails(e) \/ FindEnd(e) \/ Unchanged(e) \/ Download(e)
  \/ Write \/ Forget

Next == Server \/ Describe \/ Refresh \/ StopCalled \/ StopReader \/ StopParser

Spec == Init /\ [][Next]_vars

\* The ticker fires again and again, requests return (the session has no timeout,
\* so this is assumed of AWS), the reader and its parser run.  A select
\* with two ready cases picks either, so a stop that keeps being offered is
\* taken in the end: strong fairness.
Fairness ==
  WF_vars(Describe) /\ WF_vars(Refresh) /\ SF_vars(StopReader) /\ WF_vars(StopParser)

FairSpec == Spec /\ Fairness

-----------------------------------------------------------------------------
(***************************************************************************)
(* Properties                                                              *)
(***************************************************************************)

\* Types, and what the program counters imply.
TypeOK ==
  /\ \A f \in Files : size[f] \in 0 .. rds.maxSize[f] /\ (stamp[f] = 0 <=> size[f] = 0)
  /\ \A f \in Files :
       logs[f] # Nil /\ logs[f].marker # Nil => logs[f].marker <= size[f]
  /\ pc # "write" => out = NoOut
  /\ pc \notin {"files", "write"} => todo = {}
  /\ stopPc \in {"parser", "done"} => pc = "stopped"

\* No text reaches the parser twice or out of the order of the file, although
\* files grow between the list, the download and the next round.
InOrderOnce ==
  \A f \in Files : \A i, j \in DOMAIN sent[f] :
    i < j => sent[f][i].to <= sent[f][j].from

\* Half line h of a file is in a piece of s.
Holds(s, h) == \E i \in DOMAIN s : s[i].from <= h /\ h < s[i].to

\* What is lost of a file that is followed: of the text between where it was first
\* read and the marker, the parser has got, or is about to get, everything but the
\* beginnings of the lines inside which a portion ended.  Rounds that fail, small
\* portions and files that grow meanwhile lose nothing else.
OnlyCutsAreLost ==
  \A f \in Files :
    logs[f] # Nil /\ logs[f].marker # Nil =>
      \A h \in 0 .. size[f] - 1 :
        (Holds(sent[f], h) \/ (out.file = f /\ Holds(out.lines, h)))
        <=> (begun[f] <= h /\ h < logs[f].marker /\ h + 1 \notin cut[f])

\* The parser gets a file in order and once, and what it does not get of it are
\* exactly the lines' beginnings that write drops.
FollowedExactly == InOrderOnce /\ OnlyCutsAreLost

\* If a portion holds the file, the reader passes, in every file that stays, what
\* was there when its LastWritten last changed, whatever requests failed: all of it
\* when LastWritten tells writes apart.  (What is beyond one portion waits for the
\* next write to the file, and so does a write that LastWritten misses.)
CatchesUp ==
  \A f \in Files :
    rds.maxSize[f] > 2 * rds.portion
    \/ <>[](f \in gone \/ stopPc # "no" \/ size[f] = 0
            \/ (logs[f] # Nil /\ logs[f].marker # Nil
                /\ logs[f].marker >= stamped[f] /\ out = NoOut))

\* RDSCollector.Stop returns: the reader is not stuck in the channel of a parser
\* that was stopped before it.
StopReturns == stopPc = "reader" ~> stopPc = "done"
=============================================================================
