--------------------------- MODULE LogReaderProofs ---------------------------
(***************************************************************************)
(* The invariants of LogReader for any files, portions and failures.       *)
(*                                                                         *)
(* What the parser got of a file is a run of consecutive lines that begins *)
(* where the first download began, each of them whole or, where a portion  *)
(* ended in it, only its rest; what is being written continues the run,    *)
(* and both together end at the marker (Consecutive).  A marker inside a   *)
(* line is one of the cuts, and no cut is past it (Cuts): so the next      *)
(* portion begins with the rest of that line, and what was sent before is  *)
(* not affected by a new cut.  That a marker is never lost while its file  *)
(* is there (Followed) needs that the list of a round has every file that  *)
(* is followed (Listed): the end of the round forgets the others.          *)
(***************************************************************************)
EXTENDS LogReader, SequenceTheorems, TLAPS

MetaRecord == [lastWritten : Nat, marker : Nat \cup {Nil}]

Text == [from : Nat, to : Nat]

Lines == Seq(Text)

Types ==
  /\ rds \in Settings
  /\ size \in [Files -> Nat] /\ stamp \in [Files -> Nat]
  /\ logs \in [Files -> MetaRecord \cup {Nil}]
  /\ sent \in [Files -> Lines] /\ begun \in [Files -> Nat \cup {Nil}]
  /\ cut \in [Files -> SUBSET Nat] /\ stamped \in [Files -> Nat]
  /\ out \in [file : Files \cup {Nil}, lines : Lines]
  /\ todo \subseteq [file : Files, lastWritten : Nat]

Marked(f) == logs[f] # Nil /\ logs[f].marker # Nil

Pending(f) == IF out.file = f THEN Len(out.lines) ELSE 0

Listed ==
  /\ \A e \in todo : e.file \in seen /\ stamp[e.file] > 0
  /\ pc \in {"files", "write"} => \A f \in Files \ gone : begun[f] # Nil => f \in seen

Followed == \A f \in Files :
  /\ begun[f] # Nil /\ f \notin gone => Marked(f)
  /\ begun[f] # Nil => stamp[f] > 0
  /\ begun[f] = Nil => sent[f] = <<>> /\ out.file # f /\ ~Marked(f)

\* What the parser gets of the k-th line of a file that was first read at b and in
\* which portions ended at the positions c.
Piece(c, b, k) ==
  [from |-> IF 2 * k - 1 \in c \/ 2 * k - 1 = b THEN 2 * k - 1 ELSE 2 * k - 2,
   to   |-> 2 * k]

Consecutive == \A f \in Files : begun[f] # Nil =>
  /\ \A i \in 1..Len(sent[f]) :
       sent[f][i] = Piece(cut[f], begun[f], begun[f] \div 2 + i)
  /\ out.file = f =>
       \A i \in 1..Len(out.lines) :
         out.lines[i] = Piece(cut[f], begun[f], begun[f] \div 2 + Len(sent[f]) + i)
  /\ Marked(f) => Len(sent[f]) + Pending(f) = (logs[f].marker \div 2) - (begun[f] \div 2)

Cuts == \A f \in Files :
  /\ \A c \in cut[f] : c % 2 = 1
  /\ begun[f] = Nil => cut[f] = {}
  /\ begun[f] # Nil /\ Marked(f) =>
       /\ begun[f] <= logs[f].marker
       /\ \A c \in cut[f] : c <= logs[f].marker
       /\ logs[f].marker % 2 = 1 => logs[f].marker \in cut[f] \cup {begun[f]}

Writing ==
  /\ ~initialized => out = NoOut /\ \A f \in Files : sent[f] = <<>> /\ cut[f] = {}
  /\ out.file = Nil => out.lines = <<>>

Inv == Types /\ TypeOK /\ Listed /\ Followed /\ Consecutive /\ Cuts /\ Writing

-----------------------------------------------------------------------------

LEMMA Half == \A m \in Nat : m \div 2 \in Nat /\ 2 * (m \div 2) <= m /\ m <= 2 * (m \div 2) + 1
OBVIOUS

LEMMA HalfGrows == \A m, n \in Nat : m <= n => m \div 2 <= n \div 2
OBVIOUS

LEMMA Odd == \A m \in Nat : m % 2 = 1 <=> m = 2 * (m \div 2) + 1
OBVIOUS

LEMMA Moves == \A a, n \in Nat, k \in Int : /\ a + (n + 1) + k = a + n + (k + 1)
                                             /\ n + 1 + (k - 1) = n + k
OBVIOUS

\* A portion lies in the file and does not end before it begins.
LEMMA Portion ==
  ASSUME Types, NEW f \in Files, NEW m \in Nat \cup {Nil}, m # Nil => m <= size[f]
  PROVE  LET p == After(f, m)
         IN  /\ p.from \in Nat /\ p.to \in Nat /\ p.from <= p.to /\ p.to <= size[f]
             /\ m # Nil => p.from = m
<1>1. size[f] \in Nat /\ rds.portion \in Nat /\ rds.portion > 0
  BY LogReaderAssumption DEF Types
<1>2. CASE m = Nil
  <2>1. size[f] \div 2 \in Nat /\ 2 * (size[f] \div 2) <= size[f]
    BY <1>1, Half
  <2> QED BY <1>1, <1>2, <2>1 DEF After
<1>3. CASE m # Nil
  <2>1. m \in Nat /\ m \div 2 \in Nat /\ m <= 2 * (m \div 2) + 1 /\ m <= size[f]
    BY <1>3, Half
  <2>2. m <= 2 * (m \div 2 + rds.portion)
    BY <1>1, <2>1
  <2> QED BY <1>1, <1>3, <2>1, <2>2 DEF After, Smaller
<1> QED BY <1>2, <1>3

\* What the type invariant says of one file.
LEMMA FileTypes ==
  ASSUME Types, NEW f \in Files
  PROVE  /\ size[f] \in Nat /\ stamp[f] \in Nat /\ rds.maxSize[f] \in Nat
         /\ logs[f] # Nil => logs[f] \in MetaRecord /\ logs[f].lastWritten \in Nat
                             /\ (logs[f].marker # Nil => logs[f].marker \in Nat)
         /\ sent[f] \in Lines /\ Len(sent[f]) \in Nat
         /\ begun[f] # Nil => begun[f] \in Nat /\ begun[f] \div 2 \in Nat
         /\ out.lines \in Lines /\ Len(out.lines) \in Nat
         /\ cut[f] \subseteq Nat
<1>1. rds.maxSize \in [Files -> Nat]
  BY LogReaderAssumption DEF Types
<1>2. logs[f] \in MetaRecord \cup {Nil} /\ begun[f] \in Nat \cup {Nil}
  BY DEF Types
<1>3. sent[f] \in Lines /\ out.lines \in Lines
  BY DEF Types
<1>4. Len(sent[f]) \in Nat /\ Len(out.lines) \in Nat
  BY <1>3 DEF Lines
<1>5. begun[f] # Nil => begun[f] \in Nat /\ begun[f] \div 2 \in Nat
  BY <1>2, Half
<1>6. size[f] \in Nat /\ stamp[f] \in Nat
  BY DEF Types
<1>7. logs[f] # Nil => logs[f] \in MetaRecord /\ logs[f].lastWritten \in Nat
                             /\ (logs[f].marker # Nil => logs[f].marker \in Nat)
  BY <1>2 DEF MetaRecord
<1>8. cut[f] \subseteq Nat
  BY DEF Types
<1> QED BY <1>1, <1>3, <1>4, <1>5, <1>6, <1>7, <1>8

\* A piece of the k-th line.
LEMMA PieceType ==
  ASSUME NEW c, NEW b, NEW k \in Nat \ {0}
  PROVE  Piece(c, b, k) \in Text
BY DEF Piece, Text

LEMMA InitInv == Init => Inv
<1> SUFFICES ASSUME Init PROVE Inv
  OBVIOUS
<1> USE DEF Init
<1>1. NoOut \in [file : Files \cup {Nil}, lines : Lines] /\ <<>> \in Lines
  BY DEF NoOut, Lines
<1>2. Types
  BY <1>1, LogReaderAssumption DEF Types
<1>3. rds.maxSize \in [Files -> Nat]
  BY LogReaderAssumption
<1>4. TypeOK
  BY <1>3 DEF TypeOK
<1>5. Listed /\ Followed /\ Consecutive /\ Cuts /\ Writing
  BY LogReaderAssumption DEF Listed, Followed, Consecutive, Cuts, Writing, Marked, NoOut
<1> QED BY <1>2, <1>4, <1>5 DEF Inv

-----------------------------------------------------------------------------
(* What the server does. *)

LEMMA GrowInv == ASSUME Inv, NEW f \in Files, NEW n \in 1..2, Grow(f, n) PROVE Inv'
<1> USE DEF Grow, reader, stop
<1>1. /\ stamped \in [Files -> Nat] /\ size \in [Files -> Nat] /\ stamp \in [Files -> Nat]
      /\ rds.maxSize \in [Files -> Nat]
  BY LogReaderAssumption DEF Inv, Types
<1>2. /\ size' = [size EXCEPT ![f] = @ + n] /\ size' \in [Files -> Nat]
      /\ stamped' \in [Files -> Nat] /\ stamp' \in [Files -> Nat] /\ stamp'[f] > 0
      /\ \A g \in Files \ {f} : stamp'[g] = stamp[g] /\ size'[g] = size[g]
      /\ size'[f] = size[f] + n
  BY <1>1
<1>3. \A g \in Files : size[g] <= size'[g] /\ (stamp[g] > 0 => stamp'[g] > 0)
  BY <1>1, <1>2
<1>4. UNCHANGED <<rds, gone, logs, initialized, pc, todo, seen, out, stopPc, parsing, sent, begun, cut, failures>>
  OBVIOUS
<1>5. size'[f] <= rds.maxSize[f] /\ size'[f] > 0
  BY <1>1, <1>2
<1> HIDE DEF Grow, reader, stop
<1>6. Types'
  BY <1>2, <1>4 DEF Inv, Types
<1>7. TypeOK'
  <2>1. \A g \in Files : size'[g] \in 0..rds.maxSize[g] /\ (stamp'[g] = 0 <=> size'[g] = 0)
    BY <1>1, <1>2, <1>5 DEF Inv, TypeOK
  <2>2. \A g \in Files : logs[g] # Nil /\ logs[g].marker # Nil => logs[g].marker <= size'[g]
    <3> SUFFICES ASSUME NEW g \in Files, logs[g] # Nil, logs[g].marker # Nil
                 PROVE  logs[g].marker <= size'[g]
      OBVIOUS
    <3>1. logs[g].marker \in Nat /\ logs[g].marker <= size[g]
      BY FileTypes DEF Inv, TypeOK
    <3>2. size[g] \in Nat /\ size'[g] \in Nat /\ size[g] <= size'[g]
      BY <1>1, <1>2, <1>3
    <3> QED BY <3>1, <3>2
  <2>3. /\ pc # "write" => out = NoOut
        /\ pc \notin {"files", "write"} => todo = {}
        /\ stopPc \in {"parser", "done"} => pc = "stopped"
    BY DEF Inv, TypeOK
  <2> QED BY <1>4, <2>1, <2>2, <2>3 DEF TypeOK
<1>8. Listed'
  <2>1. \A e \in todo : e.file \in Files
    BY DEF Inv, Types
  <2> QED BY <1>3, <1>4, <2>1 DEF Inv, Listed
<1>9. Followed'
  BY <1>3, <1>4 DEF Inv, Followed, Marked
<1>10. Consecutive'
  BY <1>4 DEF Inv, Consecutive, Marked, Pending
<1>11. Cuts' /\ Writing'
  BY <1>4 DEF Inv, Cuts, Writing, Marked
<1> QED BY <1>6, <1>7, <1>8, <1>9, <1>10, <1>11 DEF Inv

\* Steps that touch neither logs nor what was read.
LEMMA AsideInv ==
  ASSUME Inv,
         UNCHANGED <<rds, size, stamp, logs, initialized, sent, begun, cut, stamped, out>>, gone \subseteq gone',
         todo' \subseteq todo, seen' = seen,
         pc' # "write" => out = NoOut,
         pc' \notin {"files", "write"} => todo' = {},
         stopPc' \in {"parser", "done"} => pc' = "stopped",
         pc' \in {"files", "write"} => pc \in {"files", "write"}
  PROVE  Inv'
<1>1. Types'
  BY DEF Inv, Types
<1>2. TypeOK'
  BY DEF Inv, TypeOK
<1>3. Listed' /\ Followed'
  BY DEF Inv, Listed, Followed, Marked
<1>4. Consecutive'
  BY DEF Inv, Consecutive, Marked, Pending
<1>5. Cuts' /\ Writing'
  BY DEF Inv, Cuts, Writing, Marked
<1> QED BY <1>1, <1>2, <1>3, <1>4, <1>5 DEF Inv

LEMMA ExpireInv == ASSUME Inv, NEW f \in Files, Expire(f) PROVE Inv'
<1>1. UNCHANGED <<rds, size, stamp, logs, initialized, sent, begun, cut, stamped, out, todo, seen,
                  pc, stopPc>>
      /\ gone \subseteq gone'
  BY DEF Expire, reader, stop, past
<1> QED BY <1>1, AsideInv DEF Inv, TypeOK

LEMMA StopInv == ASSUME Inv, StopCalled \/ StopReader \/ StopParser PROVE Inv'
<1>1. /\ UNCHANGED <<rds, size, stamp, gone, logs, initialized, sent, begun, cut, stamped, out, todo,
                     seen>>
      /\ (pc' = pc \/ (pc = "select" /\ pc' = "stopped"))
  <2>1. CASE StopCalled
    BY <2>1 DEF StopCalled, server, reader, past
  <2>2. CASE StopReader
    BY <2>2 DEF StopReader, server, past
  <2>3. CASE StopParser
    BY <2>3 DEF StopParser, server, reader, past
  <2> QED BY <2>1, <2>2, <2>3
<1>2. stopPc' \in {"parser", "done"} => pc' = "stopped"
  <2>1. CASE StopCalled
    BY <2>1 DEF StopCalled
  <2>2. CASE StopReader
    BY <2>2 DEF StopReader
  <2>3. CASE StopParser
    BY <2>3 DEF StopParser, reader, Inv, TypeOK
  <2> QED BY <2>1, <2>2, <2>3
<1>3. /\ pc' # "write" => out = NoOut
      /\ pc' \notin {"files", "write"} => todo = {}
  BY <1>1 DEF Inv, TypeOK
<1> QED BY <1>1, <1>3, <1>2, AsideInv

LEMMA StutterInv == ASSUME Inv, UNCHANGED vars PROVE Inv'
<1>1. UNCHANGED <<rds, size, stamp, gone, logs, initialized, sent, begun, cut, stamped, out, todo,
                  seen, pc, stopPc>>
  BY DEF vars, server, reader, stop, past
<1> QED BY <1>1, AsideInv DEF Inv, TypeOK

-----------------------------------------------------------------------------
(* A round. *)

LEMMA DescribeInv == ASSUME Inv, Describe PROVE Inv'
<1>1. /\ UNCHANGED <<rds, size, stamp, gone, logs, initialized, out, stopPc, parsing, sent, begun,
                   cut, stamped>>
      /\ pc \in {"new", "select"}
      /\ \/ pc' = "select" /\ UNCHANGED <<todo, seen>>
         \/ /\ pc' = "files"
            /\ seen' = {f \in Files \ gone : stamp[f] > 0}
            /\ todo' = {[file |-> f, lastWritten |-> stamp[f]] : f \in seen'}
  BY DEF Describe, server, stop, past
<1>2. out = NoOut /\ todo = {} /\ stopPc \notin {"parser", "done"}
  BY <1>1 DEF Inv, TypeOK
<1>3. stamp \in [Files -> Nat]
  BY DEF Inv, Types
<1>4. todo' \subseteq [file : Files, lastWritten : Nat]
      /\ \A e \in todo' : e.file \in seen' /\ stamp[e.file] > 0
  BY <1>1, <1>2, <1>3
<1>5. pc' \in {"files", "write"} => \A f \in Files \ gone : begun[f] # Nil => f \in seen'
  BY <1>1 DEF Inv, Followed
<1>6. Types' /\ Followed' /\ Writing'
  BY <1>1, <1>4 DEF Inv, Types, Followed, Writing, Marked
<1>7. Consecutive'
  BY <1>1 DEF Inv, Consecutive, Marked, Pending
<1>8. Cuts'
  BY <1>1 DEF Inv, Cuts, Marked
<1>9. TypeOK'
  BY <1>1, <1>2 DEF Inv, TypeOK
<1>10. Listed'
  BY <1>1, <1>4, <1>5 DEF Listed
<1> QED BY <1>6, <1>7, <1>9, <1>10, <1>8 DEF Inv

\* A file that needs nothing, or cannot be had.
LEMMA PassedOver ==
  ASSUME Inv, NEW e \in todo, Unchanged(e) \/ DownloadFails(e) PROVE Inv'
<1> DEFINE f == e.file
<1>1. f \in Files /\ e.lastWritten \in Nat
  BY DEF Inv, Types
<1>2. /\ UNCHANGED <<rds, size, stamp, gone, initialized, pc, seen, out, stopPc, parsing, sent, begun,
                   cut, stamped>>
      /\ pc = "files" /\ todo' = todo \ {e}
  BY DEF Unchanged, DownloadFails, server, stop, past
<1>3. logs' = logs \/ logs' = [logs EXCEPT ![f] = Meta(f)]
  BY DEF Unchanged, DownloadFails
<1>4. logs \in [Files -> MetaRecord \cup {Nil}]
  BY DEF Inv, Types
<1>5. \A g \in Files : \/ logs'[g] = logs[g]
                       \/ logs[g] = Nil /\ logs'[g] = [lastWritten |-> 0, marker |-> Nil]
  BY <1>1, <1>3, <1>4 DEF Meta
<1>6. [lastWritten |-> 0, marker |-> Nil] \in MetaRecord
  BY DEF MetaRecord
<1>7. logs' \in [Files -> MetaRecord \cup {Nil}]
  BY <1>1, <1>3, <1>4, <1>6 DEF Meta
<1>8. \A g \in Files : /\ Marked(g)' <=> Marked(g)
                       /\ Marked(g) => logs'[g] = logs[g]
  BY <1>5, LogReaderAssumption DEF Marked
<1> HIDE DEF f
<1>9. Types' /\ Listed'
  BY <1>2, <1>7 DEF Inv, Types, Listed
<1>10. TypeOK'
  BY <1>2, <1>8 DEF Inv, TypeOK, Marked
<1>11. Followed'
  BY <1>2, <1>8 DEF Inv, Followed
<1>12. Consecutive'
  <2> SUFFICES ASSUME NEW g \in Files, begun[g] # Nil
               PROVE  /\ \A i \in 1..Len(sent[g]) :
                           sent[g][i] = Piece(cut[g], begun[g], begun[g] \div 2 + i)
                      /\ out.file = g =>
                           \A i \in 1..Len(out.lines) :
                             out.lines[i] = Piece(cut[g], begun[g], begun[g] \div 2 + Len(sent[g]) + i)
                      /\ Marked(g)' => Len(sent[g]) + Pending(g)'
                                       = (logs'[g].marker \div 2) - (begun[g] \div 2)
    BY <1>2 DEF Consecutive
  <2>1. Pending(g)' = Pending(g)
    BY <1>2 DEF Pending
  <2>2. Marked(g)' => Marked(g) /\ logs'[g] = logs[g]
    BY <1>8
  <2> QED BY <2>1, <2>2 DEF Inv, Consecutive
<1>13. Cuts' /\ Writing'
  BY <1>2, <1>8 DEF Inv, Cuts, Writing
<1> QED BY <1>9, <1>10, <1>11, <1>12, <1>13 DEF Inv

\* Only files of the list are read, and the marker of f moves to m.
LEMMA FindEndInv == ASSUME Inv, NEW e \in todo, FindEnd(e) PROVE Inv'
<1> DEFINE f == e.file
<1>1. f \in Files /\ e.lastWritten \in Nat /\ f \in seen /\ stamp[f] > 0
  BY DEF Inv, Types, Listed
<1>2. /\ UNCHANGED <<rds, size, stamp, gone, initialized, pc, seen, out, stopPc, parsing, sent, cut,
                   stamped>>
      /\ pc = "files" /\ todo' = todo \ {e} /\ ~initialized
      /\ logs' = [logs EXCEPT ![f] = [lastWritten |-> e.lastWritten, marker |-> size[f]]]
      /\ begun' = [begun EXCEPT ![f] = size[f]]
  BY DEF FindEnd, server, stop
<1>3. size[f] \in Nat /\ size[f] \div 2 \in Nat
  BY <1>1, FileTypes, Half DEF Inv
<1>4. [lastWritten |-> e.lastWritten, marker |-> size[f]] \in MetaRecord
  BY <1>1, <1>3 DEF MetaRecord
<1>5. logs \in [Files -> MetaRecord \cup {Nil}] /\ begun \in [Files -> Nat \cup {Nil}]
  BY DEF Inv, Types
<1>6. out = NoOut /\ \A g \in Files : sent[g] = <<>> /\ cut[g] = {}
  BY <1>2 DEF Inv, Writing
<1> HIDE DEF f
<1>7. /\ begun'[f] = size[f] /\ \A g \in Files \ {f} : begun'[g] = begun[g] /\ logs'[g] = logs[g]
      /\ logs'[f] # Nil /\ logs'[f].marker = size[f]
  BY <1>1, <1>2, <1>4, <1>5, LogReaderAssumption DEF MetaRecord
<1>8. begun'[f] # Nil /\ Marked(f)' /\ \A g \in Files \ {f} : Marked(g)' <=> Marked(g)
  BY <1>3, <1>7, LogReaderAssumption DEF Marked
<1>9. Types'
  BY <1>1, <1>2, <1>3, <1>4, <1>5 DEF Inv, Types
<1>10. TypeOK'
  BY <1>1, <1>2, <1>3, <1>7 DEF Inv, TypeOK
<1>11. Listed'
  BY <1>1, <1>2, <1>7 DEF Inv, Listed
<1>12. Followed'
  BY <1>1, <1>2, <1>7, <1>8 DEF Inv, Followed
<1>13. Consecutive'
  <2> SUFFICES ASSUME NEW g \in Files, begun'[g] # Nil
               PROVE  /\ \A i \in 1..Len(sent'[g]) :
                           sent'[g][i] = Piece(cut'[g], begun'[g], begun'[g] \div 2 + i)
                      /\ out'.file = g =>
                           \A i \in 1..Len(out'.lines) :
                             out'.lines[i] = Piece(cut'[g], begun'[g],
                                                   begun'[g] \div 2 + Len(sent'[g]) + i)
                      /\ Marked(g)' => Len(sent'[g]) + Pending(g)'
                                       = (logs'[g].marker \div 2) - (begun'[g] \div 2)
    BY DEF Consecutive
  <2>1. sent'[g] = <<>> /\ Len(sent'[g]) = 0 /\ out'.file # g /\ Pending(g)' = 0
    BY <1>2, <1>6, LogReaderAssumption DEF NoOut, Pending
  <2>2. CASE g = f
    <3>1. (logs'[g].marker \div 2) - (begun'[g] \div 2) = 0
      BY <1>3, <1>7, <2>2
    <3> QED BY <2>1, <3>1
  <2>3. CASE g # f
    <3>1. begun[g] # Nil /\ begun'[g] = begun[g] /\ logs'[g] = logs[g] /\ (Marked(g)' <=> Marked(g))
      BY <1>7, <1>8, <2>3
    <3>2. Pending(g) = 0 /\ sent'[g] = sent[g]
      BY <1>2, <1>6, LogReaderAssumption DEF NoOut, Pending
    <3>3. Marked(g) => Len(sent[g]) + Pending(g) = (logs[g].marker \div 2) - (begun[g] \div 2)
      BY <3>1 DEF Inv, Consecutive
    <3> QED BY <2>1, <3>1, <3>2, <3>3
  <2> QED BY <2>1, <2>2, <2>3
<1>14. Writing'
  BY <1>2 DEF Inv, Writing
<1>15. Cuts'
  BY <1>2, <1>3, <1>6, <1>7, <1>8 DEF Inv, Cuts
<1> QED BY <1>9, <1>10, <1>11, <1>12, <1>13, <1>14, <1>15 DEF Inv

\* The pieces of a portion continue what was sent: the first begins where the
\* portion does, for a portion begins inside a line only where the one before it,
\* or the first reading, ended.
LEMMA PiecesType ==
  ASSUME NEW a \in Nat, NEW b \in Nat, a <= b
  PROVE  Pieces(a, b) \in Lines /\ Len(Pieces(a, b)) = b \div 2 - a \div 2
<1>1. a \div 2 \in Nat /\ b \div 2 \in Nat /\ b \div 2 - a \div 2 \in Nat
  BY Half, HalfGrows
<1>2. \A i \in 1 .. (b \div 2 - a \div 2) :
        [from |-> IF i = 1 THEN a ELSE 2 * (a \div 2 + i - 1), to |-> 2 * (a \div 2 + i)] \in Text
  BY <1>1 DEF Text
<1> DEFINE n == b \div 2 - a \div 2
<1>3. Pieces(a, b) \in Lines
  <2>1. n \in Nat /\ Pieces(a, b) \in [1..n -> Text]
    BY <1>1, <1>2 DEF Pieces
  <2> HIDE DEF n
  <2> QED BY <2>1 DEF Lines
<1>4. Len(Pieces(a, b)) = b \div 2 - a \div 2
  BY <1>1 DEF Pieces
<1> QED BY <1>3, <1>4

LEMMA PieceOfPortion ==
  ASSUME NEW a \in Nat, NEW b \in Nat, a <= b, NEW c \in SUBSET Nat, NEW n \in Nat, n <= a,
         \A x \in c : x <= a \/ x = b,
         a % 2 = 1 => a \in c \cup {n},
         NEW i \in 1 .. (b \div 2 - a \div 2)
  PROVE  Pieces(a, b)[i] = Piece(c, n, a \div 2 + i)
<1> DEFINE h == a \div 2
           l == b \div 2
           k == h + i
<1>1. /\ h \in Nat /\ l \in Nat /\ 2 * h <= a /\ a <= 2 * h + 1 /\ 2 * l <= b
      /\ (a % 2 = 1 <=> a = 2 * h + 1)
  BY Half, Odd
<1>2. Pieces(a, b)[i] = [from |-> IF i = 1 THEN a ELSE 2 * (h + i - 1), to |-> 2 * (h + i)]
  BY DEF Pieces
<1>3. i \in 1 .. (l - h)
  OBVIOUS
<1> HIDE DEF h, l
<1>4. k \in Nat /\ 2 * k - 1 \in Nat /\ 2 * k - 1 < b /\ 2 * k - 2 = 2 * (h + i - 1)
  BY <1>1, <1>3
<1>5. CASE i = 1
  <2>1. 2 * k - 1 = 2 * h + 1 /\ 2 * k - 2 = 2 * h
    BY <1>1, <1>5
  <2>2. CASE a = 2 * h + 1
    <3>1. 2 * k - 1 \in c \/ 2 * k - 1 = n
      BY <1>1, <2>1, <2>2
    <3> QED BY <1>2, <1>5, <2>1, <2>2, <3>1 DEF Piece, h
  <2>3. CASE a = 2 * h
    <3>1. 2 * k - 1 \notin c /\ 2 * k - 1 # n
      BY <1>1, <1>4, <2>1, <2>3
    <3> QED BY <1>2, <1>5, <2>1, <2>3, <3>1 DEF Piece, h
  <2> QED BY <1>1, <2>2, <2>3
<1>6. CASE i # 1
  <2>1. 2 * k - 1 > a
    BY <1>1, <1>3, <1>6
  <2>2. 2 * k - 1 \notin c /\ 2 * k - 1 # n
    BY <1>4, <2>1
  <2> QED BY <1>2, <1>4, <1>6, <2>2 DEF Piece, h
<1> QED BY <1>5, <1>6

LEMMA DownloadInv == ASSUME Inv, NEW e \in todo, Download(e) PROVE Inv'
<1> DEFINE f == e.file
           p == After(f, Meta(f).marker)
           lines == Pieces(p.from, p.to)
           d == {n \in {p.to} : n % 2 = 1}
<1>1. f \in Files /\ e.lastWritten \in Nat /\ f \in seen /\ stamp[f] > 0
  BY DEF Inv, Types, Listed
<1>2. /\ UNCHANGED <<rds, size, stamp, gone, initialized, seen, stopPc, parsing, sent, stamped>>
      /\ pc = "files" /\ pc' = "write" /\ todo' = todo \ {e} /\ initialized /\ f \notin gone
      /\ logs' = [logs EXCEPT ![f] = [lastWritten |-> e.lastWritten, marker |-> p.to]]
      /\ out' = [file |-> f, lines |-> lines]
      /\ begun' = [begun EXCEPT ![f] = IF @ = Nil THEN p.from ELSE @]
      /\ cut' = [cut EXCEPT ![f] = @ \cup d]
  BY DEF Download, server, stop
<1>3. /\ Meta(f).marker \in Nat \cup {Nil}
      /\ Meta(f).marker # Nil => Meta(f).marker <= size[f]
      /\ Meta(f).marker # Nil <=> Marked(f)
      /\ Marked(f) => Meta(f).marker = logs[f].marker
  BY <1>1, FileTypes DEF Inv, TypeOK, Meta, Marked
<1>4. /\ p.from \in Nat /\ p.to \in Nat /\ p.from <= p.to /\ p.to <= size[f]
      /\ Marked(f) => p.from = logs[f].marker
  BY <1>1, <1>3, Portion DEF Inv
<1> HIDE DEF p
<1>5. /\ p.from \div 2 \in Nat /\ p.to \div 2 \in Nat /\ p.from \div 2 <= p.to \div 2
  BY <1>4, Half, HalfGrows
<1>6. lines \in Lines /\ Len(lines) = p.to \div 2 - p.from \div 2
  BY <1>4, PiecesType
<1>7. d \subseteq Nat /\ \A n \in d : n = p.to /\ n % 2 = 1
  BY <1>4
<1>8. p.to % 2 = 1 => p.to \in d
  OBVIOUS
<1>9. /\ logs \in [Files -> MetaRecord \cup {Nil}] /\ begun \in [Files -> Nat \cup {Nil}]
      /\ cut \in [Files -> SUBSET Nat]
  BY DEF Inv, Types
<1>10. [lastWritten |-> e.lastWritten, marker |-> p.to] \in MetaRecord
  BY <1>1, <1>4 DEF MetaRecord
<1>11. out = NoOut
  BY <1>2 DEF Inv, TypeOK
<1> HIDE DEF f, lines, d
<1>12. /\ logs' \in [Files -> MetaRecord \cup {Nil}] /\ begun' \in [Files -> Nat \cup {Nil}]
       /\ cut' \in [Files -> SUBSET Nat] /\ cut'[f] = cut[f] \cup d
       /\ logs'[f] # Nil /\ logs'[f].marker = p.to
       /\ begun'[f] = IF begun[f] = Nil THEN p.from ELSE begun[f]
       /\ \A g \in Files \ {f} : begun'[g] = begun[g] /\ logs'[g] = logs[g] /\ cut'[g] = cut[g]
  BY <1>1, <1>2, <1>4, <1>9, <1>10, <1>7, LogReaderAssumption DEF MetaRecord
<1>13. begun'[f] # Nil /\ Marked(f)' /\ \A g \in Files \ {f} : Marked(g)' <=> Marked(g)
  BY <1>4, <1>12, LogReaderAssumption DEF Marked
<1>14. Types'
  <2>1. out' \in [file : Files \cup {Nil}, lines : Lines]
    BY <1>1, <1>2, <1>6
  <2> QED BY <1>2, <1>12, <2>1 DEF Inv, Types
<1>15. TypeOK'
  BY <1>1, <1>2, <1>4, <1>12 DEF Inv, TypeOK
<1>16. Listed'
  BY <1>1, <1>2, <1>12 DEF Inv, Listed
<1>17. Followed'
  BY <1>1, <1>2, <1>12, <1>13 DEF Inv, Followed
<1>18. /\ begun'[f] \in Nat /\ begun'[f] <= p.from
       /\ \A c \in cut[f] : c <= p.from
       /\ p.from % 2 = 1 => p.from \in cut[f] \cup {begun'[f]}
  <2>1. CASE begun[f] = Nil
    <3>1. begun'[f] = p.from /\ cut[f] = {}
      BY <1>1, <1>12, <2>1 DEF Inv, Cuts
    <3> QED BY <1>4, <3>1
  <2>2. CASE begun[f] # Nil
    <3>1. Marked(f) /\ begun'[f] = begun[f] /\ begun[f] \in Nat /\ p.from = logs[f].marker
      BY <1>1, <1>2, <1>4, <1>12, <2>2, FileTypes DEF Inv, Followed
    <3> QED BY <1>1, <2>2, <3>1 DEF Inv, Cuts
  <2> QED BY <2>1, <2>2
<1>19. \A i \in 1..Len(lines) : lines[i] = Piece(cut'[f], begun'[f], p.from \div 2 + i)
  <2> SUFFICES ASSUME NEW i \in 1..Len(lines)
               PROVE  lines[i] = Piece(cut'[f], begun'[f], p.from \div 2 + i)
    OBVIOUS
  <2>1. \A c \in cut'[f] : c <= p.from \/ c = p.to
    BY <1>12, <1>7, <1>18
  <2>2. p.from % 2 = 1 => p.from \in cut'[f] \cup {begun'[f]}
    BY <1>12, <1>18
  <2>3. i \in 1..(p.to \div 2 - p.from \div 2) /\ cut'[f] \in SUBSET Nat
    BY <1>1, <1>6, <1>12
  <2>4. PICK c, n : c = cut'[f] /\ n = begun'[f]
    OBVIOUS
  <2>5. Pieces(p.from, p.to)[i] = Piece(c, n, p.from \div 2 + i)
    <3> DEFINE a == p.from
               b == p.to
    <3>1. a \in Nat /\ b \in Nat /\ a <= b /\ i \in 1..(b \div 2 - a \div 2)
      BY <1>4, <2>3
    <3>2. c \in SUBSET Nat /\ n \in Nat /\ n <= a
      BY <1>18, <2>3, <2>4
    <3>3. (\A x \in c : x <= a \/ x = b) /\ (a % 2 = 1 => a \in c \cup {n})
      BY <2>1, <2>2, <2>4
    <3> HIDE DEF a, b
    <3>4. Pieces(a, b)[i] = Piece(c, n, a \div 2 + i)
      BY <3>1, <3>2, <3>3, PieceOfPortion
    <3> QED BY <3>4 DEF a, b
  <2> QED BY <2>4, <2>5 DEF lines
<1>20. Cuts'
  <2>1. \A c \in cut'[f] : c % 2 = 1 /\ c <= p.to
    <3>1. \A c \in cut[f] : c % 2 = 1 /\ c \in Nat /\ c <= p.to
      BY <1>1, <1>4, <1>9, <1>18 DEF Inv, Cuts
    <3> QED BY <1>4, <1>12, <1>7, <3>1
  <2>2. begun'[f] <= p.to
    BY <1>4, <1>18
  <2>3. p.to % 2 = 1 => p.to \in cut'[f]
    BY <1>12, <1>8
  <2>4. SUFFICES ASSUME NEW g \in Files
                 PROVE  /\ \A c \in cut'[g] : c % 2 = 1
                        /\ begun'[g] = Nil => cut'[g] = {}
                        /\ begun'[g] # Nil /\ Marked(g)' =>
                             /\ begun'[g] <= logs'[g].marker
                             /\ \A c \in cut'[g] : c <= logs'[g].marker
                             /\ logs'[g].marker % 2 = 1 =>
                                  logs'[g].marker \in cut'[g] \cup {begun'[g]}
    BY DEF Cuts
  <2>5. CASE g = f
    BY <1>12, <1>13, <2>1, <2>2, <2>3, <2>5
  <2>6. CASE g # f
    <3>1. begun'[g] = begun[g] /\ logs'[g] = logs[g] /\ cut'[g] = cut[g] /\ (Marked(g)' <=> Marked(g))
      BY <1>12, <1>13, <2>6
    <3> QED BY <3>1 DEF Inv, Cuts
  <2> QED BY <2>5, <2>6
<1>21. Consecutive'
  <2> SUFFICES ASSUME NEW g \in Files, begun'[g] # Nil
               PROVE  /\ \A i \in 1..Len(sent'[g]) :
                           sent'[g][i] = Piece(cut'[g], begun'[g], begun'[g] \div 2 + i)
                      /\ out'.file = g =>
                           \A i \in 1..Len(out'.lines) :
                             out'.lines[i] = Piece(cut'[g], begun'[g],
                                                   begun'[g] \div 2 + Len(sent'[g]) + i)
                      /\ Marked(g)' => Len(sent'[g]) + Pending(g)'
                                       = (logs'[g].marker \div 2) - (begun'[g] \div 2)
    BY DEF Consecutive
  <2>1. CASE g = f
    <3>1. out'.file = f /\ out'.lines = lines /\ Pending(f)' = Len(lines)
      BY <1>2 DEF Pending
    <3>2. CASE begun[f] = Nil
      <4>1. sent'[f] = <<>> /\ Len(sent'[f]) = 0 /\ begun'[f] = p.from
        BY <1>1, <1>2, <1>12, <3>2 DEF Inv, Followed
      <4>2. begun'[f] \div 2 + Len(sent'[f]) = p.from \div 2
        BY <1>5, <4>1
      <4>3. \A i \in 1..Len(out'.lines) :
              out'.lines[i] = Piece(cut'[f], begun'[f], begun'[f] \div 2 + Len(sent'[f]) + i)
        BY <1>19, <3>1, <4>2
      <4>4. Len(sent'[f]) + Pending(f)' = (logs'[f].marker \div 2) - (begun'[f] \div 2)
        BY <1>5, <1>6, <1>12, <3>1, <4>1
      <4> QED BY <2>1, <4>1, <4>3, <4>4
    <3>3. CASE begun[f] # Nil
      <4>1. Marked(f) /\ begun'[f] = begun[f] /\ begun[f] \div 2 \in Nat /\ Len(sent[f]) \in Nat
        BY <1>1, <1>2, <1>12, <3>3, FileTypes DEF Inv, Followed
      <4>2. /\ \A i \in 1..Len(sent[f]) :
                 sent[f][i] = Piece(cut[f], begun[f], begun[f] \div 2 + i)
            /\ Len(sent[f]) + Pending(f) = (p.from \div 2) - (begun[f] \div 2)
        BY <1>1, <1>4, <3>3, <4>1 DEF Inv, Consecutive
      <4>3. Pending(f) = 0
        BY <1>1, <1>11, LogReaderAssumption DEF Pending, NoOut
      <4>4. p.from \div 2 = begun[f] \div 2 + Len(sent[f])
        BY <1>5, <4>1, <4>2, <4>3
      <4>5. Len(sent[f]) + Len(lines) = (p.to \div 2) - (begun[f] \div 2)
        BY <1>5, <1>6, <4>1, <4>4
      <4>6. \A i \in 1..Len(sent[f]) :
              sent[f][i] = Piece(cut'[f], begun'[f], begun'[f] \div 2 + i)
        <5> SUFFICES ASSUME NEW i \in 1..Len(sent[f])
                     PROVE  sent[f][i] = Piece(cut'[f], begun'[f], begun'[f] \div 2 + i)
          OBVIOUS
        <5> DEFINE k == begun[f] \div 2 + i
        <5>1. k \in Nat /\ k <= p.from \div 2
          BY <4>1, <4>4
        <5>2. 2 * k - 1 < p.to
          BY <1>4, <1>5, <5>1, Half
        <5>3. 2 * k - 1 \notin d
          BY <1>4, <1>7, <5>1, <5>2
        <5> HIDE DEF k
        <5>4. Piece(cut[f] \cup d, begun[f], k) = Piece(cut[f], begun[f], k)
          BY <5>3 DEF Piece
        <5>5. sent[f][i] = Piece(cut[f], begun[f], k)
          BY <4>2 DEF k
        <5> QED BY <1>12, <4>1, <5>4, <5>5 DEF k
      <4>7. sent' = sent /\ begun'[f] \div 2 + Len(sent'[f]) = p.from \div 2
        BY <1>2, <4>1, <4>4
      <4>8. \A i \in 1..Len(out'.lines) :
              out'.lines[i] = Piece(cut'[f], begun'[f], begun'[f] \div 2 + Len(sent'[f]) + i)
        BY <1>19, <3>1, <4>7
      <4>9. Len(sent'[f]) + Pending(f)' = (logs'[f].marker \div 2) - (begun'[f] \div 2)
        BY <1>12, <3>1, <4>1, <4>5, <4>7
      <4> QED BY <2>1, <4>6, <4>7, <4>8, <4>9
    <3> QED BY <3>2, <3>3
  <2>2. CASE g # f
    <3>1. out'.file # g /\ Pending(g)' = 0 /\ Pending(g) = 0
      BY <1>2, <1>11, <2>2, LogReaderAssumption DEF Pending, NoOut
    <3>2. begun[g] # Nil /\ begun'[g] = begun[g] /\ logs'[g] = logs[g] /\ cut'[g] = cut[g]
          /\ (Marked(g)' <=> Marked(g))
      BY <1>12, <1>13, <2>2
    <3> QED BY <1>2, <3>1, <3>2 DEF Inv, Consecutive
  <2> QED BY <2>1, <2>2
<1>22. Writing'
  <2>1. out'.file # Nil
    BY <1>1, <1>2, LogReaderAssumption
  <2> QED BY <1>2, <2>1 DEF Writing
<1> QED BY <1>14, <1>15, <1>16, <1>17, <1>21, <1>22, <1>20 DEF Inv

LEMMA WriteInv == ASSUME Inv, Write PROVE Inv'
<1>1. /\ UNCHANGED <<rds, size, stamp, gone, logs, initialized, todo, seen, stopPc, parsing, begun, cut,
                   stamped>>
      /\ pc = "write"
  BY DEF Write, server, stop
<1>2. out \in [file : Files \cup {Nil}, lines : Lines] /\ sent \in [Files -> Lines]
  BY DEF Inv, Types
<1>3. CASE out.lines = <<>>
  <2>1. pc' = "files" /\ out' = NoOut /\ sent' = sent
    BY <1>3 DEF Write
  <2>2. NoOut \in [file : Files \cup {Nil}, lines : Lines] /\ NoOut.lines = <<>>
        /\ NoOut.file = Nil
    BY DEF NoOut, Lines
  <2>3. \A f \in Files : Pending(f)' = 0 /\ Pending(f) = 0 /\ out'.file # f
    BY <1>3, <2>1, <2>2, LogReaderAssumption DEF Pending
  <2>4. Types'
    BY <1>1, <2>1, <2>2 DEF Inv, Types
  <2>5. TypeOK' /\ Listed'
    BY <1>1, <2>1 DEF Inv, TypeOK, Listed
  <2>6. Followed'
    BY <1>1, <2>1, <2>3 DEF Inv, Followed, Marked
  <2>7. Consecutive' /\ Cuts'
    BY <1>1, <2>1, <2>3 DEF Inv, Consecutive, Cuts, Marked
  <2>8. Writing'
    BY <1>1, <2>1, <2>2 DEF Inv, Writing
  <2> QED BY <2>4, <2>5, <2>6, <2>7, <2>8 DEF Inv
<1>4. CASE out.lines # <<>>
  <2> DEFINE f == out.file
             x == Head(out.lines)
  <2>1. /\ sent' = [sent EXCEPT ![f] = Append(@, x)]
        /\ out' = [out EXCEPT !.lines = Tail(@)] /\ pc' = pc
    BY <1>4 DEF Write
  <2>2. f \in Files
    BY <1>2, <1>4 DEF Inv, Writing
  <2>3. /\ x \in Text /\ x = out.lines[1] /\ Tail(out.lines) \in Lines
        /\ Len(out.lines) \in Nat /\ 1 \in 1..Len(out.lines)
        /\ Len(Tail(out.lines)) = Len(out.lines) - 1
        /\ \A i \in 1..Len(Tail(out.lines)) : Tail(out.lines)[i] = out.lines[i + 1]
    <3>1. out.lines \in Seq(Text) /\ out.lines # <<>>
      BY <1>2, <1>4 DEF Lines
    <3> QED BY <3>1, HeadTailProperties DEF Lines
  <2>4. /\ Len(sent[f]) \in Nat /\ Append(sent[f], x) \in Lines
        /\ Len(Append(sent[f], x)) = Len(sent[f]) + 1
        /\ \A i \in 1..Len(sent[f]) : Append(sent[f], x)[i] = sent[f][i]
        /\ Append(sent[f], x)[Len(sent[f]) + 1] = x
    <3>1. sent[f] \in Seq(Text) /\ x \in Text
      BY <1>2, <2>2, <2>3 DEF Lines
    <3> QED BY <3>1, AppendProperties DEF Lines
  <2> HIDE DEF x
  <2>5. /\ out'.file = f /\ out'.lines = Tail(out.lines)
        /\ out' \in [file : Files \cup {Nil}, lines : Lines]
    BY <1>2, <2>1, <2>3
  <2>6. /\ sent' \in [Files -> Lines] /\ sent'[f] = Append(sent[f], x)
        /\ \A g \in Files \ {f} : sent'[g] = sent[g]
    BY <1>2, <2>1, <2>2, <2>4
  <2>7. begun[f] # Nil /\ begun[f] \div 2 \in Nat
    BY <2>2, FileTypes DEF Inv, Followed
  <2> DEFINE line(k) == Piece(cut[f], begun[f], k)
  <2> HIDE DEF f
  <2>8. out.file = f
    BY DEF f
  <2>9. Types'
    BY <1>1, <2>5, <2>6 DEF Inv, Types
  <2>10. TypeOK' /\ Listed'
    BY <1>1, <2>1 DEF Inv, TypeOK, Listed
  <2>11. Followed'
    BY <1>1, <2>2, <2>5, <2>6, <2>7, <2>8 DEF Inv, Followed, Marked
  <2>12. Consecutive'
    <3> SUFFICES ASSUME NEW g \in Files, begun[g] # Nil
                 PROVE  /\ \A i \in 1..Len(sent'[g]) :
                                sent'[g][i] = Piece(cut[g], begun[g], begun[g] \div 2 + i)
                        /\ out'.file = g =>
                             \A i \in 1..Len(out'.lines) :
                               out'.lines[i] = Piece(cut[g], begun[g],
                                                     begun[g] \div 2 + Len(sent'[g]) + i)
                        /\ Marked(g)' => Len(sent'[g]) + Pending(g)'
                                         = (logs[g].marker \div 2) - (begun[g] \div 2)
      BY <1>1 DEF Consecutive
    <3>1. CASE g = f
      <4>1. /\ \A i \in 1..Len(sent[f]) : sent[f][i] = line(begun[f] \div 2 + i)
            /\ \A i \in 1..Len(out.lines) : out.lines[i] = line(begun[f] \div 2 + Len(sent[f]) + i)
            /\ Marked(f) => Len(sent[f]) + Len(out.lines)
                            = (logs[f].marker \div 2) - (begun[f] \div 2)
        BY <2>2, <2>7, <2>8 DEF Inv, Consecutive, Pending, line
      <4> HIDE DEF line
      <4>2. x = line(begun[f] \div 2 + Len(sent[f]) + 1)
        BY <2>3, <4>1
      <4>3. \A i \in 1..Len(sent'[f]) : sent'[f][i] = line(begun[f] \div 2 + i)
        <5> SUFFICES ASSUME NEW i \in 1..(Len(sent[f]) + 1)
                     PROVE  Append(sent[f], x)[i] = line(begun[f] \div 2 + i)
          BY <2>4, <2>6
        <5>1. CASE i = Len(sent[f]) + 1
          BY <2>4, <2>7, <4>2, <5>1
        <5>2. CASE i \in 1..Len(sent[f])
          BY <2>4, <4>1, <5>2
        <5> QED BY <2>4, <5>1, <5>2
      <4>4. \A i \in 1..Len(out'.lines) : out'.lines[i] = line(begun[f] \div 2 + Len(sent'[f]) + i)
        <5> SUFFICES ASSUME NEW i \in 1..Len(Tail(out.lines))
                     PROVE  Tail(out.lines)[i] = line(begun[f] \div 2 + (Len(sent[f]) + 1) + i)
          <6>1. out'.lines = Tail(out.lines) /\ Len(sent'[f]) = Len(sent[f]) + 1
            BY <2>4, <2>5, <2>6
          <6> QED BY <6>1
        <5>1. i + 1 \in 1..Len(out.lines)
          BY <2>3
        <5>2. Tail(out.lines)[i] = line(begun[f] \div 2 + Len(sent[f]) + (i + 1))
          BY <2>3, <4>1, <5>1
        <5>3. begun[f] \div 2 \in Nat /\ Len(sent[f]) \in Nat /\ i \in Int
          BY <2>4, <2>7
        <5> QED BY <5>2, <5>3, Moves
      <4>5. Pending(g)' = Len(out.lines) - 1
        <5>1. out'.file = g /\ Len(out'.lines) = Len(out.lines) - 1
          BY <2>3, <2>5, <3>1
        <5> QED BY <5>1 DEF Pending
      <4>6. Marked(g)' => Marked(f)
        BY <1>1, <3>1 DEF Marked
      <4>7. Len(sent'[f]) = Len(sent[f]) + 1
        BY <2>4, <2>6
      <4>8. Len(sent[f]) + 1 + (Len(out.lines) - 1) = Len(sent[f]) + Len(out.lines)
        <5>1. Len(sent[f]) \in Nat /\ Len(out.lines) \in Int
          BY <2>3, <2>4
        <5> QED BY <5>1, Moves
      <4>9. Marked(g)' => Len(sent'[g]) + Pending(g)'
                         = (logs[f].marker \div 2) - (begun[f] \div 2)
        BY <3>1, <4>1, <4>5, <4>6, <4>7, <4>8
      <4> QED BY <3>1, <4>3, <4>4, <4>9 DEF line
    <3>2. CASE g # f
      <4>1. out'.file # g /\ Pending(g)' = 0 /\ Pending(g) = 0 /\ sent'[g] = sent[g]
            /\ (Marked(g)' <=> Marked(g))
        BY <1>1, <2>5, <2>6, <2>8, <3>2 DEF Pending, Marked
      <4> QED BY <4>1 DEF Inv, Consecutive
    <3> QED BY <3>1, <3>2
  <2>13. Cuts'
    BY <1>1 DEF Inv, Cuts, Marked
  <2>14. Writing'
    <3>1. initialized /\ out'.file # Nil
      BY <1>2, <1>4, <2>2, <2>5, LogReaderAssumption DEF Inv, Writing, NoOut
    <3> QED BY <1>1, <3>1 DEF Writing
  <2> QED BY <2>9, <2>10, <2>11, <2>12, <2>14, <2>13 DEF Inv
<1> QED BY <1>3, <1>4

LEMMA ForgetInv == ASSUME Inv, Forget PROVE Inv'
<1>1. /\ UNCHANGED <<rds, size, stamp, gone, todo, out, stopPc, parsing, sent, begun, cut,
                   stamped>>
      /\ logs' = [f \in Files |-> IF f \in seen THEN logs[f] ELSE Nil]
      /\ initialized' = TRUE /\ pc = "files" /\ pc' = "select" /\ todo = {}
  BY DEF Forget, server, stop, past
<1>2. \A f \in Files : /\ logs'[f] # Nil => logs'[f] = logs[f]
                       /\ f \in seen => logs'[f] = logs[f]
  BY <1>1
<1>3. out = NoOut /\ stopPc \notin {"parser", "done"}
  BY <1>1 DEF Inv, TypeOK
<1>4. Types'
  BY <1>1 DEF Inv, Types
<1>5. TypeOK'
  BY <1>1, <1>2, <1>3 DEF Inv, TypeOK
<1>6. Listed'
  BY <1>1 DEF Inv, Listed
<1>7. Followed'
  <2> SUFFICES ASSUME NEW f \in Files
               PROVE  /\ begun[f] # Nil /\ f \notin gone => logs'[f] # Nil /\ logs'[f].marker # Nil
                      /\ begun[f] # Nil => stamp[f] > 0
                      /\ begun[f] = Nil => /\ sent[f] = <<>> /\ out.file # f
                                          /\ ~(logs'[f] # Nil /\ logs'[f].marker # Nil)
    BY <1>1 DEF Followed, Marked
  <2>1. begun[f] # Nil /\ f \notin gone => logs[f] # Nil /\ logs[f].marker # Nil /\ f \in seen
    BY <1>1 DEF Inv, Followed, Listed, Marked
  <2>2. /\ begun[f] # Nil => stamp[f] > 0
        /\ begun[f] = Nil => /\ sent[f] = <<>> /\ out.file # f
                            /\ ~(logs[f] # Nil /\ logs[f].marker # Nil)
    BY DEF Inv, Followed, Marked
  <2> QED BY <1>2, <2>1, <2>2
<1>8. Consecutive'
  <2>1. ASSUME NEW f \in Files, begun[f] # Nil
        PROVE  /\ \A i \in 1..Len(sent[f]) : sent[f][i] = Piece(cut[f], begun[f], begun[f] \div 2 + i)
               /\ out.file = f =>
                    \A i \in 1..Len(out.lines) : 
                      out.lines[i] = Piece(cut[f], begun[f], begun[f] \div 2 + Len(sent[f]) + i)
               /\ Marked(f)' => Len(sent[f]) + Pending(f)' = (logs'[f].marker \div 2) - (begun[f] \div 2)
    <3>1. Pending(f)' = Pending(f)
      BY <1>1 DEF Pending
    <3>2. Marked(f)' => Marked(f) /\ logs'[f] = logs[f]
      BY <1>2 DEF Marked
    <3> QED BY <2>1, <3>1, <3>2 DEF Inv, Consecutive
  <2> QED BY <1>1, <2>1 DEF Consecutive
<1>9. Cuts'
  BY <1>1, <1>2 DEF Inv, Cuts, Marked
<1>10. Writing'
  BY <1>1, <1>3 DEF Inv, Writing, NoOut
<1> QED BY <1>4, <1>5, <1>6, <1>7, <1>8, <1>10, <1>9 DEF Inv

-----------------------------------------------------------------------------

LEMMA NextInv == Inv /\ [Next]_vars => Inv'
<1> SUFFICES ASSUME Inv, [Next]_vars PROVE Inv'
  OBVIOUS
<1>1. CASE Server
  BY <1>1, GrowInv, ExpireInv DEF Server
<1>2. CASE Describe
  BY <1>2, DescribeInv
<1>3. CASE Refresh
  BY <1>3, PassedOver, FindEndInv, DownloadInv, WriteInv, ForgetInv DEF Refresh
<1>4. CASE StopCalled \/ StopReader \/ StopParser
  BY <1>4, StopInv
<1>5. CASE UNCHANGED vars
  BY <1>5, StutterInv
<1> QED BY <1>1, <1>2, <1>3, <1>4, <1>5 DEF Next

LEMMA AlwaysInv == Spec => []Inv
BY InitInv, NextInv, PTL DEF Spec

\* Markers stay within their files, and Stop leaves the reader alone until it is
\* back at its select.
THEOREM TypeCorrect == Spec => []TypeOK
<1>1. Inv => TypeOK
  BY DEF Inv
<1> QED BY <1>1, AlwaysInv, PTL

\* Half line h is in the piece of its own line only, and there unless a portion, or
\* where the file was first read, ends behind it.
LEMMA InPiece ==
  ASSUME NEW c \in SUBSET Nat, NEW b \in Nat, NEW k \in Nat \ {0}, NEW h \in Nat
  PROVE  (Piece(c, b, k).from <= h /\ h < Piece(c, b, k).to)
         <=> /\ k = h \div 2 + 1
             /\ h % 2 = 1 \/ (h + 1 \notin c /\ h + 1 # b)
<1> DEFINE q == h \div 2
<1>1. q \in Nat /\ 2 * q <= h /\ h <= 2 * q + 1 /\ (h % 2 = 1 <=> h = 2 * q + 1)
  BY Half, Odd
<1> HIDE DEF q
<1>2. Piece(c, b, k).to = 2 * k
  BY DEF Piece
<1>3. CASE 2 * k - 1 \in c \/ 2 * k - 1 = b
  <2>1. Piece(c, b, k).from = 2 * k - 1
    BY <1>3 DEF Piece
  <2>2. (2 * k - 1 <= h /\ h < 2 * k) <=> (k = q + 1 /\ h = 2 * q + 1)
    BY <1>1
  <2>3. k = q + 1 /\ h # 2 * q + 1 => h + 1 = 2 * k - 1
    BY <1>1
  <2> QED BY <1>1, <1>2, <1>3, <2>1, <2>2, <2>3 DEF q
<1>4. CASE 2 * k - 1 \notin c /\ 2 * k - 1 # b
  <2>1. Piece(c, b, k).from = 2 * k - 2
    BY <1>4 DEF Piece
  <2>2. (2 * k - 2 <= h /\ h < 2 * k) <=> k = q + 1
    BY <1>1
  <2>3. k = q + 1 /\ h # 2 * q + 1 => h + 1 = 2 * k - 1
    BY <1>1
  <2> QED BY <1>1, <1>2, <1>4, <2>1, <2>2, <2>3 DEF q
<1> QED BY <1>3, <1>4

\* Which lines between two positions have their first half cut off.
LEMMA LinesBetween ==
  ASSUME NEW c \in SUBSET Nat, NEW b \in Nat, NEW m \in Nat, NEW h \in Nat, b <= m,
         \A x \in c : x % 2 = 1,
         m % 2 = 1 => m \in c \cup {b}
  PROVE  (/\ h \div 2 + 1 \in (b \div 2 + 1) .. (m \div 2)
          /\ h % 2 = 1 \/ (h + 1 \notin c /\ h + 1 # b))
         <=> (b <= h /\ h < m /\ h + 1 \notin c)
<1> DEFINE q == h \div 2
           a == b \div 2
           z == m \div 2
<1>1. /\ q \in Nat /\ 2 * q <= h /\ h <= 2 * q + 1 /\ (h % 2 = 1 <=> h = 2 * q + 1)
      /\ a \in Nat /\ 2 * a <= b /\ b <= 2 * a + 1
      /\ z \in Nat /\ 2 * z <= m /\ m <= 2 * z + 1 /\ (m % 2 = 1 <=> m = 2 * z + 1)
  BY Half, Odd
<1> HIDE DEF q, a, z
<1>2. h + 1 \in c => h = 2 * q
  <2>1. ASSUME h + 1 \in c PROVE h = 2 * q
    <3>1. (h + 1) % 2 = 1
      BY <2>1
    <3>2. h % 2 # 1
      BY <3>1
    <3> QED BY <1>1, <3>2
  <2> QED BY <2>1
<1>3. ASSUME q + 1 \in (a + 1) .. z, h = 2 * q + 1 \/ (h + 1 \notin c /\ h + 1 # b)
      PROVE  b <= h /\ h < m /\ h + 1 \notin c
  BY <1>1, <1>2, <1>3
<1>4. ASSUME b <= h, h < m, h + 1 \notin c
      PROVE  q + 1 \in (a + 1) .. z /\ h + 1 # b
  <2>1. m # h + 1 \/ m % 2 # 1
    BY <1>4
  <2>2. a <= q
    BY <1>1, <1>4
  <2>3. q + 1 <= z
    BY <1>1, <1>4, <2>1
  <2> QED BY <1>1, <1>4, <2>2, <2>3
<1> QED BY <1>1, <1>3, <1>4 DEF q, a, z

LEMMA ConsecutiveIsExact == Inv => FollowedExactly
<1> SUFFICES ASSUME Inv PROVE FollowedExactly
  OBVIOUS
<1>1. InOrderOnce
  <2> SUFFICES ASSUME NEW f \in Files, NEW i \in DOMAIN sent[f], NEW j \in DOMAIN sent[f], i < j
               PROVE  sent[f][i].to <= sent[f][j].from
    BY DEF InOrderOnce
  <2>1. sent[f] \in Seq(Text) /\ DOMAIN sent[f] = 1..Len(sent[f]) /\ Len(sent[f]) \in Nat
    BY DEF Inv, Types, Lines
  <2>2. begun[f] # Nil
    BY <2>1 DEF Inv, Followed
  <2> DEFINE a == begun[f] \div 2
  <2>3. /\ sent[f][i] = Piece(cut[f], begun[f], a + i)
        /\ sent[f][j] = Piece(cut[f], begun[f], a + j)
    BY <2>1, <2>2 DEF Inv, Consecutive
  <2>4. a \in Nat /\ i \in Nat /\ j \in Nat
    BY <2>1, <2>2, FileTypes DEF Inv
  <2> HIDE DEF a
  <2>5. sent[f][i].to = 2 * (a + i)
    BY <2>3 DEF Piece
  <2>6. sent[f][j].from >= 2 * (a + j) - 2
    BY <2>3, <2>4 DEF Piece
  <2>7. 2 * (a + i) <= 2 * (a + j) - 2
    BY <2>4
  <2>8. sent[f][j].from \in Nat
    <3>1. sent[f][j] \in Text
      BY <2>1
    <3> QED BY <3>1 DEF Text
  <2> QED BY <2>4, <2>5, <2>6, <2>7, <2>8
<1>2. OnlyCutsAreLost
  <2> SUFFICES ASSUME NEW f \in Files, Marked(f), NEW h \in 0 .. size[f] - 1
               PROVE  (Holds(sent[f], h) \/ (out.file = f /\ Holds(out.lines, h)))
                      <=> (begun[f] <= h /\ h < logs[f].marker /\ h + 1 \notin cut[f])
    BY DEF OnlyCutsAreLost, Marked
  <2> DEFINE b == begun[f]
             c == cut[f]
             m == logs[f].marker
             a == b \div 2
             n == Len(sent[f])
             k == Len(out.lines)
             y == h \div 2 + 1
             inside == h % 2 = 1 \/ (h + 1 \notin c /\ h + 1 # b)
  <2>1. b # Nil
    BY DEF Inv, Followed
  <2>2. /\ b \in Nat /\ c \in SUBSET Nat /\ m \in Nat /\ h \in Nat
        /\ a \in Nat /\ n \in Nat /\ k \in Nat /\ m \div 2 \in Nat /\ y \in Nat
    BY <2>1, FileTypes, Half DEF Inv, Marked
  <2>3. DOMAIN sent[f] = 1..n /\ DOMAIN out.lines = 1..k
    BY DEF Inv, Types, Lines
  <2>4. /\ \A i \in 1..n : sent[f][i] = Piece(c, b, a + i)
        /\ out.file = f => \A i \in 1..k : out.lines[i] = Piece(c, b, a + n + i)
        /\ n + Pending(f) = (m \div 2) - a
    BY <2>1 DEF Inv, Consecutive
  <2>5. b <= m /\ (m % 2 = 1 => m \in c \cup {b}) /\ \A x \in c : x % 2 = 1
    BY <2>1 DEF Inv, Cuts
  <2>6. (y \in (a + 1) .. (m \div 2) /\ inside) <=> (b <= h /\ h < m /\ h + 1 \notin c)
    BY <2>2, <2>5, LinesBetween
  <2>7. Pending(f) = IF out.file = f THEN k ELSE 0
    BY DEF Pending
  <2> HIDE DEF a, n, k
  <2>8. Holds(sent[f], h) <=> (y \in (a + 1) .. (a + n) /\ inside)
    <3>1. \A i \in 1..n : (sent[f][i].from <= h /\ h < sent[f][i].to) <=> (a + i = y /\ inside)
      <4> SUFFICES ASSUME NEW i \in 1..n
                   PROVE (sent[f][i].from <= h /\ h < sent[f][i].to) <=> (a + i = y /\ inside)
        OBVIOUS
      <4>1. a + i \in Nat \ {0}
        BY <2>2
      <4> QED BY <2>2, <2>4, <4>1, InPiece
    <3> HIDE DEF y, inside
    <3>2. Holds(sent[f], h) <=> \E i \in 1..n : a + i = y /\ inside
      BY <2>3, <3>1 DEF Holds
    <3>3. (\E i \in 1..n : a + i = y) <=> y \in (a + 1) .. (a + n)
      <4>1. y \in (a + 1) .. (a + n) => y - a \in 1..n /\ a + (y - a) = y
        BY <2>2
      <4> QED BY <2>2, <4>1
    <3> QED BY <3>2, <3>3
  <2>9. CASE out.file = f
    <3>1. \A i \in 1..k :
            (out.lines[i].from <= h /\ h < out.lines[i].to) <=> (a + n + i = y /\ inside)
      <4> SUFFICES ASSUME NEW i \in 1..k
                   PROVE (out.lines[i].from <= h /\ h < out.lines[i].to)
                         <=> (a + n + i = y /\ inside)
        OBVIOUS
      <4>1. a + n + i \in Nat \ {0}
        BY <2>2
      <4>2. out.lines[i] = Piece(c, b, a + n + i)
        BY <2>4, <2>9
      <4> HIDE DEF inside
      <4>3. (Piece(c, b, a + n + i).from <= h /\ h < Piece(c, b, a + n + i).to)
            <=> (a + n + i = y /\ inside)
        BY <2>2, <4>1, InPiece DEF inside
      <4> QED BY <4>2, <4>3
    <3> HIDE DEF y, inside
    <3>2. Holds(out.lines, h) <=> \E i \in 1..k : a + n + i = y /\ inside
      BY <2>3, <3>1 DEF Holds
    <3>3. (\E i \in 1..k : a + n + i = y) <=> y \in (a + n + 1) .. (a + n + k)
      <4>1. y \in (a + n + 1) .. (a + n + k) => y - a - n \in 1..k /\ a + n + (y - a - n) = y
        BY <2>2
      <4> QED BY <2>2, <4>1
    <3>4. Holds(out.lines, h) <=> (y \in (a + n + 1) .. (a + n + k) /\ inside)
      BY <3>2, <3>3
    <3>5. m \div 2 = a + n + k
      BY <2>2, <2>4, <2>7, <2>9
    <3>6. y \in (a + 1) .. (m \div 2) <=> (y \in (a + 1) .. (a + n) \/ y \in (a + n + 1) .. (a + n + k))
      BY <2>2, <3>5
    <3> QED BY <2>6, <2>8, <2>9, <3>4, <3>6
  <2>10. CASE out.file # f
    <3>1. m \div 2 = a + n
      BY <2>2, <2>4, <2>7, <2>10
    <3> QED BY <2>6, <2>8, <2>10, <3>1
  <2> QED BY <2>9, <2>10
<1> QED BY <1>1, <1>2 DEF FollowedExactly

\* The text of a file reaches the parser once and in order, and what is lost of it
\* are exactly the beginnings of the lines inside which a portion ended, with
\* portions of any size, any failures and files that grow at any time.
THEOREM FilesAreFollowed == Spec => []FollowedExactly
BY ConsecutiveIsExact, AlwaysInv, PTL
=============================================================================
