------------------------------ MODULE Reading ------------------------------
(* The commands that read objects back: `ipfs refs`                          *)
(* (core/commands/refs.go, RefWriter), `ipfs cat` (cat.go) and `ipfs get`    *)
(* (get.go, fileArchive).  The first two are algorithms over a DAG or over   *)
(* files that do not change, one step each; the third is a goroutine that    *)
(* fills a buffer in front of a pipe, and a reader of the pipe.              *)
(*                                                                           *)
(* Nodes of a DAG are numbers, and a node links to larger ones.              *)
EXTENDS Integers, SequencesExt

CONSTANTS
  YNodes,       \* 1..n
  YDepths,      \* values of --max-depth; -1 is no limit
  YRoots,       \* argument lists of `ipfs refs`
  YMissing,     \* sets of blocks that cannot be read
  YFiles,       \* lists of file sizes
  YSpan,        \* offsets and lengths are tried up to this
  YChunks,      \* chunks of an archive
  YBufSize      \* DefaultBufSize, in chunks

VARIABLES
  yAsked,   \* the command and its arguments
  yAnswer,  \* what it wrote
  yPc,      \* "idle" | "done" | for get, the goroutine: "write" | "close" | "end"
  yBuf,     \* the buffered writer
  yPipe,    \* the end the pipe was closed with: "" | "eof" | "error"
  yWritten  \* chunks the goroutine has written

yVars == <<yAsked, yAnswer, yPc, yBuf, yPipe, yWritten>>

NoAnswer == [refs |-> <<>>, failed |-> {}, data |-> <<>>, length |-> 0, end |-> ""]

YInit == /\ yAsked = [cmd |-> "none"]
         /\ yAnswer = NoAnswer
         /\ yPc = "idle"
         /\ yBuf = <<>>
         /\ yPipe = ""
         /\ yWritten = 0

-----------------------------------------------------------------------------
(* refs.                                                                     *)

Edges == {e \in YNodes \X YNodes : e[1] < e[2]}
Dags == {[n \in YNodes |-> {m \in YNodes : <<n, m>> \in links}] : links \in SUBSET Edges}

\* The links of a node in the order of the node, or in the other one.
Links(q, n) == LET up == SetToSortSeq(q.dag[n], <) IN IF q.reversed THEN Reverse(up) ELSE up

\* Mutant: a node seen before is never explored again.
VisitOnce(q, seen, c, depth) ==
  IF q.max >= 0 /\ depth > q.max THEN [deeper |-> FALSE, write |-> FALSE, seen |-> seen]
  ELSE IF ~q.unique THEN [deeper |-> depth # q.max, write |-> TRUE, seen |-> seen]
  ELSE IF seen[c] > 0 THEN [deeper |-> FALSE, write |-> FALSE, seen |-> seen]
  ELSE [deeper |-> depth # q.max, write |-> TRUE, seen |-> [seen EXCEPT ![c] = depth]]

\* RefWriter.visit: whether to go on below c, whether to write it, and the
\* depths nodes were seen at (0: not seen).
visit(q, seen, c, depth) ==
  LET pruned == seen[c] > 0 /\ (q.max < 0 \/ seen[c] <= depth)
  IN  IF q.max >= 0 /\ depth > q.max THEN [deeper |-> FALSE, write |-> FALSE, seen |-> seen]
      ELSE IF ~q.unique THEN [deeper |-> depth # q.max, write |-> TRUE, seen |-> seen]
      ELSE IF pruned THEN [deeper |-> FALSE, write |-> FALSE, seen |-> seen]
      ELSE [deeper |-> depth # q.max, write |-> seen[c] = 0, seen |-> [seen EXCEPT ![c] = depth]]

\* writeRefsRecursive over the links of a node at this depth, from state
\* [seen, out, bad]; the first block that cannot be read ends it.
RECURSIVE writeRefsRecursive(_, _, _, _)
writeRefsRecursive(q, links, depth, st) ==
  IF links = <<>> \/ st.bad THEN st
  ELSE LET c == Head(links)
           v == visit(q, st.seen, c, depth + 1)
           written == [seen |-> v.seen, out |-> IF v.write THEN Append(st.out, c) ELSE st.out, bad |-> FALSE]
           below == CASE ~v.write /\ ~v.deeper -> [st EXCEPT !.seen = v.seen]
                      [] (v.write \/ v.deeper) /\ c \in q.missing -> [st EXCEPT !.seen = v.seen, !.bad = TRUE]
                      [] (v.write \/ v.deeper) /\ c \notin q.missing /\ ~v.deeper -> written
                      [] OTHER -> writeRefsRecursive(q, Links(q, c), depth + 1, written)
       IN  writeRefsRecursive(q, Tail(links), depth, below)

\* RefsCmd: WriteRefs for every argument with one RefWriter; an error is
\* reported and the next argument follows.
RECURSIVE WriteRefs(_, _, _)
WriteRefs(q, i, st) ==
  IF i > Len(q.roots) THEN st
  ELSE LET root == q.roots[i]
           w == IF root \in q.missing THEN [seen |-> st.seen, out |-> st.out, bad |-> TRUE]
                ELSE writeRefsRecursive(q, Links(q, root), 0, [seen |-> st.seen, out |-> st.out, bad |-> FALSE])
       IN  WriteRefs(q, i + 1, [seen |-> w.seen, out |-> w.out, failed |-> IF w.bad THEN st.failed \cup {i} ELSE st.failed])

Refs == yPc = "idle" /\ \E dag \in Dags, reversed \in BOOLEAN, roots \in YRoots, unique \in BOOLEAN, max \in YDepths, missing \in YMissing :
  LET q == [cmd |-> "refs", dag |-> dag, reversed |-> reversed, roots |-> roots, unique |-> unique, max |-> max, missing |-> missing]
      w == WriteRefs(q, 1, [seen |-> [n \in YNodes |-> 0], out |-> <<>>, failed |-> {}])
  IN  /\ yAsked' = q
      /\ yAnswer' = [NoAnswer EXCEPT !.refs = w.out, !.failed = w.failed]
      /\ yPc' = "done"
      /\ UNCHANGED <<yBuf, yPipe, yWritten>>

-----------------------------------------------------------------------------
(* cat.                                                                      *)

\* File f (of its list) as a sequence of bytes, from offset a, n bytes of it.
Bytes(f, a, n) == [i \in 1..n |-> <<f, a + i>>]

\* Mutant: the excess is cut off the length asked for.
CutFromMax(size, length, max) == max - (length - max)

\* The bytes taken of the file that passes the limit: all but the overshoot.
LimitReader(size, length, max) == size - (length - max)

\* cat: the readers over the files after the first ones are passed over, until
\* the length is reached.  State [off, length, data].
RECURSIVE cat(_, _, _, _)
cat(sizes, f, max, st) ==
  IF f > Len(sizes) \/ max = 0 THEN st
  ELSE LET size == sizes[f] - st.off
           length == st.length + size
       IN  CASE st.off > sizes[f] -> cat(sizes, f + 1, max, [st EXCEPT !.off = @ - sizes[f]])
             [] st.off <= sizes[f] /\ max > 0 /\ length >= max ->
                  [off |-> 0, length |-> max, data |-> st.data \o Bytes(f, st.off, LimitReader(size, length, max))]
             [] OTHER -> cat(sizes, f + 1, max, [off |-> 0, length |-> length, data |-> st.data \o Bytes(f, st.off, size)])

Cat == yPc = "idle" /\ \E sizes \in YFiles, off \in 0..YSpan, max \in -1..YSpan :
  LET c == cat(sizes, 1, max, [off |-> off, length |-> 0, data |-> <<>>])
  IN  /\ yAsked' = [cmd |-> "cat", sizes |-> sizes, off |-> off, max |-> max]
      /\ yAnswer' = [NoAnswer EXCEPT !.data = c.data, !.length = c.length]
      /\ yPc' = "done"
      /\ UNCHANGED <<yBuf, yPipe, yWritten>>

-----------------------------------------------------------------------------
(* get: fileArchive's goroutine writes through a buffer into a pipe.         *)

Get == /\ yPc = "idle"
       /\ yAsked' = [cmd |-> "get"] /\ yPc' = "write"
       /\ UNCHANGED <<yAnswer, yBuf, yPipe, yWritten>>

\* A chunk goes to the buffer, which must be emptied by the reader when full.
WriteChunk == /\ yPc = "write" /\ yWritten < YChunks /\ Len(yBuf) < YBufSize
              /\ yWritten' = yWritten + 1 /\ yBuf' = Append(yBuf, yWritten + 1)
              /\ UNCHANGED <<yAsked, yAnswer, yPc, yPipe>>

\* Mutant: a failed read ends the archive like the end of the file.
WriteFailsQuietly == /\ yPc = "write" /\ yWritten < YChunks
                     /\ yPc' = "close"
                     /\ UNCHANGED <<yAsked, yAnswer, yBuf, yPipe, yWritten>>

\* checkErrAndClosePipe: the pipe ends with the error; the buffer is dropped.
WriteFails == /\ yPc = "write" /\ yWritten < YChunks
              /\ yPc' = "end" /\ yPipe' = "error" /\ yBuf' = <<>>
              /\ UNCHANGED <<yAsked, yAnswer, yWritten>>

WriteDone == /\ yPc = "write" /\ yWritten = YChunks
             /\ yPc' = "close"
             /\ UNCHANGED <<yAsked, yAnswer, yBuf, yPipe, yWritten>>

\* closeGzwAndPipe: the buffer is flushed into the pipe, then the pipe closed.
closeGzwAndPipe == /\ yPc = "close" /\ yBuf = <<>>
                   /\ yPc' = "end" /\ yPipe' = "eof"
                   /\ UNCHANGED <<yAsked, yAnswer, yBuf, yWritten>>

\* The reader takes what the buffered writer hands to the pipe: all of a full
\* buffer, or what the final flush holds.
ReadPipe == /\ yBuf # <<>> /\ (Len(yBuf) = YBufSize \/ yPc = "close")
            /\ yAnswer' = [yAnswer EXCEPT !.data = @ \o yBuf]
            /\ yBuf' = <<>>
            /\ UNCHANGED <<yAsked, yPc, yPipe, yWritten>>
ReadEnd == /\ yPipe # "" /\ yAnswer.end = ""
           /\ yAnswer' = [yAnswer EXCEPT !.end = yPipe]
           /\ UNCHANGED <<yAsked, yPc, yBuf, yPipe, yWritten>>

Archiver == WriteChunk \/ WriteFails \/ WriteDone \/ closeGzwAndPipe
Reader == ReadPipe \/ ReadEnd

YNext == Refs \/ Cat \/ Get \/ Archiver \/ Reader

YSpec == YInit /\ [][YNext]_yVars

-----------------------------------------------------------------------------
(* Properties.                                                               *)

\* The paths of links of length k from a node, by the node they end in.
RECURSIVE PathsTo(_, _, _, _)
PathsTo(dag, from, to, k) ==
  IF k = 0 THEN IF from = to THEN 1 ELSE 0
  ELSE FoldSet(LAMBDA m, sum : sum + PathsTo(dag, m, to, k - 1), 0, dag[from])

Within(max) == 1..(IF max < 0 THEN Cardinality(YNodes) ELSE max)
Times(c) == Len(SelectSeq(yAnswer.refs, LAMBDA x : x = c))

\* `ipfs refs` lists exactly the references within --max-depth of its
\* arguments: once for every path to them, or once with --unique, even where
\* a node is met first at a depth that hides what is below it.
RefsExact ==
  yAsked.cmd = "refs" /\ yAsked.missing = {} =>
    LET paths(c) == FoldSeq(LAMBDA r, sum : sum + FoldSet(LAMBDA k, s : s + PathsTo(yAsked.dag, r, c, k), 0, Within(yAsked.max)),
                            0, yAsked.roots)
    IN  \A c \in YNodes : Times(c) = IF yAsked.unique /\ paths(c) > 0 THEN 1 ELSE paths(c)

\* `ipfs cat` with an offset and a length writes that part of the files joined
\* together, and announces its length.
CatExact ==
  yAsked.cmd = "cat" =>
    LET all == FlattenSeq([f \in 1..Len(yAsked.sizes) |-> Bytes(f, 0, yAsked.sizes[f])])
        left == IF yAsked.off > Len(all) THEN <<>> ELSE SubSeq(all, yAsked.off + 1, Len(all))
        want == IF yAsked.max < 0 \/ yAsked.max > Len(left) THEN left ELSE SubSeq(left, 1, yAsked.max)
    IN  yAnswer.data = want /\ yAnswer.length = Len(want)

\* The reader of an archive meets its end without an error only after all of it.
ArchiveComplete == yAnswer.end = "eof" => yAnswer.data = [i \in 1..YChunks |-> i]

\* When listing an argument reported no error, every reference within
\* --max-depth of it is in the output of the command.  The code does not keep
\* this: see the README.
RefsComplete ==
  yAsked.cmd = "refs" =>
    \A i \in 1..Len(yAsked.roots) : i \notin yAnswer.failed =>
      \A c \in YNodes, k \in Within(yAsked.max) :
        PathsTo(yAsked.dag, yAsked.roots[i], c, k) > 0 => Times(c) > 0
=============================================================================
