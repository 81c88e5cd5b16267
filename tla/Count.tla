------------------------------- MODULE Count --------------------------------
(***************************************************************************)
(* lab1/count.c counts how often a string occurs in a text file.  It reads *)
(* the file line by line, a long line in chunks; after a full chunk        *)
(* without an occurrence it goes back by the length of the string, in case *)
(* one begins in the chunk and ends in the next.                           *)
(***************************************************************************)
EXTENDS Integers, Sequences, FiniteSetsExt

CONSTANTS Chunk,     \* STRLEN - 1, what fgets reads at most
          Characters, Newline,
          Files,     \* the contents of the input file
          Targets    \* the strings to search for; a line end is in none

ASSUME CountAssumption ==
  /\ Chunk \in Nat /\ Chunk >= 2
  /\ Newline \in Characters
  /\ Files \subseteq Seq(Characters)
  /\ Targets \subseteq Seq(Characters \ {Newline}) \ {<<>>}

VARIABLES counting,    \* "start", "reads", "ended"
          file, target,
          pos,      \* of the stream
          count,
          found     \* history: where the occurrences counted begin

countVars == <<counting, file, target, pos, count, found>>

CountInit == /\ counting = "start" /\ file = <<>> /\ target = <<>>
             /\ pos = 0 /\ count = 0 /\ found = {}

OpenFile == /\ counting = "start" /\ counting' = "reads"
            /\ file' \in Files /\ target' \in Targets
            /\ UNCHANGED <<pos, count, found>>

(* The positions where target begins. *)
Occurrences == {i \in 1 .. Len(file) - Len(target) + 1 :
                  \A j \in 1 .. Len(target) : file[i + j - 1] = target[j]}

(* fgets: to the end of the line, of the chunk or of the file. *)
ChunkEnd == Min({pos + Chunk, Len(file)} \cup
                {i \in pos + 1 .. Len(file) : file[i] = Newline})

(* compare: the occurrences that lie in the chunk. *)
Matches == {i \in Occurrences : pos < i /\ i + Len(target) - 1 <= ChunkEnd}

IsFull == ChunkEnd - pos = Chunk

(* Mutant: it goes back after every full chunk.                            *)
GoesBackAlways == IsFull

GoesBack == Matches = {} /\ IsFull

(* Mutant: fseek goes back by the length of the chunk.                     *)
BackToStart == pos

(* fseek by -len; before the beginning of the file it fails. *)
Back == IF ChunkEnd < Len(target) THEN ChunkEnd ELSE ChunkEnd - Len(target)

PassOver == /\ counting = "reads" /\ ChunkEnd - pos = 1
            /\ pos' = ChunkEnd
            /\ UNCHANGED <<counting, file, target, count, found>>

CountChunk == /\ counting = "reads" /\ ChunkEnd - pos > 1
              /\ count' = count + Cardinality(Matches)
              /\ found' = found \cup Matches
              /\ pos' = IF GoesBack THEN Back ELSE ChunkEnd
              /\ UNCHANGED <<counting, file, target>>

(* The size it reports is pos, the end of the file. *)
Report == /\ counting = "reads" /\ pos = Len(file)
          /\ counting' = "ended"
          /\ UNCHANGED <<file, target, pos, count, found>>

CountNext == OpenFile \/ PassOver \/ CountChunk \/ Report

CountSpec == CountInit /\ [][CountNext]_countVars /\ WF_countVars(CountNext)
-----------------------------------------------------------------------------
(* No occurrence is counted twice, although parts of the file are read     *)
(* again, and nothing that is none.                                        *)
CountedOnce == count = Cardinality(found) /\ found \subseteq Occurrences

(* It ends, unless the string fills a chunk: then going back by its length *)
(* leads to where the chunk began.                                         *)
CountEnds == (counting = "reads" /\ Len(target) < Chunk) ~> (counting = "ended")
=============================================================================
