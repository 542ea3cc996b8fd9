---------------------------- MODULE DocumentLog ----------------------------
(***************************************************************************)
(* What Collaboration promises of a document, whatever it keeps in its     *)
(* tables: a generation, a sequence that counts the commits, and the       *)
(* content, to which a commit adds one update and which only an erasure    *)
(* empties.  Snapshots, compaction and repeated calls are not seen.        *)
(***************************************************************************)
EXTENDS Naturals

CONSTANT Updates

VARIABLES generation, sequence, content

log == <<generation, sequence, content>>

Init == generation = 0 /\ sequence = 0 /\ content = {}

Open ==
  /\ generation = 0
  /\ generation' = 1
  /\ UNCHANGED <<sequence, content>>

Commit(u) ==
  /\ generation > 0
  /\ u \notin content
  /\ sequence' = sequence + 1
  /\ content' = content \cup {u}
  /\ UNCHANGED generation

Erase ==
  /\ generation > 0
  /\ generation' = generation + 1
  /\ content' = {}
  /\ UNCHANGED sequence

Next == Open \/ (\E u \in Updates : Commit(u)) \/ Erase

Spec == Init /\ [][Next]_log
=============================================================================
