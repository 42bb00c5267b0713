------------------------- MODULE ReliableCheckpoint -------------------------
(***************************************************************************)
(* What the crawlers of one ConfigIndexer row promise together, without    *)
(* ranges, requests, workers or failures: events are handled in any order  *)
(* and as often as it takes, and a checkpoint moves up, over handled       *)
(* events only.  A crawl that starts at the checkpoint therefore misses    *)
(* nothing.                                                                *)
(***************************************************************************)
EXTENDS Integers

CONSTANTS FromBlock, EventBlocks, NoCheckpoint

VARIABLES checkpoint, handled

Init == checkpoint = NoCheckpoint /\ handled = {}

Handle ==
    /\ \E events \in SUBSET EventBlocks : handled' = handled \cup events
    /\ UNCHANGED checkpoint

Advance ==
    /\ checkpoint' \in Nat /\ checkpoint < checkpoint'
    /\ \A b \in EventBlocks : FromBlock <= b /\ b < checkpoint' => b \in handled
    /\ UNCHANGED handled

Spec == Init /\ [][Handle \/ Advance]_<<checkpoint, handled>>

=============================================================================
