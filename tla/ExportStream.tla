---------------------------- MODULE ExportStream ----------------------------
(***************************************************************************)
(* What an exporter promises to the readers of its topic, without          *)
(* processes, transactions or failures: the blocks that have arrived form  *)
(* a prefix of the event blocks after StartBlock, and the recorded position *)
(* never claims a block that has not arrived. Repeated deliveries do not    *)
(* change the set of blocks that have arrived, so they are stuttering.      *)
(***************************************************************************)
EXTENDS Integers

CONSTANTS EventBlocks, StartBlock, NoPosition

VARIABLES
  topic,     \* heights of the event blocks that readers have received
  saved      \* the position the next process resumes from, or NoPosition

streamVars == <<topic, saved>>

(* Every event block after StartBlock and below one of S is in S. *)
PrefixClosed(S) ==
  \A b \in EventBlocks :
    StartBlock < b /\ (\E c \in S : b < c) => b \in S

(* Every event block after StartBlock and up to p is in S. *)
Covers(S, p) == \A b \in EventBlocks : StartBlock < b /\ b <= p => b \in S

Init ==
  /\ topic = {}
  /\ saved = NoPosition

Deliver ==
  /\ topic \subseteq topic'
  /\ topic' \subseteq EventBlocks
  /\ PrefixClosed(topic')
  /\ UNCHANGED saved

SavePosition ==
  /\ saved' \in Int
  /\ Covers(topic, saved')
  /\ UNCHANGED topic

Next == Deliver \/ SavePosition

Spec == Init /\ [][Next]_streamVars

=============================================================================
