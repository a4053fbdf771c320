---------------------------- MODULE VersionedLog ----------------------------
(***************************************************************************)
(* What the event store promises its readers, without commands, views or   *)
(* replays: each aggregate has one history that only grows at its end,     *)
(* starts with the creation, ends for good with the deletion, and each     *)
(* position of it is acknowledged to at most one writer.                   *)
(***************************************************************************)
EXTENDS Naturals, Sequences

CONSTANTS Ids

Kind == {"USER_CREATED", "USER_UPDATED", "USER_DELETED"}

VARIABLES
    history,   \* id -> the sequence of kinds of its events
    acked      \* the <<id, position>> pairs some writer was told it wrote

Init ==
    /\ history = [i \in Ids |-> <<>>]
    /\ acked = {}

Open(i) == history[i] # <<>> /\ history[i][Len(history[i])] # "USER_DELETED"

Commit(i, kind) ==
    /\ IF kind = "USER_CREATED" THEN history[i] = <<>> ELSE Open(i)
    /\ history' = [history EXCEPT ![i] = Append(@, kind)]
    /\ UNCHANGED acked

Acknowledge(i) ==
    /\ \E k \in DOMAIN history[i] :
           <<i, k>> \notin acked /\ acked' = acked \cup {<<i, k>>}
    /\ UNCHANGED history

Next == \E i \in Ids : (\E kind \in Kind : Commit(i, kind)) \/ Acknowledge(i)

Spec == Init /\ [][Next]_<<history, acked>>
=============================================================================
