----------------------------- MODULE SlideLedger -----------------------------
(***************************************************************************)
(* What an upload promises, whatever the handlers, their threads and the   *)
(* restarts do: the server keeps account of the slides it is owed for each *)
(* file.  A slide is struck off only once its data has been written, and a *)
(* file becomes finished only once all its slides have been; neither is    *)
(* ever taken back.  An account may be closed at any time, and is never    *)
(* opened again.                                                           *)
(***************************************************************************)
EXTENDS Integers

CONSTANTS Entries,   \* the ids an account may have
          Md5s,      \* the contents of files
          Slides     \* the slides of a file

VARIABLES
    accounts,    \* [id, md5]: the accounts that are open
    owed,        \* owed[id]: the slides still to come, of an open account
    received,    \* <<md5, slide>>: the slides that were written
    finished     \* the ids of the finished files

vars == <<accounts, owed, received, finished>>

Whole(m) == \A s \in Slides : <<m, s>> \in received

Init ==
    /\ accounts \subseteq [id : Entries, md5 : Md5s]
    /\ owed \in [Entries -> SUBSET Slides]
    /\ received \subseteq Md5s \X Slides
    /\ finished \subseteq {a.id : a \in accounts}
    /\ \A id \in Entries : owed[id] # {} => \E a \in accounts : a.id = id
    /\ \A a \in accounts :
          /\ \A s \in Slides : s \in owed[a.id] \/ <<a.md5, s>> \in received
          /\ a.id \in finished => Whole(a.md5)

Receive ==
    /\ \E m \in Md5s, s \in Slides : received' = received \cup {<<m, s>>}
    /\ UNCHANGED <<accounts, owed, finished>>

Strike ==
    /\ \E a \in accounts, s \in Slides :
          /\ <<a.md5, s>> \in received
          /\ owed' = [owed EXCEPT ![a.id] = @ \ {s}]
    /\ UNCHANGED <<accounts, received, finished>>

Finish ==
    /\ \E a \in accounts :
          /\ Whole(a.md5)
          /\ finished' = finished \cup {a.id}
    /\ UNCHANGED <<accounts, owed, received>>

(* A slide may be asked for again, even of a finished file.                *)
Owe ==
    /\ \E a \in accounts, s \in Slides :
          owed' = [owed EXCEPT ![a.id] = @ \cup {s}]
    /\ UNCHANGED <<accounts, received, finished>>

(* What was owed to the account, and that it was finished, goes with it.   *)
Close ==
    /\ \E a \in accounts :
          /\ accounts' = accounts \ {a}
          /\ owed' = [owed EXCEPT ![a.id] = {}]
          /\ finished' = finished \ {a.id}
    /\ UNCHANGED received

Next == Receive \/ Strike \/ Finish \/ Owe \/ Close

Spec == Init /\ [][Next]_vars
=============================================================================
