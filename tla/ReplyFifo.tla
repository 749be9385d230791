------------------------------ MODULE ReplyFifo ------------------------------
(***************************************************************************)
(* What the asynchronous sender of SyncDriveServer promises to the         *)
(* handlers that hand it replies: the replies are taken one at a time, in  *)
(* the order in which they were handed over, and the bytes of each go out  *)
(* in order, without a gap and without a repetition.  Only the reply at    *)
(* the front may be given up, and whatever follows it starts afresh.       *)
(*                                                                         *)
(* Nothing here says to whom the bytes go, when they go, or that they ever *)
(* do: module ReplySender has the file descriptors, the thread and the     *)
(* condition variable, and implements this module.                         *)
(***************************************************************************)
EXTENDS Naturals, Sequences

CONSTANT Lens              \* the lengths, in Nat, a serialized reply may have

VARIABLES
    log,      \* the length of every reply ever handed over, in order
    done,     \* how many of them have been retired
    pos,      \* how many bytes of reply done + 1 have gone out
    wire,     \* the pieces that went out: bytes from+1 .. upto of a reply
    lost      \* the replies that were given up

vars == <<log, done, pos, wire, lost>>

Piece == [reply : Nat, from : Nat, upto : Nat]

TypeOK ==
    /\ log \in Seq(Lens)
    /\ done \in 0..Len(log)
    /\ pos \in Nat
    /\ wire \in Seq(Piece)
    /\ lost \subseteq 1..done

Init ==
    /\ log = <<>>
    /\ done = 0
    /\ pos = 0
    /\ wire = <<>>
    /\ lost = {}

Accept ==
    /\ \E n \in Lens : log' = Append(log, n)
    /\ UNCHANGED <<done, pos, wire, lost>>

Emit ==
    /\ done < Len(log)
    /\ \E upto \in (pos + 1)..log[done + 1] :
          /\ wire' = Append(wire, [reply |-> done + 1, from |-> pos, upto |-> upto])
          /\ pos' = upto
    /\ UNCHANGED <<log, done, lost>>

Retire ==
    /\ done < Len(log)
    /\ pos = log[done + 1]
    /\ done' = done + 1
    /\ pos' = 0
    /\ UNCHANGED <<log, wire, lost>>

GiveUp ==
    /\ done < Len(log)
    /\ done' = done + 1
    /\ pos' = 0
    /\ lost' = lost \cup {done + 1}
    /\ UNCHANGED <<log, wire>>

Next == Accept \/ Emit \/ Retire \/ GiveUp

Spec == Init /\ [][Next]_vars

-----------------------------------------------------------------------------
(* The pieces on the wire follow one another: a piece starts a reply, or   *)
(* continues the piece just before it at the byte where that one stopped,  *)
(* and no piece belongs to a reply older than the one before it.           *)
Contiguous ==
    \A i \in 1..Len(wire) :
        \/ /\ wire[i].from = 0
           /\ i > 1 => wire[i - 1].reply < wire[i].reply
        \/ /\ i > 1
           /\ wire[i - 1].reply = wire[i].reply
           /\ wire[i - 1].upto = wire[i].from

(* A reply that was retired and not given up went out to its last byte.    *)
Complete ==
    \A r \in 1..done :
        \/ r \in lost
        \/ log[r] = 0
        \/ \E i \in 1..Len(wire) : wire[i].reply = r /\ wire[i].upto = log[r]

(* Where the next piece starts: it continues the last piece when a reply   *)
(* is under way, and follows every piece when none is.  This is what makes *)
(* Contiguous and Complete inductive.                                      *)
NextPiece ==
    /\ \A i \in 1..Len(wire) : wire[i].reply <= done + 1
    /\ pos = 0 => \A i \in 1..Len(wire) : wire[i].reply <= done
    /\ pos > 0 => /\ Len(wire) > 0
                  /\ wire[Len(wire)].reply = done + 1
                  /\ wire[Len(wire)].upto = pos
    /\ done < Len(log) => pos <= log[done + 1]
    /\ done = Len(log) => pos = 0

FifoInv == TypeOK /\ Contiguous /\ Complete /\ NextPiece
=============================================================================
