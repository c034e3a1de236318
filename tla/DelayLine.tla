------------------------------ MODULE DelayLine ------------------------------
(***************************************************************************)
(* What the ring of management frames promises.  It is not a plain queue:  *)
(* it is a line that always keeps one entry back.  An entry is handed out  *)
(* only when another stands behind it, once, in the order of arrival, and  *)
(* a newcomer that finds the line full is turned away.                     *)
(*                                                                         *)
(* What the line keeps back when it is new or has been flushed is no       *)
(* frame: it is junk, and the first taker gets it.  The taker frees what   *)
(* it gets, and junk may name the buffer of a frame that waits: then that  *)
(* frame is lost and its place in the line holds junk too.                 *)
(***************************************************************************)
EXTENDS Integers, Sequences

CONSTANTS
    Capacity,    \* entries the line can hold, the one kept back included
    Frame,       \* the frames
    Junk         \* no frame: a null pointer, or one to a frame already freed

VARIABLES
    line,        \* the entries in the line, oldest first; never empty
    out,         \* the entry handed out last
    did          \* the operation done last

vars == <<line, out, did>>

Init == line = <<Junk>> /\ out = Junk /\ did = "flush"

\* A frame is in the line at most once.
Put(f) ==
    /\ did' = "put"
    /\ \A i \in 1 .. Len(line) : line[i] # f
    /\ line' = IF Len(line) < Capacity THEN Append(line, f) ELSE line
    /\ UNCHANGED out

Take ==
    /\ did' = "take"
    /\ Len(line) > 1
    /\ out' = Head(line)
    /\ \/ line' = Tail(line)
       \/ /\ Head(line) = Junk
          /\ \E i \in 2 .. Len(line) : line' = Tail([line EXCEPT ![i] = Junk])

Flush ==
    /\ did' = "flush"
    /\ line' = <<Junk>>
    /\ UNCHANGED out

Next == (\E f \in Frame : Put(f)) \/ Take \/ Flush

Spec == Init /\ [][Next]_vars

=============================================================================
