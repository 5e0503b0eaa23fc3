----------------------------- MODULE ByteChannel ----------------------------
(***************************************************************************)
(* What one direction of a serial port promises: a queue of at most Cap    *)
(* bytes.  A byte put into a full queue pushes the oldest one out; bytes   *)
(* come out in the order they went in, each once, into an outlet that      *)
(* holds one byte and must be emptied before the next.                     *)
(***************************************************************************)
EXTENDS Integers, Sequences

CONSTANTS Bytes, Cap, Nothing

VARIABLES q,        \* the bytes in transit, oldest first
          outlet    \* the last byte taken out, or Nothing once fetched

Init == q = <<>> /\ outlet = Nothing

Put(c) ==
  /\ q' = Append(IF Len(q) = Cap THEN Tail(q) ELSE q, c)
  /\ UNCHANGED outlet

Take ==
  /\ q # <<>> /\ outlet = Nothing
  /\ q' = Tail(q)
  /\ outlet' = Head(q)

Fetch == outlet' = Nothing /\ UNCHANGED q

Next == (\E c \in Bytes : Put(c)) \/ Take \/ Fetch

Spec == Init /\ [][Next]_<<q, outlet>>
=============================================================================
