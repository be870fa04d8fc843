----------------------------- MODULE Terminal -----------------------------
(***************************************************************************)
(* The input side of a virtual terminal: TtyReadQueue of tty.rs and its    *)
(* use in vt.rs.  A read takes what is buffered and leaves a request for   *)
(* the rest; the bytes of a key press go to the oldest requests first.     *)
(* Bytes carry the number of the key press they come from.                 *)
(***************************************************************************)
EXTENDS Naturals, Sequences, SequencesExt

CONSTANTS TtyCap,   \* slots of the read queue's buffer, 64 in the code
          NoByte    \* what an unused slot of it holds

VARIABLES
  tty,        \* [buf, requests]: a request has its reader, its size and pos
  got         \* every byte copied into a reader's buffer, in that order

ttyVars == <<tty, got>>

Bytes == INSTANCE Deque WITH N <- TtyCap, Uninit <- NoByte

TtyInit == tty = [buf |-> Bytes!New, requests |-> <<>>] /\ got = <<>>

(* Mutant: forgets that the buffer may be partly full. *)
HasRoomEmpty(size) == size < TtyCap

HasRoom(size) == size < TtyCap /\ TtyCap - tty.buf.len >= size

(* push_bytes, byte by byte: q is the queue with the bytes given out so far. *)
PushByte(q, b) ==
  IF q.requests = <<>> THEN [q EXCEPT !.buf = Bytes!PushBack(@, b)]
  ELSE LET r == Head(q.requests)
           rest == Tail(q.requests)
       IN  [buf |-> q.buf, out |-> Append(q.out, b),
            requests |-> IF r.pos + 1 = r.size THEN rest ELSE <<[r EXCEPT !.pos = @ + 1]>> \o rest]

PushBytes(q, bs) ==
  LET push[i \in 0 .. Len(bs)] == IF i = 0 THEN q ELSE PushByte(push[i - 1], bs[i])
  IN  push[Len(bs)]

Tagged(press) == [i \in DOMAIN press.str |-> <<press.n, press.str[i]>>]

(* VirtualTerminal::handle_key_pressed: all of the key press or nothing. *)
HandleKeyPressed(press) ==
  IF HasRoom(Len(press.str))
  THEN LET q == PushBytes([buf |-> tty.buf, requests |-> tty.requests, out |-> <<>>],
                          Tagged(press))
       IN  /\ tty' = [buf |-> q.buf, requests |-> q.requests]
           /\ got' = got \o q.out
  ELSE UNCHANGED ttyVars

(* TtyReadQueue::read: size bytes for reader r, who waits if they are not
   all there. *)
Taken(size) == IF tty.buf.len < size THEN tty.buf.len ELSE size

PopBytes(d, n) ==
  LET pop[i \in 0 .. n] == IF i = 0 THEN d ELSE Bytes!PopFront(pop[i - 1]) IN pop[n]

Waiting == {tty.requests[i].reader : i \in DOMAIN tty.requests}

Read(r, size) ==
  /\ r \notin Waiting
  /\ got' = got \o SubSeq(Bytes!Contents(tty.buf), 1, Taken(size))
  /\ tty' = [buf |-> PopBytes(tty.buf, Taken(size)),
             requests |-> IF Taken(size) < size
                          THEN Append(tty.requests, [reader |-> r, size |-> size, pos |-> Taken(size)])
                          ELSE tty.requests]
=============================================================================
