----------------------------- MODULE StoredFile -----------------------------
(***************************************************************************)
(* What a Stream promises to the code that holds one (stream/stream.h):    *)
(* every open stream is a cursor in a file of its own, a read returns the  *)
(* bytes at the cursor, however it is buffered and whichever other streams *)
(* are used in between, and closing it keeps what was written.  A process  *)
(* that ends without closing loses at most the last bytes it wrote.        *)
(***************************************************************************)
EXTENDS Integers, Sequences

CONSTANTS Streams,   \* who may hold a stream
          Byte,      \* what a file consists of
          Sizes,     \* how many bytes a caller reads at once, if not one
          Pieces,    \* what a caller writes at once
          NewLine,   \* the byte that ends a line
          LineMax,   \* how many bytes of a line a caller keeps
          Window     \* how many written bytes may still be in memory

VARIABLES bytes,     \* the file each stream is opened on
          at,        \* its cursor, -1 while it is not open
          out        \* what the last call returned

fileVars == <<bytes, at, out>>

IsOpen(s) == at[s] >= 0
Ahead(s)  == SubSeq(bytes[s], at[s] + 1, Len(bytes[s]))
Upto(d, n) == SubSeq(d, 1, IF n < Len(d) THEN n ELSE Len(d))
Line(d) ==
    LET ends == {i \in 1..Len(d) : d[i] = NewLine /\ \A j \in 1..i-1 : d[j] # NewLine}
    IN  IF ends = {} THEN d ELSE Upto(d, CHOOSE i \in ends : TRUE)
Put(file, p, d) ==
    [i \in 1..(IF p + Len(d) > Len(file) THEN p + Len(d) ELSE Len(file)) |->
        IF i \in p + 1..p + Len(d) THEN d[i - p] ELSE file[i]]

Returns(op, s, n, d) ==
    out' = [op |-> op, stream |-> s, asked |-> n, data |-> d]
Move(s, p)        == at' = [at EXCEPT ![s] = p] /\ UNCHANGED bytes
-----------------------------------------------------------------------------
AOpen(s) ==
    /\ at[s] = -1 /\ Move(s, 0) /\ Returns("open", s, 0, <<>>)

ACreate(s) ==
    /\ at[s] = -1 /\ at' = [at EXCEPT ![s] = 0]
    /\ bytes' = [bytes EXCEPT ![s] = <<>>] /\ Returns("create", s, 0, <<>>)

ARead(s, n) ==
    LET d == Upto(Ahead(s), n) IN
    IsOpen(s) /\ Move(s, at[s] + Len(d)) /\ Returns("read", s, n, d)

AGets(s) ==
    LET d == Line(Ahead(s)) IN
    /\ IsOpen(s) /\ Move(s, at[s] + Len(d))
    /\ Returns("gets", s, 0, Upto(d, LineMax - 1))

AScan(s) ==
    LET spaces == {i \in 0..Len(Ahead(s)) : \A j \in 1..i : Ahead(s)[j] = NewLine}
        skip   == CHOOSE i \in spaces : \A j \in spaces : j <= i
        d      == Line(SubSeq(Ahead(s), skip + 1, Len(Ahead(s))))
    IN  /\ IsOpen(s) /\ Move(s, at[s] + skip + Len(d))
        /\ Returns("scan", s, 0, Upto(d, LineMax - 1))

\* Only the byte that was just read can be put back.
AUnGetCh(s) ==
    /\ out.op = "read" /\ out.stream = s /\ out.asked = 1
    /\ out.data # <<>>
    /\ Move(s, at[s] - 1) /\ Returns("unget", s, 0, out.data)

ASeek(s, p)  == IsOpen(s) /\ Move(s, p) /\ Returns("seek", s, p, <<p>>)
ATell(s)     == IsOpen(s) /\ Move(s, at[s]) /\ Returns("tell", s, 0, <<at[s]>>)
ASize(s)     == IsOpen(s) /\ Move(s, at[s]) /\ Returns("size", s, 0, <<Len(bytes[s])>>)
AFlush(s)    == IsOpen(s) /\ Move(s, at[s]) /\ Returns("flush", s, 0, <<>>)

AWrite(s, d) ==
    /\ IsOpen(s)
    /\ bytes' = [bytes EXCEPT ![s] = Put(@, at[s], d)]
    /\ at' = [at EXCEPT ![s] = @ + Len(d)]
    /\ Returns("write", s, Len(d), <<Len(d)>>)

AClose(s) == IsOpen(s) /\ Move(s, -1) /\ Returns("close", s, 0, <<>>)

\* The process ends: what is left of a file differs from what its stream
\* would have read in the last few bytes before the cursor only.
ACrash ==
    /\ \E s \in Streams : IsOpen(s)
    /\ at' = [s \in Streams |-> -1]
    /\ \A s \in Streams :
         /\ Len(bytes'[s]) <= Len(bytes[s])
         /\ \A i \in 1..Len(bytes[s]) :
              i \notin at[s] - Window + 1..at[s]
                 => i <= Len(bytes'[s]) /\ bytes'[s][i] = bytes[s][i]
    /\ out' = [op |-> "crash", stream |-> out.stream, asked |-> 0,
               data |-> <<>>]

FileInit ==
    /\ at = [s \in Streams |-> -1]
    /\ bytes \in [Streams -> Seq(Byte)]
    /\ out.op = "none"

FileNext ==
    \/ \E s \in Streams :
         \/ AOpen(s) \/ ACreate(s) \/ AGets(s) \/ AScan(s) \/ AUnGetCh(s)
         \/ ATell(s) \/ ASize(s) \/ AFlush(s) \/ AClose(s)
         \/ \E n \in Sizes \cup {1} : ARead(s, n)
         \/ \E d \in Pieces : AWrite(s, d)
         \/ \E p \in 0..Len(bytes[s]) : ASeek(s, p)
    \/ ACrash

\* The callers' view of a stream, as an abstract specification: this is what
\* the buffers and the archive below must not show through.
FileSpec == FileInit /\ [][FileNext]_fileVars
=============================================================================
