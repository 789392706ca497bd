------------------------------ MODULE Streams -------------------------------
(***************************************************************************)
(* Buffered streams (stream/stream.cpp, stream.h) over a file              *)
(* (filestream.cpp, opened by hfsystem.cpp) and over the members of an     *)
(* archive (vstream.cpp, vfsystem.cpp).  Every member is read through its  *)
(* own VirtualStream, with its own buffer, and all of them through one     *)
(* base FileStream, whose buffer and position they share.  An operator     *)
(* takes the world a call finds and gives the world it leaves.  RawRead    *)
(* and RawSeek are virtual: a member's are the base's Read and Seek.       *)
(***************************************************************************)
EXTENDS Integers, Sequences

CONSTANTS Capacity,    \* buffer_capacity_ of the file's stream (0) and the members'
          Archive,     \* the bytes of the archive
          HeaderSize,  \* how many of them the header and the names take
          Offset,      \* data_offset_ of each member,
          MemberSize,  \* and data_size_
          Byte, Sizes, Pieces, NewLine, LineMax,
          MaxFile      \* bound: how long a written file gets

Members == DOMAIN Offset
Ids     == {0} \cup Members

\* The archive, and the files that arts_fopen and OpenFile open, have 4096 bytes
\* of buffer.  A file opened with none (OpenAny of capacity 0) is not covered.
ASSUME StreamsAssumption ==
    /\ 0 \notin Members /\ DOMAIN MemberSize = Members
    /\ Capacity \in [Ids -> Nat] /\ Capacity[0] > 1 /\ LineMax \in Nat \ {0}
    /\ Archive \in Seq(Byte) /\ HeaderSize \in 0..Len(Archive)
    /\ \A m \in Members : Offset[m] \in Nat /\ MemberSize[m] \in Nat
                          /\ Offset[m] + MemberSize[m] <= Len(Archive)
    /\ Sizes \subseteq Nat /\ Pieces \subseteq Seq(Byte) /\ MaxFile \in Nat

VARIABLES mode,   \* what this program does: read an archive, or use a file
          disk,   \* the bytes of the open file
          raw,    \* the offset of its handle
          st,     \* each stream: buffer_, buffer_head_, buffer_read_, position_
          open,   \* the streams that exist
          lag,    \* bytes of large writes position_ does not count
          out     \* what the last call returned

vars == <<mode, disk, raw, st, open, lag, out>>

\* A new Stream.  buf holds the bytes of buffer_ that mean something: the first
\* buffer_read_ of them after a read, the first buffer_head_ during writes.
Fresh == [buf |-> <<>>, head |-> 0, read |-> 0, pos |-> 0]

World == [disk |-> disk, raw |-> raw, st |-> st]
Least(a, b) == IF a < b THEN a ELSE b
Cut(d, from, n) == SubSeq(d, from + 1, Least(from + n, Len(d)))
Overlay(file, p, d) == Cut(file, 0, p) \o d \o Cut(file, p + Len(d), Len(file))
-----------------------------------------------------------------------------
\* FileStream: the handle's offset moves with every read and write.
FileRead(w, n) ==
    LET d == Cut(w.disk, w.raw, n)
    IN  [w |-> [w EXCEPT !.raw = @ + Len(d)], data |-> d]
FileWrite(w, d) ==
    [w EXCEPT !.disk = Overlay(@, w.raw, d), !.raw = @ + Len(d)]
FileSeek(w, p) == [w EXCEPT !.raw = p]

\* Strict(Op, e) is Op(e), with e evaluated once: TLC would evaluate it anew
\* wherever Op mentions it.
Strict(Op(_), e) == CHOOSE y \in {Op(x) : x \in {e}} : TRUE

\* Flush, Seek and Read make at most one call of the virtual RawSeek or RawRead,
\* the file's or the member's.  What it leaves is an argument here, so that
\* both kinds of stream share the rest.

\* Stream::Tell, and what Read and Flush take for bytes to be written.
Tell(w, s) == w.st[s].pos + w.st[s].head
Unwritten(x) == x.read = 0 /\ x.head > 0

\* Stream::Flush gives bytes read ahead back and writes what is buffered.
\* (Mutant: nothing is given back.)
NothingAhead(x) == FALSE
ReadAhead(x)    == x.read > 0 /\ x.head # x.read
Flushed(w, s, sought) ==
    LET x == w.st[s]
        v == IF ReadAhead(x) THEN sought
             ELSE IF Unwritten(x) THEN FileWrite(w, x.buf) ELSE w
    IN  [v EXCEPT !.st[s] = [Fresh EXCEPT !.pos = Tell(w, s)]]

\* Seek stays inside the buffer when it can.  (Mutant: one byte too far.)
BufferedOrNext(x, p) == x.read > 0 /\ p - x.pos \in 0..x.read + 1
Buffered(x, p)       == x.read > 0 /\ p - x.pos \in 0..x.read - 1
Sought(w, s, p, sought) ==
    IF Buffered(w.st[s], p) THEN [w EXCEPT !.st[s].head = p - w.st[s].pos] ELSE sought

\* Read: what is buffered first, then the rest straight into the caller's
\* memory when it is larger than the buffer, or through a refilled buffer.
FromBuffer(x, n) == Cut(x.buf, x.head, n)
Missing(x, n)    == n - Len(FromBuffer(x, n))
Large(a, s, n)   == Missing(a.st[s], n) > Capacity[s]
Asked(a, s, n)   == IF Large(a, s, n) THEN Missing(a.st[s], n) ELSE Capacity[s]
Spent(a, s)      == [a EXCEPT !.st[s].head = a.st[s].read, !.st[s].pos = @ + a.st[s].read]
AfterRead(a, s, n, r) ==
    LET x     == a.st[s]
        taken == Least(Missing(x, n), Len(r.data))
    IN  IF Missing(x, n) = 0
        THEN [w |-> [a EXCEPT !.st[s].head = @ + n], data |-> FromBuffer(x, n)]
        ELSE [w    |-> [r.w EXCEPT !.st[s] =
                          IF Large(a, s, n)
                          THEN [Fresh EXCEPT !.pos = x.pos + x.read + taken]
                          ELSE [buf |-> r.data, head |-> taken,
                                read |-> Len(r.data), pos |-> x.pos + x.read]],
              data |-> FromBuffer(x, n) \o Cut(r.data, 0, taken)]

\* The base stream, which is also a file's only one.
BaseFlush(w)   == Flushed(w, 0, FileSeek(w, Tell(w, 0)))
BaseSeek(w, p) ==
    Sought(w, 0, p, FileSeek([BaseFlush(w) EXCEPT !.st[0].pos = p], p))
BaseRead(w, n) ==
    LET a == IF Unwritten(w.st[0]) THEN BaseFlush(w) ELSE w
    IN  Strict(LAMBDA r : AfterRead(a, 0, n, r), FileRead(Spent(a, 0), Asked(a, 0, n)))

\* VirtualStream: a seek and a read are calls of the base stream.  The base may
\* stand anywhere, so RawRead goes back to position_ first, and it stops at the
\* end of the member.  (Mutant: it takes the base as it stands.)
VirtualSeek(w, m, p) == BaseSeek(w, Offset[m] + p)
VirtualReadTrustsBase(w, m, n) ==
    BaseRead(w, Least(n, MemberSize[m] - (Tell(w, 0) - Offset[m])))
VirtualRead(w, m, n) ==
    LET p == w.st[m].pos
        a == IF Tell(w, 0) - Offset[m] # p THEN VirtualSeek(w, m, p) ELSE w
    IN  BaseRead(a, Least(n, MemberSize[m] - p))
-----------------------------------------------------------------------------
\* Calls on a stream of either kind.  A member is never written to.
Flush(w, s) == IF s = 0 THEN BaseFlush(w)
               ELSE Flushed(w, s, VirtualSeek(w, s, Tell(w, s)))
Seek(w, s, p) ==
    IF s = 0 THEN BaseSeek(w, p)
    ELSE Sought(w, s, p, VirtualSeek([Flush(w, s) EXCEPT !.st[s].pos = p], s, p))
Read(w, s, n) ==
    IF s = 0 THEN BaseRead(w, n)
    ELSE Strict(LAMBDA r : AfterRead(w, s, n, r),
                VirtualRead(Spent(w, s), s, Asked(w, s, n)))
RawSize(w, s) == IF s = 0 THEN Len(w.disk) ELSE MemberSize[s]

\* GetCh takes a buffered byte without a call of Read.
GetCh(w, s) ==
    LET x == w.st[s] IN
    IF x.head < x.read
    THEN [w |-> [w EXCEPT !.st[s].head = @ + 1], data |-> <<x.buf[x.head + 1]>>]
    ELSE Read(w, s, 1)

NextCh(w, s)     == Strict(LAMBDA v : GetCh(v, s), w)

\* Gets reads bytes until the end of a line or of the file.
GetsStep(s, g) ==
    LET Add(c) == [w |-> c.w, data |-> g.data \o c.data,
                   done |-> c.data = <<>> \/ c.data = <<NewLine>>]
    IN  IF g.done THEN g ELSE Strict(Add, NextCh(g.w, s))
Gets(w, s) ==
    LET round[i \in 0..RawSize(w, s) + 1] ==
            IF i = 0 THEN [w |-> w, data |-> <<>>, done |-> FALSE]
            ELSE Strict(LAMBDA g : GetsStep(s, g), round[i - 1])
    IN  round[RawSize(w, s) + 1]

\* UnGetCh puts a byte back into the buffer it came from.
UnGet(w, s, d) ==
    IF d # <<>> /\ w.st[s].read # 0 /\ w.st[s].head # 0
    THEN [w EXCEPT !.st[s].buf[w.st[s].head] = d[1], !.st[s].head = @ - 1]
    ELSE w

\* Vscanf skips spaces, puts the byte that is none back and reads a line.
SkipStep(s, g)   == IF g.data # <<NewLine>> THEN g ELSE NextCh(g.w, s)
SkipSpaces(w, s) ==
    LET round[i \in 0..RawSize(w, s)] ==
            IF i = 0 THEN NextCh(w, s)
            ELSE Strict(LAMBDA g : SkipStep(s, g), round[i - 1])
    IN  round[RawSize(w, s)]
Vscanf(w, s) ==
    LET Rest(g) == Strict(LAMBDA v : Gets(v, s), UnGet(g.w, s, g.data))
    IN  Strict(Rest, SkipSpaces(w, s))

\* Write: a piece as large as the buffer goes to the file directly, and
\* position_ is left behind; otherwise a full buffer is flushed on the way.
Write(w, d) ==
    LET a    == IF w.st[0].read > 0 THEN Flush(w, 0) ELSE w
        room == Capacity[0] - a.st[0].head
        full == [a EXCEPT !.st[0].buf = @ \o Cut(d, 0, room), !.st[0].head = Capacity[0]]
        rest == Cut(d, room, Len(d))
        b    == IF Len(d) >= room THEN Flush(full, 0) ELSE a
        kept == IF Len(d) >= room THEN rest ELSE d
    IN  IF Len(d) >= Capacity[0] THEN FileWrite(Flush(a, 0), d)
        ELSE [b EXCEPT !.st[0].buf = @ \o kept, !.st[0].head = @ + Len(kept)]
-----------------------------------------------------------------------------
Becomes(w) == disk' = w.disk /\ raw' = w.raw /\ st' = w.st
Returns(op, s, n, d) ==
    out' = [op |-> op, stream |-> s, asked |-> n, data |-> d]
Call(s) == s \in open /\ UNCHANGED <<mode, open>>

\* Whom the program calls: the file, or the members of the archive.
Users == IF mode = "file" THEN {0} ELSE Members

\* arts_fopen: OpenOn finds a file as it is, CreateOn empties it, and a member
\* seeks to its start, where the base then stands.
OpenFile ==
    /\ mode = "file" /\ 0 \notin open
    /\ open' = {0} /\ raw' = 0 /\ st' = [st EXCEPT ![0] = Fresh]
    /\ Returns("open", 0, 0, <<>>) /\ lag' = 0 /\ UNCHANGED <<mode, disk>>
CreateFile ==
    /\ mode = "file" /\ 0 \notin open
    /\ open' = {0} /\ raw' = 0 /\ st' = [st EXCEPT ![0] = Fresh]
    /\ disk' = <<>>
    /\ Returns("create", 0, 0, <<>>) /\ lag' = 0 /\ UNCHANGED mode
OpenMember(m) ==
    /\ mode = "archive" /\ m \notin open
    /\ open' = open \cup {m}
    /\ Becomes(VirtualSeek([World EXCEPT !.st[m] = Fresh], m, 0))
    /\ Returns("open", m, 0, <<>>) /\ UNCHANGED <<mode, lag>>

\* Nobody reads or asks for the position after a large write: see lag.
ReadCall(s, n) ==
    \E r \in {Read(World, s, n)} :
    /\ Call(s) /\ lag = 0
    /\ Becomes(r.w) /\ Returns("read", s, n, r.data) /\ UNCHANGED lag
GetChCall(s) ==
    \E r \in {GetCh(World, s)} :
    /\ Call(s) /\ lag = 0
    /\ Becomes(r.w) /\ Returns("read", s, 1, r.data) /\ UNCHANGED lag
GetsCall(s) ==
    \E r \in {Gets(World, s)} :
    /\ Call(s) /\ lag = 0
    /\ Becomes(r.w) /\ Returns("gets", s, 0, Cut(r.data, 0, LineMax - 1))
    /\ UNCHANGED lag

VscanfCall(s) ==
    \E r \in {Vscanf(World, s)} :
    /\ Call(s) /\ lag = 0 /\ Capacity[s] > 0
    /\ Becomes(r.w) /\ Returns("scan", s, 0, Cut(r.data, 0, LineMax - 1))
    /\ UNCHANGED lag
UnGetChCall(s) ==
    /\ Call(s) /\ out.op = "read" /\ out.stream = s /\ out.asked = 1
    /\ out.data # <<>> /\ Capacity[s] > 0 /\ Becomes(UnGet(World, s, out.data))
    /\ Returns("unget", s, 0, out.data) /\ UNCHANGED lag

SeekCall(s, p) ==
    /\ Call(s) /\ p \in 0..RawSize(World, s)
    /\ Becomes(Seek(World, s, p)) /\ Returns("seek", s, p, <<p>>) /\ lag' = 0
\* arts_fseek relative to the cursor, eqReplay's way to skip a channel.
SeekAhead(s, k) ==
    LET p == Tell(World, s) + k IN
    /\ Call(s) /\ lag = 0 /\ p \in 0..RawSize(World, s)
    /\ Becomes(Seek(World, s, p)) /\ Returns("seek", s, p, <<p>>) /\ lag' = 0
TellCall(s) ==
    /\ Call(s) /\ lag = 0 /\ Returns("tell", s, 0, <<Tell(World, s)>>)
    /\ UNCHANGED <<disk, raw, st, lag>>
SizeCall(s) ==
    LET w == Flush(World, s) IN
    /\ Call(s) /\ Becomes(w)
    /\ Returns("size", s, 0, <<RawSize(w, s)>>) /\ UNCHANGED lag
FlushCall(s) ==
    /\ Call(s) /\ Becomes(Flush(World, s))
    /\ Returns("flush", s, 0, <<>>) /\ UNCHANGED lag

\* Where the next write goes, whatever position_ says.
Cursor == IF st[0].read > 0 THEN raw - st[0].read + st[0].head ELSE raw + st[0].head
WriteCall(d) ==
    /\ mode = "file" /\ Call(0) /\ Cursor + Len(d) <= MaxFile
    /\ Becomes(Write(World, d)) /\ Returns("write", 0, Len(d), <<Len(d)>>)
    /\ lag' = IF Len(d) >= Capacity[0] THEN lag + Len(d) ELSE lag
\* PutCh adds to a buffer with room without a call of Write.  A file's buffer
\* takes more than one byte, so that this is never a large write.
PutCh(b) ==
    LET x == st[0]
        w == IF x.read = 0 /\ x.head < Capacity[0]
             THEN [World EXCEPT !.st[0].buf = Append(@, b), !.st[0].head = @ + 1]
             ELSE Write(World, <<b>>)
    IN  /\ mode = "file" /\ Call(0) /\ Cursor < MaxFile
        /\ Becomes(w) /\ Returns("write", 0, 1, <<1>>)
        /\ UNCHANGED lag

\* ~FileStream flushes before the handle is closed; a member only goes away.
\* (Mutant: the file is closed the way ~Stream would.)
CloseUnflushed(s) == UNCHANGED disk
CloseFlushed(s)   == disk' = Flush(World, s).disk
CloseCall(s) ==
    /\ s \in open /\ open' = open \ {s} /\ CloseFlushed(s)
    /\ raw' = IF s = 0 THEN 0 ELSE raw
    /\ st' = [st EXCEPT ![s] = Fresh]
    /\ Returns("close", s, 0, <<>>) /\ lag' = 0 /\ UNCHANGED mode

\* The process ends with the file open, and a new one starts.
Crash ==
    /\ mode = "file" /\ open # {}
    /\ open' = {} /\ lag' = 0 /\ UNCHANGED <<mode, disk>>
    /\ raw' = 0 /\ st' = [st EXCEPT ![0] = Fresh]
    /\ out' = [op |-> "crash", stream |-> out.stream, asked |-> 0, data |-> <<>>]
-----------------------------------------------------------------------------
\* VirtualFileSystem's constructor reads the header through the base stream,
\* and ValidateNodes asks for its size.
Loaded ==
    LET w == [disk |-> Archive, raw |-> 0, st |-> [s \in Ids |-> Fresh]]
    IN  Flush(Read(w, 0, HeaderSize).w, 0)

InitArchive ==
    /\ mode = "archive" /\ open = {} /\ lag = 0
    /\ disk = Loaded.disk /\ raw = Loaded.raw /\ st = Loaded.st
InitFile ==
    /\ mode = "file" /\ open = {} /\ lag = 0
    /\ disk = <<>> /\ raw = 0 /\ st = [s \in Ids |-> Fresh]
Init ==
    /\ InitArchive \/ InitFile
    /\ out = [op |-> "none", stream |-> 0, asked |-> 0, data |-> <<>>]

Next ==
    \/ OpenFile \/ CreateFile \/ Crash
    \/ \E m \in Members : OpenMember(m)
    \/ \E s \in Users, n \in Sizes : ReadCall(s, n)
    \/ \E s \in Users : GetChCall(s)
    \/ \E s \in Users : UnGetChCall(s)
    \/ \E s \in Users : GetsCall(s)
    \/ \E s \in Users : VscanfCall(s)
    \/ \E s \in Users, p \in 0..Len(disk) : SeekCall(s, p)
    \/ \E s \in Users, k \in Sizes : SeekAhead(s, k)
    \/ \E s \in Users : TellCall(s)
    \/ \E s \in Users : SizeCall(s)
    \/ \E s \in Users : FlushCall(s)
    \/ \E s \in Users : CloseCall(s)
    \/ \E d \in Pieces : WriteCall(d)
    \/ \E b \in Byte : <<b>> \in Pieces /\ PutCh(b)

Spec == Init /\ [][Next]_vars
-----------------------------------------------------------------------------
Stream == [buf : Seq(Byte), head : Nat, read : Nat, pos : Nat]

\* The type invariant: buffers within their capacity, the cursor within what
\* is buffered, and what is written within the bound.
TypeOK ==
    /\ mode \in {"archive", "file"} /\ open \subseteq Users
    /\ disk \in Seq(Byte) /\ raw \in Nat /\ lag \in Nat
    /\ mode = "file" => Len(disk) <= MaxFile
    /\ st \in [Ids -> Stream]
    /\ \A s \in Ids :
         /\ Len(st[s].buf) = IF st[s].read > 0 THEN st[s].read ELSE st[s].head
         /\ Len(st[s].buf) <= Capacity[s] /\ st[s].head <= Len(st[s].buf)

\* position_ and the handle agree: the handle stands behind what was read
\* ahead, and position_ counts every byte but those of large writes.  Flush,
\* Seek and Tell rely on this sum, and each of them changes a part of it.
PositionIsRaw == raw = st[0].pos + st[0].read + lag

\* What a stream has read ahead is what its file holds at position_, also
\* when other members have moved the base stream since.
BuffersMirrorFile ==
    \A s \in Ids : st[s].read > 0 =>
        st[s].buf = IF s = 0 THEN Cut(disk, st[0].pos, st[0].read)
                    ELSE Cut(Archive, Offset[s] + st[s].pos,
                             Least(st[s].read, MemberSize[s] - st[s].pos))

\* A buffer is a window on its file, at the place the handle says.
BuffersAreSound == PositionIsRaw /\ BuffersMirrorFile

\* The file as its users see it: what is on disk and what waits to be written.
SeenBytes ==
    [s \in Ids |->
        IF s # 0 THEN Cut(Archive, Offset[s], MemberSize[s])
        ELSE IF mode = "archive" THEN <<>>
        ELSE IF st[0].read = 0 THEN Overlay(disk, raw, st[0].buf) ELSE disk]
SeenCursor ==
    [s \in Ids |-> IF s \notin open THEN -1
                   ELSE IF s = 0 THEN Cursor ELSE Tell(World, s)]

File == INSTANCE StoredFile WITH
            Streams <- Ids, Window <- Capacity[0],
            bytes <- SeenBytes, at <- SeenCursor

\* Buffers, the shared base and the order of calls do not show: every call
\* returns what the abstract file returns, a member's cursor moves by its own
\* calls only, what was written is there once the file is closed, and the end
\* of a process loses no more than a buffer of it.
ImplementsFile == File!FileSpec
=============================================================================
