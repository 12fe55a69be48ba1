----------------------------- MODULE StreamReader -----------------------------
(***************************************************************************)
(* Serving a byte range of a file: the Range header, the parts it covers,  *)
(* the reader of one part, which fetches Telegram chunks concurrently and  *)
(* hands them over in order through a bounded channel, and the decrypter,  *)
(* which reads whole sealed blocks through it and may start at any block.  *)
(*                                                                         *)
(* A byte is its position in the file.  A byte of an encrypted part is     *)
(* <<part, nonce, position in its block, data in the block, byte>>: a run  *)
(* of bytes opens only when it is one whole block, under its own nonce.    *)
(* The sizes in the code (1 MiB chunks, 64 KiB blocks, ...) are constants. *)
(***************************************************************************)
EXTENDS Integers, Sequences, SequencesExt, FiniteSetsExt

CONSTANTS
    PartSizes,    \* plaintext sizes of the parts: equal, but for the last one
    Encryption,   \* the values of file.encrypted
    MinChunk, MaxChunk,  \* the chunks of CalculateChunkSize, powers of 2
    Concurrency,  \* config.Stream.Concurrency
    Buffers,      \* config.Stream.Buffers
    ReadSizes,    \* sizes of the buffers the response is copied through
    HeaderSize,   \* fileHeaderSize
    TagSize,      \* blockHeaderSize
    BlockData,    \* blockDataSize
    Base,         \* values of a digit (byte) of a nonce
    LowDigits,    \* digits of a nonce that add() covers (8)
    Nonces,       \* initial nonces of parts
    Faults,       \* whether chunks may fail and clients go away
    None

ASSUME StreamAssumption ==
    /\ PartSizes \in Seq(Nat \ {0}) /\ PartSizes # <<>>
    /\ \A i \in 1 .. Len(PartSizes) - 1 : PartSizes[i] = PartSizes[1]
    /\ PartSizes[Len(PartSizes)] <= PartSizes[1]
    /\ {Concurrency, Buffers, BlockData, Base, TagSize, HeaderSize} \subseteq Nat \ {0}
    /\ {MinChunk, MaxChunk} \subseteq Nat \ {0} /\ MinChunk <= MaxChunk
    /\ \E k \in 0 .. MaxChunk : MinChunk * 2^k = MaxChunk
    /\ ReadSizes \subseteq Nat \ {0}
    /\ LowDigits \in Nat
    /\ \A n \in Nonces : n \in Seq(0 .. Base - 1) /\ Len(n) >= LowDigits
    /\ Encryption \subseteq BOOLEAN /\ Faults \in BOOLEAN
    /\ None \notin Int

VARIABLES
    enc,        \* file.encrypted
    nonce0,     \* the nonce in the header of every part
    request,    \* the range [start, end] to serve
    status,     \* of the response
    pos, remaining,  \* Reader
    mr,         \* the tgMultiReader in use
    dec,        \* the decrypter in use
    out         \* history: the bytes sent

vars == <<enc, nonce0, request, status, pos, remaining, mr, dec, out>>

LesserOf(a, b) == IF a < b THEN a ELSE b
Parts == 0 .. Len(PartSizes) - 1
(* The parts before the last one are of one size. *)
PartStart(p) == p * PartSizes[1]
Size == PartStart(Len(PartSizes) - 1) + PartSizes[Len(PartSizes)]
BlockSize == TagSize + BlockData

-----------------------------------------------------------------------------
(* What is stored *)

(* nonce.carry: add one at digit i, and go on while a digit wraps to 0.     *)
Carry(n, i) ==
    [k \in DOMAIN n |->
       IF k >= i /\ \A j \in i .. k - 1 : n[j] = Base - 1
       THEN (n[k] + 1) % Base ELSE n[k]]
Increment(n) == Carry(n, 1)

(* The loop of nonce.add, digit by digit: what is left of x, the digit that  *)
(* comes out and the carry.                                                 *)
Sums(n, x) ==
    LET sum[k \in 0 .. LowDigits] ==
          IF k = 0 THEN [x |-> x, digit |-> 0, carry |-> 0]
          ELSE LET s == sum[k - 1].carry + n[k] + (sum[k - 1].x % Base)
               IN [x |-> sum[k - 1].x \div Base, digit |-> s % Base,
                   carry |-> s \div Base]
    IN sum
WithSums(n, sum) ==
    [k \in DOMAIN n |-> IF k <= LowDigits THEN sum[k].digit ELSE n[k]]
(* Mutant: a carry out of the low digits is lost. *)
AddTo_NoCarry(n, x) == WithSums(n, Sums(n, x))
(* nonce.add: the low digits are added with carry, the others take the rest *)
AddTo(n, x) ==
    LET sum == Sums(n, x)
    IN IF sum[LowDigits].carry # 0 THEN Carry(WithSums(n, sum), LowDigits + 1)
       ELSE WithSums(n, sum)

(* The nonce the encrypter has reached at block b. *)
NonceOf(first, b) ==
    LET reached[i \in 0 .. b] ==
          IF i = 0 THEN first ELSE Increment(reached[i - 1])
    IN reached[b]

(* A part as its message holds it: the file, or a header and sealed blocks, *)
(* each of which has BlockData bytes of the file, or what is left of it.    *)
HeaderByte(i) == <<-1, <<>>, i, 0, -1>>
Plain == [p \in Parts |-> [i \in 1 .. PartSizes[p + 1] |-> PartStart(p) + i - 1]]
Blocks(p) == (PartSizes[p + 1] + BlockData - 1) \div BlockData
SealedByte(p, first, b, i) ==
    <<p, NonceOf(first, b), i, LesserOf(BlockData, PartSizes[p + 1] - b * BlockData),
      IF i <= TagSize THEN -1 ELSE Plain[p][b * BlockData + i - TagSize]>>
Sealed ==
    [p \in Parts |-> [first \in Nonces |->
       [i \in 1 .. HeaderSize + Blocks(p) * TagSize + PartSizes[p + 1] |->
          LET at == i - HeaderSize - 1
          IN IF at < 0 THEN HeaderByte(i)
             ELSE SealedByte(p, first, at \div BlockSize, (at % BlockSize) + 1)]]]
Stored(p) == IF enc THEN Sealed[p][nonce0] ELSE Plain[p]

(* The blocks of a part are counted in a uint64, which has LowDigits digits.*)
LowValues == LET values[k \in 0 .. LowDigits] ==
                   IF k = 0 THEN 1 ELSE Base * values[k - 1]
             IN values[LowDigits]
ASSUME CountAssumption == \A p \in Parts : Blocks(p) < LowValues

(* secretbox.Open; a run that does not open is replaced by zeros.           *)
Open(p, n, run) ==
    LET len == Len(run) - TagSize
    IN [i \in 1 .. len |->
          IF \A j \in DOMAIN run : /\ run[j][1] = p /\ run[j][2] = n
                                   /\ run[j][3] = j /\ run[j][4] = len
          THEN run[TagSize + i][5] ELSE -1]

-----------------------------------------------------------------------------
(* The Range header and the parts it covers *)

(* http_range.Parse for one range "first-last", each of which may be absent *)
Parse(first, last) ==
    LET start == IF first = None THEN Size - last ELSE first
        end == IF first = None \/ last = None THEN Size - 1
               ELSE LesserOf(last, Size - 1)
    IN IF (first = None /\ last = None) \/ start > end \/ start < 0
       THEN None ELSE [start |-> start, end |-> end]

(* Mutant: an end on the last byte of a part reaches into the next part.    *)
Ranges_RoundUp(start, end) ==
    LET size == PartSizes[1]
    IN [i \in 1 .. (end + 1) \div size - start \div size + 1 |->
          LET p == start \div size + i - 1
          IN [part |-> p, start |-> IF start > p * size THEN start - p * size ELSE 0,
              end |-> LesserOf(size - 1, end - p * size)]]
(* calculatePartByteRanges, with the size of the first part for all.        *)
Ranges(start, end) ==
    LET size == PartSizes[1]
    IN [i \in 1 .. end \div size - start \div size + 1 |->
          LET p == start \div size + i - 1
          IN [part |-> p, start |-> IF start > p * size THEN start - p * size ELSE 0,
              end |-> LesserOf(size - 1, end - p * size)]]
Covered == Ranges(request.start, request.end)

(* calculateUnderlying *)
FirstBlock(offset) == offset \div BlockData
UnderlyingOffset(offset) == HeaderSize + FirstBlock(offset) * BlockSize
UnderlyingLimit(offset, limit) ==
    LET beyond == limit - (BlockData - (offset % BlockData))
    IN BlockSize * (IF beyond > 0 THEN 1 + (beyond + BlockData - 1) \div BlockData
                    ELSE 1)

-----------------------------------------------------------------------------
(* tgMultiReader *)

(* CalculateChunkSize: halve the largest chunk down to the range asked for. *)
ChunkSize(start, end) ==
    Max({c \in MinChunk .. MaxChunk :
           /\ \E k \in 0 .. MaxChunk : c * 2^k = MaxChunk
           /\ c = MinChunk \/ c <= end - start})

NewMultiReader(p, start, end) ==
    LET chunk == ChunkSize(start, end)
        offset == start - (start % chunk)
    IN [ part |-> p, limit |-> end - start + 1, chunk |-> chunk, offset |-> offset,
         leftCut |-> start - offset, rightCut |-> (end % chunk) + 1,
         total |-> (end - offset + chunk) \div chunk, current |-> 0,
         got |-> <<>>, sent |-> 0, chan |-> <<>>, cur |-> <<>>, pc |-> "filling" ]
NoReader == [ part |-> 0, limit |-> 0, chunk |-> 1, offset |-> 0, leftCut |-> 0,
              rightCut |-> 0, total |-> 0, current |-> 0, got |-> <<>>, sent |-> 0,
              chan |-> <<>>, cur |-> <<>>, pc |-> "done" ]

Batch == {i \in 0 .. Concurrency - 1 : mr.current + i < mr.total}

(* The bytes of chunk i of the batch that are asked for: [from, to).        *)
Cut(i) ==
    IF mr.total = 1 THEN <<mr.leftCut, mr.rightCut>>
    ELSE IF mr.current + i = 0 THEN <<mr.leftCut, mr.chunk>>
    ELSE IF mr.current + i + 1 = mr.total THEN <<0, mr.rightCut>>
    ELSE <<0, mr.chunk>>

(* One goroutine of a batch gets its chunk; they finish in any order.       *)
Chunk(i) == LET from == mr.offset + i * mr.chunk
                part == Stored(mr.part)
            IN SubSeq(part, from + 1, LesserOf(from + mr.chunk, Len(part)))
Fetch(i) ==
    /\ mr.pc = "filling" /\ i \in Batch \ DOMAIN mr.got
    /\ mr' = [mr EXCEPT !.got = [j \in DOMAIN @ \cup {i} |->
                IF j = i THEN SubSeq(Chunk(i), Cut(i)[1] + 1,
                                     LesserOf(Cut(i)[2], Len(Chunk(i))))
                ELSE @[j]]]
    /\ UNCHANGED <<enc, nonce0, request, status, pos, remaining, dec, out>>

Room == Len(mr.chan) < Buffers
(* When the batch is complete its buffers go into the channel in order, and *)
(* the channel is closed after the last batch.                              *)
Push ==
    LET last == mr.sent + 1 = Max(Batch) + 1 IN
    /\ mr.pc = "filling" /\ DOMAIN mr.got = Batch /\ Room
    /\ mr' = [mr EXCEPT
          !.chan = Append(@, mr.got[mr.sent]),
          !.sent = IF last THEN 0 ELSE @ + 1,
          !.got = IF last THEN <<>> ELSE @,
          !.current = IF last THEN @ + Concurrency ELSE @,
          !.offset = IF last THEN @ + mr.chunk * Concurrency ELSE @,
          !.pc = IF last /\ mr.current + Concurrency >= mr.total THEN "done" ELSE @]
    /\ UNCHANGED <<enc, nonce0, request, status, pos, remaining, dec, out>>

(* A chunk fails or times out: the context is cancelled, the channel closed *)
FetchFails ==
    /\ Faults
    /\ mr.pc = "filling" /\ Batch \ DOMAIN mr.got # {}
    /\ mr' = [mr EXCEPT !.pc = "failed", !.got = <<>>]
    /\ UNCHANGED <<enc, nonce0, request, status, pos, remaining, dec, out>>

(* Read of at most k bytes.  It waits while the channel is open and empty.  *)
Ready == mr.limit > 0 /\ (mr.cur # <<>> \/ mr.chan # <<>>)
Current == IF mr.cur # <<>> THEN mr.cur ELSE Head(mr.chan)
Taken(k) == SubSeq(Current, 1, LesserOf(k, Len(Current)))
AfterTaking(k) ==
    [mr EXCEPT !.cur = SubSeq(Current, Len(Taken(k)) + 1, Len(Current)),
               !.chan = IF mr.cur # <<>> THEN @ ELSE Tail(@),
               !.limit = @ - Len(Taken(k))]
(* The end of the part comes with its last byte, or with a read after it.   *)
AtEnd == mr.limit <= 0
(* Mutant: a failure neither closes the channel nor wakes the reader. *)
Broken_Unnoticed == mr.limit > 0 /\ mr.cur = <<>> /\ mr.pc = "done" /\ mr.chan = <<>>
(* ErrStreamAbandoned, or the error of the context, which select may prefer *)
(* to a buffer that is there.                                               *)
Broken == /\ mr.limit > 0 /\ mr.cur = <<>>
          /\ mr.pc = "failed" \/ (mr.pc = "done" /\ mr.chan = <<>>)

-----------------------------------------------------------------------------
(* Reader and decrypter *)

NoDecrypter == [pc |-> "none", nonce |-> <<>>, raw |-> <<>>, buf |-> <<>>,
                limit |-> 0]
StoredEnd(p, end) == LesserOf(Len(Stored(p)) - 1, end)

(* getPartReader: of an encrypted part first the header is read, alone or   *)
(* together with the blocks when the range begins at the first byte.        *)
OpenPart(i, r) ==
    LET c == Ranges(r.start, r.end)[i]
        limit == c.end - c.start + 1
    IN IF ~enc
       THEN mr' = NewMultiReader(c.part, c.start, c.end) /\ dec' = NoDecrypter
       ELSE /\ mr' = NewMultiReader(c.part, 0, StoredEnd(c.part,
                       IF c.start # 0 THEN HeaderSize - 1
                       ELSE HeaderSize + UnderlyingLimit(0, limit) - 1))
            /\ dec' = [NoDecrypter EXCEPT !.pc = "header", !.limit = limit]

(* FilesStream *)
Request(first, last) ==
    /\ status = "idle"
    /\ LET r == Parse(first, last) IN
       IF r = None
       THEN status' = "rejected" /\ UNCHANGED <<request, pos, remaining, mr, dec>>
       ELSE /\ request' = r /\ status' = "reading"
            /\ pos' = 1 /\ remaining' = r.end - r.start + 1
            /\ OpenPart(1, r)
    /\ UNCHANGED <<enc, nonce0, out>>

(* Some bytes are sent; at the end of a part the next one is opened.        *)
Deliver(data, end, m, d) ==
    LET left == remaining - Len(data) IN
    /\ out' = out \o data /\ remaining' = left
    /\ IF end /\ left > 0
       THEN IF pos < Len(Covered)
            THEN pos' = pos + 1 /\ OpenPart(pos + 1, request) /\ UNCHANGED status
            ELSE mr' = m /\ dec' = d /\ status' = "failed" /\ UNCHANGED pos
       ELSE /\ mr' = m /\ dec' = d /\ UNCHANGED pos
            /\ status' = IF left <= 0 THEN "sent" ELSE "reading"
    /\ UNCHANGED <<enc, nonce0, request>>

ReadPlain(k) ==
    /\ status = "reading" /\ ~enc /\ Ready
    /\ LET n == LesserOf(k, remaining)
       IN Deliver(Taken(n), AfterTaking(n).limit <= 0, AfterTaking(n), dec)

Fail == /\ status' = "failed"
        /\ UNCHANGED <<enc, nonce0, request, pos, remaining, mr, dec, out>>
ReadFails ==
    /\ status = "reading" /\ Broken
    /\ ~enc \/ dec.pc # "data" \/ dec.buf = <<>>
    /\ Fail

(* The decrypter fills its buffer from the reader, up to n bytes.           *)
Pull(n) ==
    /\ Ready /\ Len(dec.raw) < n
    /\ dec' = [dec EXCEPT !.raw = @ \o Taken(n - Len(dec.raw))]
    /\ mr' = AfterTaking(n - Len(dec.raw))
    /\ UNCHANGED <<enc, nonce0, request, status, pos, remaining, out>>
DecPull ==
    /\ status = "reading" /\ enc
    /\ \/ dec.pc = "header" /\ Pull(HeaderSize)
       \/ dec.pc = "seek" /\ Pull(BlockSize)
       \/ dec.pc = "data" /\ dec.buf = <<>> /\ Pull(BlockSize)

(* newDecrypter, and RangeSeek unless the range begins at the first byte.   *)
DecHeader ==
    LET c == Covered[pos]
        limit == UnderlyingLimit(c.start, dec.limit)
        from == UnderlyingOffset(c.start)
    IN
    /\ status = "reading" /\ dec.pc = "header"
    /\ Len(dec.raw) = HeaderSize \/ AtEnd
    /\ IF dec.raw # [i \in 1 .. HeaderSize |-> HeaderByte(i)] THEN Fail
       ELSE /\ dec' = [dec EXCEPT !.raw = <<>>,
                         !.pc = IF c.start = 0 THEN "data" ELSE "seek",
                         !.nonce = IF c.start = 0 THEN nonce0
                                   ELSE AddTo(nonce0, FirstBlock(c.start))]
            /\ mr' = IF c.start = 0 THEN mr
                     ELSE NewMultiReader(c.part, from, StoredEnd(c.part, from + limit - 1))
            /\ UNCHANGED <<enc, nonce0, request, status, pos, remaining, out>>

(* fillBuffer: a whole block, or what is left of the range, is opened.      *)
DecOpen ==
    LET c == Covered[pos]
        data == Open(c.part, dec.nonce, dec.raw)
        discard == IF dec.pc = "seek" THEN c.start % BlockData ELSE 0
    IN
    /\ status = "reading" /\ dec.pc \in {"seek", "data"} /\ dec.buf = <<>>
    /\ Len(dec.raw) = BlockSize \/ AtEnd
    /\ IF Len(dec.raw) <= TagSize \/ discard > Len(data) THEN Fail
       ELSE /\ dec' = [dec EXCEPT !.pc = "data", !.raw = <<>>,
                         !.nonce = Increment(@),
                         !.buf = SubSeq(data, discard + 1, Len(data))]
            /\ UNCHANGED <<enc, nonce0, request, status, pos, remaining, mr, out>>

ReadDecrypted(k) ==
    /\ status = "reading" /\ enc /\ dec.pc = "data" /\ dec.buf # <<>>
    /\ LET n == LesserOf(LesserOf(k, remaining), LesserOf(dec.limit, Len(dec.buf)))
       IN Deliver(SubSeq(dec.buf, 1, n), dec.limit = n, mr,
                  [dec EXCEPT !.buf = SubSeq(@, n + 1, Len(@)), !.limit = @ - n])

(* The client goes away: the request's context is cancelled. *)
Disconnect ==
    /\ Faults /\ status = "reading"
    /\ status' = "closed"
    /\ mr' = [mr EXCEPT !.pc = "failed", !.got = <<>>]
    /\ UNCHANGED <<enc, nonce0, request, pos, remaining, dec, out>>

Init ==
    /\ enc \in Encryption /\ nonce0 \in Nonces
    /\ request = [start |-> 0, end |-> 0] /\ status = "idle"
    /\ pos = 0 /\ remaining = 0
    /\ mr = NoReader /\ dec = NoDecrypter
    /\ out = <<>>

Fill == Push \/ \E i \in 0 .. Concurrency - 1 : Fetch(i)
Read == \/ \E k \in ReadSizes : ReadPlain(k) \/ ReadDecrypted(k)
        \/ ReadFails \/ DecPull \/ DecHeader \/ DecOpen
Next ==
    \/ \E first, last \in 0 .. Size + 1 \cup {None} : Request(first, last)
    \/ Fill \/ Read \/ FetchFails \/ Disconnect

Spec == Init /\ [][Next]_vars
(* Telegram answers or the chunk times out, and the response is copied on.  *)
Fairness == WF_vars(Fill \/ FetchFails) /\ WF_vars(Read)
FairSpec == Spec /\ Fairness
-----------------------------------------------------------------------------
(* Properties *)

(* The response is a range transfer (RangeTransfer): what is sent grows     *)
(* from the first byte of the range on, byte for byte, whatever the chunk   *)
(* boundaries, the order in which chunks arrive, the part and the block     *)
(* boundaries and the block a decrypter starts from; it ends with the last  *)
(* byte, and no reader runs dry, no part is short and no block fails to     *)
(* open unless a chunk was lost.                                            *)
Transfer == INSTANCE RangeTransfer WITH sent <- out, fault <- mr.pc = "failed"
ImplementsTransfer == Transfer!Spec

(* Slicing a chunk never reaches beyond what Telegram returned, and every   *)
(* range read is within its part: neither chunk[a:b] nor parts[i] panics.   *)
WithinBounds ==
    /\ \A i \in Batch : mr.pc = "filling" =>
          /\ Cut(i)[1] <= Cut(i)[2]
          /\ mr.current + i + 1 = mr.total => Cut(i)[2] <= Len(Chunk(i))
    /\ status = "reading" => \A i \in DOMAIN Covered :
          /\ Covered[i].part \in Parts
          /\ 0 <= Covered[i].start /\ Covered[i].start <= Covered[i].end

(* A request does not hang: the fetcher, which waits for room in the        *)
(* channel, and the reader, which waits for a buffer, never wait for each   *)
(* other, across the chunks, blocks and parts of a range.                   *)
Served == (status = "reading") ~> (status \in {"sent", "failed", "closed"})
=============================================================================
