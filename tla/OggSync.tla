------------------------------- MODULE OggSync -------------------------------
(* libogg's sync layer (libogg/framing.cpp): a buffer of bytes in which pages
   are found by their capture pattern and accepted by their checksum.

   Bytes are tokens.  A page is, in this order, the capture pattern, the fixed
   fields of the header, the checksum, the number of segments, the segment
   table and the body; the four bytes "OggS" are one token, and so are the
   fixed fields.  Any byte of a body may equal the capture pattern.  The
   checksum is taken to distinguish all contents: it is the page it was
   computed for.  *)
EXTENDS Integers, Sequences, FiniteSets, SequencesExt

CONSTANTS Capture,    \* the byte value that is the capture pattern
          WildValue   \* what a header field or checksum is, read as a byte

ASSUME CaptureAssumption == Capture \in Nat /\ WildValue \in Nat

Byte(n) == <<"byte", n>>

Fields(page) ==
  <<"fields", [f \in {"continued", "bos", "eos", "granulepos", "serialno", "pageno"} |-> page[f]]>>

Checksum(page) == <<"checksum", page>>

HeaderLen == 4

PageTokens(page) ==
  <<Byte(Capture), Fields(page), Checksum(page), Byte(Len(page.lens))>>
    \o [i \in 1..Len(page.lens) |-> Byte(page.lens[i])]
    \o [i \in 1..Len(page.body) |-> Byte(page.body[i])]

Value(token) == IF token[1] = "byte" THEN token[2] ELSE WildValue

(* ogg_page_checksum_set over the bytes, compared with the ones read.  *)
ChecksumMatches(tokens) ==
  /\ tokens[3][1] = "checksum"
  /\ tokens = PageTokens(tokens[3][2])

SyncInit ==
  [data |-> <<>>, returned |-> 0, unsynced |-> FALSE, headerbytes |-> 0, bodybytes |-> 0]

SyncReset == SyncInit

(* ogg_sync_buffer and ogg_sync_wrote: what was returned makes room, then the
   bytes follow the ones that are there.  *)
SyncWrite(oy, tokens) ==
  [oy EXCEPT !.data = SubSeq(@, oy.returned + 1, Len(@)) \o tokens, !.returned = 0]

(* The body length: the sum of the segment table.  *)
SumOfTable(page, headerbytes) ==
  LET sum[i \in HeaderLen..headerbytes] ==
        IF i = HeaderLen THEN 0 ELSE sum[i - 1] + Value(page[i])
  IN  sum[headerbytes]

(* sync_fail: on to the next byte that could begin a capture.  *)
SyncFail(oy, page) ==
  LET captures == {i \in 2..Len(page) : page[i] = Byte(Capture)}
      skipped  == IF captures = {} THEN Len(page) ELSE Min(captures) - 1
  IN  [ret |-> -skipped,
       oy  |-> [oy EXCEPT !.headerbytes = 0, !.bodybytes = 0, !.returned = @ + skipped]]

(* The whole test page is buffered: accept it or lose sync.  *)
Verify(oy, page) ==
  LET length == oy.headerbytes + oy.bodybytes
      tokens == SubSeq(page, 1, length)
  IN  IF ChecksumMatches(tokens)
      THEN [ret |-> length, page |-> tokens[3][2],
            oy  |-> [oy EXCEPT !.unsynced = FALSE, !.returned = @ + length,
                               !.headerbytes = 0, !.bodybytes = 0]]
      ELSE SyncFail(oy, page)

(* ogg_sync_pageseek.  ret < 0: so many bytes skipped; 0: more data needed.  *)
Pageseek(oy) ==
  LET page     == SubSeq(oy.data, oy.returned + 1, Len(oy.data))
      bytes    == Len(page)
      header   == Value(page[HeaderLen]) + HeaderLen
      measured == [oy EXCEPT !.headerbytes = header, !.bodybytes = @ + SumOfTable(page, header)]
      Complete(o) == o.headerbytes + o.bodybytes <= bytes
      wait(o)  == [ret |-> 0, oy |-> o]
  IN  IF oy.headerbytes # 0
      THEN IF Complete(oy) THEN Verify(oy, page) ELSE wait(oy)
      ELSE IF bytes < HeaderLen THEN wait(oy)
      ELSE IF page[1] # Byte(Capture) THEN SyncFail(oy, page)
      ELSE IF bytes < header THEN wait(oy)
      ELSE IF Complete(measured) THEN Verify(measured, page) ELSE wait(measured)

(* ogg_sync_pageout: the first loss of sync is reported, the next ones are
   not until a page was found or more data is needed: the loop goes from
   capture to capture, and ends at the end of the data if nowhere before.  *)
SyncPageout(oy) ==
  LET seek     == Pageseek(oy)
      places   == {p \in (oy.returned + 1)..Len(oy.data) :
                     p < Len(oy.data) => oy.data[p + 1] = Byte(Capture)}
      from(p)  == Pageseek([oy EXCEPT !.headerbytes = 0, !.bodybytes = 0, !.returned = p])
  IN  IF seek.ret >= 0 THEN seek
      ELSE IF ~oy.unsynced THEN [ret |-> -1, oy |-> [seek.oy EXCEPT !.unsynced = TRUE]]
      ELSE from(Min({p \in places : from(p).ret >= 0}))
=============================================================================
