------------------------------- MODULE WebVtt -------------------------------
(* The reading of WebVTT (src/src/libwebm/webvttparser.cc, vttreader.cc): lines,
   cues, times and settings, of a stream of bytes.

   A stream is its bytes and the position of the next one, from 1; a character
   that is put back is the one before.  e is the code of the program's results:
   negative an error, positive the end of the stream.  A line is read beyond its
   end as NUL, which the program puts there.  *)
EXTENDS Integers, Sequences, FiniteSetsExt, SequencesExt

kNUL == 0
kSPACE == 32
kTAB == 9
kLF == 10
kCR == 13
Blank == {kSPACE, kTAB}
kColon == 58
kFullStop == 46
kArrow == <<45, 45, 62>>
kId == <<87, 69, 66, 86, 84, 84>>
BOM == <<239, 187, 191>>

kMaxLineLength == 10000
INT_MAX == 2147483647

-----------------------------------------------------------------------------
(* Lines. *)

(* VttReader::GetChar, of a file that is open.  *)
GetChar(s) ==
  IF s.pos <= Len(s.bytes) THEN [e |-> 0, c |-> s.bytes[s.pos], s |-> [s EXCEPT !.pos = @ + 1]]
  ELSE [e |-> 1, c |-> 0, s |-> s]

(* Variant: after a CR the next character is taken for a part of the line's end.  *)
GetLineSkips(s) ==
  LET stops == {p \in s.pos .. Len(s.bytes) : s.bytes[p] \in {kLF, kCR, 254, 255}}
      end == IF stops = {} THEN Len(s.bytes) + 1 ELSE Min(stops)
      line == SubSeq(s.bytes, s.pos, end - 1)
  IN [e |-> IF end > Len(s.bytes) /\ line = <<>> THEN 1 ELSE 0, line |-> line,
      s |-> [s EXCEPT !.pos = IF end > Len(s.bytes) THEN end
                              ELSE IF s.bytes[end] = kCR THEN end + 2 ELSE end + 1]]

(* LineReader::GetLine: a line ends with LF, CR or both, or with the stream.  *)
GetLine(s) ==
  LET stops == {p \in s.pos .. Len(s.bytes) : s.bytes[p] \in {kLF, kCR, 254, 255}}
      end == IF stops = {} THEN Len(s.bytes) + 1 ELSE Min(stops)
      line == SubSeq(s.bytes, s.pos, end - 1)
      ended == end > Len(s.bytes)
      both == /\ end < Len(s.bytes)
              /\ SubSeq(s.bytes, end, end + 1) = <<kCR, kLF>>
  IN [e |-> CASE Len(line) > kMaxLineLength -> -1
              [] ended /\ line = <<>> -> 1
              [] ~ended /\ s.bytes[end] \in {254, 255} -> -1
              [] OTHER -> 0,
      line |-> line,
      s |-> [s EXCEPT !.pos = IF ended THEN end ELSE IF both THEN end + 2 ELSE end + 1]]

At(line, i) == IF i <= Len(line) THEN line[i] ELSE kNUL

(* The first place from i on that is not one of these characters.  *)
SkipAll(line, i, chars) ==
  Min({k \in i .. Len(line) + 1 : At(line, k) \notin chars \/ k = Len(line) + 1})

-----------------------------------------------------------------------------
(* Time. *)

(* Time::presentation, in milliseconds.  *)
Presentation(t) ==
  1000 * 3600 * t.hours + 1000 * 60 * t.minutes + 1000 * t.seconds + t.milliseconds

Normalized(seconds, milliseconds) ==
  [hours |-> seconds \div 3600, minutes |-> (seconds \div 60) % 60,
   seconds |-> seconds % 60, milliseconds |-> milliseconds]

SetPresentation(d) ==
  IF d < 0 THEN Normalized(0, 0) ELSE Normalized(d \div 1000, d % 1000)

(* Time::operator+=, -= and -.  *)
Plus(t, d) == SetPresentation(Presentation(t) + d)
Minus(t, d) == Plus(t, -d)
Distance(t, u) == Presentation(t) - Presentation(u)

(* Time::operator<, part by part.  *)
Before(t, u) ==
  \/ t.hours < u.hours
  \/ t.hours = u.hours /\ t.minutes < u.minutes
  \/ t.hours = u.hours /\ t.minutes = u.minutes /\ t.seconds < u.seconds
  \/ /\ t.hours = u.hours /\ t.minutes = u.minutes /\ t.seconds = u.seconds
     /\ t.milliseconds < u.milliseconds

-----------------------------------------------------------------------------
(* Numbers and times on a line. *)

Digits == 48 .. 57

(* Parser::ParseNumber: v is negative when there is no digit or the number does
   not fit an int.  *)
ParseNumber(line, i) ==
  LET end == SkipAll(line, i, Digits)
      add(n, c) == IF n < 0 \/ n > INT_MAX \div 10 \/ n * 10 > INT_MAX - (c - 48)
                   THEN -1 ELSE n * 10 + (c - 48)
  IN [v |-> IF end = i THEN -1 ELSE FoldLeft(add, 0, SubSeq(line, i, end - 1)),
      next |-> end]

(* What a fraction stands for: one and two digits count tenths and hundredths,
   but it is the number that is looked at and not its digits: 005 is 500.  *)
Milliseconds(val) ==
  IF val < 10 THEN val * 100 ELSE IF val < 100 THEN val * 10 ELSE val

(* Parser::ParseTime: SS, MM:SS or HH:MM:SS, and a fraction.  *)
ParseTime(line, from) ==
  LET a == ParseNumber(line, SkipAll(line, from, Blank))
      b == ParseNumber(line, a.next + 1)
      c == ParseNumber(line, b.next + 1)
      Colon(n) == At(line, n.next) = kColon
      parts == IF ~Colon(a) THEN <<a>> ELSE IF ~Colon(b) THEN <<a, b>> ELSE <<a, b, c>>
      after == Last(parts).next
      seconds == CASE Len(parts) = 1 -> a.v
                   [] Len(parts) = 2 -> 60 * a.v + b.v
                   [] Len(parts) = 3 -> 60 * b.v + c.v
      t == Normalized(seconds, 0)
      fraction == ParseNumber(line, after + 1)
      has == At(line, after) = kFullStop
      next == IF has THEN fraction.next ELSE after
      good == /\ \A i \in 1 .. Len(parts) :
                   parts[i].v >= 0 /\ (Len(parts) > 1 /\ (i > 1 \/ Len(parts) = 2)
                                       => parts[i].v < 60)
              /\ has => fraction.v \in 0 .. 999
              /\ At(line, next) \in Blank \cup {kNUL}
  IN IF ~good THEN [e |-> -1]
     ELSE [e |-> 0, next |-> next,
           time |-> [t EXCEPT !.hours = IF Len(parts) = 3 THEN a.v ELSE @,
                              !.milliseconds = IF has THEN Milliseconds(fraction.v) ELSE 0]]

(* Parser::ParseSettings: names and values, each of at least one character.  *)
RECURSIVE ParseSettings(_, _, _)
ParseSettings(line, from, settings) ==
  LET i == SkipAll(line, from, Blank)
      Part(k) == Min({n \in k .. Len(line) + 1 : At(line, n) \in Blank \cup {kNUL, kColon}})
      colon == Part(i)
      end == Part(colon + 1)
      setting == [name |-> SubSeq(line, i, colon - 1), value |-> SubSeq(line, colon + 1, end - 1)]
  IN IF At(line, i) = kNUL THEN [e |-> 0, settings |-> settings]
     ELSE IF \/ At(line, colon) # kColon \/ setting.name = <<>>
             \/ At(line, end) = kColon \/ setting.value = <<>> THEN [e |-> -1]
     ELSE ParseSettings(line, end, Append(settings, setting))

(* Where the arrow is on a line; 0: nowhere.  *)
ArrowPos(line) ==
  LET found == {i \in 1 .. Len(line) - 2 : SubSeq(line, i, i + 2) = kArrow}
  IN IF found = {} THEN 0 ELSE Min(found)

(* Parser::ParseTimingsLine.  *)
ParseTimingsLine(line, arrow) ==
  LET before == SubSeq(line, 1, arrow - 1)
      start == ParseTime(before, 1)
      stop == ParseTime(line, arrow + 3)
      settings == ParseSettings(line, stop.next, <<>>)
  IN IF start.e # 0 \/ At(before, SkipAll(before, start.next, Blank)) # kNUL THEN [e |-> -1]
     ELSE IF stop.e # 0 THEN [e |-> -1]
     ELSE IF settings.e # 0 THEN [e |-> -1]
     ELSE [e |-> 0, start_time |-> start.time, stop_time |-> stop.time,
           settings |-> settings.settings]

-----------------------------------------------------------------------------
(* Parser. *)

Starts(s, bytes) == SubSeq(s.bytes, s.pos, s.pos + Len(bytes) - 1) = bytes

(* Parser::ParseBOM: all of the mark or not its first byte.  *)
ParseBOM(s) ==
  CASE GetChar(s).e > 0 -> [e |-> 1, s |-> s]
    [] GetChar(s).e = 0 /\ GetChar(s).c # BOM[1] -> [e |-> 0, s |-> s]
    [] Starts(s, BOM) -> [e |-> 0, s |-> [s EXCEPT !.pos = @ + 3]]
    [] OTHER -> [e |-> -1, s |-> s]

(* Parser::Init: the line that says what the file is, and an empty one.  *)
Init(s) ==
  LET b == ParseBOM(s)
      first == GetLine([b.s EXCEPT !.pos = @ + Len(kId)])
      second == GetLine(first.s)
      Ends(e) == [e |-> e, s |-> second.s]
  IN IF b.e # 0 \/ ~Starts(b.s, kId) THEN Ends(-1)
     ELSE IF first.e # 0 THEN [e |-> IF first.e > 0 THEN 0 ELSE -1, s |-> first.s]
     ELSE IF first.line # <<>> /\ Head(first.line) \notin Blank THEN Ends(-1)
     ELSE IF second.e # 0 THEN Ends(IF second.e > 0 THEN 0 ELSE -1)
     ELSE Ends(IF second.line = <<>> THEN 0 ELSE -1)

RECURSIVE NonBlank(_)
NonBlank(s) ==
  LET l == GetLine(s)
  IN IF l.e # 0 \/ l.line # <<>> THEN l ELSE NonBlank(l.s)

(* The lines up to an empty one, or to the end.  *)
RECURSIVE Payload(_, _)
Payload(s, lines) ==
  LET l == GetLine(s)
  IN IF l.e < 0 THEN [e |-> -1, s |-> l.s]
     ELSE IF l.line = <<>>
     THEN [e |-> IF lines = <<>> THEN -1 ELSE 0, s |-> l.s, lines |-> lines]
     ELSE Payload(l.s, Append(lines, l.line))

(* Parser::Parse: the next cue, whose identifier may be missing.  *)
Parse(s) ==
  LET first == NonBlank(s)
      named == ArrowPos(first.line) = 0
      second == GetLine(first.s)
      l == IF named THEN second ELSE first
      timings == ParseTimingsLine(l.line, ArrowPos(l.line))
      payload == Payload(l.s, <<>>)
      Fails == [e |-> -1, s |-> l.s]
  IN IF first.e # 0 THEN [e |-> first.e, s |-> first.s]
     ELSE IF named /\ (second.e # 0 \/ ArrowPos(second.line) = 0) THEN Fails
     ELSE IF timings.e # 0 THEN Fails
     ELSE IF payload.e # 0 THEN [e |-> -1, s |-> payload.s]
     ELSE [e |-> 0, s |-> payload.s,
           cue |-> [identifier |-> IF named THEN first.line ELSE <<>>,
                    start_time |-> timings.start_time, stop_time |-> timings.stop_time,
                    settings |-> timings.settings, payload |-> payload.lines]]
=============================================================================
