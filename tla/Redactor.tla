------------------------------- MODULE Redactor -------------------------------
(***************************************************************************)
(* The streaming redactor and the byte cap behind it.  Output of a command *)
(* arrives in chunks cut anywhere; what is written on is independent of    *)
(* the cuts and contains no registered value.                              *)
(*                                                                         *)
(* Output is a sequence of the bytes kept, by their position in the input, *)
(* and of placeholders, which count as one byte for the cap.  Fragments    *)
(* are Window bytes of values of MinFragmented to MaxFragmented bytes; the *)
(* code has 12, 24 and 65536, and 2n + 32 for SpanCap.                     *)
(***************************************************************************)
EXTENDS Integers, Sequences, FiniteSets, FiniteSetsExt

CONSTANTS
  Bytes,          \* what a command may print
  Gaps,           \* whitespace and control bytes
  Values,         \* what may be a secret
  Late,           \* values added while the command runs
  Window, MinFragmented, MaxFragmented,
  Slack,          \* constant term of the span cap
  MaxOut,         \* max_bytes; 0: no cap
  MaxInput,       \* bound: bytes the command prints
  MaxChunk        \* bound: bytes of a chunk

ASSUME RedactorAssumption ==
  /\ Gaps \subseteq Bytes /\ Window \in Nat \ {0} /\ MinFragmented \in Nat /\ MaxFragmented \in Nat
  /\ MaxOut \in Nat /\ Slack \in Int
  /\ Late \subseteq Values /\ IsFiniteSet(Values)
  /\ \A s \in Values :
       s \in Seq(Bytes) /\ s # <<>> /\ 2 * Len(s) + Slack >= Len(s)

VARIABLES
  input,    \* all the bytes printed so far
  seen,     \* how many of them have been consumed; the rest is the buffer
  out,      \* what was written to the cap, see above
  secrets,  \* the registered values
  addedAt,  \* value -> seen when it was registered
  written, dropped,  \* capWriter: bytes let through, some were not
  closed    \* Flush has run

redactVars == <<input, seen, out, secrets, addedAt, written, dropped, closed>>

Placeholder == 0

RedactTypeOK ==
  /\ input \in Seq(Bytes) /\ seen \in 0 .. Len(input) /\ out \in Seq(0 .. Len(input))
  /\ secrets \subseteq Values /\ addedAt \in [secrets -> 0 .. Len(input)]
  /\ written \in 0 .. Len(out) /\ dropped \in BOOLEAN /\ closed \in BOOLEAN
  /\ closed => seen = Len(input)

-----------------------------------------------------------------------------
(* Matching.                                                               *)

IsGap(b) == b \in Gaps
WithoutGaps(s) ==
  LET kept[n \in 0 .. Len(s)] ==
        IF n = 0 THEN <<>>
        ELSE IF IsGap(s[n]) THEN kept[n - 1] ELSE Append(kept[n - 1], s[n])
  IN kept[Len(s)]

\* flexSpanCap: how far a match may reach.
SpanCap(n) == 2 * n + Slack

\* reindex: the longest reach of all values; never less than before.
MaxSpan(S) == IF S = {} THEN 0 ELSE Max({SpanCap(Len(s)) : s \in S})

\* Tier 1: the value itself begins here.
ExactMatches(buf, S) == {Len(s) : s \in {v \in S : Len(v) <= Len(buf) /\ SubSeq(buf, 1, Len(v)) = v}}

\* A span of at most limit bytes whose last byte is no gap.
Spans(buf, limit) == {n \in 1 .. limit : n <= Len(buf) /\ ~IsGap(buf[n])}

\* Mutant: a match reaches as far as the value is long.
FlexSpansShort(buf, s, limit) ==
  {n \in Spans(buf, Len(s)) : WithoutGaps(SubSeq(buf, 1, n)) = WithoutGaps(s)}

\* Tier 2: the bytes of s begin here, with gaps between them; leading gaps count when the
\* value has them.
FlexSpans(buf, s, limit) ==
  LET bytes == WithoutGaps(s)
  IN {n \in Spans(buf, limit) : /\ buf[1] \in {s[1], Head(bytes)}
                               /\ WithoutGaps(SubSeq(buf, 1, n)) = bytes}

\* Of several values that match the longest is taken.
FlexMatches(buf, S) ==
  LET Found == {s \in S : WithoutGaps(s) # <<>> /\ FlexSpans(buf, s, MaxSpan(S)) # {}}
      Length == Max({Len(s) : s \in Found})
  IN UNION {FlexSpans(buf, s, MaxSpan(S)) : s \in {t \in Found : Len(t) = Length}}

\* The index of fragments: of equal windows the last one of the shortest value stays.
FragmentHits(key, S) ==
  LET Long == {s \in S : Len(WithoutGaps(s)) \in MinFragmented .. MaxFragmented}
      Windows(s) == LET bytes == WithoutGaps(s)
                    IN {i \in 1 .. (Len(bytes) - Window + 1) : SubSeq(bytes, i, i + Window - 1) = key}
      Having == {s \in Long : Windows(s) # {}}
      Length == Min({Len(s) : s \in Having})
  IN {<<WithoutGaps(s), Max(Windows(s))>> : s \in {t \in Having : Len(t) = Length}}

\* Mutant: a fragment is followed as far as the buffer goes.
FragmentReachFar(buf, S) == Len(buf)

\* Neither the window nor its extension goes past what the buffer is sure to hold.
FragmentReach(buf, S) == Min({Len(buf), MaxSpan(S)})

\* Tier 3: Window bytes of a long value, and what follows of it.
FragmentMatches(buf, S) ==
  {n \in Spans(buf, FragmentReach(buf, S)) :
     LET part == WithoutGaps(SubSeq(buf, 1, n)) IN
     /\ ~IsGap(buf[1]) /\ Len(part) >= Window
     /\ \E hit \in FragmentHits(SubSeq(part, 1, Window), S) :
          /\ hit[2] + Len(part) - 1 <= Len(hit[1])
          /\ SubSeq(hit[1], hit[2], hit[2] + Len(part) - 1) = part}

\* matchAt: how many bytes to replace at the beginning of buf, 0 for none.
MatchAt(buf, S) ==
  IF ExactMatches(buf, S) # {} THEN Max(ExactMatches(buf, S))
  ELSE IF FlexMatches(buf, S) # {} THEN Max(FlexMatches(buf, S))
  ELSE Max(FragmentMatches(buf, S) \cup {0})

-----------------------------------------------------------------------------
(* The stream.                                                             *)

\* The bytes held back because a value may begin in them.
Hold(S, final) == IF final \/ MaxSpan(S) = 0 THEN 0 ELSE MaxSpan(S) - 1

\* scan: from byte p of the text on, what is written and how far it gets.
Scan(text, p, S, final) ==
  LET from[q \in 1 .. (Len(text) + 1)] ==
        IF Len(text) - q + 1 <= Hold(S, final) THEN [out |-> <<>>, seen |-> q - 1]
        ELSE LET n == MatchAt(SubSeq(text, q, Len(text)), S)
                 rest == from[q + (IF n = 0 THEN 1 ELSE n)]
             IN [rest EXCEPT !.out = <<IF n = 0 THEN q ELSE Placeholder>> \o @]
  IN from[p]

\* capWriter: bytes past the cap are dropped, and only that is a truncation.
CapExceeded(n) == MaxOut > 0 /\ n > MaxOut

\* What a scan writes goes to the cap.
Emit(scanned) ==
  /\ out' = out \o scanned.out /\ seen' = scanned.seen
  /\ dropped' = (dropped \/ CapExceeded(Len(out')))
  /\ written' = (IF MaxOut > 0 THEN Min({Len(out'), MaxOut}) ELSE Len(out'))

RedactInit ==
  /\ input = <<>> /\ seen = 0 /\ out = <<>> /\ secrets = {} /\ addedAt = <<>>
  /\ written = 0 /\ dropped = FALSE /\ closed = FALSE

\* A writer for the values S, before the first write.
New(S) ==
  /\ secrets' = S /\ addedAt' = [s \in S |-> 0]
  /\ UNCHANGED <<input, seen, out, written, dropped, closed>>

Write(chunk) ==
  /\ ~closed /\ Len(input) + Len(chunk) <= MaxInput
  /\ input' = input \o chunk
  /\ Emit(Scan(input', seen + 1, secrets, FALSE))
  /\ UNCHANGED <<secrets, addedAt, closed>>

Flush ==
  /\ ~closed /\ closed' = TRUE
  /\ Emit(Scan(input, seen + 1, secrets, TRUE))
  /\ UNCHANGED <<input, secrets, addedAt>>

\* The buffer is not scanned again before the next write.
AddSecret(s) ==
  /\ ~closed /\ s \notin secrets
  /\ secrets' = secrets \cup {s}
  /\ addedAt' = [t \in secrets' |-> IF t = s THEN seen ELSE addedAt[t]]
  /\ UNCHANGED <<input, seen, out, written, dropped, closed>>

RedactNext ==
  \/ \E n \in 1 .. MaxChunk : \E chunk \in [1 .. n -> Bytes] : Write(chunk)
  \/ Flush
  \/ \E s \in Late : AddSecret(s)

-----------------------------------------------------------------------------
(* Properties.                                                             *)

\* However the output was cut into chunks, what was written is what one pass over the whole
\* output would have written, if all values were known before the first byte went out
\* (redact.go:203); and Truncated is reported exactly when bytes were dropped, not when the
\* output ends at the cap (runner.go:216).
ChunkingIsInvisible ==
  /\ closed /\ (\A s \in secrets : addedAt[s] = 0) => out = Scan(input, 1, secrets, TRUE).out
  /\ dropped <=> written < Len(out)

\* No value is written on from the moment it was registered, neither as it is nor with gaps
\* put between its bytes as far as the span cap (redact.go:8, redact.go:318).
NoValueIsWritten ==
  \A i \in DOMAIN out, j \in DOMAIN out : \A s \in secrets :
    LET first == out[i] IN
    (i <= j /\ first > addedAt[s] /\ j - i < SpanCap(Len(s))
       /\ \A k \in i .. j : out[k] = first + (k - i))
    => LET run == SubSeq(input, first, first + (j - i)) IN
       /\ run # s
       /\ ~IsGap(run[1]) => WithoutGaps(run) # WithoutGaps(s)
===============================================================================
