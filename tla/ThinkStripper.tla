---------------------------- MODULE ThinkStripper ----------------------------
(***************************************************************************)
(* The filter that takes think blocks out of a streamed answer             *)
(* (src/src/openai_upstream.py), and the events of the stream, for every   *)
(* way the upstream may cut its text.                                      *)
(*                                                                         *)
(* A text is a sequence of characters.  The tag's name is a constant, so   *)
(* that a run can take a shorter one than the code's; every length that    *)
(* the code derives from the name is derived from it here.  Upper case is  *)
(* left out.                                                               *)
(***************************************************************************)
EXTENDS Naturals, Sequences

CONSTANTS ChoiceIds,  \* choice.index
          Chars,      \* characters
          Name,       \* the tag's name
          NameChars,  \* characters that would go on with a name
          Chunks,     \* what one delta may bring
          MaxChunks   \* bound on the deltas of a stream

Texts == Seq(Chars)

ASSUME ThinkAssumption ==
    /\ {"<", "/", ">"} \subseteq Chars
    /\ Name \in Texts /\ \A i \in 1 .. Len(Name) : Name[i] # "<"
    /\ Chunks \subseteq Texts

VARIABLES mode,    \* ThinkStripper._mode of a choice
          buf,     \* ThinkStripper._buf
          sent,    \* the content that the client was given
          given,   \* history: the content that the upstream sent
          cut,     \* history: a chunk ended inside an open tag, after its name
          finished,    \* the choice had its finish_reason
          stream,  \* the stream of lines
          chunks   \* deltas so far

sseVars == <<mode, buf, sent, given, cut, finished, stream, chunks>>

OpenPrefix == <<"<">> \o Name        \* _OPEN_PREFIX_MAX is its length
CloseTag   == <<"<", "/">> \o Name \o <<">">>

SseTypeOK ==
    /\ mode \in [ChoiceIds -> {"out", "in"}]
    /\ \A c \in ChoiceIds : Len(buf[c]) <= Len(CloseTag) /\ Len(sent[c]) <= Len(given[c])
    /\ cut \in [ChoiceIds -> BOOLEAN]
    /\ finished \in [ChoiceIds -> BOOLEAN]
    /\ stream \in {"open", "broken", "done", "closed"}
    /\ chunks \in 0 .. MaxChunks

SseInit ==
    /\ mode = [c \in ChoiceIds |-> "out"]
    /\ buf = [c \in ChoiceIds |-> <<>>]
    /\ sent = [c \in ChoiceIds |-> <<>>]
    /\ given = [c \in ChoiceIds |-> <<>>]
    /\ cut = [c \in ChoiceIds |-> FALSE]
    /\ finished = [c \in ChoiceIds |-> FALSE]
    /\ stream = "open"
    /\ chunks = 0

-----------------------------------------------------------------------------
(* Searching *)

Occurs(w, s, i) == i + Len(w) - 1 <= Len(s) /\ \A k \in 1 .. Len(w) : s[i + k - 1] = w[k]
Earliest(S) == CHOOSE i \in S : \A j \in S : i <= j
TextFrom(s, i) == SubSeq(s, i, Len(s))
TextTo(s, i) == SubSeq(s, 1, i)

\* "<name" and the end of a word begin a tag.
Begins(s, i) == /\ Occurs(OpenPrefix, s, i)
                /\ i + Len(OpenPrefix) <= Len(s)
                /\ s[i + Len(OpenPrefix)] \notin NameChars

\* _THINK_OPEN_RE: where open tags start, and where the one at i ends.
TagEnds(s, i) == {j \in i + Len(OpenPrefix) .. Len(s) : s[j] = ">"}
Opens(s)   == {i \in 1 .. Len(s) : Begins(s, i) /\ TagEnds(s, i) # {}}

Closes(s)  == {i \in 1 .. Len(s) : Occurs(CloseTag, s, i)}

\* What stands before the first open tag, behind it, and behind the first close tag.
BeforeOpen(s) == TextTo(s, Earliest(Opens(s)) - 1)
AfterOpen(s)  == TextFrom(s, Earliest(TagEnds(s, Earliest(Opens(s)))) + 1)
AfterClose(s) == TextFrom(s, Earliest(Closes(s)) + Len(CloseTag))

-----------------------------------------------------------------------------
(* ThinkStripper.feed: what it emits, and the mode and buffer it leaves *)

\* Mutant: the tail is one character short.
HoldsShort(b) ==
    LET tail == {i \in 1 .. Len(b) : i > Len(b) - Len(OpenPrefix) + 1 /\ b[i] = "<"}
    IN  IF tail = {} THEN [out |-> b, mode |-> "out", buf |-> <<>>]
        ELSE [out |-> TextTo(b, Earliest(tail) - 1), mode |-> "out", buf |-> TextFrom(b, Earliest(tail))]

\* Mutant: everything from the last "<" on is held back, however long.
HoldsLong(b) ==
    LET tail == {i \in 1 .. Len(b) : b[i] = "<"}
    IN  IF tail = {} THEN [out |-> b, mode |-> "out", buf |-> <<>>]
        ELSE [out |-> TextTo(b, Earliest(tail) - 1), mode |-> "out", buf |-> TextFrom(b, Earliest(tail))]

\* No open tag: the first "<" among the last characters may become one.
Holds(b) ==
    LET tail == {i \in 1 .. Len(b) : i > Len(b) - Len(OpenPrefix) /\ b[i] = "<"}
    IN  IF tail = {} THEN [out |-> b, mode |-> "out", buf |-> <<>>]
        ELSE [out |-> TextTo(b, Earliest(tail) - 1), mode |-> "out", buf |-> TextFrom(b, Earliest(tail))]

\* No close tag: the tail that may begin one.
KeepsTail(b) ==
    LET kept == Len(CloseTag) - 1
    IN  [out |-> <<>>, mode |-> "in", buf |-> IF Len(b) <= kept THEN b ELSE TextFrom(b, Len(b) - kept + 1)]

Filters == [mode : {"out", "in"}, buf : Texts]
Filter(m, b) == [mode |-> m, buf |-> b]

\* The loop, a call for each round.
Feed[f \in Filters] ==
    IF f.mode = "out"
    THEN IF Opens(f.buf) = {} THEN Holds(f.buf)
         ELSE LET rest == Feed[Filter("in", AfterOpen(f.buf))]
              IN  [out |-> BeforeOpen(f.buf) \o rest.out, mode |-> rest.mode, buf |-> rest.buf]
    ELSE IF Closes(f.buf) = {} THEN KeepsTail(f.buf)
    ELSE Feed[Filter("out", AfterClose(f.buf))]

\* flush
Flushed(m, b) == IF m = "out" THEN b ELSE <<>>

-----------------------------------------------------------------------------
(* iter_cleaned_sse *)

InAttributes(s) == \E i \in 1 .. Len(s) : Begins(s, i) /\ TagEnds(s, i) = {}

\* A data line with a delta for choice c: clean_openai_chunk, and the tail with
\* the finish_reason.  What the fold of reasoning_content makes of a delta is
\* one more text.
DeltaLine(c, text, finish) ==
    LET fed == IF text = <<>> THEN [out |-> <<>>, mode |-> mode[c], buf |-> buf[c]]
                              ELSE Feed[Filter(mode[c], buf[c] \o text)]
    IN  /\ stream = "open" /\ ~finished[c] /\ chunks < MaxChunks
        /\ text = <<>> => finish
        /\ mode' = [mode EXCEPT ![c] = fed.mode]
        /\ sent' = [sent EXCEPT ![c] =
               @ \o fed.out \o (IF finish THEN Flushed(fed.mode, fed.buf) ELSE <<>>)]
        /\ buf' = [buf EXCEPT ![c] = IF finish THEN <<>> ELSE fed.buf]
        /\ given' = [given EXCEPT ![c] = @ \o text]
        /\ cut' = [cut EXCEPT ![c] = @ \/ InAttributes(given[c] \o text)]
        /\ finished' = [finished EXCEPT ![c] = finish]
        /\ chunks' = chunks + 1
        /\ UNCHANGED stream

\* _flush_stripper_chunks
FlushesAll ==
    /\ sent' = [c \in ChoiceIds |-> sent[c] \o Flushed(mode[c], buf[c])]
    /\ buf' = [c \in ChoiceIds |-> <<>>]

\* data: [DONE]
DoneLine ==
    /\ stream = "open"
    /\ FlushesAll
    /\ stream' = "done"
    /\ UNCHANGED <<mode, given, cut, finished, chunks>>

\* The lines end, with or without [DONE].
LinesEnd ==
    /\ stream \in {"open", "done"}
    /\ FlushesAll
    /\ stream' = "closed"
    /\ UNCHANGED <<mode, given, cut, finished, chunks>>

\* UpstreamError, which the route answers; nothing is flushed.
StreamBreaks ==
    /\ stream = "open"
    /\ stream' = "broken"
    /\ UNCHANGED <<mode, buf, sent, given, cut, finished, chunks>>

SseNext ==
    \/ \E c \in ChoiceIds, text \in Chunks \cup {<<>>}, finish \in BOOLEAN : DeltaLine(c, text, finish)
    \/ DoneLine \/ LinesEnd \/ StreamBreaks

SseSpec == SseInit /\ [][SseNext]_sseVars

-----------------------------------------------------------------------------
(* Properties *)

\* The whole text as strip_think_blocks leaves it, but without a block that is
\* never closed, and with close tags read as the filter reads them
\* (strip_think_blocks also takes one with blanks behind its name).
Stripped[s \in Texts] ==
    IF Opens(s) = {} THEN s
    ELSE LET inner == AfterOpen(s)
         IN  BeforeOpen(s) \o (IF Closes(inner) = {} THEN <<>> ELSE Stripped[AfterClose(inner)])

\* However the text is cut and whichever event ends the stream, the client is
\* given what it would have been given at once ("a tag straddling two upstream
\* chunks is still recognised").  The exception is a tag that is cut behind its
\* name: the filter holds no more than the name back.
StreamAsWhole ==
    \A c \in ChoiceIds : stream \in {"done", "closed"} /\ ~cut[c] => sent[c] = Stripped[given[c]]

\* While the stream runs the client has a prefix of the answer, and of what is
\* certain to be part of it no more is held back than the name of a tag.
HeldBackLittle ==
    \A c \in ChoiceIds : ~cut[c] =>
        LET whole == Stripped[given[c]]
        IN  Occurs(sent[c], whole, 1) /\ Len(whole) - Len(sent[c]) <= Len(OpenPrefix)
=============================================================================
