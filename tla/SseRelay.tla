------------------------------- MODULE SseRelay -------------------------------
(***************************************************************************)
(* What relay() in gateway/routes/chat.py does with the bytes of one       *)
(* stream: it passes each chunk on as it came, and reads the usage out of  *)
(* the events the chunks make up, wherever the network cut them.           *)
(*                                                                         *)
(* A stream is a sequence of symbols: a line break, the "data:" that       *)
(* begins a data line, and what follows it, told apart as far as           *)
(* _parse_usage_frame tells it apart.  A chunk is any run of symbols.      *)
(***************************************************************************)
EXTENDS Naturals, Sequences, FiniteSetsExt

CONSTANTS
    Break, Data,    \* a line break; the "data:" that begins a line
    Usage,          \* JSON objects whose "usage" is an object, each a usage
    Delta,          \* a JSON object without one
    Done,           \* [DONE]
    NotObject,      \* JSON that is not an object
    Junk,           \* any other text
    Error,          \* the gateway's own JSON object that says the stream failed
    Stream,         \* the streams an upstream sends
    None,           \* no usage seen
    Raised          \* _parse_usage_frame raises

Symbol == {Break, Data, Delta, Done, NotObject, Junk} \cup Usage

ASSUME StreamAssumption == /\ Stream \subseteq Seq(Symbol)
                           /\ Break # Data /\ Error \notin Symbol
                           /\ None \notin Symbol /\ Raised \notin Symbol /\ None # Raised

\* The frame is one line and the blank line after it, sent in two pieces.
ErrorFrame == <<Data, Error, Break, Break>>

VARIABLES
    stream,     \* all that the upstream has to send
    received,   \* history: what has arrived of it
    delivered,  \* history: what the caller has been sent of it
    chunk,      \* the chunk in hand
    buf,        \* what has arrived and not been parsed
    usage,      \* the usage of the last event that had one
    charged,    \* what _record_usage is called with
    cut,        \* history: the upstream has broken off
    notice,     \* history: what the caller has been sent of the error frame
    gone,       \* history: the caller has gone away
    pc

vars == <<stream, received, delivered, chunk, buf, usage, charged, cut, notice, gone, pc>>

TypeOK == /\ stream \in Stream
          /\ {received, delivered, chunk, buf} \subseteq Seq(Symbol)
          /\ {usage, charged} \subseteq Usage \cup {None}
          /\ {cut, gone} \subseteq BOOLEAN
          /\ notice \in {<<>>, <<Data>>, ErrorFrame}
          /\ pc \in {"receiving", "parsing", "sending", "telling", "closing", "done"}

Init == /\ stream \in Stream
        /\ received = <<>> /\ delivered = <<>> /\ chunk = <<>> /\ buf = <<>>
        /\ usage = None /\ charged = None
        /\ cut = FALSE /\ notice = <<>> /\ gone = FALSE
        /\ pc = "receiving"

-----------------------------------------------------------------------------
(***************************************************************************)
(* _parse_usage_frame.                                                     *)
(***************************************************************************)
Rest(s, i) == SubSeq(s, i, Len(s))

StartsLine(s, i) == i = 1 \/ s[i - 1] = Break

\* What follows the symbol at i on its line.
Text(s, i) == SubSeq(s, i + 1, Min({j \in i..Len(s) - 1 : s[j + 1] = Break} \cup {Len(s)}))

\* The data lines that end the loop over the lines: all but objects without usage.
Deciding(event) == {i \in DOMAIN event : /\ event[i] = Data
                                         /\ StartsLine(event, i)
                                         /\ Text(event, i) # <<Delta>>}

ParseUsageFrame(event) ==
    LET text == Text(event, Min(Deciding(event)))
    IN IF Deciding(event) = {}
       THEN None
       ELSE CASE text \in {<<u>> : u \in Usage} -> text[1]
              [] text = <<NotObject>> -> Raised
              [] OTHER -> None

-----------------------------------------------------------------------------
(***************************************************************************)
(* The relay: one action for each await and each turn of the inner loop.   *)
(***************************************************************************)
EventEnds(s) == {i \in 1..Len(s) - 1 : s[i] = Break /\ s[i + 1] = Break}

HasEvent(s) == EventEnds(s) # {}

\* Fault: every chunk is parsed by itself.
ReceiveUnbuffered(c) ==
    /\ pc = "receiving"
    /\ chunk' = c /\ received' = received \o c /\ buf' = c
    /\ pc' = "parsing"
    /\ UNCHANGED <<stream, delivered, usage, charged, cut, notice, gone>>

Receive(c) ==
    /\ pc = "receiving"
    /\ chunk' = c /\ received' = received \o c /\ buf' = buf \o c
    /\ pc' = "parsing"
    /\ UNCHANGED <<stream, delivered, usage, charged, cut, notice, gone>>

\* Fault: at most one event of a chunk is taken off the buffer.
ParseOneOnly ==
    /\ pc = "parsing"
    /\ HasEvent(buf)
    /\ LET i == Min(EventEnds(buf))
           parsed == ParseUsageFrame(SubSeq(buf, 1, i - 1))
       IN /\ buf' = Rest(buf, i + 2)
          /\ usage' = IF parsed \in {None, Raised} THEN usage ELSE parsed
          /\ pc' = IF parsed = Raised THEN "telling" ELSE "sending"
    /\ UNCHANGED <<stream, received, delivered, chunk, charged, cut, notice, gone>>

\* A turn of the inner loop.  An exception goes to the clause that takes the
\* upstream for broken, and the chunk in hand is not sent.
ParseEvent ==
    /\ pc = "parsing"
    /\ HasEvent(buf)
    /\ LET i == Min(EventEnds(buf))
           parsed == ParseUsageFrame(SubSeq(buf, 1, i - 1))
       IN /\ buf' = Rest(buf, i + 2)
          /\ usage' = IF parsed \in {None, Raised} THEN usage ELSE parsed
          /\ pc' = IF parsed = Raised THEN "telling" ELSE "parsing"
    /\ UNCHANGED <<stream, received, delivered, chunk, charged, cut, notice, gone>>

YieldChunk ==
    /\ pc = "parsing"
    /\ ~HasEvent(buf)
    /\ pc' = "sending"
    /\ UNCHANGED <<stream, received, delivered, chunk, buf, usage, charged, cut, notice, gone>>

ChunkSent ==
    /\ pc = "sending"
    /\ delivered' = delivered \o chunk
    /\ chunk' = <<>>
    /\ pc' = "receiving"
    /\ UNCHANGED <<stream, received, buf, usage, charged, cut, notice, gone>>

UpstreamEnds ==
    /\ pc = "receiving"
    /\ received = stream
    /\ pc' = "closing"
    /\ UNCHANGED <<stream, received, delivered, chunk, buf, usage, charged, cut, notice, gone>>

\* Fault: a stream that breaks off is taken for one that ends.
UpstreamBreaksQuietly ==
    /\ pc = "receiving"
    /\ cut' = TRUE
    /\ pc' = "closing"
    /\ UNCHANGED <<stream, received, delivered, chunk, buf, usage, charged, notice, gone>>

UpstreamBreaks ==
    /\ pc = "receiving"
    /\ cut' = TRUE
    /\ pc' = "telling"
    /\ UNCHANGED <<stream, received, delivered, chunk, buf, usage, charged, notice, gone>>

\* What the caller has of the error frame after one more piece of it.
Further(n) == IF n = <<>> THEN <<Data>> ELSE ErrorFrame

\* A piece of the frame is sent, straight after what was delivered: no break between.
ErrorSent ==
    /\ pc = "telling"
    /\ notice' = Further(notice)
    /\ pc' = IF notice' = ErrorFrame THEN "closing" ELSE "telling"
    /\ UNCHANGED <<stream, received, delivered, chunk, buf, usage, charged, cut, gone>>

\* The await is cancelled or the generator closed at its yield: nothing is caught.
\* What was being sent may have got through before the caller went.
CallerGoes ==
    /\ pc \in {"receiving", "sending", "telling"}
    /\ gone' = TRUE
    /\ \/ UNCHANGED <<delivered, notice>>
       \/ pc = "sending" /\ delivered' = delivered \o chunk /\ UNCHANGED notice
       \/ pc = "telling" /\ notice' = Further(notice) /\ UNCHANGED delivered
    /\ pc' = "closing"
    /\ UNCHANGED <<stream, received, chunk, buf, usage, charged, cut>>

\* Fault: only a caller that stays is charged.
CloseUncharged ==
    /\ pc = "closing"
    /\ charged' = IF gone THEN None ELSE usage
    /\ pc' = "done"
    /\ UNCHANGED <<stream, received, delivered, chunk, buf, usage, cut, notice, gone>>

\* The finally clause.
Close ==
    /\ pc = "closing"
    /\ charged' = usage
    /\ pc' = "done"
    /\ UNCHANGED <<stream, received, delivered, chunk, buf, usage, cut, notice, gone>>

Next == \/ \E n \in 1..Len(stream) - Len(received) :
               Receive(SubSeq(stream, Len(received) + 1, Len(received) + n))
        \/ ParseEvent \/ YieldChunk \/ ChunkSent
        \/ UpstreamEnds \/ UpstreamBreaks \/ ErrorSent
        \/ CallerGoes \/ Close

Spec == Init /\ [][Next]_vars

-----------------------------------------------------------------------------
(***************************************************************************)
(* The reference: the whole text at once.  A blank line ends an event; an  *)
(* event is the lines back to the blank line before it.                    *)
(***************************************************************************)
Blank(s, i) == s[i] = Break /\ StartsLine(s, i)

\* Where the last line of each finished event ends.
Finished(s) == {j \in 1..Len(s) - 2 : s[j] # Break /\ s[j + 1] = Break /\ s[j + 2] = Break}

EventAt(s, j) == SubSeq(s, Max({i \in 1..j : Blank(s, i)} \cup {0}) + 1, j)

UsageOf(s) ==
    LET told_by == {j \in Finished(s) : ParseUsageFrame(EventAt(s, j)) \in Usage}
    IN IF told_by = {} THEN None ELSE ParseUsageFrame(EventAt(s, Max(told_by)))

Readable(s) == \A j \in Finished(s) : ParseUsageFrame(EventAt(s, j)) # Raised

-----------------------------------------------------------------------------
(***************************************************************************)
(* Properties.                                                             *)
(***************************************************************************)
\* However the stream is cut into chunks, what relay() has read of it at any await
\* or yield is what a reader of the whole text would read: no event is lost, taken
\* twice or read before it is complete.
ChunkingImmaterial ==
    pc # "parsing" /\ Readable(received) => usage = UsageOf(received)

\* "Counts the tokens if the trailing usage frame arrived" (chat.py:406): whoever has
\* been sent a usage frame is charged by it or by a later one, gone or not, broken
\* off or not.
NoFreeAnswer ==
    pc = "done" /\ UsageOf(delivered) # None =>
        charged \in {UsageOf(SubSeq(received, 1, n)) : n \in Len(delivered)..Len(received)}

\* A line of the text is the error, and nothing but the error.
ReadsError(s) == \E i \in 1..Len(s) - 2 : /\ StartsLine(s, i)
                                         /\ s[i] = Data /\ s[i + 1] = Error /\ s[i + 2] = Break

\* "A truncated SSE stream is indistinguishable from a SHORT ANSWER"
\* (chat.py:393-397): a caller that stays has got everything, or its text ends with
\* the error frame.  The frame begins with no line break, so the caller can read it
\* exactly if what it follows ends a line; else it is lost in the unfinished line.
TruncationMarked ==
    pc = "done" /\ ~gone =>
        \/ delivered = stream /\ ~cut /\ notice = <<>>
        \/ LET text == delivered \o notice
           IN  /\ notice = ErrorFrame
               /\ ReadsError(text) <=> StartsLine(text, Len(delivered) + 1)

\* The buffer of a stream is bounded by its longest event, not by its length: what
\* waits in it is the end of what has arrived, in which no event is complete.
HoldsOneEvent ==
    pc \in {"receiving", "sending"} =>
        /\ ~HasEvent(buf)
        /\ buf = Rest(received, Len(received) - Len(buf) + 1)

\* "This must never be the thing that breaks a passthrough it is only observing"
\* (chat.py:284-285): a caller is told that its stream failed only if it did.
ObservingNeverBreaks == notice # <<>> => cut
=============================================================================
