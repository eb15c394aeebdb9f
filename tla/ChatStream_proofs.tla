-------------------------- MODULE ChatStream_proofs --------------------------
(***************************************************************************)
(* Proofs about ChatStream: what a whole stream is, what may be appended   *)
(* to a part of it, and what the specification promises every client.      *)
(* Serving_proofs and Proxy_proofs use the lemmas where they prove that    *)
(* the servers and the proxy implement it.                                 *)
(***************************************************************************)
EXTENDS ChatStream, SequenceTheorems, TLAPS

Kinds == {"role", "content", "end", "done", "error"}

\* The event at place i of a whole stream.
Event(i) ==
    IF i = 1 THEN "role"
    ELSE IF i <= MaxTokens + 1 THEN "content"
    ELSE IF i = MaxTokens + 2 THEN "end" ELSE "done"

\* s is the first n events of a whole stream.
Begins(s, n) == Len(s) = n /\ \A i \in 1..n : s[i] = Event(i)

\* A whole stream, place by place.
LEMMA WholeEvents ==
    ASSUME MaxTokens \in Nat \ {0}
    PROVE  /\ Whole \in Seq(Kinds)
           /\ Begins(Whole, MaxTokens + 3)
<1> DEFINE contents == [i \in 1..MaxTokens |-> "content"]
           ends == <<"end", "done">>
           start == <<"role">> \o contents
<1>1. /\ <<"role">> \in Seq(Kinds) /\ Len(<<"role">>) = 1 /\ <<"role">>[1] = "role"
      /\ ends \in Seq(Kinds) /\ Len(ends) = 2 /\ ends[1] = "end" /\ ends[2] = "done"
  BY DEF Kinds
<1>2. contents \in Seq(Kinds) /\ Len(contents) = MaxTokens
      /\ \A i \in 1..MaxTokens : contents[i] = "content"
  BY DEF Kinds
<1> HIDE DEF contents, ends
<1>3. /\ start \in Seq(Kinds) /\ Len(start) = MaxTokens + 1
      /\ \A i \in 1..(MaxTokens + 1) : start[i] = IF i <= 1 THEN <<"role">>[i] ELSE contents[i - 1]
  BY <1>1, <1>2, ConcatProperties
<1> HIDE DEF start
<1>4. /\ start \o ends \in Seq(Kinds) /\ Len(start \o ends) = MaxTokens + 3
      /\ \A i \in 1..(MaxTokens + 3) :
            (start \o ends)[i] = IF i <= MaxTokens + 1 THEN start[i] ELSE ends[i - (MaxTokens + 1)]
  <2>1. /\ start \o ends \in Seq(Kinds) /\ Len(start \o ends) = Len(start) + Len(ends)
        /\ \A i \in 1..(Len(start) + Len(ends)) :
              (start \o ends)[i] = IF i <= Len(start) THEN start[i] ELSE ends[i - Len(start)]
    BY <1>1, <1>3, ConcatProperties
  <2>2. Len(start) + Len(ends) = MaxTokens + 3
    BY <1>1, <1>3
  <2>. QED BY <1>3, <2>1, <2>2
<1>5. Whole = start \o ends
  BY DEF Whole, start, contents, ends
<1>6. ASSUME NEW i \in 1..(MaxTokens + 3) PROVE Whole[i] = Event(i)
  <2>1. CASE i = 1
    BY <1>1, <1>3, <1>4, <1>5, <2>1 DEF Event
  <2>2. CASE i \in 2..(MaxTokens + 1)
    <3>1. i - 1 \in 1..MaxTokens
      BY <2>2
    <3>. QED BY <1>2, <1>3, <1>4, <1>5, <2>2, <3>1 DEF Event
  <2>3. CASE i = MaxTokens + 2 \/ i = MaxTokens + 3
    <3>1. i - (MaxTokens + 1) = IF i = MaxTokens + 2 THEN 1 ELSE 2
      BY <2>3
    <3>. QED BY <1>1, <1>4, <1>5, <2>3, <3>1 DEF Event
  <2>. QED BY <2>1, <2>2, <2>3
<1>. QED BY <1>4, <1>5, <1>6 DEF Begins

\* The first events of a whole stream are a prefix of it.
LEMMA BeginningIsPrefix ==
    ASSUME MaxTokens \in Nat \ {0},
           NEW s \in Seq(Kinds), NEW n \in 0..(MaxTokens + 3), Begins(s, n)
    PROVE  IsPrefix(s, Whole)
<1>1. /\ Whole \in Seq(Kinds) /\ Len(Whole) = MaxTokens + 3
      /\ \A i \in 1..(MaxTokens + 3) : Whole[i] = Event(i)
  BY WholeEvents DEF Begins
<1>2. Len(s) = n /\ \A i \in 1..n : s[i] = Whole[i] /\ Whole[i] \in Kinds
  BY <1>1, ElementOfSeq DEF Begins
<1>3. /\ SubSeq(s, 1, n) \in Seq(Kinds) /\ SubSeq(Whole, 1, n) \in Seq(Kinds)
      /\ Len(SubSeq(s, 1, n)) = n /\ Len(SubSeq(Whole, 1, n)) = n
      /\ \A i \in 1..n : SubSeq(s, 1, n)[i] = s[i] /\ SubSeq(Whole, 1, n)[i] = Whole[i]
  <2>1. \A i \in 1..n : s[i] \in Kinds /\ Whole[i] \in Kinds
    BY <1>2
  <2>2. n \in Int /\ (1 <= n \/ n = 0) /\ n - 1 + 1 = n /\ \A i \in 1..n : 1 + i - 1 = i
    OBVIOUS
  <2>3. /\ SubSeq(s, 1, n) \in Seq(Kinds)
        /\ Len(SubSeq(s, 1, n)) = IF 1 <= n THEN n - 1 + 1 ELSE 0
        /\ \A i \in 1..(n - 1 + 1) : SubSeq(s, 1, n)[i] = s[1 + i - 1]
    BY <2>1, <2>2, SubSeqProperties
  <2>4. /\ SubSeq(Whole, 1, n) \in Seq(Kinds)
        /\ Len(SubSeq(Whole, 1, n)) = IF 1 <= n THEN n - 1 + 1 ELSE 0
        /\ \A i \in 1..(n - 1 + 1) : SubSeq(Whole, 1, n)[i] = Whole[1 + i - 1]
    BY <2>1, <2>2, SubSeqProperties
  <2>. QED BY <2>2, <2>3, <2>4
<1>4. SubSeq(s, 1, n) = SubSeq(Whole, 1, n)
  BY <1>2, <1>3, SeqEqual
<1>. QED BY <1>1, <1>2, <1>4 DEF IsPrefix

\* And the other way round.
LEMMA PrefixIsBeginning ==
    ASSUME MaxTokens \in Nat \ {0}, NEW s \in Seq(Kinds), IsPrefix(s, Whole)
    PROVE  Len(s) \in 0..(MaxTokens + 3) /\ Begins(s, Len(s))
<1>1. /\ Whole \in Seq(Kinds) /\ Len(Whole) = MaxTokens + 3
      /\ \A i \in 1..(MaxTokens + 3) : Whole[i] = Event(i)
  BY WholeEvents DEF Begins
<1>2. Len(s) \in 0..(MaxTokens + 3) /\ SubSeq(s, 1, Len(s)) = SubSeq(Whole, 1, Len(s))
  BY <1>1 DEF IsPrefix
<1>3. \A i \in 1..Len(s) : s[i] \in Kinds /\ Whole[i] \in Kinds
  BY <1>1, <1>2, ElementOfSeq
<1>4. SubSeq(s, 1, Len(s)) = s
  BY SubSeqFull
<1>5. \A i \in 1..(Len(s) - 1 + 1) : SubSeq(Whole, 1, Len(s))[i] = Whole[1 + i - 1]
  BY <1>2, <1>3, SubSeqProperties
<1>6. \A i \in 1..Len(s) : i \in 1..(Len(s) - 1 + 1) /\ 1 + i - 1 = i /\ i \in 1..(MaxTokens + 3)
  BY <1>2
<1>. QED BY <1>1, <1>2, <1>4, <1>5, <1>6 DEF Begins

\* The next event continues the beginning of a whole stream.
LEMMA NextEvent ==
    ASSUME MaxTokens \in Nat \ {0},
           NEW s \in Seq(Kinds), NEW n \in 0..(MaxTokens + 2), Begins(s, n)
    PROVE  /\ Append(s, Event(n + 1)) \in Seq(Kinds)
           /\ Begins(Append(s, Event(n + 1)), n + 1)
           /\ IsPrefix(Append(s, Event(n + 1)), Whole)
<1> DEFINE t == Append(s, Event(n + 1))
<1>1. Event(n + 1) \in Kinds
  BY DEF Event, Kinds
<1>2. t \in Seq(Kinds) /\ Len(t) = n + 1 /\ t[n + 1] = Event(n + 1) /\ \A i \in 1..n : t[i] = s[i]
  BY <1>1, AppendProperties DEF Begins
<1> HIDE DEF t
<1>3. Begins(t, n + 1)
  BY <1>2 DEF Begins
<1>4. IsPrefix(t, Whole)
  BY <1>2, <1>3, BeginningIsPrefix
<1>. QED BY <1>2, <1>3, <1>4 DEF t

-----------------------------------------------------------------------------
(* The steps, as facts about one request and about the others. *)

StreamsType == out \in [Requests -> Seq(Kinds)] /\ over \in [Requests -> BOOLEAN]

\* Nothing happens to the other streams.
OthersKept(r) == \A x \in Requests \ {r} : out'[x] = out[x] /\ (over'[x] <=> over[x])

\* A stream that is not over sends its next event.
LEMMA SendsNext ==
    ASSUME MaxTokens \in Nat \ {0}, StreamsType, StreamsType',
           NEW r \in Requests, OthersKept(r), ~over[r], ~over'[r],
           NEW n \in 0..(MaxTokens + 2), Begins(out[r], n),
           out'[r] = Append(out[r], Event(n + 1))
    PROVE  Next
<1>1. /\ out[r] \in Seq(Kinds)
      /\ Event(n + 1) \in {"role", "content", "end", "done"}
  BY DEF StreamsType, Event
<1>2. IsPrefix(out'[r], Whole)
  BY <1>1, NextEvent
<1>3. out' = [out EXCEPT ![r] = Append(@, Event(n + 1))]
  BY DEF StreamsType, OthersKept
<1>4. UNCHANGED over
  <2>0. ASSUME NEW x \in Requests PROVE over'[x] = over[x]
    <3>1. over[x] \in BOOLEAN /\ over'[x] \in BOOLEAN
      BY DEF StreamsType
    <3>2. over'[x] <=> over[x]
      BY Zenon DEF OthersKept
    <3>. QED BY <3>1, <3>2
  <2>1. \A x \in Requests : over'[x] = over[x]
    BY <2>0
  <2>2. over \in [Requests -> BOOLEAN] /\ over' \in [Requests -> BOOLEAN]
    BY DEF StreamsType
  <2>. QED BY <2>1, <2>2
<1>5. Emit(r)
  BY <1>1, <1>2, <1>3, <1>4 DEF Emit
<1>. QED BY <1>5 DEF Next

\* A stream is over, with or without an error event.
LEMMA EndsNext ==
    ASSUME StreamsType, StreamsType',
           NEW r \in Requests, OthersKept(r), ~over[r], over'[r],
           out'[r] = out[r] \/ (out[r] = <<>> /\ out'[r] = <<"error">>)
    PROVE  Next
<1>1. over' = [over EXCEPT ![r] = TRUE]
  <2>1. \A x \in Requests : over'[x] = [over EXCEPT ![r] = TRUE][x]
    BY Zenon DEF StreamsType, OthersKept
  <2>2. [over EXCEPT ![r] = TRUE] \in [Requests -> BOOLEAN]
    BY DEF StreamsType
  <2>. QED BY <2>1, <2>2, Zenon DEF StreamsType
<1>2. CASE out'[r] = out[r]
  <2>1. UNCHANGED out
    BY <1>2 DEF StreamsType, OthersKept
  <2>. QED BY <1>1, <2>1 DEF Next, Close
<1>3. CASE out[r] = <<>> /\ out'[r] = <<"error">>
  <2>1. out' = [out EXCEPT ![r] = <<"error">>]
    BY <1>3 DEF StreamsType, OthersKept
  <2>. QED BY <1>1, <1>3, <2>1 DEF Next, Error
<1>. QED BY <1>2, <1>3

\* A step no client sees.
LEMMA UnseenStep ==
    ASSUME StreamsType, StreamsType',
           \A x \in Requests : out'[x] = out[x] /\ (over'[x] <=> over[x])
    PROVE  UNCHANGED vars
<1>1. UNCHANGED out
  BY DEF StreamsType
<1>2. UNCHANGED over
  <2>0. ASSUME NEW x \in Requests PROVE over'[x] = over[x]
    <3>1. over[x] \in BOOLEAN /\ over'[x] \in BOOLEAN
      BY DEF StreamsType
    <3>2. over'[x] <=> over[x]
      OBVIOUS
    <3>. QED BY <3>1, <3>2
  <2>1. \A x \in Requests : over'[x] = over[x]
    BY <2>0
  <2>2. over \in [Requests -> BOOLEAN] /\ over' \in [Requests -> BOOLEAN]
    BY DEF StreamsType
  <2>. QED BY <2>1, <2>2
<1>. QED BY <1>1, <1>2 DEF vars

=============================================================================
