------------------------------ MODULE Framing ------------------------------
(***************************************************************************)
(* Requests as bytes: what Login, GetUserList, ConnectUser, SendData and   *)
(* ExitGame write (CommonFunctions.cpp 28-111), what recv makes of it, and *)
(* how ProcessMsg (3-21) and the handlers of the hub (CreateServer.cpp     *)
(* 57-162, 203-255) read it back out of their buffers.  HubServer takes    *)
(* this apart in pieces; here it is done byte by byte.                     *)
(*                                                                         *)
(* The bytes of one client's connection are one sequence, which recv cuts  *)
(* and joins as it likes.  The content buffer of the hub keeps its bytes   *)
(* from one message to the next.  Index i of the code is i + 1 here.       *)
(***************************************************************************)
EXTENDS Naturals, Sequences, SequencesExt

CONSTANTS
    Char,         \* the characters
    Self,         \* user_name of the client, a sequence of characters
    Port,         \* its local_port
    Guests,       \* the names it invites
    Texts,        \* the data it sends
    BufferLen,    \* size of the hub's buffers
    MaxRequests   \* bound on the requests of the client

NUL == "NUL"
Bar == "|"
Colon == ":"
Plus == "+"
Blanks == {"space", "tab", "newline", "vertical tab", "form feed", "return"}

\* The request codes of SockMacros.h, and the digits itoa makes of them.
Codes == [login  |-> 1001, list |-> 1003, invite |-> 1004,
          data   |-> 1005, exit |-> 1006]

RequestCodes == {Codes[op] : op \in DOMAIN Codes}

DigitValue == [d \in {"0", "1", "2", "3", "4", "5", "6", "7", "8", "9"} |->
    CHOOSE v \in 0 .. 9 :
        d = <<"0", "1", "2", "3", "4", "5", "6", "7", "8", "9">>[v + 1]]

IsPlain(s) == \A i \in DOMAIN s : s[i] \notin {NUL, Bar, Colon}

ASSUME FramingAssumption ==
    /\ {NUL, Bar, Colon, "a", "x"} \cup DOMAIN DigitValue \subseteq Char
    /\ {Self, Port} \cup Guests \cup Texts \subseteq Seq(Char)
    /\ \A s \in {Self, Port} \cup Guests : IsPlain(s)
    /\ \A t \in Texts : \A i \in DOMAIN t : t[i] # NUL
    /\ BufferLen \in Nat \ {0}

VARIABLES
    made,       \* the requests of the client, in order
    received,   \* bytes of them that recv has returned
    content,    \* the hub's content buffer
    did         \* what the handlers did, in order

framingVars == <<made, received, content, did>>

(***************************************************************************)
(* C strings in a buffer.                                                  *)
(***************************************************************************)
\* The first index from `from' on at which ch stands in s, or past the end.
IndexFrom(s, ch, from) ==
    CHOOSE i \in from .. Len(s) + 1 :
        /\ i = Len(s) + 1 \/ s[i] = ch
        /\ \A j \in from .. i - 1 : s[j] # ch

CString(s) == SubSeq(s, 1, IndexFrom(s, NUL, 1) - 1)

\* The number that a sequence of digits writes.
Number(d) ==
    LET value[k \in 0 .. Len(d)] ==
            IF k = 0 THEN 0 ELSE 10 * value[k - 1] + DigitValue[d[k]]
    IN  value[Len(d)]

\* How many characters of the set T the sequence s begins with.
Leading(s, T) ==
    CHOOSE k \in 0 .. Len(s) :
        /\ \A i \in 1 .. k : s[i] \in T
        /\ k = Len(s) \/ s[k + 1] \notin T

\* The value of the digits s begins with.
DigitsOf(s) == Number(SubSeq(s, 1, Leading(s, DOMAIN DigitValue)))

\* How many characters atoi skips: the blanks, and a sign behind them.
Skipped(s) ==
    LET b == Leading(s, Blanks)
    IN  IF b < Len(s) /\ s[b + 1] = Plus THEN b + 1 ELSE b

\* atoi.  (The value of what has a minus before it is no request's: 0 here.)
Atoi(s) == DigitsOf(SubSeq(s, Skipped(s) + 1, Len(s)))

Itoa(n) ==
    LET digit(v) == CHOOSE d \in DOMAIN DigitValue : DigitValue[d] = v
    IN  <<digit(n \div 1000), digit((n \div 100) % 10),
          digit((n \div 10) % 10), digit(n % 10)>>

\* memcpy of bytes to the start of a buffer: what lies behind them stays.
Overwrite(buffer, bytes) ==
    [i \in DOMAIN buffer |-> IF i <= Len(bytes) THEN bytes[i] ELSE buffer[i]]

(***************************************************************************)
(* The client: the buffer each request leaves to the sender thread, which  *)
(* sends data_len bytes of it.                                             *)
(***************************************************************************)
Body(r) ==
    CASE r.op = "login"            -> Self \o <<Colon>> \o Port
      [] r.op = "list"             -> <<"a">>
      [] r.op = "exit"             -> Self
      [] r.op \in {"invite", "data"} -> Self \o <<Colon>> \o r.arg

ComposeInvites(r) ==
    Itoa(IF r.op = "data" THEN Codes["invite"] ELSE Codes[r.op])
        \o <<Bar, Bar, Bar>> \o Body(r) \o <<NUL>>

Compose(r) == Itoa(Codes[r.op]) \o <<Bar, Bar, Bar>> \o Body(r) \o <<NUL>>

Requests ==
    {[op |-> op, arg |-> <<>>] : op \in {"login", "list", "exit"}}
        \cup {[op |-> "invite", arg |-> g] : g \in Guests}
        \cup {[op |-> "data", arg |-> t] : t \in Texts}

Stream == FlattenSeq([n \in DOMAIN made |-> Compose(made[n])])

(***************************************************************************)
(* ProcessMsg.                                                             *)
(***************************************************************************)
SplitsAt(msg, i) == \A k \in i .. i + 2 : msg[k] = Bar

\* The loop looks for "|||" that at least one byte follows.
Splits(msg) == {i \in 1 .. Len(msg) - 3 : SplitsAt(msg, i)}

\* The content is not cleared first.
ProcessMsgKeepsContent(msg, buffer) ==
    IF Splits(msg) = {}
      THEN [id |-> 0, content |-> buffer]
      ELSE LET i == CHOOSE i \in Splits(msg) : \A k \in Splits(msg) : i <= k
           IN  [id      |-> Atoi(SubSeq(msg, 1, i - 1)),
                content |-> Overwrite(buffer, SubSeq(msg, i + 3, Len(msg)) \o <<NUL>>)]

\* The end of the content is not marked.
ProcessMsgOpenEnd(msg, buffer) ==
    IF Splits(msg) = {}
      THEN [id |-> 0, content |-> Overwrite(buffer, <<NUL>>)]
      ELSE LET i == CHOOSE i \in Splits(msg) : \A k \in Splits(msg) : i <= k
           IN  [id      |-> Atoi(SubSeq(msg, 1, i - 1)),
                content |-> Overwrite(buffer, SubSeq(msg, i + 3, Len(msg)))]

\* The content is added to what the buffer holds (strcat instead of memcpy).
ProcessMsgAppends(msg, buffer) ==
    IF Splits(msg) = {}
      THEN [id |-> 0, content |-> Overwrite(buffer, <<NUL>>)]
      ELSE LET i == CHOOSE i \in Splits(msg) : \A k \in Splits(msg) : i <= k
           IN  [id      |-> Atoi(SubSeq(msg, 1, i - 1)),
                content |-> CString(buffer) \o SubSeq(msg, i + 3, Len(msg)) \o <<NUL>>]

\* The id (any id that is no request's stands for -1) and the content buffer
\* after the call.
ProcessMsg(msg, buffer) ==
    IF Splits(msg) = {}
      THEN [id |-> 0, content |-> Overwrite(buffer, <<NUL>>)]
      ELSE LET i == CHOOSE i \in Splits(msg) : \A k \in Splits(msg) : i <= k
           IN  [id      |-> Atoi(SubSeq(msg, 1, i - 1)),
                content |-> Overwrite(buffer, SubSeq(msg, i + 3, Len(msg)) \o <<NUL>>)]

(***************************************************************************)
(* The fields the handlers cut out of the buffer, as far as their loops    *)
(* look into it.  The index of the first ':' is capped by the length.      *)
(***************************************************************************)
Missing == <<NUL>>   \* a field that is not there

ColonOrEnd(buffer, from, len) ==
    LET c == IndexFrom(buffer, Colon, from) IN IF c > len THEN len + 1 ELSE c

\* What reaches the opposite when SendInfo is given the bytes of the buffer from
\* `from' on and a length that may be negative: send counts the length, NUL
\* included, and fails on a negative one.
Sent(buffer, from, length) ==
    IF length < 0 THEN Missing ELSE SubSeq(buffer, from, from + length - 2)

\* MakeUser: a name, and a port up to a second ':'.
ReadUser(buffer) ==
    LET len == Len(CString(buffer))
        i   == ColonOrEnd(buffer, 1, len)
        j   == IF i + 1 > len THEN i + 1 ELSE ColonOrEnd(buffer, i + 1, len)
    IN  <<SubSeq(buffer, 1, i - 1), SubSeq(buffer, i + 1, j - 1)>>

\* ConnectUser: two names, the second all that follows the ':'.
ReadPair(buffer) ==
    LET len == Len(CString(buffer))
        i   == ColonOrEnd(buffer, 1, len)
    IN  <<SubSeq(buffer, 1, i - 1), SubSeq(buffer, i + 1, len)>>

ReadDataLastColon(buffer) ==
    LET length == Len(CString(buffer)) + 1
        i      == CHOOSE i \in 1 .. length + 1 :
                    /\ i = length + 1 \/ buffer[i] = Colon
                    /\ \A j \in 1 .. length : buffer[j] = Colon => i # length + 1 /\ j <= i
    IN  <<CString(SubSeq(buffer, 1, i - 1)), Sent(buffer, i + 1, length - i)>>

\* TransferData: the loop runs to length, which counts the NUL.  Without a
\* ':' SendInfo is given the stale bytes behind the NUL and a length of -1.
ReadData(buffer) ==
    LET length == Len(CString(buffer)) + 1
        i      == ColonOrEnd(buffer, 1, length)
    IN  <<CString(SubSeq(buffer, 1, i - 1)), Sent(buffer, i + 1, length - i)>>

\* DisConnectUser appends the opposite's name behind a ':', which is where
\* ConnectUser splits the two again.
ReadLeaver(buffer, opposite) ==
    ReadPair(Overwrite(buffer, CString(buffer) \o <<Colon>> \o opposite \o <<NUL>>))

Fields(op, buffer) ==
    CASE op = "login"  -> ReadUser(buffer)
      [] op = "list"   -> <<Missing, Missing>>
      [] op = "invite" -> ReadPair(buffer)
      [] op = "data"   -> ReadData(buffer)
      [] op = "exit"   -> ReadLeaver(buffer, <<>>)

(***************************************************************************)
(* The steps.                                                              *)
(***************************************************************************)
FramingInit ==
    /\ made = <<>> /\ received = 0 /\ did = <<>>
    /\ content = [i \in 1 .. BufferLen |-> "x"]

Make(r) ==
    /\ Len(made) < MaxRequests
    /\ made' = Append(made, r)
    /\ UNCHANGED <<received, content, did>>

RecvPeek(size) ==
    /\ received + size <= Len(Stream)
    /\ LET msg    == SubSeq(Stream, received + 1, received + size)
           parsed == ProcessMsg(msg, content)
           ops    == {op \in DOMAIN Codes : Codes[op] = parsed.id}
       IN  /\ content' = parsed.content
           /\ did' = did \o SetToSeq({[op |-> op, from |-> received + 1, to |-> received + size,
                                        fields |-> Fields(op, parsed.content)] : op \in ops})
    /\ UNCHANGED <<made, received>>

\* recv returns the next bytes, as many as it likes, and DispatchMsg runs the
\* handler of the code, if it is a request's.
Recv(size) ==
    /\ received + size <= Len(Stream)
    /\ LET msg    == SubSeq(Stream, received + 1, received + size)
           parsed == ProcessMsg(msg, content)
           ops    == {op \in DOMAIN Codes : Codes[op] = parsed.id}
       IN  /\ content' = parsed.content
           /\ did' = did \o SetToSeq({[op |-> op, from |-> received + 1, to |-> received + size,
                                        fields |-> Fields(op, parsed.content)] : op \in ops})
    /\ received' = received + size
    /\ UNCHANGED made

FramingNext ==
    \/ \E r \in Requests : Make(r)
    \/ \E size \in 1 .. BufferLen : Recv(size)

FramingSpec == FramingInit /\ [][FramingNext]_framingVars

(***************************************************************************)
(* Properties.                                                             *)
(***************************************************************************)
\* Where the bytes of the n-th request begin.
Start(n) == 1 + Len(FlattenSeq([k \in 1 .. n - 1 |-> Compose(made[k])]))

\* The request whose body the handler of e was given: the first "|||" of the
\* chunk belongs to it.
Source(e) ==
    LET bytes == Stream
        split == CHOOSE i \in e.from .. e.to :
                   /\ SplitsAt(bytes, i)
                   /\ \A k \in e.from .. i - 1 : ~ SplitsAt(bytes, k)
    IN  CHOOSE n \in DOMAIN made : Start(n) <= split /\ split < Start(n) + Len(Compose(made[n]))

\* What the handler of op would read in a text, cut after some byte.
Cuts(op, text) == {Fields(op, SubSeq(text, 1, k) \o <<NUL>>) : k \in 0 .. Len(text)}

\* recv began the message inside the request whose body the handler was given:
\* the first "|||" it found is one of the request's text.
BegunInside(e) == Start(Source(e)) < e.from

\* The texts of the user's choice in the request r.
Words(r) ==
    CASE r.op = "login"            -> {Self, Port}
      [] r.op = "list"             -> {}
      [] r.op = "exit"             -> {Self}
      [] r.op \in {"invite", "data"} -> {Self, r.arg}

FramingTypeOK ==
    /\ made \in Seq(Requests)
    /\ received \in 0 .. Len(Stream)
    /\ Len(content) = BufferLen
    /\ \A k \in DOMAIN did : did[k].op \in DOMAIN Codes

\* The fields a handler reads are those of the body of one request of the
\* client, or of the end of its text if recv began the message inside it, cut
\* short at most: never bytes of two requests, nor bytes an earlier message
\* left in the content buffer (the loops of MakeUser, ConnectUser and
\* TransferData look past the end of a content that has no ':').
FieldsOfOneRequest ==
    \A k \in DOMAIN did :
        LET e == did[k]
            r == made[Source(e)]
        IN  IF BegunInside(e)
              THEN \E text \in Suffixes(r.arg) : e.fields \in Cuts(e.op, text)
              ELSE e.fields \in Cuts(e.op, Body(r))

\* However recv cuts and joins the stream, no request is handled after a later
\* one, and none twice, unless the later message begins inside its text.
EachRequestOnce ==
    \A j, k \in DOMAIN did : j < k =>
        \/ Source(did[j]) < Source(did[k])
        \/ Source(did[j]) = Source(did[k]) /\ BegunInside(did[k])

\* A handler runs for a request of its own kind, from the first byte of its
\* code on, or for a message that recv began inside a name, a port or a text, at
\* digits that are a request's code: nothing else in the stream can be taken for
\* a tag.  ("1004" is a name like any other.)
TagIsOfRequest ==
    \A k \in DOMAIN did :
        LET e == did[k]
        IN  \/ e.from = Start(Source(e)) /\ e.op = made[Source(e)].op
            \/ \E n \in 1 .. Source(e) :
                 /\ Start(n) + 7 <= e.from
                 /\ \E word \in Words(made[n]) : \E t \in Suffixes(word) : Atoi(t) = Codes[e.op]

\* A request that recv returns by itself is read as it was made, colons and
\* bars in a text included.
WholeIsReadBack ==
    \A k \in DOMAIN did :
        LET e == did[k]
            r == made[Source(e)]
        IN  e.from = Start(Source(e)) /\ e.to = e.from + Len(Compose(r)) - 1 =>
              e.fields = CASE r.op = "login"  -> <<Self, Port>>
                           [] r.op = "list"   -> <<Missing, Missing>>
                           [] r.op = "exit"   -> <<Self, <<>>>>
                           [] OTHER           -> <<Self, r.arg>>
=============================================================================
